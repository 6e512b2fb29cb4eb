---------------------------- MODULE ChatService ----------------------------
(***************************************************************************)
(* The public chat: chat.Service with its file in the JSON store, and the  *)
(* screens of those who read it.                                           *)
(*                                                                         *)
(* Readers name a message by its number: they react to number i, reply to  *)
(* it, an administrator deletes it.  What they see may be older than what  *)
(* the service has, across a restart too.  Service.mu is held for the      *)
(* whole of an operation and the Save at its end, so that nothing else     *)
(* happens while the store is not idle, except that the program may end.   *)
(***************************************************************************)
EXTENDS JSONStore, Naturals, FiniteSets

CONSTANTS
  Readers,             \* authors, each a card on a machine
  Admin,               \* the administrator
  Followed,            \* bound: those of them whose screens are followed
  MaxMessages,         \* chatMaxMessages, 200 in the code
  MaxPosts             \* bound: messages posted

ASSUME SizesAssumption ==
  /\ Followed \subseteq Readers \cup {Admin}
  /\ MaxMessages \in Nat \ {0} /\ MaxPosts \in Nat

VARIABLES
  nextID, messages, mutes,  \* the members of Service
  posted,              \* messages posted so far
  aged,                \* of these, how many are older than chatMaxAge
  lapsed,              \* authors whose mute has ended
  screen,              \* the list as each of Followed last got it
  told,                \* history: deletions, mutes and posts answered with
                       \* success
  unsaved,             \* history: the last Save has failed
  damaged              \* history: the service was started on too old a file

service == <<nextID, messages, mutes>>
clock == <<posted, aged, lapsed>>
history == <<told, unsaved, damaged>>
vars == <<store, service, clock, screen, history>>

Posts == 1..MaxPosts
\* post: which message it is, by its place in the order of CreatedAt.
Message == [id : Posts, post : Posts, deleted : BOOLEAN]
Snapshot == [next : 1..(MaxPosts + 1), messages : SUBSET Message,
             mutes : SUBSET Readers]
Seen == [id : Posts, post : Posts]

\* NewService before it loads.
Empty == [next |-> 1, messages |-> {}, mutes |-> {}]

ASSUME AbsenceAssumption == Nothing \notin Snapshot /\ Torn \notin Snapshot

Init ==
  /\ StoreInit
  /\ nextID = 1 /\ messages = {} /\ mutes = {}
  /\ posted = 0 /\ aged = 0 /\ lapsed = {}
  /\ screen = [r \in Followed |-> {}]
  /\ told = [deleted |-> {}, muted |-> {}, posts |-> {}]
  /\ unsaved = FALSE /\ damaged = FALSE
-----------------------------------------------------------------------------
\* Mutant of Prune: one message too few is kept.
PruneFewer(list) ==
  LET young == {m \in list : m.post > aged}
  IN  {m \in young :
         Cardinality({n \in young : n.post >= m.post}) < MaxMessages}

\* pruneLocked: no message older than chatMaxAge, and the newest MaxMessages.
Prune(list) ==
  LET young == {m \in list : m.post > aged}
  IN  {m \in young :
         Cardinality({n \in young : n.post > m.post}) < MaxMessages}

\* Mutant of SaveLocked: the mutes are not written.
SaveLockedUnmuted ==
  Save([next |-> nextID', messages |-> messages', mutes |-> {}])

\* saveLocked of the state the operation leaves.
SaveLocked ==
  Save([next |-> nextID', messages |-> messages', mutes |-> mutes'])

\* A message is numbered, appended, the list pruned and saved.
Post ==
  /\ posted < MaxPosts
  /\ posted' = posted + 1
  /\ nextID' = nextID + 1
  /\ messages' = Prune(messages \cup
       {[id |-> nextID, post |-> posted', deleted |-> FALSE]})
  /\ UNCHANGED mutes
  /\ SaveLocked
  /\ UNCHANGED <<aged, lapsed, screen, history>>

\* The interval between two messages of a session is taken to have passed.
Add(r) == r \notin mutes /\ Post

AddSystem == Post

\* The administrator deletes what a screen shows under number i.
Delete(i) ==
  /\ \E m \in messages : m.id = i /\ ~m.deleted
  /\ messages' = {[m EXCEPT !.deleted = @ \/ m.id = i] : m \in messages}
  /\ UNCHANGED <<nextID, mutes>>
  /\ SaveLocked
  /\ UNCHANGED <<clock, screen, history>>

\* Who reacted to a message is left out; that its number is looked up and the
\* whole state saved is not.
React(r, i) ==
  /\ r \notin mutes
  /\ \E m \in messages : m.id = i /\ ~m.deleted
  /\ UNCHANGED service
  /\ SaveLocked
  /\ UNCHANGED <<clock, screen, history>>

\* Bound: no second mute of an author whose first has ended.
Mute(r) ==
  /\ r \notin lapsed
  /\ mutes' = mutes \cup {r}
  /\ UNCHANGED <<nextID, messages>>
  /\ SaveLocked
  /\ UNCHANGED <<clock, screen, history>>

\* List and AdminList prune, and do not save.
Show(r, list) ==
  /\ step = "idle"
  /\ messages' = Prune(messages)
  /\ screen' = [f \in Followed |->
       IF f = r THEN {[id |-> m.id, post |-> m.post] : m \in list}
       ELSE screen[f]]
  /\ UNCHANGED <<store, nextID, mutes, clock, history>>

List(r) == Show(r, {m \in Prune(messages) : ~m.deleted})

AdminList == Show(Admin, Prune(messages))

\* isMutedLocked forgets a mute that has ended.
MuteEnds(r) ==
  /\ step = "idle"
  /\ r \in mutes
  /\ mutes' = mutes \ {r}
  /\ lapsed' = lapsed \cup {r}
  /\ told' = [told EXCEPT !.muted = @ \ {r}]
  /\ UNCHANGED <<store, nextID, messages, posted, aged, screen, unsaved,
                 damaged>>

\* A message gets older than chatMaxAge.
Age ==
  /\ step = "idle"
  /\ aged < posted
  /\ aged' = aged + 1
  /\ UNCHANGED <<store, service, posted, lapsed, screen, history>>
-----------------------------------------------------------------------------
\* The operation whose Save has returned is answered, whatever Save returned:
\* saveLocked only logs a failure.
Answer(saved) ==
  /\ told' = [deleted |-> told.deleted \cup
                          {m.post : m \in {n \in messages : n.deleted}},
              muted |-> mutes,
              posts |-> told.posts \cup {m.post : m \in messages}]
  /\ unsaved' = ~saved
  /\ UNCHANGED <<service, clock, screen, damaged>>

SaveGoesOn == SaveStep /\ UNCHANGED <<service, clock, screen, history>>

SaveSucceeds == Place /\ Answer(TRUE)

SaveIsLogged == SaveFails /\ Answer(FALSE)

\* Mutant of LoadedNext: next_id is not read, only the messages are.
LoadedNextOfMessages(data) ==
  CHOOSE n \in 1..(MaxPosts + 1) :
    /\ \A m \in data.messages : m.id < n
    /\ n = 1 \/ \E m \in data.messages : m.id = n - 1

\* next_id, or the number after the highest of the messages.
LoadedNext(data) ==
  CHOOSE n \in 1..(MaxPosts + 1) :
    /\ data.next <= n /\ \A m \in data.messages : m.id < n
    /\ n = data.next \/ \E m \in data.messages : m.id = n - 1

\* The program ends and NewService loads what the store has.
Restart ==
  LET data == Load(Empty) IN
    /\ Crash
    /\ nextID' = LoadedNext(data)
    /\ messages' = data.messages
    /\ mutes' = data.mutes \ lapsed
    /\ damaged' = (damaged \/ unsaved
                     \/ (primary = Nothing /\ backup # Nothing))
    /\ unsaved' = FALSE
    /\ UNCHANGED <<clock, screen, told>>

Next ==
  \/ \E r \in Readers :
       \/ Add(r) \/ Mute(r) \/ List(r) \/ MuteEnds(r)
       \/ \E f \in Followed : \E seen \in screen[f] : React(r, seen.id)
  \/ \E f \in Followed : \E seen \in screen[f] : Delete(seen.id)
  \/ AdminList \/ AddSystem \/ Age
  \/ SaveGoesOn \/ SaveSucceeds \/ SaveIsLogged \/ Restart

Spec == Init /\ [][Next]_vars
-----------------------------------------------------------------------------
Files == Snapshot \cup {Nothing, Torn}

\* Every variable has its type; a file that Load or a reader of the backup may
\* open is never torn.
TypeOK ==
  /\ primary \in Snapshot \cup {Nothing} /\ backup \in Snapshot \cup {Nothing}
  /\ temp \in Files
  /\ step \in Steps /\ offered \in Snapshot \cup {Nothing}
  /\ nextID \in 1..(MaxPosts + 1)
  /\ messages \subseteq Message
  /\ mutes \subseteq Readers /\ lapsed \subseteq Readers
  /\ posted \in 0..MaxPosts /\ aged \in 0..posted
  /\ screen \in [Followed -> SUBSET Seen]
  /\ told \in [deleted : SUBSET Posts, muted : SUBSET Readers,
               posts : SUBSET Posts]
  /\ unsaved \in BOOLEAN /\ damaged \in BOOLEAN

\* A number that a screen shows names, in the service, the message it stands
\* for or none: nobody deletes, answers or reacts to a message he did not
\* mean.  This needs numbers to be given once, across restarts and after the
\* messages that bore them are gone.  It is lost only when the service starts
\* on a file that misses an answered operation: the last Save had failed, or
\* the program ended between the renames of Save.
NumberNamesMessage ==
  ~damaged =>
    \A r \in Followed : \A seen \in screen[r] : \A m \in messages :
      m.id = seen.id => m.post = seen.post

\* A deletion or a mute that was answered with success is in force, after
\* restarts too, with the same exceptions.
DecisionsLast ==
  ~damaged =>
    /\ \A m \in messages : m.post \in told.deleted => m.deleted
    /\ told.muted \subseteq mutes

\* A message that was answered with success is in the service, after restarts
\* too and with the same exceptions, until it is too old or MaxMessages have
\* been posted after it: neither the lists that prune without saving nor the
\* restarts that bring pruned messages back push it out before.
MessagesLast ==
  ~damaged =>
    \A p \in told.posts :
      \/ p <= aged \/ p + MaxMessages <= posted
      \/ \E m \in messages : m.post = p
=============================================================================
