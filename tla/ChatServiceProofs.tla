-------------------------- MODULE ChatServiceProofs --------------------------
(* The files of the store and the promises of the chat, for every number of  *)
(* authors, screens and messages.                                            *)
EXTENDS ChatService, FiniteSetTheorems, TLAPS

\* Where Save is tells what the files hold.
StoreInv ==
  /\ step \in {"clear", "away", "place"} => temp = offered
  /\ step = "away" => primary # Nothing
  /\ step = "place" => primary = Nothing
  /\ step = "idle" <=> offered = Nothing
  /\ step # "idle" =>
       offered = [next |-> nextID, messages |-> messages, mutes |-> mutes]

\* The records of a list, by number and by place.
Proper(list, next, count) ==
  /\ \A m \in list : m.id < next /\ m.post <= count
  /\ \A m, n \in list : m.post = n.post => m = n
  /\ \A m, n \in list : m.id = n.id => m = n

ProperFile(file) == file # Nothing => Proper(file.messages, file.next, posted)

\* The lists, in memory and in the files, are sound; a number is given with
\* the message that is posted, so that numbers do not run out before posts do.
ListsInv ==
  /\ nextID <= posted + 1
  /\ Proper(messages, nextID, posted)
  /\ ProperFile(primary) /\ ProperFile(backup)
  /\ primary # Nothing => primary.next <= posted + 1

\* What has been shown and answered, against a list, its next number and its
\* mutes.
Kept(screens, answers, list, next, muted) ==
  /\ \A f \in Followed : \A seen \in screens[f] :
       /\ seen.id < next
       /\ \A m \in list : m.id = seen.id => m.post = seen.post
  /\ \A m \in list : m.post \in answers.deleted => m.deleted
  /\ answers.muted \subseteq muted

\* Load finds what has been answered.
Complete == ~unsaved /\ (primary = Nothing => backup = Nothing)

TimesInv ==
  /\ \A p \in told.deleted : p <= posted
  /\ mutes \cap lapsed = {} /\ told.muted \cap lapsed = {}

FileKeeps ==
  ~damaged /\ Complete =>
    LET file == Load(Empty)
    IN  Kept(screen, told, file.messages, file.next, file.mutes)

\* Between two operations the file is the service, but for pruned messages.
FileIsService ==
  ~damaged /\ ~unsaved /\ step = "idle" =>
    /\ primary = Nothing => backup = Nothing
    /\ nextID = Load(Empty).next
    /\ messages \subseteq Load(Empty).messages

PromisesInv ==
  /\ TimesInv
  /\ ~damaged => Kept(screen, told, messages, nextID, mutes)
  /\ FileKeeps
  /\ FileIsService

IInv == TypeOK /\ StoreInv /\ ListsInv /\ PromisesInv

-----------------------------------------------------------------------------
LEMMA EmptyIsSnapshot == Empty \in Snapshot
BY SizesAssumption DEF Empty, Snapshot

\* The loop over the messages in load() finds no number to correct.
LEMMA LoadedNextIsNext ==
  ASSUME NEW data \in Snapshot, \A m \in data.messages : m.id < data.next
  PROVE  LoadedNext(data) = data.next
<1> DEFINE P(n) == /\ data.next <= n /\ \A m \in data.messages : m.id < n
                   /\ n = data.next \/ \E m \in data.messages : m.id = n - 1
<1>0. SizesAssumption
  BY SizesAssumption
<1>1. data.next \in 1..(MaxPosts + 1) /\ data.messages \subseteq Message
  BY DEF Snapshot
<1>2. P(data.next)
  BY <1>1, <1>0 DEF SizesAssumption
<1>3. ASSUME NEW n \in 1..(MaxPosts + 1), P(n)
      PROVE  n = data.next
  <2>1. ASSUME NEW m \in data.messages, m.id = n - 1
        PROVE  n = data.next
    <3>1. m.id \in Nat
      BY <1>1, <1>0 DEF Message, Posts, SizesAssumption
    <3>2. m.id < data.next
      OBVIOUS
    <3>3. QED
      BY <3>1, <3>2, <2>1, <1>1, <1>3, <1>0 DEF SizesAssumption
  <2>2. QED
    BY <2>1, <1>3
<1>4. LoadedNext(data) = CHOOSE n \in 1..(MaxPosts + 1) : P(n)
  BY DEF LoadedNext
<1>5. LoadedNext(data) \in 1..(MaxPosts + 1) /\ P(LoadedNext(data))
  BY <1>1, <1>2, <1>4
<1>6. QED
  BY <1>3, <1>5

LEMMA PruneDrops ==
  ASSUME NEW list
  PROVE  Prune(list) \subseteq list
BY DEF Prune

LEMMA LoadIsSnapshot ==
  ASSUME TypeOK, ListsInv
  PROVE  /\ Load(Empty) \in Snapshot
         /\ Proper(Load(Empty).messages, Load(Empty).next, posted)
         /\ Load(Empty).next <= posted + 1
         /\ LoadedNext(Load(Empty)) = Load(Empty).next
<1>1. CASE primary = Nothing
  <2>1. Load(Empty) = Empty
    BY <1>1 DEF Load
  <2>2. Empty.messages = {} /\ Empty.next = 1
    BY DEF Empty
  <2>3. posted \in Nat
    BY SizesAssumption DEF TypeOK, SizesAssumption
  <2>4. QED
    BY <2>1, <2>2, <2>3, EmptyIsSnapshot, LoadedNextIsNext DEF Proper
<1>2. CASE primary # Nothing
  <2>1. Load(Empty) = primary /\ primary \in Snapshot
    BY <1>2 DEF Load, TypeOK
  <2>2. Proper(primary.messages, primary.next, posted) /\ primary.next <= posted + 1
    BY <1>2 DEF ListsInv, ProperFile
  <2>3. QED
    BY <2>1, <2>2, LoadedNextIsNext DEF Proper
<1>3. QED
  BY <1>1, <1>2

\* What Save is given is a value that files may hold.
LEMMA OfferedIsSnapshot ==
  ASSUME NEW next \in 1..(MaxPosts + 1), NEW list \in SUBSET Message,
         NEW muted \in SUBSET Readers
  PROVE  [next |-> next, messages |-> list, mutes |-> muted]
           \in Snapshot \ {Nothing, Torn}
BY AbsenceAssumption DEF Snapshot, AbsenceAssumption

-----------------------------------------------------------------------------
LEMMA InitInv == Init => IInv
<1> SUFFICES ASSUME Init PROVE IInv
  OBVIOUS
<1> USE DEF Init, StoreInit
<1>0. MaxPosts \in Nat
  BY SizesAssumption DEF SizesAssumption
<1>1. TypeOK
  <2>1. /\ nextID \in 1..(MaxPosts + 1)
        /\ posted \in 0..MaxPosts /\ aged \in 0..posted
    BY <1>0
  <2>2. screen \in [Followed -> SUBSET Seen]
    OBVIOUS
  <2>3. told \in [deleted : SUBSET Posts, muted : SUBSET Readers,
               posts : SUBSET Posts]
    OBVIOUS
  <2>4. unsaved \in BOOLEAN /\ damaged \in BOOLEAN
    OBVIOUS
  <2>5. QED
    BY <2>1, <2>2, <2>3, <2>4, Zenon DEF TypeOK, Steps, Files
<1>2. StoreInv
  BY DEF StoreInv
<1>3. ListsInv
  BY DEF ListsInv, Proper, ProperFile
<1>4. PromisesInv
  BY DEF PromisesInv, TimesInv, FileKeeps, FileIsService, Kept, Load, Empty
<1>5. QED
  BY <1>1, <1>2, <1>3, <1>4 DEF IInv

\* A message posted joins a sound list.
LEMMA PostLists ==
  ASSUME TypeOK, ListsInv, Post
  PROVE  /\ posted' \in Posts /\ nextID \in Posts
         /\ nextID' \in 1..(MaxPosts + 1) /\ nextID' <= posted' + 1
         /\ messages' \subseteq Message
         /\ Proper(messages', nextID', posted')
         /\ \A m \in messages' : m \in messages \/ (m.id = nextID /\ m.post = posted + 1)
<1> DEFINE new == [id |-> nextID, post |-> posted', deleted |-> FALSE]
<1>0. MaxPosts \in Nat
  BY SizesAssumption DEF SizesAssumption
<1>1. /\ posted \in 0..MaxPosts /\ nextID \in 1..(MaxPosts + 1)
      /\ posted < MaxPosts /\ posted' = posted + 1 /\ nextID' = nextID + 1
      /\ nextID <= posted + 1
  BY DEF Post, TypeOK, ListsInv
<1>2. /\ posted' \in Posts /\ nextID \in Posts
      /\ nextID' \in 1..(MaxPosts + 1) /\ nextID' <= posted' + 1
  BY <1>0, <1>1 DEF Posts
<1>3. new \in Message
  BY <1>2 DEF Message
<1>4. messages' \subseteq messages \cup {new}
  BY PruneDrops DEF Post
<1>5. messages \subseteq Message /\ Proper(messages, nextID, posted)
  BY DEF TypeOK, ListsInv
<1>6. \A m \in messages : /\ m.id \in Nat /\ m.post \in Nat
                         /\ m.id < nextID /\ m.post <= posted
  BY <1>5, <1>0 DEF Proper, Message, Posts
<1>7. new.id = nextID /\ new.post = posted + 1
  BY <1>1
<1>8. nextID \in Nat /\ posted \in Nat
  BY <1>0, <1>1
<1> HIDE DEF new
<1>9. \A m \in messages' : m \in messages \/ m = new
  BY <1>4
<1>10. Proper(messages', nextID', posted')
  <2>1. \A m \in messages' : m.id < nextID' /\ m.post <= posted'
    BY <1>9, <1>6, <1>7, <1>8, <1>1
  <2>2. \A m \in messages : m.post # new.post /\ m.id # new.id
    BY <1>6, <1>7, <1>8
  <2>3. /\ \A m, n \in messages' : m.post = n.post => m = n
        /\ \A m, n \in messages' : m.id = n.id => m = n
    BY <1>9, <2>2, <1>5 DEF Proper
  <2>4. QED
    BY <2>1, <2>3 DEF Proper
<1>11. messages' \subseteq Message
  BY <1>9, <1>3, <1>5
<1>12. \A m \in messages' : m \in messages \/ (m.id = nextID /\ m.post = posted + 1)
  BY <1>7, <1>9, Zenon
<1>13. QED
  BY <1>2, <1>10, <1>11, <1>12

\* A deletion changes no number and no place.
LEMMA DeleteLists ==
  ASSUME TypeOK, ListsInv, NEW i, Delete(i)
  PROVE  /\ messages' \subseteq Message
         /\ Proper(messages', nextID, posted)
         /\ \A m \in messages' : \E n \in messages :
              m.id = n.id /\ m.post = n.post /\ (n.deleted => m.deleted)
<1> DEFINE mark(m) == [m EXCEPT !.deleted = @ \/ m.id = i]
<1>1. messages' = {mark(m) : m \in messages}
  BY DEF Delete
<1>2. \A m \in Message :
        /\ mark(m) \in Message
        /\ mark(m).id = m.id /\ mark(m).post = m.post
        /\ m.deleted => mark(m).deleted
  BY DEF Message
<1>3. messages \subseteq Message /\ Proper(messages, nextID, posted)
  BY DEF TypeOK, ListsInv
<1> HIDE DEF mark
<1>4. \A m \in messages' : \E n \in messages : m = mark(n)
  BY <1>1
<1>5. \A m \in messages' : m.id < nextID /\ m.post <= posted
  BY <1>4, <1>2, <1>3 DEF Proper
<1>6. ASSUME NEW m \in messages', NEW n \in messages',
             m.post = n.post \/ m.id = n.id
      PROVE  m = n
  <2>1. PICK x \in messages, y \in messages : m = mark(x) /\ n = mark(y)
    BY <1>4
  <2>2. x.post = y.post \/ x.id = y.id
    BY <2>1, <1>2, <1>3, <1>6
  <2>3. x = y
    BY <2>2, <1>3 DEF Proper
  <2>4. QED
    BY <2>1, <2>3
<1>7. Proper(messages', nextID, posted)
  BY <1>5, <1>6 DEF Proper
<1>8. \A m \in messages' : m \in Message /\ \E n \in messages :
             m.id = n.id /\ m.post = n.post /\ (n.deleted => m.deleted)
  BY <1>4, <1>2, <1>3
<1>9. QED
  BY <1>7, <1>8

-----------------------------------------------------------------------------
(* The steps of the specification.                                         *)

StoreTypes ==
  /\ primary \in Snapshot \cup {Nothing} /\ backup \in Snapshot \cup {Nothing}
  /\ temp \in Files
  /\ step \in Steps /\ offered \in Snapshot \cup {Nothing}

ServiceTypes ==
  /\ nextID \in 1..(MaxPosts + 1)
  /\ messages \subseteq Message
  /\ mutes \subseteq Readers /\ lapsed \subseteq Readers

OtherTypes ==
  /\ posted \in 0..MaxPosts /\ aged \in 0..posted
  /\ screen \in [Followed -> SUBSET Seen]
  /\ told \in [deleted : SUBSET Posts, muted : SUBSET Readers,
               posts : SUBSET Posts]

Flags == unsaved \in BOOLEAN /\ damaged \in BOOLEAN

LEMMA TypeParts == TypeOK <=> StoreTypes /\ ServiceTypes /\ OtherTypes /\ Flags
BY Zenon DEF TypeOK, StoreTypes, ServiceTypes, OtherTypes, Flags

Types == StoreTypes /\ ServiceTypes /\ OtherTypes

\* An operation hands its state to Save.
LEMMA SaveBegins ==
  ASSUME StoreTypes, ServiceTypes', StoreInv, SaveLocked
  PROVE  StoreTypes' /\ StoreInv'
<1>1. /\ step' = "write" /\ UNCHANGED files
      /\ offered' = [next |-> nextID', messages |-> messages', mutes |-> mutes']
  BY DEF SaveLocked, Save
<1>2. offered' \in Snapshot \ {Nothing, Torn}
  BY <1>1, OfferedIsSnapshot DEF ServiceTypes
<1>3. StoreTypes'
  BY <1>1, <1>2 DEF StoreTypes, files, Steps
<1>4. StoreInv'
  BY <1>1, <1>2 DEF StoreInv
<1>5. QED
  BY <1>3, <1>4

\* Save keeps its promises towards the files, whichever call it makes.
LEMMA SaveSteps ==
  ASSUME StoreTypes, StoreInv, SaveStep \/ Place \/ SaveFails \/ Crash,
         UNCHANGED service \/ step' = "idle"
  PROVE  StoreTypes' /\ StoreInv'
<1> USE DEF StoreTypes, StoreInv, Steps, Files, files, Return, service
<1>1. CASE WriteTemp
  BY <1>1 DEF WriteTemp
<1>2. CASE FillTemp
  BY <1>2 DEF FillTemp
<1>3. CASE ClearBackup
  BY <1>3 DEF ClearBackup
<1>4. CASE MoveAway
  BY <1>4 DEF MoveAway
<1>5. CASE Place
  BY <1>5 DEF Place
<1>6. CASE SaveFails
  BY <1>6 DEF SaveFails
<1>7. CASE Crash
  BY <1>7 DEF Crash
<1>8. QED
  BY <1>1, <1>2, <1>3, <1>4, <1>5, <1>6, <1>7 DEF SaveStep

LEMMA ActionCases ==
  ASSUME [Next]_vars
  PROVE  \/ Post
         \/ \E i : Delete(i)
         \/ \E r, i : React(r, i)
         \/ \E r \in Readers : Mute(r)
         \/ \E r : \E list \in SUBSET Prune(messages) : Show(r, list)
         \/ \E r \in Readers : MuteEnds(r)
         \/ Age \/ SaveGoesOn \/ SaveSucceeds \/ SaveIsLogged \/ Restart
         \/ UNCHANGED vars
<1>1. CASE Next
  <2>1. ASSUME NEW r \in Readers, List(r)
        PROVE  \E list \in SUBSET Prune(messages) : Show(r, list)
    BY <2>1 DEF List
  <2>2. CASE AdminList
    BY <2>2 DEF AdminList
  <2>3. QED
    BY <1>1, <2>1, <2>2 DEF Next, Add, AddSystem
<1>2. QED
  BY <1>1

\* What Show leaves of the list, and puts on a screen.
LEMMA ShowLists ==
  ASSUME TypeOK, NEW r, NEW list \in SUBSET Prune(messages), Show(r, list)
  PROVE  /\ messages' \subseteq messages
         /\ \A f \in Followed : \A seen \in screen'[f] :
              \/ seen \in screen[f]
              \/ \E m \in messages : seen.id = m.id /\ seen.post = m.post
         /\ screen' \in [Followed -> SUBSET Seen]
<1> DEFINE shown == {[id |-> m.id, post |-> m.post] : m \in list}
<1>1. messages' \subseteq messages /\ list \subseteq messages
  BY PruneDrops DEF Show
<1>2. screen' = [f \in Followed |-> IF f = r THEN shown ELSE screen[f]]
  BY DEF Show
<1>3. \A seen \in shown :
        \E m \in messages : seen.id = m.id /\ seen.post = m.post
  BY <1>1
<1>4. shown \subseteq Seen
  BY <1>1 DEF TypeOK, Message, Seen
<1> HIDE DEF shown
<1>5. screen \in [Followed -> SUBSET Seen]
  BY DEF TypeOK
<1>6. QED
  BY <1>1, <1>2, <1>3, <1>4, <1>5

\* The flags stay flags.
LEMMA FlagsStep ==
  ASSUME Flags, [Next]_vars
  PROVE  Flags'
<1>1. CASE SaveSucceeds \/ SaveIsLogged
  <2>1. damaged' = damaged /\ unsaved' \in BOOLEAN
    BY <1>1, Zenon DEF SaveSucceeds, SaveIsLogged, Answer
  <2>2. QED
    BY <2>1, Zenon DEF Flags
<1>2. CASE Restart
  <2>1. damaged' \in BOOLEAN /\ unsaved' \in BOOLEAN
    BY <1>2, Zenon DEF Restart
  <2>2. QED
    BY <2>1, Zenon DEF Flags
<1>3. CASE ~(SaveSucceeds \/ SaveIsLogged \/ Restart)
  <2>1. UNCHANGED <<unsaved, damaged>>
    BY <1>3, ActionCases DEF Post, Delete, React, Mute, Show, MuteEnds, Age,
         SaveGoesOn, vars, history
  <2>2. QED
    BY <2>1, Zenon DEF Flags
<1>4. QED
  BY <1>1, <1>2, <1>3

LEMMA TypesStep ==
  ASSUME IInv, [Next]_vars
  PROVE  TypeOK' /\ StoreInv'
<1>0. /\ Types /\ TypeOK /\ Flags
      /\ StoreInv /\ ListsInv /\ MaxPosts \in Nat
  BY TypeParts, SizesAssumption DEF IInv, SizesAssumption, Types
<1>a. Flags'
  BY <1>0, FlagsStep
<1> SUFFICES Types' /\ StoreInv'
  BY <1>a, Zenon DEF Types, TypeOK, StoreTypes, ServiceTypes, OtherTypes, Flags
<1> USE DEF Types
<1>1. ASSUME SaveLocked, nextID' \in 1..(MaxPosts + 1),
             messages' \subseteq Message, mutes' \subseteq Readers,
             UNCHANGED <<aged, lapsed, screen, history>>,
             posted' = posted \/ (posted' = posted + 1 /\ posted' \in Posts)
      PROVE  Types' /\ StoreInv'
  <2>1. ServiceTypes'
    BY <1>0, <1>1 DEF ServiceTypes
  <2>2. posted' \in 0..MaxPosts /\ aged' \in 0..posted'
    BY <1>0, <1>1 DEF OtherTypes, Posts
  <2>3. OtherTypes'
    BY <1>0, <1>1, <2>2 DEF OtherTypes, history
  <2>4. QED
    BY <1>0, <1>1, <2>1, <2>3, SaveBegins
<1>2. CASE Post
  BY <1>0, <1>1, <1>2, PostLists DEF Post, ServiceTypes
<1>3. ASSUME NEW i, Delete(i)
      PROVE  Types' /\ StoreInv'
  BY <1>0, <1>1, <1>3, DeleteLists DEF Delete, ServiceTypes, clock
<1>4. ASSUME NEW r, NEW i, React(r, i)
      PROVE  Types' /\ StoreInv'
  BY <1>0, <1>1, <1>4 DEF React, ServiceTypes, clock, service
<1>5. ASSUME NEW r \in Readers, Mute(r)
      PROVE  Types' /\ StoreInv'
  BY <1>0, <1>1, <1>5 DEF Mute, ServiceTypes, clock
<1>6. ASSUME NEW r, NEW list \in SUBSET Prune(messages), Show(r, list)
      PROVE  Types' /\ StoreInv'
  <2>1. /\ messages' \subseteq messages
        /\ screen' \in [Followed -> SUBSET Seen]
    BY <1>0, <1>6, ShowLists
  <2>2. /\ step = "idle"
        /\ UNCHANGED <<store, nextID, mutes, clock, history>>
    BY <1>6 DEF Show
  <2>3. StoreTypes' /\ StoreInv'
    BY <1>0, <2>2 DEF StoreTypes, StoreInv, store
  <2>4. ServiceTypes'
    BY <1>0, <2>1, <2>2 DEF ServiceTypes, clock
  <2>5. OtherTypes'
    BY <1>0, <2>1, <2>2 DEF OtherTypes, clock, history
  <2>6. QED
    BY <2>3, <2>4, <2>5
<1>7. ASSUME NEW r \in Readers, MuteEnds(r)
      PROVE  Types' /\ StoreInv'
  <2>1. /\ step = "idle" /\ UNCHANGED store
        /\ mutes' = mutes \ {r} /\ lapsed' = lapsed \cup {r}
        /\ told' = [told EXCEPT !.muted = @ \ {r}]
        /\ UNCHANGED <<nextID, messages, posted, aged, screen, unsaved, damaged>>
    BY <1>7 DEF MuteEnds
  <2>2. StoreTypes' /\ StoreInv'
    BY <1>0, <2>1 DEF StoreTypes, StoreInv, store
  <2>3. ServiceTypes'
    BY <1>0, <2>1 DEF ServiceTypes
  <2>4. OtherTypes'
    BY <1>0, <2>1 DEF OtherTypes
  <2>5. QED
    BY <2>2, <2>3, <2>4
<1>8. CASE Age
  <2>1. /\ step = "idle" /\ UNCHANGED <<store, service, posted, lapsed, screen>>
        /\ UNCHANGED history /\ aged < posted /\ aged' = aged + 1
    BY <1>8 DEF Age
  <2>2. StoreTypes' /\ StoreInv' /\ ServiceTypes'
    BY <1>0, <2>1 DEF StoreTypes, StoreInv, store, ServiceTypes, service
  <2>3. aged' \in 0..posted'
    BY <1>0, <2>1 DEF OtherTypes
  <2>4. OtherTypes'
    BY <1>0, <2>1, <2>3 DEF OtherTypes, history
  <2>5. QED
    BY <2>2, <2>4
<1>9. CASE SaveGoesOn
  <2>1. SaveStep /\ UNCHANGED <<service, clock, screen, history>>
    BY <1>9 DEF SaveGoesOn
  <2>2. StoreTypes' /\ StoreInv'
    BY <1>0, <2>1, SaveSteps
  <2>3. ServiceTypes' /\ OtherTypes'
    BY <1>0, <2>1 DEF ServiceTypes, OtherTypes, service, clock, history
  <2>4. QED
    BY <2>2, <2>3
<1>10. ASSUME NEW saved \in BOOLEAN, Place \/ SaveFails, Answer(saved)
       PROVE  Types' /\ StoreInv'
  <2>1. StoreTypes' /\ StoreInv'
    BY <1>0, <1>10, SaveSteps DEF Answer
  <2>2. ServiceTypes'
    BY <1>0, <1>10 DEF ServiceTypes, Answer, service, clock
  <2>3. told' \in [deleted : SUBSET Posts, muted : SUBSET Readers,
                   posts : SUBSET Posts]
    <3>1. /\ {m.post : m \in {n \in messages : n.deleted}} \subseteq Posts
          /\ {m.post : m \in messages} \subseteq Posts
      BY <1>0 DEF ServiceTypes, Message
    <3>2. QED
      BY <3>1, <1>0, <1>10 DEF Answer, ServiceTypes, OtherTypes
  <2>5. OtherTypes'
    BY <1>0, <1>10, <2>3 DEF OtherTypes, Answer, clock
  <2>6. QED
    BY <2>1, <2>2, <2>5
<1>11. CASE Restart
  <2>1. LET data == Load(Empty) IN
          /\ Crash
          /\ nextID' = LoadedNext(data)
          /\ messages' = data.messages
          /\ mutes' = data.mutes \ lapsed
          /\ UNCHANGED <<clock, screen, told>>
    BY <1>11 DEF Restart
  <2>2. StoreTypes' /\ StoreInv'
    BY <1>0, <2>1, SaveSteps DEF Crash, Return
  <2>3. ServiceTypes'
    BY <1>0, <2>1, LoadIsSnapshot DEF ServiceTypes, Snapshot, clock
  <2>5. OtherTypes'
    BY <1>0, <2>1 DEF OtherTypes, clock
  <2>6. QED
    BY <2>2, <2>3, <2>5
<1>12. CASE UNCHANGED vars
  <2>1. StoreTypes' /\ StoreInv' /\ ServiceTypes' /\ OtherTypes'
    BY <1>0, <1>12 DEF vars, store, service, clock, history, StoreTypes,
         StoreInv, ServiceTypes, OtherTypes
  <2>2. QED
    BY <2>1
<1>13. QED
  BY <1>2, <1>3, <1>4, <1>5, <1>6, <1>7, <1>8, <1>9, <1>10, <1>11, <1>12,
     ActionCases DEF SaveSucceeds, SaveIsLogged

-----------------------------------------------------------------------------
(* The lists.                                                              *)

LEMMA ProperShrinks ==
  ASSUME NEW list, NEW part \in SUBSET list, NEW next, NEW count,
         Proper(list, next, count)
  PROVE  Proper(part, next, count)
BY DEF Proper

LEMMA ProperGrows ==
  ASSUME NEW list \in SUBSET Message, NEW next, NEW count \in Nat,
         Proper(list, next, count)
  PROVE  Proper(list, next, count + 1)
<1>1. \A m \in list : m.post \in Nat
  BY SizesAssumption DEF Message, Posts, SizesAssumption
<1>2. QED
  BY <1>1 DEF Proper

LEMMA ListsStep ==
  ASSUME IInv, [Next]_vars
  PROVE  ListsInv'
<1>0. /\ TypeOK /\ StoreInv /\ ListsInv /\ posted \in Nat /\ MaxPosts \in Nat
  BY SizesAssumption DEF IInv, TypeOK, SizesAssumption
<1>1. ASSUME UNCHANGED <<primary, backup, nextID, posted>>,
             Proper(messages', nextID, posted)
      PROVE  ListsInv'
  BY <1>0, <1>1 DEF ListsInv, ProperFile
<1>2. CASE Post
  <2>1. /\ nextID' <= posted' + 1 /\ Proper(messages', nextID', posted')
        /\ posted' = posted + 1 /\ UNCHANGED <<primary, backup>>
    BY <1>0, <1>2, PostLists DEF Post, SaveLocked, Save, files
  <2>2. ASSUME NEW file \in Snapshot \cup {Nothing}, ProperFile(file)
        PROVE  file # Nothing => Proper(file.messages, file.next, posted')
    <3>1. file # Nothing => file.messages \in SUBSET Message
      BY DEF Snapshot
    <3>2. QED
      BY <1>0, <2>1, <2>2, <3>1, ProperGrows DEF ProperFile
  <2>3. primary \in Snapshot \cup {Nothing} /\ backup \in Snapshot \cup {Nothing}
    BY <1>0 DEF TypeOK
  <2>4. primary # Nothing => primary.next \in Nat /\ primary.next <= posted + 1
    BY <1>0, <2>3 DEF ListsInv, Snapshot
  <2>5. /\ primary # Nothing => Proper(primary.messages, primary.next, posted')
        /\ backup # Nothing => Proper(backup.messages, backup.next, posted')
    BY <1>0, <2>2, <2>3 DEF ListsInv
  <2>6. primary # Nothing => primary.next <= posted' + 1
    BY <1>0, <2>1, <2>4
  <2>7. QED
    BY <2>1, <2>5, <2>6 DEF ListsInv, ProperFile
<1>3. ASSUME NEW i, Delete(i)
      PROVE  ListsInv'
  BY <1>0, <1>1, <1>3, DeleteLists
     DEF Delete, SaveLocked, Save, files, clock
<1>4. ASSUME NEW r, NEW i, React(r, i)
      PROVE  ListsInv'
  BY <1>0, <1>1, <1>4
     DEF React, SaveLocked, Save, files, clock, service, ListsInv
<1>5. ASSUME NEW r, Mute(r)
      PROVE  ListsInv'
  BY <1>0, <1>1, <1>5
     DEF Mute, SaveLocked, Save, files, clock, ListsInv
<1>6. ASSUME NEW r, NEW list \in SUBSET Prune(messages), Show(r, list)
      PROVE  ListsInv'
  <2>1. Proper(messages', nextID, posted)
    BY <1>0, <1>6, ShowLists, ProperShrinks DEF ListsInv
  <2>2. QED
    BY <1>1, <1>6, <2>1 DEF Show, store, clock
<1>7. ASSUME NEW r, MuteEnds(r)
      PROVE  ListsInv'
  BY <1>0, <1>1, <1>7 DEF MuteEnds, store, ListsInv
<1>8. CASE Age
  BY <1>0, <1>1, <1>8 DEF Age, store, service, ListsInv
<1>9. ASSUME UNCHANGED <<nextID, messages, posted>>,
             SaveStep \/ Place \/ SaveFails
      PROVE  ListsInv'
  <2>1. ProperFile(primary) /\ ProperFile(backup)
        /\ Proper(messages, nextID, posted) /\ nextID <= posted + 1
        /\ (primary # Nothing => primary.next <= posted + 1)
    BY <1>0 DEF ListsInv
  <2>2. CASE UNCHANGED primary /\ backup' \in {backup, Nothing}
    BY <1>9, <2>1, <2>2 DEF ListsInv, ProperFile
  <2>3. CASE MoveAway
    BY <1>9, <2>1, <2>3 DEF MoveAway, ListsInv, ProperFile
  <2>4. CASE Place
    <3>1. /\ primary' = [next |-> nextID, messages |-> messages, mutes |-> mutes]
          /\ UNCHANGED backup
      BY <1>0, <2>4 DEF Place, StoreInv
    <3>2. primary'.next = nextID /\ primary'.messages = messages
      BY <3>1
    <3>3. QED
      BY <1>9, <2>1, <3>1, <3>2 DEF ListsInv, ProperFile
  <2>5. QED
    BY <1>9, <2>2, <2>3, <2>4
       DEF SaveStep, WriteTemp, FillTemp, ClearBackup, SaveFails
<1>10. CASE Restart
  <2>1. /\ UNCHANGED <<primary, backup, posted>>
        /\ nextID' = Load(Empty).next /\ messages' = Load(Empty).messages
    BY <1>0, <1>10, LoadIsSnapshot DEF Restart, Crash, files, clock
  <2>2. /\ Proper(Load(Empty).messages, Load(Empty).next, posted)
        /\ Load(Empty).next <= posted + 1
    BY <1>0, LoadIsSnapshot
  <2>3. QED
    BY <1>0, <2>1, <2>2 DEF ListsInv, ProperFile
<1>11. CASE UNCHANGED vars
  BY <1>0, <1>1, <1>11 DEF vars, store, service, clock, ListsInv
<1>12. QED
  BY <1>2, <1>3, <1>4, <1>5, <1>6, <1>7, <1>8, <1>9, <1>10, <1>11,
     ActionCases DEF SaveSucceeds, SaveIsLogged, SaveGoesOn, Answer, service,
     clock

-----------------------------------------------------------------------------
(* What has been shown and answered.                                       *)

\* An operation that ends in Save touches the files only later.
LEMMA SavingKeeps ==
  ASSUME IInv, SaveLocked, UNCHANGED <<lapsed, screen, history>>,
         posted' = posted \/ posted' = posted + 1,
         mutes' \cap lapsed = {},
         ~damaged => Kept(screen, told, messages', nextID', mutes')
  PROVE  PromisesInv'
<1>1. /\ step' = "write" /\ UNCHANGED <<primary, backup>>
      /\ UNCHANGED <<told, unsaved, damaged>>
  BY DEF SaveLocked, Save, files, history
<1>2. TimesInv'
  <2>1. told.deleted \subseteq Nat /\ posted \in Nat
    BY SizesAssumption DEF IInv, TypeOK, Posts, SizesAssumption
  <2>2. TimesInv
    BY DEF IInv, PromisesInv
  <2>3. QED
    BY <1>1, <2>1, <2>2 DEF TimesInv
<1>3. (~damaged => Kept(screen, told, messages, nextID, mutes))'
  BY <1>1 DEF Kept
<1>4. FileKeeps'
  BY <1>1 DEF IInv, PromisesInv, FileKeeps, Kept, Complete, Load
<1>5. FileIsService'
  BY <1>1 DEF FileIsService
<1>6. QED
  BY <1>2, <1>3, <1>4, <1>5 DEF PromisesInv

LEMMA PromisesStep ==
  ASSUME IInv, [Next]_vars
  PROVE  PromisesInv'
<1>0. /\ TypeOK /\ StoreInv /\ ListsInv
      /\ TimesInv /\ FileKeeps /\ FileIsService
      /\ ~damaged => Kept(screen, told, messages, nextID, mutes)
      /\ posted \in Nat
  BY SizesAssumption DEF IInv, PromisesInv, TypeOK, SizesAssumption
<1>1. CASE Post
  <2>1. /\ nextID' = nextID + 1 /\ nextID \in Nat /\ posted' = posted + 1
        /\ \A m \in messages' :
             m \in messages \/ (m.id = nextID /\ m.post = posted + 1)
        /\ SaveLocked /\ UNCHANGED <<aged, lapsed, screen, history, mutes>>
    <3>1. /\ nextID \in Posts
          /\ \A m \in messages' :
               m \in messages \/ (m.id = nextID /\ m.post = posted + 1)
      BY <1>0, <1>1, PostLists, Zenon
    <3>2. nextID \in Nat
      BY <3>1, SizesAssumption DEF Posts, SizesAssumption
    <3>3. QED
      BY <1>1, <3>1, <3>2 DEF Post
  <2>2. ASSUME ~damaged
        PROVE  Kept(screen, told, messages', nextID', mutes')
    <3>1. Kept(screen, told, messages, nextID, mutes)
      BY <1>0, <2>2
    <3>2. ASSUME NEW f \in Followed, NEW seen \in screen[f]
          PROVE  /\ seen.id < nextID'
                 /\ \A m \in messages' : m.id = seen.id => m.post = seen.post
      <4>1. seen.id \in Nat
        BY <1>0, <3>2, SizesAssumption
           DEF TypeOK, Seen, Posts, SizesAssumption
      <4>2. seen.id < nextID
        BY <3>1, <3>2 DEF Kept
      <4>3. \A m \in messages : m.id = seen.id => m.post = seen.post
        BY <3>1, <3>2 DEF Kept
      <4>4. QED
        BY <2>1, <4>1, <4>2, <4>3
    <3>3. posted + 1 \notin told.deleted
      <4>1. told.deleted \subseteq Nat
        BY <1>0, SizesAssumption DEF TypeOK, Posts, SizesAssumption
      <4>2. QED
        BY <4>1, <1>0 DEF TimesInv
    <3>4. \A m \in messages' : m.post \in told.deleted => m.deleted
      BY <2>1, <3>1, <3>3 DEF Kept
    <3>5. told.muted \subseteq mutes'
      BY <2>1, <3>1 DEF Kept
    <3>6. QED
      BY <3>2, <3>4, <3>5 DEF Kept
  <2>3. mutes' \cap lapsed = {}
    BY <1>0, <2>1 DEF TimesInv
  <2>4. QED
    BY <2>1, <2>2, <2>3, SavingKeeps
<1>2. ASSUME NEW i, Delete(i)
      PROVE  PromisesInv'
  <2>1. /\ SaveLocked /\ UNCHANGED <<nextID, mutes, clock, screen, history>>
        /\ \A m \in messages' : \E n \in messages :
             m.id = n.id /\ m.post = n.post /\ (n.deleted => m.deleted)
    BY <1>0, <1>2, DeleteLists DEF Delete
  <2>2. ~damaged => Kept(screen, told, messages', nextID', mutes')
    BY <1>0, <2>1 DEF Kept
  <2>3. QED
    BY <1>0, <2>1, <2>2, SavingKeeps DEF clock, TimesInv
<1>3. ASSUME NEW r, NEW i, React(r, i)
      PROVE  PromisesInv'
  BY <1>0, <1>3, SavingKeeps DEF React, service, clock, TimesInv
<1>4. ASSUME NEW r, Mute(r)
      PROVE  PromisesInv'
  <2>1. /\ SaveLocked /\ UNCHANGED <<nextID, messages, clock, screen, history>>
        /\ mutes' = mutes \cup {r} /\ r \notin lapsed
    BY <1>4 DEF Mute
  <2>2. ~damaged => Kept(screen, told, messages', nextID', mutes')
    BY <1>0, <2>1 DEF Kept
  <2>3. QED
    BY <1>0, <2>1, <2>2, SavingKeeps DEF clock, TimesInv
<1>5. ASSUME NEW r, NEW list \in SUBSET Prune(messages), Show(r, list)
      PROVE  PromisesInv'
  <2>1. /\ step = "idle" /\ UNCHANGED <<primary, backup, step>>
        /\ UNCHANGED <<nextID, mutes, posted, lapsed, told, unsaved, damaged>>
    BY <1>5 DEF Show, store, clock, history
  <2>2. /\ messages' \subseteq messages
        /\ \A f \in Followed : \A seen \in screen'[f] :
             \/ seen \in screen[f]
             \/ \E m \in messages : seen.id = m.id /\ seen.post = m.post
    BY <1>0, <1>5, ShowLists
  <2>3. TimesInv'
    BY <1>0, <2>1 DEF TimesInv
  <2>4. ASSUME NEW list2, NEW next, NEW muted,
               Kept(screen, told, list2, next, muted),
               \A m \in messages : m.id < next,
               \A m \in messages, n \in list2 :
                 m.id = n.id => m.post = n.post
        PROVE  Kept(screen', told', list2, next, muted)
    BY <2>1, <2>2, <2>4 DEF Kept
  <2>5. Proper(messages, nextID, posted)
    BY <1>0 DEF ListsInv
  <2>6. ASSUME ~damaged
        PROVE  Kept(screen', told', messages', nextID', mutes')
    <3>1. Kept(screen', told', messages, nextID, mutes)
      BY <1>0, <2>4, <2>5, <2>6 DEF Proper
    <3>2. QED
      BY <3>1, <2>1, <2>2 DEF Kept
  <2>7. FileKeeps'
    <3>1. Load(Empty)' = Load(Empty) /\ Complete' = Complete
      BY <2>1 DEF Load, Complete, Empty
    <3>2. SUFFICES ASSUME ~damaged, Complete
                   PROVE  Kept(screen', told', Load(Empty).messages,
                               Load(Empty).next, Load(Empty).mutes)
      BY <3>1, <2>1 DEF FileKeeps
    <3>3. Kept(screen, told, Load(Empty).messages, Load(Empty).next,
               Load(Empty).mutes)
      BY <1>0, <3>2 DEF FileKeeps
    <3>4. nextID = Load(Empty).next /\ messages \subseteq Load(Empty).messages
      BY <1>0, <2>1, <3>2 DEF FileIsService, Complete
    <3>5. Proper(Load(Empty).messages, Load(Empty).next, posted)
      BY <1>0, LoadIsSnapshot
    <3>6. /\ \A m \in messages : m.id < Load(Empty).next
          /\ \A m \in messages, n \in Load(Empty).messages :
               m.id = n.id => m.post = n.post
      BY <2>5, <3>4, <3>5 DEF Proper
    <3>7. QED
      BY <2>4, <3>3, <3>6
  <2>8. FileIsService'
    BY <1>0, <2>1, <2>2 DEF FileIsService, Load, Empty
  <2>9. QED
    BY <2>1, <2>3, <2>6, <2>7, <2>8 DEF PromisesInv
<1>6. ASSUME NEW r \in Readers, MuteEnds(r)
      PROVE  PromisesInv'
  <2>1. /\ UNCHANGED <<primary, backup, step, nextID, messages, posted>>
        /\ UNCHANGED <<screen, unsaved, damaged>>
        /\ mutes' = mutes \ {r} /\ lapsed' = lapsed \cup {r}
        /\ told' = [told EXCEPT !.muted = @ \ {r}]
    BY <1>6 DEF MuteEnds, store
  <2>2. told'.muted = told.muted \ {r} /\ told'.deleted = told.deleted
    BY <1>0, <2>1 DEF TypeOK
  <2>3. TimesInv'
    BY <1>0, <2>1, <2>2 DEF TimesInv
  <2>4. ~damaged => Kept(screen', told', messages', nextID', mutes')
    BY <1>0, <2>1, <2>2 DEF Kept
  <2>5. FileKeeps'
    BY <1>0, <2>1, <2>2 DEF FileKeeps, Kept, Load, Complete, Empty
  <2>6. FileIsService'
    BY <1>0, <2>1 DEF FileIsService, Load, Empty
  <2>7. QED
    BY <2>1, <2>3, <2>4, <2>5, <2>6 DEF PromisesInv
<1>7. CASE Age
  BY <1>0, <1>7 DEF Age, store, service, history, PromisesInv, TimesInv,
     FileKeeps, FileIsService, Load, Complete, Empty
<1>8. CASE SaveGoesOn
  <2>1. UNCHANGED <<service, clock, screen, history>>
    BY <1>8 DEF SaveGoesOn
  <2>2. TimesInv' /\ (~damaged => Kept(screen, told, messages, nextID, mutes))'
    BY <1>0, <2>1 DEF TimesInv, service, clock, history
  <2>3. FileIsService'
    BY <1>8 DEF FileIsService, SaveGoesOn, SaveStep, WriteTemp, FillTemp,
       ClearBackup, MoveAway
  <2>4. Complete' => Complete /\ Load(Empty)' = Load(Empty)
    BY <1>0, <1>8, <2>1 DEF Complete, Load, Empty, SaveGoesOn, SaveStep,
       WriteTemp, FillTemp, ClearBackup, MoveAway, history, StoreInv
  <2>5. FileKeeps'
    BY <1>0, <2>1, <2>4 DEF FileKeeps, history
  <2>6. QED
    BY <2>2, <2>3, <2>5 DEF PromisesInv
<1>9. ASSUME NEW saved \in BOOLEAN, Answer(saved), Place \/ SaveFails,
             saved => Place, ~saved => SaveFails
      PROVE  PromisesInv'
  <2>1. /\ UNCHANGED <<service, clock, screen, damaged>>
        /\ told' = [deleted |-> told.deleted \cup
                          {m.post : m \in {n \in messages : n.deleted}},
                    muted |-> mutes,
                    posts |-> told.posts \cup {m.post : m \in messages}]
        /\ unsaved' = ~saved
    BY <1>9 DEF Answer
  <2>2. Proper(messages, nextID, posted)
    BY <1>0 DEF ListsInv
  <2>3. TimesInv'
    BY <1>0, <2>1, <2>2 DEF TimesInv, Proper, service, clock
  <2>4. ~damaged => Kept(screen', told', messages, nextID, mutes)
    <3>1. \A m, n \in messages : m.post = n.post => m = n
      BY <2>2 DEF Proper
    <3>2. \A m \in messages : m.post \in told'.deleted =>
            m.post \in told.deleted \/ m.deleted
      BY <2>1, <3>1
    <3>3. told'.muted = mutes
      BY <2>1
    <3>4. QED
      BY <1>0, <2>1, <3>2, <3>3 DEF Kept
  <2>5. CASE ~saved
    BY <1>0, <2>1, <2>3, <2>4, <2>5 DEF PromisesInv, FileKeeps, FileIsService,
       Complete, service
  <2>6. CASE saved
    <3>1. /\ primary' = [next |-> nextID, messages |-> messages, mutes |-> mutes]
          /\ primary' # Nothing
      BY <1>0, <1>9, <2>6 DEF Place, StoreInv
    <3>2. Load(Empty)' = [next |-> nextID, messages |-> messages, mutes |-> mutes]
      BY <3>1 DEF Load
    <3>3. FileKeeps'
      BY <2>1, <2>4, <3>2 DEF FileKeeps
    <3>4. FileIsService'
      BY <2>1, <3>1, <3>2 DEF FileIsService, service
    <3>5. QED
      BY <2>1, <2>3, <2>4, <3>3, <3>4 DEF PromisesInv, service
  <2>7. QED
    BY <2>5, <2>6
<1>10. CASE Restart
  <2>1. /\ UNCHANGED <<primary, backup, clock, screen, told>>
        /\ nextID' = Load(Empty).next
        /\ messages' = Load(Empty).messages
        /\ mutes' = Load(Empty).mutes \ lapsed
        /\ damaged' = (damaged \/ unsaved
                          \/ (primary = Nothing /\ backup # Nothing))
    BY <1>0, <1>10, LoadIsSnapshot DEF Restart, Crash, files
  <2>2. TimesInv'
    BY <1>0, <2>1 DEF TimesInv, clock
  <2>3. Load(Empty)' = Load(Empty)
    BY <2>1 DEF Load, Empty
  <2>4. ASSUME ~damaged'
        PROVE  /\ Kept(screen, told, Load(Empty).messages, Load(Empty).next,
                        Load(Empty).mutes)
               /\ primary = Nothing => backup = Nothing
    BY <1>0, <2>1, <2>4 DEF FileKeeps, Complete
  <2>5. (~damaged => Kept(screen, told, messages, nextID, mutes))'
    BY <1>0, <2>1, <2>4 DEF Kept, TimesInv
  <2>6. FileKeeps'
    BY <2>1, <2>3, <2>4 DEF FileKeeps
  <2>7. FileIsService'
    BY <2>1, <2>3, <2>4 DEF FileIsService
  <2>8. QED
    BY <2>2, <2>5, <2>6, <2>7 DEF PromisesInv
<1>11. CASE UNCHANGED vars
  BY <1>0, <1>11 DEF vars, store, service, clock, history, PromisesInv,
     TimesInv, FileKeeps, FileIsService, Load, Complete, Empty
<1>12. QED
  BY <1>1, <1>2, <1>3, <1>4, <1>5, <1>6, <1>7, <1>8, <1>9, <1>10, <1>11,
     ActionCases DEF SaveSucceeds, SaveIsLogged
-----------------------------------------------------------------------------
(* How long an answered message lasts.                                     *)

\* A list has the messages answered, but those too old or pushed out.
Held(list) ==
  \A p \in told.posts :
    \/ p <= aged \/ p + MaxMessages <= posted
    \/ \E m \in list : m.post = p

\* In memory, and in the file that the next start would load.
HeldInv ==
  ~damaged => /\ Held(messages)
              /\ Complete => Held(Load(Empty).messages)

\* Prune keeps a message that is young enough until MaxMessages newer ones
\* have been posted, how many records of old ones the list still has.
LEMMA PruneKeeps ==
  ASSUME NEW list \in SUBSET Message, NEW count \in Nat, aged \in Nat,
         \A m \in list : m.post <= count,
         \A m, n \in list : m.post = n.post => m = n,
         NEW m \in list, m.post > aged, ~(m.post + MaxMessages <= count)
  PROVE  m \in Prune(list)
<1> DEFINE young == {n \in list : n.post > aged}
           newer == {n \in young : n.post > m.post}
           later == (m.post + 1)..count
           place == [n \in newer |-> n.post]
<1>0. /\ MaxMessages \in Nat \ {0} /\ m.post \in Nat
      /\ \A n \in list : n.post \in Nat
  BY SizesAssumption DEF SizesAssumption, Message, Posts
<1>1. place \in Injection(newer, later)
  <2>1. \A n \in newer : n.post \in later
    BY <1>0
  <2>2. \A n, o \in newer : n.post = o.post => n = o
    OBVIOUS
  <2> HIDE DEF newer, later
  <2>3. QED
    BY <2>1, <2>2 DEF Injection, IsInjective
<1>2. IsFiniteSet(later) /\ Cardinality(later) < MaxMessages
  <2>1. /\ IsFiniteSet(later)
        /\ Cardinality(later) =
             IF m.post + 1 > count THEN 0 ELSE count - (m.post + 1) + 1
    <3>1. m.post + 1 \in Int /\ count \in Int
      BY <1>0
    <3>2. QED
      BY <3>1, FS_Interval, Zenon
  <2> HIDE DEF later
  <2>2. QED
    BY <2>1, <1>0
<1>3. Cardinality(newer) < MaxMessages
  <2> HIDE DEF newer, later, place
  <2>1. /\ IsFiniteSet(newer)
        /\ Cardinality(newer) <= Cardinality(later)
    BY <1>1, <1>2, FS_Injection
  <2>2. Cardinality(newer) \in Nat /\ Cardinality(later) \in Nat
    BY <2>1, <1>2, FS_CardinalityType
  <2>3. QED
    BY <2>1, <2>2, <1>0, <1>2
<1>4. QED
  BY <1>3 DEF Prune

LEMMA InitHeld == Init => HeldInv
BY DEF Init, HeldInv, Held

\* A list that lost nothing but what Prune drops.
LEMMA HeldByPruning ==
  ASSUME IInv, Held(messages), NEW list \in SUBSET Message,
         NEW count \in {posted, posted + 1}, messages \subseteq list,
         \A m \in list : m.post <= count,
         \A m, n \in list : m.post = n.post => m = n
  PROVE  \A p \in told.posts :
           \/ p <= aged \/ p + MaxMessages <= count
           \/ \E m \in Prune(list) : m.post = p
<1>0. /\ posted \in Nat /\ aged \in Nat /\ told.posts \subseteq Nat
      /\ MaxMessages \in Nat
  BY SizesAssumption DEF IInv, TypeOK, SizesAssumption, Posts
<1> SUFFICES ASSUME NEW p \in told.posts,
                    ~(p <= aged), ~(p + MaxMessages <= count)
             PROVE  \E m \in Prune(list) : m.post = p
  OBVIOUS
<1>1. p \in Nat /\ count \in Nat /\ ~(p + MaxMessages <= posted) /\ p > aged
  BY <1>0
<1>2. PICK m \in messages : m.post = p
  BY <1>1 DEF Held
<1>3. m \in Prune(list)
  BY <1>0, <1>1, <1>2, PruneKeeps
<1>4. QED
  BY <1>2, <1>3

\* An operation that ends in Save leaves the file as it was.
LEMMA HeldBySaving ==
  ASSUME IInv, HeldInv, SaveLocked, UNCHANGED <<aged, history>>,
         posted' = posted \/ posted' = posted + 1,
         ~damaged => Held(messages)'
  PROVE  HeldInv'
<1>1. UNCHANGED <<primary, told, unsaved, damaged, aged>>
  BY DEF SaveLocked, Save, files, history
<1>2. /\ posted \in Nat /\ told.posts \subseteq Nat /\ MaxMessages \in Nat
  BY SizesAssumption DEF IInv, TypeOK, SizesAssumption, Posts
<1>3. Complete' = Complete /\ Load(Empty)' = Load(Empty)
  BY <1>1 DEF Complete, Load, Empty, SaveLocked, Save, files
<1>4. ASSUME ~damaged, Complete
      PROVE  Held(Load(Empty).messages)'
  BY <1>1, <1>2, <1>3, <1>4 DEF HeldInv, Held
<1>5. QED
  BY <1>1, <1>3, <1>4 DEF HeldInv

LEMMA HeldStep ==
  ASSUME IInv, HeldInv, [Next]_vars
  PROVE  HeldInv'
<1>0. /\ TypeOK /\ StoreInv /\ ListsInv
      /\ posted \in Nat /\ aged \in Nat /\ told.posts \subseteq Nat
      /\ MaxMessages \in Nat /\ messages \subseteq Message
      /\ Proper(messages, nextID, posted)
  BY SizesAssumption DEF IInv, TypeOK, SizesAssumption, Posts, ListsInv
<1>1. CASE Post
  <2> DEFINE new == [id |-> nextID, post |-> posted + 1, deleted |-> FALSE]
             list == messages \cup {new}
  <2>1. /\ messages' = Prune(list) /\ posted' = posted + 1
        /\ SaveLocked /\ UNCHANGED <<aged, history>>
    BY <1>1 DEF Post
  <2>2. nextID \in Posts /\ posted + 1 \in Posts
    BY <1>0, <1>1, PostLists DEF Post
  <2>3. new \in Message /\ new.post = posted + 1
    BY <2>2 DEF Message
  <2> HIDE DEF new
  <2>4. \A m \in messages : m.post \in Nat /\ m.post <= posted
    BY <1>0, SizesAssumption DEF Proper, Message, Posts, SizesAssumption
  <2>5. /\ list \in SUBSET Message /\ messages \subseteq list
        /\ \A m \in list : m.post <= posted + 1
        /\ \A m, n \in list : m.post = n.post => m = n
    <3>1. \A m, n \in messages : m.post = n.post => m = n
      BY <1>0 DEF Proper
    <3>2. \A m \in messages : m.post # new.post
      BY <2>3, <2>4, <1>0
    <3>3. \A m \in list : m.post <= posted + 1
      BY <2>3, <2>4, <1>0
    <3>4. QED
      BY <3>1, <3>2, <3>3, <2>3, <1>0
  <2> HIDE DEF list
  <2>6. ASSUME ~damaged
        PROVE  Held(messages)'
    <3>1. Held(messages)
      BY <2>6 DEF HeldInv
    <3>2. \A p \in told.posts :
            \/ p <= aged \/ p + MaxMessages <= posted + 1
            \/ \E m \in Prune(list) : m.post = p
      BY <3>1, <2>5, HeldByPruning
    <3>3. QED
      BY <3>2, <2>1 DEF Held, history
  <2>7. QED
    BY <2>1, <2>6, HeldBySaving
<1>2. ASSUME NEW i, Delete(i)
      PROVE  HeldInv'
  <2>1. SaveLocked /\ UNCHANGED <<clock, history>>
    BY <1>2 DEF Delete
  <2>2. \A m \in messages : \E n \in messages' : n.post = m.post
    <3>1. messages' = {[m EXCEPT !.deleted = @ \/ m.id = i] : m \in messages}
      BY <1>2 DEF Delete
    <3>2. \A m \in messages :
            [m EXCEPT !.deleted = @ \/ m.id = i].post = m.post
      BY <1>0 DEF Message
    <3>3. QED
      BY <3>1, <3>2
  <2>3. ~damaged => Held(messages)'
    BY <2>1, <2>2 DEF HeldInv, Held, clock, history
  <2>4. QED
    BY <2>1, <2>3, HeldBySaving DEF clock
<1>3. ASSUME NEW r, NEW i, React(r, i)
      PROVE  HeldInv'
  <2>1. SaveLocked /\ UNCHANGED <<clock, history, messages>>
    BY <1>3 DEF React, service
  <2>2. ~damaged => Held(messages)'
    BY <2>1 DEF HeldInv, Held, clock, history
  <2>3. QED
    BY <2>1, <2>2, HeldBySaving DEF clock
<1>4. ASSUME NEW r, Mute(r)
      PROVE  HeldInv'
  <2>1. SaveLocked /\ UNCHANGED <<clock, history, messages>>
    BY <1>4 DEF Mute
  <2>2. ~damaged => Held(messages)'
    BY <2>1 DEF HeldInv, Held, clock, history
  <2>3. QED
    BY <2>1, <2>2, HeldBySaving DEF clock
<1>5. ASSUME NEW r, NEW list, Show(r, list)
      PROVE  HeldInv'
  <2>1. messages' = Prune(messages) /\ UNCHANGED <<store, clock, history>>
    BY <1>5 DEF Show
  <2>2. ASSUME ~damaged
        PROVE  Held(messages)'
    <3>1. Held(messages)
      BY <2>2 DEF HeldInv
    <3>2. \A p \in told.posts :
            \/ p <= aged \/ p + MaxMessages <= posted
            \/ \E m \in Prune(messages) : m.post = p
      BY <3>1, <1>0, HeldByPruning DEF Proper
    <3>3. QED
      BY <3>2, <2>1 DEF Held, clock, history
  <2>3. QED
    BY <2>1, <2>2 DEF HeldInv, Held, Complete, Load, Empty, store, clock, history
<1>6. ASSUME NEW r, MuteEnds(r)
      PROVE  HeldInv'
  <2>1. /\ UNCHANGED <<store, messages, posted, aged, unsaved, damaged>>
        /\ told' = [told EXCEPT !.muted = @ \ {r}]
    BY <1>6 DEF MuteEnds
  <2>2. told'.posts = told.posts
    BY <1>0, <2>1 DEF TypeOK
  <2>3. QED
    BY <2>1, <2>2 DEF HeldInv, Held, Complete, Load, Empty, store
<1>7. CASE Age
  <2>1. /\ UNCHANGED <<store, service, posted, history>>
        /\ aged' = aged + 1
    BY <1>7 DEF Age
  <2>2. ASSUME NEW list, Held(list)
        PROVE  \A p \in told.posts :
                 \/ p <= aged + 1 \/ p + MaxMessages <= posted
                 \/ \E m \in list : m.post = p
    BY <1>0, <2>2 DEF Held
  <2>3. QED
    BY <2>1, <2>2
       DEF HeldInv, Held, Complete, Load, Empty, store, service, history
<1>8. CASE SaveGoesOn
  <2>1. UNCHANGED <<service, clock, history>>
    BY <1>8 DEF SaveGoesOn
  <2>2. Complete' => Complete /\ Load(Empty)' = Load(Empty)
    BY <1>0, <1>8, <2>1 DEF Complete, Load, Empty, SaveGoesOn, SaveStep,
       WriteTemp, FillTemp, ClearBackup, MoveAway, history, StoreInv
  <2>3. QED
    BY <2>1, <2>2 DEF HeldInv, Held, service, clock, history
<1>9. ASSUME NEW saved \in BOOLEAN, Answer(saved),
             saved => Place, ~saved => SaveFails
      PROVE  HeldInv'
  <2>1. /\ UNCHANGED <<messages, damaged>>
        /\ told'.posts = told.posts \cup {m.post : m \in messages}
        /\ UNCHANGED <<posted, aged>>
        /\ unsaved' = ~saved
    BY <1>9 DEF Answer, service, clock
  <2>2. ~damaged => Held(messages)'
    BY <2>1 DEF HeldInv, Held
  <2>3. CASE ~saved
    BY <2>1, <2>2, <2>3 DEF HeldInv, Complete
  <2>4. CASE saved
    <3>1. /\ primary' = [next |-> nextID, messages |-> messages, mutes |-> mutes]
          /\ primary' # Nothing
      BY <1>0, <1>9, <2>4 DEF Place, StoreInv
    <3>2. Load(Empty)'.messages = messages'
      BY <3>1, <2>1 DEF Load
    <3>3. QED
      BY <2>1, <2>2, <3>2 DEF HeldInv, Held
  <2>5. QED
    BY <2>3, <2>4
<1>10. CASE Restart
  <2>1. /\ UNCHANGED <<primary, backup, clock, told>>
        /\ messages' = Load(Empty).messages
        /\ damaged' = (damaged \/ unsaved
                          \/ (primary = Nothing /\ backup # Nothing))
    BY <1>10 DEF Restart, Crash, files
  <2>2. Load(Empty)' = Load(Empty)
    BY <2>1 DEF Load, Empty
  <2>3. ASSUME ~damaged'
        PROVE  Held(Load(Empty).messages)
    BY <2>1, <2>3 DEF HeldInv, Complete
  <2>4. QED
    BY <2>1, <2>2, <2>3 DEF HeldInv, Held, clock
<1>11. CASE UNCHANGED vars
  BY <1>11 DEF vars, store, service, clock, history, HeldInv, Held, Complete,
     Load, Empty
<1>12. QED
  BY <1>1, <1>2, <1>3, <1>4, <1>5, <1>6, <1>7, <1>8, <1>9, <1>10, <1>11,
     ActionCases DEF SaveSucceeds, SaveIsLogged
-----------------------------------------------------------------------------
LEMMA Inductive == Spec => []IInv
<1>1. Init => IInv
  BY InitInv
<1>2. IInv /\ [Next]_vars => IInv'
  BY TypesStep, ListsStep, PromisesStep DEF IInv
<1>3. QED
  BY <1>1, <1>2, PTL DEF Spec

\* Every variable keeps its type, and no file that may be read is torn,
\* whichever call of Save fails and wherever the program ends.
THEOREM TypeCorrect == Spec => []TypeOK
<1>1. IInv => TypeOK
  BY DEF IInv
<1>2. QED
  BY <1>1, Inductive, PTL

\* A number names the message it was shown with, or none, as long as the
\* service was not started on a file that misses an answered operation.
THEOREM NumbersHold == Spec => []NumberNamesMessage
<1>1. IInv => NumberNamesMessage
  BY DEF IInv, PromisesInv, Kept, NumberNamesMessage
<1>2. QED
  BY <1>1, Inductive, PTL

\* Deletions and mutes that were answered hold across restarts, likewise.
THEOREM DecisionsHold == Spec => []DecisionsLast
<1>1. IInv => DecisionsLast
  BY DEF IInv, PromisesInv, Kept, DecisionsLast
<1>2. QED
  BY <1>1, Inductive, PTL

\* An answered message lasts across restarts until it is too old or
\* MaxMessages have been posted after it, likewise.
THEOREM MessagesHold == Spec => []MessagesLast
<1>1. Init => HeldInv
  BY InitHeld
<1>2. IInv /\ HeldInv /\ [Next]_vars => HeldInv'
  BY HeldStep
<1>3. HeldInv => MessagesLast
  BY DEF HeldInv, Held, MessagesLast
<1>4. QED
  BY <1>1, <1>2, <1>3, Inductive, PTL DEF Spec

\* The three files implement an atomic register for a reader that falls back
\* on the backup.
THEOREM StoreImplementsRegister == Spec => SaveIsAtomic
<1> DEFINE kept == IF primary = Nothing THEN backup ELSE primary
<1>1. Init => Register!Init
  BY DEF Init, StoreInit, Register!Init
<1>2. IInv /\ [Next]_vars => [Register!Next]_<<kept, offered>>
  <2> SUFFICES ASSUME IInv, [Next]_vars
               PROVE  [Register!Next]_<<kept, offered>>
    OBVIOUS
  <2> USE DEF Register!Next, Register!Offer, Register!Commit, Register!Abandon
  <2>0. /\ StoreInv /\ StoreTypes /\ StoreInv' /\ StoreTypes'
        /\ step \in Steps
    <3>1. TypeOK /\ TypeOK' /\ StoreInv /\ StoreInv'
      BY TypesStep DEF IInv
    <3>2. QED
      BY <3>1, Zenon DEF TypeOK, StoreTypes
  <2>1. CASE SaveLocked
    BY <2>0, <2>1 DEF SaveLocked, Save, files, StoreInv
  <2>2. CASE SaveStep
    BY <2>0, <2>2
       DEF SaveStep, WriteTemp, FillTemp, ClearBackup, MoveAway, StoreInv
  <2>3. CASE Place
    BY <2>0, <2>3 DEF Place, Return, StoreInv, StoreTypes
  <2>4. CASE SaveFails
    BY <2>4 DEF SaveFails, Return
  <2>5. CASE Crash
    BY <2>5 DEF Crash, Return, files
  <2>6. CASE UNCHANGED store
    BY <2>6 DEF store
  <2>7. QED
    BY <2>1, <2>2, <2>3, <2>4, <2>5, <2>6, ActionCases
       DEF Post, Delete, React, Mute, Show, MuteEnds, Age, SaveGoesOn,
           SaveSucceeds, SaveIsLogged, Restart, vars
<1>3. QED
  BY <1>1, <1>2, Inductive, PTL DEF Spec, SaveIsAtomic, Register!Spec
=============================================================================
