---------------------------- MODULE CardSessions ----------------------------
(***************************************************************************)
(* Cards and the client sessions opened on them: the sessions feature      *)
(* (internal/features/sessions), the seat rules it takes from              *)
(* internal/cards/session.go, and the administrators' edits of cards       *)
(* (internal/features/cards, internal/features/authorizations).            *)
(*                                                                         *)
(* A session operation is one SQLite transaction, hence one step.  An      *)
(* administrator's edit is a SELECT followed by an upsert with no          *)
(* transaction around them, hence two steps with an in-flight row.         *)
(*                                                                         *)
(* Time is counted in half seconds: the odd instants stand for every clock *)
(* reading that is not on a whole second, and the even ones for the whole  *)
(* seconds the RFC3339 columns can hold.                                   *)
(***************************************************************************)
EXTENDS Integers, FiniteSets

CONSTANTS
  Codes,            \* card codes
  Machines,         \* machine identifiers a client may send
  NoMachine,        \* the empty machine identifier
  Tokens,           \* session tokens
  Admins,           \* administrators' requests that may be in flight at once
  All,              \* the blacklist value that blocks everybody
  NoCard,           \* no row of table cards has the code
  NoSession,        \* no row of table sessions has the token
  Idle,             \* an administrator's request that is not in flight
  SessionTTL,       \* lifetime a session is given by activation and heartbeat
  Duration,         \* period a card is issued for
  Extra,            \* period an extension adds
  Limits,           \* values of max_sessions
  EditKinds,        \* administrators' edits in use
  Claims,           \* ways in which a request names the card of its session
  Blockable,        \* values administrators put on the blacklist
  UnbindOnExit,     \* values of DeactivateInput.Unbind in use
  Instants,         \* bound: the instants at which the clock is read
  LastRequest,      \* bound: no request arrives after this instant
  MaxPaid           \* bound: no issue or extension starts that pays for more

Never == -1         \* activated_at IS NULL
Spoilt == -2        \* see origin
AllEdits == {"note", "limit", "disable", "enable", "expire", "extend",
             "unbind", "freeze", "restore", "archive"}
AllClaims == {"absent", "stored", "respelled", "foreign"}

ASSUME TimesAssumption ==
  /\ SessionTTL \in Nat \ {0}
  /\ Duration \in Nat \ {0} /\ Duration % 2 = 0
  /\ Extra \in Nat \ {0} /\ Extra % 2 = 0
  /\ Instants \subseteq Nat /\ 1 \in Instants
  /\ LastRequest \in Nat /\ MaxPaid \in Nat

ASSUME NamesAssumption ==
  /\ NoMachine \notin Machines
  /\ All \notin Codes /\ All \notin Machines
  /\ Limits \subseteq Nat \ {0}
  /\ EditKinds \subseteq AllEdits
  /\ Claims \subseteq AllClaims
  /\ Blockable \subseteq Codes \cup Machines \cup {All}
  /\ UnbindOnExit \subseteq BOOLEAN
  /\ IsFiniteSet(Tokens)

VARIABLES
  now,              \* the clock
  cards,            \* table cards
  sessions,         \* table sessions
  blacklist,        \* table blacklist (card codes, machines, All)
  saving,           \* the row each administrator's request has read and edited
  answer,           \* what the last client request was answered
  \* history, read by the properties only
  lastGood,         \* last instant at which the card would pass a heartbeat
  paid,             \* period paid for: issue plus extensions
  peak,             \* largest max_sessions the card ever had
  origin            \* instant of the card's one issue; Spoilt once re-issued
                    \* under the same code or archived

history == <<lastGood, paid, peak, origin>>
vars == <<now, cards, sessions, blacklist, saving, answer, history>>
-----------------------------------------------------------------------------
(* The rows.                                                               *)

Status == {"active", "disabled", "expired", "archived"}
MachineIDs == Machines \cup {NoMachine}

Card == [status : Status, machine : MachineIDs, created : Int,
         activated : Int, expires : Int, limit : Limits]
Session == [card : Codes, machine : MachineIDs, seen : Int, expires : Int]
Edit == [code : Codes, row : Card, buys : {0, Extra}, archives : BOOLEAN]

ASSUME AbsenceAssumption ==
  NoCard \notin Card /\ NoSession \notin Session /\ Idle \notin Edit

Verdicts == {"ok", "expired", "invalid", "other machine", "other card"}
Answers == [op : {"none", "heartbeat", "validate", "deactivate"},
            token : Tokens \cup {NoSession},
            claim : AllClaims,
            verdict : Verdicts]
NoAnswer == [op |-> "none", token |-> NoSession, claim |-> "absent",
             verdict |-> "ok"]
Answer(op, tok, claim, verdict) ==
  [op |-> op, token |-> tok, claim |-> claim, verdict |-> verdict]

\* time.Format(time.RFC3339) drops the fraction of the second.
Sec(t) == t - (t % 2)

\* The period the row grants: from activation, or from issue while unused.
Span(row) == row.expires - (IF row.activated = Never THEN row.created
                                                     ELSE row.activated)

\* The tests a heartbeat makes on the card of a session, at instant t.
Passes(row, t) == row # NoCard /\ row.status = "active" /\ ~(row.expires < t)

\* Mutant of Counted: only the sessions of the machine the card is bound to.
CountedOfBoundMachine(c) == {t \in Tokens : /\ sessions[t] # NoSession
                                            /\ sessions[t].card = c
                                            /\ sessions[t].machine = cards[c].machine
                                            /\ sessions[t].expires > now}

\* The sessions of c that activation counts against max_sessions.
Counted(c) == {t \in Tokens : /\ sessions[t] # NoSession
                              /\ sessions[t].card = c
                              /\ sessions[t].expires > now}

\* The sessions of c that a heartbeat would still renew.
Live(c) == {t \in Tokens : /\ sessions[t] # NoSession
                           /\ sessions[t].card = c
                           /\ ~(sessions[t].expires < now)}

Serving == now <= LastRequest

\* ReadSignedRequest refuses a blacklisted machine before any handler runs.
Welcome(m) == m \notin blacklist /\ All \notin blacklist

Larger(a, b) == IF a > b THEN a ELSE b
\* History: the instant at which each card was last seen to pass.
Observe == lastGood' = [c \in Codes |-> IF Passes(cards'[c], now') THEN now'
                                                     ELSE lastGood[c]]
-----------------------------------------------------------------------------
Init ==
  /\ now = 1
  /\ cards = [c \in Codes |-> NoCard]
  /\ sessions = [t \in Tokens |-> NoSession]
  /\ blacklist = {}
  /\ saving = [a \in Admins |-> Idle]
  /\ answer = NoAnswer
  /\ lastGood = [c \in Codes |-> Never]
  /\ paid = [c \in Codes |-> 0]
  /\ peak = [c \in Codes |-> 0]
  /\ origin = [c \in Codes |-> Never]

Tick ==
  /\ \E t \in Instants : t > now /\ now' = t
  /\ answer' = NoAnswer
  /\ UNCHANGED <<cards, sessions, blacklist, saving, paid, peak, origin>>
  /\ Observe
-----------------------------------------------------------------------------
(* Client requests.                                                        *)

\* Mutant of Rebind: binding takes a seat off the stored max_sessions.
RebindTakingSeat(row, m, activated, expires) ==
  [status |-> row.status, machine |-> m, created |-> row.created,
   activated |-> activated, expires |-> expires, limit |-> row.limit - 1]

\* UPDATE cards SET machine_id, activated_at, expires_at.
Rebind(row, m, activated, expires) ==
  [status |-> row.status, machine |-> m, created |-> row.created,
   activated |-> activated, expires |-> expires, limit |-> row.limit]

\* Mutant of Activated: every activation starts the period, not the first only.
ActivatedAnew(row, m) ==
  Rebind(row, IF row.machine = NoMachine THEN m ELSE row.machine,
         Sec(now), Sec(now + (row.expires - row.created)))

\* The row UpdateCardActivation stores: the card is bound to the first
\* machine, and its period is moved to start at the first activation.
Activated(row, m) ==
  LET first == row.activated = Never
  IN  Rebind(row, IF row.machine = NoMachine THEN m ELSE row.machine,
             Sec(IF first THEN now ELSE row.activated),
             Sec(IF first THEN now + (row.expires - row.created)
                          ELSE row.expires))

\* A session of card c on machine m, seen now.
SeenSession(c, m) == [card |-> c, machine |-> m, seen |-> Sec(now),
                      expires |-> Sec(now + SessionTTL)]

Activate(m, c, tok) ==
  /\ Serving /\ Welcome(m)
  /\ Passes(cards[c], now)
  /\ c \notin blacklist
  /\ sessions[tok] = NoSession
  /\ ~ (/\ cards[c].limit <= 1
        /\ cards[c].machine # NoMachine
        /\ cards[c].machine # m)
  /\ Cardinality(Counted(c)) < cards[c].limit
  /\ cards' = [cards EXCEPT ![c] = Activated(cards[c], m)]
  /\ sessions' = [sessions EXCEPT ![tok] = SeenSession(c, m)]
  /\ answer' = NoAnswer
  /\ UNCHANGED <<now, blacklist, saving, paid, peak, origin>>
  /\ Observe

\* A heartbeat without a machine identifier skips the machine check.
SameMachine(tok, m) == m = NoMachine \/ sessions[tok].machine = m

\* Mutant of HeartbeatRenew: any card that still has a row will do.
HeartbeatRenewUnchecked(tok, m) ==
  /\ Serving /\ Welcome(m)
  /\ sessions[tok] # NoSession /\ SameMachine(tok, m)
  /\ ~(sessions[tok].expires < now)
  /\ cards[sessions[tok].card] # NoCard
  /\ sessions' = [sessions EXCEPT ![tok] =
                    SeenSession(sessions[tok].card, sessions[tok].machine)]
  /\ answer' = Answer("heartbeat", tok, "absent", "ok")
  /\ UNCHANGED <<now, cards, blacklist, saving, history>>

HeartbeatRenew(tok, m) ==
  /\ Serving /\ Welcome(m)
  /\ sessions[tok] # NoSession /\ SameMachine(tok, m)
  /\ ~(sessions[tok].expires < now)
  /\ Passes(cards[sessions[tok].card], now)
  /\ sessions' = [sessions EXCEPT ![tok] =
                    SeenSession(sessions[tok].card, sessions[tok].machine)]
  /\ answer' = Answer("heartbeat", tok, "absent", "ok")
  /\ UNCHANGED <<now, cards, blacklist, saving, history>>

\* The handler deletes the session and returns the refusal as an error, and
\* RunInTx answers an error by rolling the deletion back.
HeartbeatRefuse(tok, m) ==
  /\ Serving /\ Welcome(m)
  /\ sessions[tok] # NoSession /\ SameMachine(tok, m)
  /\ \/ /\ sessions[tok].expires < now
        /\ answer' = Answer("heartbeat", tok, "absent", "expired")
     \/ /\ ~(sessions[tok].expires < now)
        /\ ~Passes(cards[sessions[tok].card], now)
        /\ answer' = Answer("heartbeat", tok, "absent", "invalid")
  /\ UNCHANGED <<now, cards, sessions, blacklist, saving, history>>

\* The row UnbindCardPreservingRemaining stores.
Released(row) ==
  Rebind(row, NoMachine, Never,
         Sec(IF row.activated = Never THEN row.expires
             ELSE now + (row.expires - row.activated)))

\* Ends session tok; with unbind it also releases the card, which must exist.
EndSession(tok, unbind) ==
  LET c == sessions[tok].card IN
  /\ unbind => cards[c] # NoCard
  /\ cards' = IF unbind THEN [cards EXCEPT ![c] = Released(cards[c])] ELSE cards
  /\ sessions' = [sessions EXCEPT ![tok] = NoSession]
  /\ UNCHANGED <<now, blacklist, saving, paid, peak, origin>>
  /\ Observe

\* claim says how the card code in the request relates to the stored one:
\* not sent, as stored, the same code written otherwise (without its dashes,
\* in lower case), or another code.  Deactivate compares the raw strings.
Deactivate(tok, m, claim, unbind) ==
  /\ Serving /\ Welcome(m)
  /\ sessions[tok] # NoSession /\ SameMachine(tok, m)
  /\ claim \in {"absent", "stored"}
  /\ EndSession(tok, unbind)
  /\ answer' = Answer("deactivate", tok, claim, "ok")

DeactivateRefuse(tok, m, claim) ==
  /\ Serving /\ Welcome(m)
  /\ sessions[tok] # NoSession
  /\ \/ /\ ~SameMachine(tok, m)
        /\ answer' = Answer("deactivate", tok, claim, "other machine")
     \/ /\ SameMachine(tok, m) /\ claim \in {"respelled", "foreign"}
        /\ answer' = Answer("deactivate", tok, claim, "other card")
  /\ UNCHANGED <<now, cards, sessions, blacklist, saving, history>>

\* An administrator ends a session: neither machine nor card is compared.
ForceLogout(tok) ==
  /\ Serving
  /\ sessions[tok] # NoSession
  /\ EndSession(tok, FALSE)
  /\ answer' = NoAnswer

BoundVerdict(tok, m, claim) ==
  LET row == cards[sessions[tok].card] IN
  IF sessions[tok].expires < now THEN "expired"
  ELSE IF sessions[tok].machine # m THEN "other machine"
  ELSE IF claim = "foreign" THEN "other card"
  ELSE IF row = NoCard THEN "invalid"
  ELSE IF row.status \in {"disabled", "expired"} \/ row.expires < now
       THEN "invalid"
  ELSE "ok"

\* Every guarded client endpoint calls ValidateBound with its token.
ValidateBound(tok, m, claim) ==
  /\ Serving /\ Welcome(m)
  /\ m # NoMachine /\ sessions[tok] # NoSession
  /\ answer' = Answer("validate", tok, claim, BoundVerdict(tok, m, claim))
  /\ UNCHANGED <<now, cards, sessions, blacklist, saving, history>>

Removable(tok) == sessions[tok] # NoSession /\ sessions[tok].expires < Sec(now)

\* Mutant of CleanupExpired: a join with table cards loses the sessions whose
\* card was deleted.
CleanupOfKnownCards ==
  /\ sessions' = [t \in Tokens |->
                    IF Removable(t) /\ cards[sessions[t].card] # NoCard
                    THEN NoSession ELSE sessions[t]]
  /\ answer' = NoAnswer
  /\ UNCHANGED <<now, cards, blacklist, saving, history>>

\* The five-minute ticker; it keeps running when no request arrives.
CleanupExpired ==
  /\ sessions' = [t \in Tokens |-> IF Removable(t) THEN NoSession
                                                   ELSE sessions[t]]
  /\ answer' = NoAnswer
  /\ UNCHANGED <<now, cards, blacklist, saving, history>>
-----------------------------------------------------------------------------
(* Administrators' requests.                                               *)

\* A generated code is fresh; an import checks that the code has no row, and
\* may so bring back the code of a deleted card.
CreateCard(c, limit) ==
  /\ Serving
  /\ cards[c] = NoCard
  /\ paid[c] + Duration <= MaxPaid
  /\ cards' = [cards EXCEPT ![c] =
                 [status |-> "active", machine |-> NoMachine,
                  created |-> now, activated |-> Never,
                  expires |-> now + Duration, limit |-> limit]]
  /\ paid' = [paid EXCEPT ![c] = @ + Duration]
  /\ peak' = [peak EXCEPT ![c] = Larger(@, limit)]
  /\ origin' = [origin EXCEPT ![c] = IF @ = Never THEN now ELSE Spoilt]
  /\ answer' = NoAnswer
  /\ UNCHANGED <<now, sessions, blacklist, saving>>
  /\ Observe

\* The row an edit of the given kind makes of the row it has read.
Edited(row, kind, limit) ==
  CASE kind = "note" -> row
    [] kind = "limit" -> [row EXCEPT !.limit = limit]
    [] kind \in {"disable", "freeze"} -> [row EXCEPT !.status = "disabled"]
    [] kind \in {"enable", "restore"} -> [row EXCEPT !.status = "active"]
    [] kind = "expire" -> [row EXCEPT !.status = "expired"]
    [] kind = "extend" ->
         [row EXCEPT !.expires = row.expires + Extra,
                     !.status = IF row.status = "expired" THEN "active"
                                                         ELSE row.status]
    [] kind = "unbind" ->
         Rebind(row, NoMachine, Never,
                IF row.activated = Never THEN row.expires
                ELSE row.created + (row.expires - row.activated))
    [] kind = "archive" ->
         [Rebind(row, NoMachine, Never, row.expires)
            EXCEPT !.status = "archived"]

\* ExecuteAction skips a card these edits would not change.
Applies(row, kind) ==
  /\ kind = "freeze" => row.status # "disabled"
  /\ kind = "restore" => row.status \in {"disabled", "archived"}
  /\ kind = "archive" => row.status # "archived"

ReadForEdit(a, c, kind, limit) ==
  /\ Serving
  /\ saving[a] = Idle
  /\ cards[c] # NoCard
  /\ Applies(cards[c], kind)
  /\ kind = "extend" => paid[c] + Extra <= MaxPaid
  /\ saving' = [saving EXCEPT ![a] =
                  [code |-> c, row |-> Edited(cards[c], kind, limit),
                   buys |-> IF kind = "extend" THEN Extra ELSE 0,
                   archives |-> kind = "archive"]]
  /\ answer' = NoAnswer
  /\ UNCHANGED <<now, cards, sessions, blacklist, history>>

\* Save is an upsert: every column but created_at is overwritten with what
\* was read, and the row of a card deleted meanwhile is inserted again.
Upserted(old, row) ==
  IF old = NoCard THEN row ELSE [row EXCEPT !.created = old.created]

SaveEdit(a) ==
  /\ saving[a] # Idle
  /\ LET e == saving[a] c == e.code IN
       /\ cards' = [cards EXCEPT ![c] = Upserted(cards[c], e.row)]
       /\ paid' = [paid EXCEPT ![c] = @ + e.buys]
       /\ peak' = [peak EXCEPT ![c] = Larger(@, e.row.limit)]
       /\ origin' = [origin EXCEPT ![c] = IF e.archives THEN Spoilt ELSE @]
  /\ saving' = [saving EXCEPT ![a] = Idle]
  /\ answer' = NoAnswer
  /\ UNCHANGED <<now, sessions, blacklist>>
  /\ Observe

\* The read, the checks or the save fail, and the request ends unsaved.
FailEdit(a) ==
  /\ saving[a] # Idle
  /\ saving' = [saving EXCEPT ![a] = Idle]
  /\ answer' = NoAnswer
  /\ UNCHANGED <<now, cards, sessions, blacklist, history>>

\* Deleting a card leaves its sessions.
DeleteCard(c) ==
  /\ Serving
  /\ cards[c] # NoCard
  /\ cards' = [cards EXCEPT ![c] = NoCard]
  /\ answer' = NoAnswer
  /\ UNCHANGED <<now, sessions, blacklist, saving, history>>

BlacklistAdd(v) ==
  /\ Serving
  /\ blacklist' = blacklist \cup {v}
  /\ answer' = NoAnswer
  /\ UNCHANGED <<now, cards, sessions, saving, history>>

BlacklistRemove(v) ==
  /\ Serving
  /\ blacklist' = blacklist \ {v}
  /\ answer' = NoAnswer
  /\ UNCHANGED <<now, cards, sessions, saving, history>>

\* The server process ends and starts again: the tables survive, the
\* requests in flight do not.
Restart ==
  /\ Serving
  /\ saving' = [a \in Admins |-> Idle]
  /\ answer' = NoAnswer
  /\ UNCHANGED <<now, cards, sessions, blacklist, history>>
-----------------------------------------------------------------------------
ClientRequest ==
  \/ \E m \in MachineIDs, c \in Codes, tok \in Tokens : Activate(m, c, tok)
  \/ \E tok \in Tokens, m \in MachineIDs : HeartbeatRenew(tok, m)
  \/ \E tok \in Tokens, m \in MachineIDs : HeartbeatRefuse(tok, m)
  \/ \E tok \in Tokens, m \in MachineIDs, claim \in Claims, u \in UnbindOnExit :
       Deactivate(tok, m, claim, u)
  \/ \E tok \in Tokens, m \in MachineIDs, claim \in Claims :
       DeactivateRefuse(tok, m, claim)
  \/ \E tok \in Tokens, m \in MachineIDs, claim \in Claims :
       ValidateBound(tok, m, claim)

AdminRequest ==
  \/ \E tok \in Tokens : ForceLogout(tok)
  \/ \E c \in Codes, limit \in Limits : CreateCard(c, limit)
  \/ \E a \in Admins, c \in Codes, kind \in EditKinds, limit \in Limits :
       ReadForEdit(a, c, kind, limit)
  \/ \E a \in Admins : SaveEdit(a)
  \/ \E a \in Admins : FailEdit(a)
  \/ \E c \in Codes : DeleteCard(c)
  \/ \E v \in Blockable : BlacklistAdd(v)
  \/ \E v \in blacklist : BlacklistRemove(v)

Next == Tick \/ ClientRequest \/ AdminRequest \/ CleanupExpired \/ Restart

Spec == Init /\ [][Next]_vars

\* The ticker of startSessionCleanup fires for as long as the server runs.
FairSpec == Spec /\ WF_vars(CleanupExpired)
-----------------------------------------------------------------------------
(* What must hold.                                                         *)

\* Every variable has its type.
TypeOK ==
  /\ now \in Nat
  /\ cards \in [Codes -> Card \cup {NoCard}]
  /\ sessions \in [Tokens -> Session \cup {NoSession}]
  /\ blacklist \subseteq Blockable
  /\ saving \in [Admins -> Edit \cup {Idle}]
  /\ answer \in Answers
  /\ lastGood \in [Codes -> Int]
  /\ paid \in [Codes -> Int]
  /\ peak \in [Codes -> Int]
  /\ origin \in [Codes -> Int]

\* A session lives at most one TTL past the last instant at which its card
\* passed: disabling, archiving, expiring or deleting the card, in whatever
\* order with activations, heartbeats and other administrators' saves, stops
\* every session within the TTL although nothing deletes the sessions then.
RefusalEndsSessions ==
  \A t \in Tokens : sessions[t] # NoSession =>
    sessions[t].expires <= lastGood[sessions[t].card] + SessionTTL

\* A card never has more renewable sessions than the largest max_sessions it
\* was ever given, although seats are counted only at activation, and the
\* limit, the binding and the card itself change while sessions are open.
SeatsWithinLimit == \A c \in Codes : Cardinality(Live(c)) <= peak[c]

\* The sessions are leases on the seats of the cards: whatever the interleaving
\* with the administrators' edits, each is granted within the limit that the
\* card has then, renewed only while its card passes and it has not run out,
\* never moved to another card, and never forgotten before it has run out unless
\* it was given up.  (At a clock reading on a whole second, activation does not
\* count the sessions that end then, although they can still be renewed.)
Seats ==
  INSTANCE SeatLease
    WITH Cards <- Codes, Free <- NoSession, TTL <- SessionTTL,
         lease <- [t \in Tokens |->
                     IF sessions[t] = NoSession THEN NoSession
                     ELSE [card |-> sessions[t].card,
                           until |-> sessions[t].expires]],
         good <- {c \in Codes : Passes(cards[c], now)},
         seats <- [c \in Codes |-> IF cards[c] = NoCard THEN 0
                                                       ELSE cards[c].limit]

ASSUME LeaseAssumption == NoSession \notin Seats!Lease

SessionsAreLeases == Seats!Spec

\* No interleaving of activation, unbinding, extension and stale saves makes a
\* card grant less than it was issued for, or more than was paid for, as long
\* as it was issued once and never archived.
PaidPeriodKept ==
  \A c \in Codes :
    cards[c] # NoCard /\ origin[c] \notin {Never, Spoilt}
      => Duration <= Span(cards[c]) /\ Span(cards[c]) <= paid[c]

\* The row of every expired session is eventually removed, whatever became of
\* its card and whether or not its client ever calls again.
ExpiredSessionsRemoved ==
  \A t \in Tokens : Removable(t) ~> ~Removable(t)
-----------------------------------------------------------------------------
(* What the documents and tests of the repository say, and the code does   *)
(* not do.                                                                 *)

\* "On heartbeat, delete the session when it is expired or the card is no
\* longer valid."
HeartbeatDeletesRefused ==
  answer.op = "heartbeat" /\ answer.verdict \in {"expired", "invalid"}
    => sessions[answer.token] = NoSession

\* "Reject archived authorizations from client activation and session
\* validation."
ArchivedIsRejected ==
  answer.op = "validate" /\ answer.verdict = "ok"
    => cards[sessions[answer.token].card].status # "archived"

\* "Normalize card codes on activation and card comparison": a deactivation
\* that names the session's own card, however written, is not refused as one
\* of another card (which leaves the session and its seat in place).
SpellingIsIgnored ==
  answer.op = "deactivate" /\ answer.claim = "respelled"
    => answer.verdict # "other card"
=============================================================================
