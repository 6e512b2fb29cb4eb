------------------------- MODULE CardSessionsProofs -------------------------
(***************************************************************************)
(* What holds of CardSessions for every value of its constants.            *)
(***************************************************************************)
EXTENDS CardSessions, FiniteSetTheorems, TLAPS

\* Truncation to the second loses less than a second, that is half a unit
\* here, and leaves whole seconds alone.
LEMMA SecFacts ==
  ASSUME NEW t \in Int
  PROVE  /\ Sec(t) \in Int /\ Sec(t) <= t /\ Sec(t) % 2 = 0
         /\ t % 2 = 0 => Sec(t) = t
BY DEF Sec

\* Truncation commutes with whole numbers of seconds.
LEMMA SecShift ==
  ASSUME NEW t \in Int, NEW d \in Int, d % 2 = 0
  PROVE  Sec(t + d) = Sec(t) + d
BY DEF Sec
-----------------------------------------------------------------------------
(* The rows the operations compute are rows.                               *)

LEMMA LimitsArePositive ==
  ASSUME NEW limit \in Limits
  PROVE  limit \in Int /\ limit > 0
BY NamesAssumption

LEMMA RebindType ==
  ASSUME NEW row \in Card, NEW m \in MachineIDs, NEW x \in Int, NEW y \in Int
  PROVE  /\ Rebind(row, m, x, y) \in Card
         /\ Rebind(row, m, x, y).status = row.status
         /\ Rebind(row, m, x, y).created = row.created
         /\ Rebind(row, m, x, y).activated = x
         /\ Rebind(row, m, x, y).expires = y
         /\ Rebind(row, m, x, y).limit = row.limit
BY DEF Rebind, Card

LEMMA ActivatedType ==
  ASSUME NEW row \in Card, NEW m \in MachineIDs, now \in Nat
  PROVE  /\ Activated(row, m) \in Card
         /\ Activated(row, m).limit = row.limit
         /\ Activated(row, m).created = row.created
<1> DEFINE machine == IF row.machine = NoMachine THEN m ELSE row.machine
           x == Sec(IF row.activated = Never THEN now ELSE row.activated)
           y == Sec(IF row.activated = Never THEN now + (row.expires - row.created)
                                             ELSE row.expires)
<1>1. machine \in MachineIDs /\ x \in Int /\ y \in Int
  BY SecFacts DEF Card
<1>2. Activated(row, m) = Rebind(row, machine, x, y)
  BY DEF Activated
<1>3. QED
  BY <1>1, <1>2, RebindType

LEMMA ReleasedType ==
  ASSUME NEW row \in Card, now \in Nat
  PROVE  /\ Released(row) \in Card
         /\ Released(row).limit = row.limit
<1> DEFINE y == Sec(IF row.activated = Never THEN row.expires
                    ELSE now + (row.expires - row.activated))
<1>1. y \in Int /\ Never \in Int /\ NoMachine \in MachineIDs
  BY SecFacts DEF Card, Never, MachineIDs
<1>2. Released(row) = Rebind(row, NoMachine, Never, y)
  BY DEF Released
<1>3. QED
  BY <1>1, <1>2, RebindType

\* What each kind of edit does to a row.
LEMMA EditedType ==
  ASSUME NEW row \in Card, NEW kind \in EditKinds, NEW limit \in Limits
  PROVE  Edited(row, kind, limit) \in Card
<1> DEFINE back == IF row.activated = Never THEN row.expires
                   ELSE row.created + (row.expires - row.activated)
<1>1. /\ back \in Int /\ Never \in Int /\ NoMachine \in MachineIDs
      /\ row.expires \in Int
  BY DEF Card, Never, MachineIDs
<1>2. /\ Rebind(row, NoMachine, Never, back) \in Card
      /\ Rebind(row, NoMachine, Never, row.expires) \in Card
  BY <1>1, RebindType
<1>3. [Rebind(row, NoMachine, Never, row.expires)
         EXCEPT !.status = "archived"] \in Card
  BY <1>2 DEF Card, Status
<1>4. [row EXCEPT !.expires = row.expires + Extra,
                  !.status = IF row.status = "expired" THEN "active"
                                                      ELSE row.status] \in Card
  <2>1. row.expires + Extra \in Int
    BY TimesAssumption DEF Card
  <2>2. (IF row.status = "expired" THEN "active" ELSE row.status) \in Status
    BY DEF Card, Status
  <2>3. [row EXCEPT !.expires = row.expires + Extra] \in Card
    BY <2>1 DEF Card
  <2>4. QED
    BY <2>2, <2>3 DEF Card
<1>5. kind \in AllEdits
  BY NamesAssumption
<1>6. CASE kind \in {"note", "limit", "disable", "freeze", "enable", "restore",
                     "expire"}
  BY <1>6 DEF Edited, Card, Status
<1>7. CASE kind = "extend"
  BY <1>4, <1>7 DEF Edited
<1>8. CASE kind = "unbind"
  BY <1>2, <1>8 DEF Edited
<1>9. CASE kind = "archive"
  BY <1>3, <1>9 DEF Edited
<1>10. QED
  BY <1>5, <1>6, <1>7, <1>8, <1>9 DEF AllEdits

LEMMA UpsertedType ==
  ASSUME NEW old \in Card \cup {NoCard}, NEW row \in Card
  PROVE  /\ Upserted(old, row) \in Card
         /\ Upserted(old, row).limit = row.limit
BY AbsenceAssumption DEF Upserted, Card

LEMMA NoAnswerType == NoAnswer \in Answers
BY DEF NoAnswer, Answers, AllClaims, Verdicts

LEMMA AnswerType ==
  ASSUME NEW op \in {"heartbeat", "validate", "deactivate"},
         NEW tok \in Tokens, NEW claim \in AllClaims, NEW verdict \in Verdicts
  PROVE  Answer(op, tok, claim, verdict) \in Answers
BY DEF Answer, Answers

LEMMA ObserveType ==
  ASSUME Observe, lastGood \in [Codes -> Int], now' \in Nat
  PROVE  lastGood' \in [Codes -> Int]
BY DEF Observe

LEMMA SeenSessionType ==
  ASSUME NEW c \in Codes, NEW m \in MachineIDs, now \in Nat
  PROVE  /\ SeenSession(c, m) \in Session
         /\ SeenSession(c, m).card = c
         /\ SeenSession(c, m).expires = Sec(now + SessionTTL)
BY TimesAssumption, SecFacts DEF SeenSession, Session

LEMMA EndSessionType ==
  ASSUME TypeOK, NEW tok \in Tokens, NEW u \in BOOLEAN,
         sessions[tok] # NoSession, EndSession(tok, u)
  PROVE  /\ cards' \in [Codes -> Card \cup {NoCard}]
         /\ sessions' \in [Tokens -> Session \cup {NoSession}]
         /\ lastGood' \in [Codes -> Int]
<1>1. sessions[tok].card \in Codes
  BY DEF TypeOK, Session
<1>2. cards' \in [Codes -> Card \cup {NoCard}]
  BY <1>1, ReleasedType DEF EndSession, TypeOK
<1>3. QED
  BY <1>2, ObserveType DEF EndSession, TypeOK

\* Type correctness: whatever the constants, every reachable state is a state
\* of the tables and of the requests in flight that the code can store.
THEOREM TypeCorrect == Spec => []TypeOK
<1>1. Init => TypeOK
  BY TimesAssumption, NoAnswerType DEF Init, TypeOK, Never
<1>2. TypeOK /\ [Next]_vars => TypeOK'
  <2> SUFFICES ASSUME TypeOK, [Next]_vars PROVE TypeOK'
    OBVIOUS
  <2> USE NamesAssumption, TimesAssumption, AbsenceAssumption
  <2>0. NoAnswer \in Answers
    BY NoAnswerType
  <2>1. CASE Tick
    BY <2>0, <2>1, ObserveType DEF Tick, TypeOK
  <2>2. ASSUME NEW m \in MachineIDs, NEW c \in Codes, NEW tok \in Tokens,
               Activate(m, c, tok)
        PROVE  TypeOK'
    <3>1. cards[c] \in Card
      BY <2>2 DEF Activate, Passes, TypeOK
    <3>2. cards' \in [Codes -> Card \cup {NoCard}]
      BY <2>2, <3>1, ActivatedType DEF Activate, TypeOK
    <3>3. sessions' \in [Tokens -> Session \cup {NoSession}]
      BY <2>2, SeenSessionType DEF Activate, TypeOK
    <3>4. QED
      BY <2>0, <2>2, <3>2, <3>3, ObserveType DEF Activate, TypeOK
  <2>3. ASSUME NEW tok \in Tokens, NEW m \in MachineIDs, HeartbeatRenew(tok, m)
        PROVE  TypeOK'
    <3>1. sessions' \in [Tokens -> Session \cup {NoSession}]
      <4>1. sessions[tok].card \in Codes /\ sessions[tok].machine \in MachineIDs
        BY <2>3 DEF HeartbeatRenew, TypeOK, Session
      <4>2. QED
        BY <2>3, <4>1, SeenSessionType DEF HeartbeatRenew, TypeOK
    <3>2. answer' \in Answers
      BY <2>3, AnswerType DEF HeartbeatRenew, AllClaims, Verdicts
    <3>3. QED
      BY <2>3, <3>1, <3>2 DEF HeartbeatRenew, TypeOK, history
  <2>4. ASSUME NEW tok \in Tokens, NEW m \in MachineIDs, HeartbeatRefuse(tok, m)
        PROVE  TypeOK'
    <3>1. \/ answer' = Answer("heartbeat", tok, "absent", "expired")
          \/ answer' = Answer("heartbeat", tok, "absent", "invalid")
      BY <2>4 DEF HeartbeatRefuse
    <3>2. answer' \in Answers
      BY <3>1, AnswerType DEF AllClaims, Verdicts
    <3>3. QED
      BY <2>4, <3>2 DEF HeartbeatRefuse, TypeOK, history
  <2>5. ASSUME NEW tok \in Tokens, NEW m \in MachineIDs, NEW claim \in Claims,
               NEW u \in UnbindOnExit, Deactivate(tok, m, claim, u)
        PROVE  TypeOK'
    <3>1. answer' \in Answers
      BY <2>5, AnswerType DEF Deactivate, Verdicts
    <3>2. QED
      BY <2>5, <3>1, EndSessionType DEF Deactivate, TypeOK, EndSession
  <2>6. ASSUME NEW tok \in Tokens, NEW m \in MachineIDs, NEW claim \in Claims,
               DeactivateRefuse(tok, m, claim)
        PROVE  TypeOK'
    <3>1. \/ answer' = Answer("deactivate", tok, claim, "other machine")
          \/ answer' = Answer("deactivate", tok, claim, "other card")
      BY <2>6 DEF DeactivateRefuse
    <3>2. answer' \in Answers
      BY <3>1, AnswerType DEF Verdicts
    <3>3. QED
      BY <2>6, <3>2 DEF DeactivateRefuse, TypeOK, history
  <2>7. ASSUME NEW tok \in Tokens, NEW m \in MachineIDs, NEW claim \in Claims,
               ValidateBound(tok, m, claim)
        PROVE  TypeOK'
    <3>1. BoundVerdict(tok, m, claim) \in Verdicts
      BY DEF BoundVerdict, Verdicts
    <3>2. answer' \in Answers
      BY <2>7, <3>1, AnswerType DEF ValidateBound
    <3>3. QED
      BY <2>7, <3>2 DEF ValidateBound, TypeOK, history
  <2>8. ASSUME NEW tok \in Tokens, ForceLogout(tok)
        PROVE  TypeOK'
    BY <2>0, <2>8, EndSessionType DEF ForceLogout, TypeOK, EndSession
  <2>9. ASSUME NEW c \in Codes, NEW limit \in Limits, CreateCard(c, limit)
        PROVE  TypeOK'
    <3>1. cards' \in [Codes -> Card \cup {NoCard}]
      BY <2>9 DEF CreateCard, TypeOK, Card, Status, MachineIDs, Never
    <3>2. /\ paid' \in [Codes -> Int] /\ peak' \in [Codes -> Int]
          /\ origin' \in [Codes -> Int]
      BY <2>9 DEF CreateCard, TypeOK, Larger, Spoilt
    <3>3. QED
      BY <2>0, <2>9, <3>1, <3>2, ObserveType DEF CreateCard, TypeOK
  <2>10. ASSUME NEW a \in Admins, NEW c \in Codes, NEW kind \in EditKinds,
                NEW limit \in Limits, ReadForEdit(a, c, kind, limit)
         PROVE  TypeOK'
    <3>1. Edited(cards[c], kind, limit) \in Card
      BY <2>10, EditedType DEF ReadForEdit, TypeOK
    <3>2. saving' \in [Admins -> Edit \cup {Idle}]
      BY <2>10, <3>1 DEF ReadForEdit, TypeOK, Edit
    <3>3. QED
      BY <2>0, <2>10, <3>2 DEF ReadForEdit, TypeOK, history
  <2>11. ASSUME NEW a \in Admins, SaveEdit(a)
         PROVE  TypeOK'
    <3>1. saving[a] \in Edit
      BY <2>11 DEF SaveEdit, TypeOK
    <3>2. cards' \in [Codes -> Card \cup {NoCard}]
      BY <2>11, <3>1, UpsertedType DEF SaveEdit, TypeOK, Edit
    <3>3. saving[a].row.limit \in Int
      <4>1. saving[a].row.limit \in Limits
        BY <3>1 DEF Edit, Card
      <4>2. QED
        BY <4>1, LimitsArePositive
    <3>4. /\ paid' \in [Codes -> Int] /\ peak' \in [Codes -> Int]
          /\ origin' \in [Codes -> Int]
      BY <2>11, <3>1, <3>3 DEF SaveEdit, TypeOK, Larger, Spoilt, Edit
    <3>5. saving' \in [Admins -> Edit \cup {Idle}]
      BY <2>11 DEF SaveEdit, TypeOK
    <3>6. QED
      BY <2>0, <2>11, <3>2, <3>4, <3>5, ObserveType DEF SaveEdit, TypeOK
  <2>12. ASSUME NEW c \in Codes, DeleteCard(c)
         PROVE  TypeOK'
    BY <2>0, <2>12 DEF DeleteCard, TypeOK, history
  <2>13. ASSUME NEW v \in Blockable, BlacklistAdd(v)
         PROVE  TypeOK'
    BY <2>0, <2>13 DEF BlacklistAdd, TypeOK, history
  <2>14. ASSUME NEW v \in blacklist, BlacklistRemove(v)
         PROVE  TypeOK'
    BY <2>0, <2>14 DEF BlacklistRemove, TypeOK, history
  <2>15. CASE CleanupExpired
    BY <2>0, <2>15 DEF CleanupExpired, TypeOK, history
  <2>16. CASE Restart \/ \E a \in Admins : FailEdit(a)
    BY <2>0, <2>16 DEF Restart, FailEdit, TypeOK, history
  <2>17. CASE UNCHANGED vars
    BY <2>17 DEF vars, history, TypeOK
  <2>18. QED
    BY <2>1, <2>2, <2>3, <2>4, <2>5, <2>6, <2>7, <2>8, <2>9, <2>10, <2>11,
       <2>12, <2>13, <2>14, <2>15, <2>16, <2>17
    DEF Next, ClientRequest, AdminRequest
<1>3. QED
  BY <1>1, <1>2, PTL DEF Spec
-----------------------------------------------------------------------------
(* Sessions end within a TTL of the refusal of their card.                 *)

\* lastGood is up to date: it is now exactly for the cards that pass.
GoodIsCurrent ==
  \A c \in Codes : /\ lastGood[c] <= now
                   /\ Passes(cards[c], now) => lastGood[c] = now

RefusalInv == GoodIsCurrent /\ RefusalEndsSessions

LEMMA ObserveKeepsCurrent ==
  ASSUME TypeOK, TypeOK', GoodIsCurrent, Observe, now <= now'
  PROVE  /\ GoodIsCurrent'
         /\ \A c \in Codes : lastGood[c] <= lastGood'[c]
<1>1. ASSUME NEW c \in Codes
      PROVE  /\ lastGood'[c] <= now'
             /\ Passes(cards'[c], now') => lastGood'[c] = now'
             /\ lastGood[c] <= lastGood'[c]
  <2>1. lastGood'[c] = IF Passes(cards'[c], now') THEN now' ELSE lastGood[c]
    BY DEF Observe
  <2>2. lastGood[c] \in Int /\ now \in Int /\ now' \in Int /\ lastGood[c] <= now
    BY DEF TypeOK, GoodIsCurrent
  <2>3. QED
    BY <2>1, <2>2
<1>2. QED
  BY <1>1 DEF GoodIsCurrent, Passes

\* Sessions that a step leaves alone or removes keep the bound.
LEMMA RefusalCarried ==
  ASSUME TypeOK, TypeOK', RefusalEndsSessions,
         \A c \in Codes : lastGood[c] <= lastGood'[c],
         \A t \in Tokens : sessions'[t] \in {NoSession, sessions[t]}
  PROVE  RefusalEndsSessions'
<1> SUFFICES ASSUME NEW t \in Tokens, sessions'[t] # NoSession
             PROVE  sessions'[t].expires
                      <= lastGood'[sessions'[t].card] + SessionTTL
  BY DEF RefusalEndsSessions
<1>1. sessions'[t] = sessions[t] /\ sessions[t] \in Session
  BY DEF TypeOK
<1>2. /\ sessions[t].card \in Codes /\ sessions[t].expires \in Int
      /\ sessions[t].expires <= lastGood[sessions[t].card] + SessionTTL
  BY <1>1 DEF Session, RefusalEndsSessions
<1>3. /\ lastGood[sessions[t].card] \in Int
      /\ lastGood'[sessions[t].card] \in Int
      /\ lastGood[sessions[t].card] <= lastGood'[sessions[t].card]
  BY <1>2 DEF TypeOK
<1>4. QED
  BY <1>1, <1>2, <1>3, TimesAssumption

\* A session seen now, of a card that passes now, is within the bound.
LEMMA RefusalSeen ==
  ASSUME TypeOK, TypeOK', RefusalEndsSessions, GoodIsCurrent,
         NEW tok \in Tokens, NEW c \in Codes, NEW m \in MachineIDs,
         Passes(cards[c], now),
         \A d \in Codes : lastGood[d] <= lastGood'[d],
         sessions' = [sessions EXCEPT ![tok] = SeenSession(c, m)]
  PROVE  RefusalEndsSessions'
<1> SUFFICES ASSUME NEW t \in Tokens, sessions'[t] # NoSession
             PROVE  sessions'[t].expires
                      <= lastGood'[sessions'[t].card] + SessionTTL
  BY DEF RefusalEndsSessions
<1>1. CASE t = tok
  <2>1. sessions'[t] = SeenSession(c, m)
    BY <1>1 DEF TypeOK
  <2>2. /\ sessions'[t].card = c
        /\ sessions'[t].expires = Sec(now + SessionTTL)
    BY <2>1, SeenSessionType DEF TypeOK
  <2>3. Sec(now + SessionTTL) \in Int /\ Sec(now + SessionTTL) <= now + SessionTTL
    BY SecFacts, TimesAssumption DEF TypeOK
  <2>4. now <= lastGood'[c] /\ lastGood'[c] \in Int /\ now \in Int
    BY DEF GoodIsCurrent, TypeOK
  <2>5. QED
    BY <2>2, <2>3, <2>4, TimesAssumption
<1>2. CASE t # tok
  <2>1. sessions'[t] = sessions[t] /\ sessions[t] \in Session
    BY <1>2 DEF TypeOK
  <2>2. /\ sessions[t].card \in Codes /\ sessions[t].expires \in Int
        /\ sessions[t].expires <= lastGood[sessions[t].card] + SessionTTL
    BY <2>1 DEF Session, RefusalEndsSessions
  <2>3. /\ lastGood[sessions[t].card] \in Int
        /\ lastGood'[sessions[t].card] \in Int
        /\ lastGood[sessions[t].card] <= lastGood'[sessions[t].card]
    BY <2>2 DEF TypeOK
  <2>4. QED
    BY <2>1, <2>2, <2>3, TimesAssumption
<1>3. QED
  BY <1>1, <1>2

\* A step that observes the cards and opens or renews no session.
LEMMA RefusalObserved ==
  ASSUME TypeOK, TypeOK', RefusalInv, Observe, now <= now',
         \A t \in Tokens : sessions'[t] \in {NoSession, sessions[t]}
  PROVE  RefusalInv'
BY ObserveKeepsCurrent, RefusalCarried DEF RefusalInv

\* A step that leaves the clock alone, changes no card, or deletes one, and
\* opens or renews no session.
LEMMA RefusalQuiet ==
  ASSUME TypeOK, TypeOK', RefusalInv, now' = now, lastGood' = lastGood,
         \A c \in Codes : cards'[c] \in {NoCard, cards[c]},
         \A t \in Tokens : sessions'[t] \in {NoSession, sessions[t]}
  PROVE  RefusalInv'
<1>1. GoodIsCurrent'
  BY DEF RefusalInv, GoodIsCurrent, Passes
<1>2. \A c \in Codes : lastGood[c] <= lastGood'[c]
  BY DEF TypeOK
<1>3. QED
  BY <1>1, <1>2, RefusalCarried DEF RefusalInv

\* No session lives longer than a TTL past the last instant at which its card
\* passed a heartbeat, for every number of cards, tokens and administrators
\* and every interleaving of their requests (Heartbeat, service.go:144-182).
THEOREM RefusalHolds == Spec => []RefusalEndsSessions
<1>1. Init => RefusalInv
  BY DEF Init, RefusalInv, GoodIsCurrent, RefusalEndsSessions, Passes, Never
<1>2. TypeOK /\ TypeOK' /\ RefusalInv /\ [Next]_vars => RefusalInv'
  <2> SUFFICES ASSUME TypeOK, TypeOK', RefusalInv, [Next]_vars
               PROVE  RefusalInv'
    OBVIOUS
  <2>1. CASE Tick
    <3>1. now <= now'
      BY <2>1, TimesAssumption DEF Tick, TypeOK
    <3>2. QED
      BY <2>1, <3>1, RefusalObserved DEF Tick
  <2>2. ASSUME NEW m \in MachineIDs, NEW c \in Codes, NEW tok \in Tokens,
               Activate(m, c, tok)
        PROVE  RefusalInv'
    <3>1. /\ now <= now' /\ Observe /\ Passes(cards[c], now)
          /\ sessions' = [sessions EXCEPT ![tok] = SeenSession(c, m)]
      BY <2>2 DEF Activate, TypeOK
    <3>2. GoodIsCurrent' /\ \A d \in Codes : lastGood[d] <= lastGood'[d]
      BY <3>1, ObserveKeepsCurrent DEF RefusalInv
    <3>3. QED
      BY <3>1, <3>2, RefusalSeen DEF RefusalInv
  <2>3. ASSUME NEW tok \in Tokens, NEW m \in MachineIDs, HeartbeatRenew(tok, m)
        PROVE  RefusalInv'
    <3> DEFINE c == sessions[tok].card
               n == sessions[tok].machine
    <3>1. c \in Codes /\ n \in MachineIDs
      BY <2>3 DEF HeartbeatRenew, TypeOK, Session
    <3>2. /\ Passes(cards[c], now)
          /\ sessions' = [sessions EXCEPT ![tok] = SeenSession(c, n)]
          /\ now' = now /\ cards' = cards /\ lastGood' = lastGood
      BY <2>3 DEF HeartbeatRenew, history
    <3>3. \A d \in Codes : lastGood[d] <= lastGood'[d]
      BY <3>2 DEF TypeOK
    <3>4. GoodIsCurrent'
      BY <3>2 DEF RefusalInv, GoodIsCurrent, Passes
    <3>5. RefusalEndsSessions'
      BY <3>1, <3>2, <3>3, RefusalSeen DEF RefusalInv
    <3>6. QED
      BY <3>4, <3>5 DEF RefusalInv
  <2>4. ASSUME NEW tok \in Tokens, NEW m \in MachineIDs, HeartbeatRefuse(tok, m)
        PROVE  RefusalInv'
    BY <2>4, RefusalQuiet DEF HeartbeatRefuse, history
  <2>5. ASSUME NEW tok \in Tokens, NEW u, EndSession(tok, u)
        PROVE  RefusalInv'
    <3>1. now <= now' /\ Observe
      BY <2>5 DEF EndSession, TypeOK
    <3>2. \A t \in Tokens : sessions'[t] \in {NoSession, sessions[t]}
      BY <2>5 DEF EndSession, TypeOK
    <3>3. QED
      BY <3>1, <3>2, RefusalObserved
  <2>6. ASSUME NEW tok \in Tokens, NEW m \in MachineIDs, NEW claim \in Claims,
               DeactivateRefuse(tok, m, claim) \/ ValidateBound(tok, m, claim)
        PROVE  RefusalInv'
    BY <2>6, RefusalQuiet DEF DeactivateRefuse, ValidateBound, history
  <2>7. ASSUME NEW c \in Codes, NEW limit \in Limits, CreateCard(c, limit)
        PROVE  RefusalInv'
    <3>1. now <= now' /\ Observe /\ sessions' = sessions
      BY <2>7 DEF CreateCard, TypeOK
    <3>2. QED
      BY <3>1, RefusalObserved
  <2>8. ASSUME NEW a \in Admins, NEW c \in Codes, NEW kind \in EditKinds,
               NEW limit \in Limits, ReadForEdit(a, c, kind, limit)
        PROVE  RefusalInv'
    BY <2>8, RefusalQuiet DEF ReadForEdit, history
  <2>9. ASSUME NEW a \in Admins, SaveEdit(a)
        PROVE  RefusalInv'
    <3>1. now <= now' /\ Observe /\ sessions' = sessions
      BY <2>9 DEF SaveEdit, TypeOK
    <3>2. QED
      BY <3>1, RefusalObserved
  <2>10. ASSUME NEW c \in Codes, DeleteCard(c)
         PROVE  RefusalInv'
    <3>1. \A d \in Codes : cards'[d] \in {NoCard, cards[d]}
      BY <2>10 DEF DeleteCard, TypeOK
    <3>2. QED
      BY <2>10, <3>1, RefusalQuiet DEF DeleteCard, history
  <2>11. ASSUME NEW v, BlacklistAdd(v) \/ BlacklistRemove(v)
         PROVE  RefusalInv'
    BY <2>11, RefusalQuiet DEF BlacklistAdd, BlacklistRemove, history
  <2>12. CASE CleanupExpired
    <3>1. \A t \in Tokens : sessions'[t] \in {NoSession, sessions[t]}
      BY <2>12 DEF CleanupExpired
    <3>2. QED
      BY <2>12, <3>1, RefusalQuiet DEF CleanupExpired, history
  <2>13. CASE Restart \/ \E a \in Admins : FailEdit(a)
    BY <2>13, RefusalQuiet DEF Restart, FailEdit, history
  <2>14. CASE UNCHANGED vars
    BY <2>14, RefusalQuiet DEF vars, history
  <2>15. QED
    BY <2>1, <2>2, <2>3, <2>4, <2>5, <2>6, <2>7, <2>8, <2>9, <2>10, <2>11,
       <2>12, <2>13, <2>14
    DEF Next, ClientRequest, AdminRequest, Deactivate, ForceLogout
<1>3. QED
  BY <1>1, <1>2, TypeCorrect, PTL DEF Spec, RefusalInv
-----------------------------------------------------------------------------
(* A card grants what was paid for.                                        *)

Pristine(c) == origin[c] \notin {Never, Spoilt}

\* The row grants a whole number of seconds, between what the card was issued
\* for and p, from its issue or from an activation on a whole second.
PeriodFits(c, row, p) ==
  /\ row.created = origin[c]
  /\ row.activated = Never \/ row.activated % 2 = 0
  /\ Span(row) % 2 = 0
  /\ Duration <= Span(row) /\ Span(row) <= p

\* The rows in flight are as good as the rows stored.
PaidInv ==
  /\ \A c \in Codes : paid[c] >= 0
  /\ \A c \in Codes : origin[c] = Never =>
       /\ cards[c] = NoCard
       /\ \A a \in Admins : saving[a] # Idle => saving[a].code # c
  /\ \A c \in Codes : Pristine(c) /\ cards[c] # NoCard
       => PeriodFits(c, cards[c], paid[c])
  /\ \A c \in Codes, a \in Admins :
       Pristine(c) /\ saving[a] # Idle
         => (saving[a].code = c /\ ~saving[a].archives
               => PeriodFits(c, saving[a].row, paid[c] + saving[a].buys))

LEMMA SpanType ==
  ASSUME NEW row \in Card
  PROVE  Span(row) \in Int
BY DEF Span, Card

LEMMA ActivatedSpan ==
  ASSUME NEW row \in Card, NEW m \in MachineIDs, now \in Nat,
         row.activated = Never \/ row.activated % 2 = 0, Span(row) % 2 = 0
  PROVE  /\ Activated(row, m).activated % 2 = 0
         /\ Span(Activated(row, m)) = Span(row)
<1> DEFINE machine == IF row.machine = NoMachine THEN m ELSE row.machine
           x == Sec(IF row.activated = Never THEN now ELSE row.activated)
           y == Sec(IF row.activated = Never THEN now + (row.expires - row.created)
                                             ELSE row.expires)
<1>0. /\ row.created \in Int /\ row.activated \in Int /\ row.expires \in Int
  BY DEF Card
<1>1. machine \in MachineIDs /\ x \in Int /\ y \in Int
  BY <1>0, SecFacts DEF Card
<1>2. Activated(row, m) = Rebind(row, machine, x, y)
  BY DEF Activated
<1>3. Activated(row, m).activated = x /\ Activated(row, m).expires = y
  BY <1>1, <1>2, RebindType
<1>4. x % 2 = 0 /\ x # Never
  BY <1>0, SecFacts DEF Never
<1>5. CASE row.activated = Never
  <2>1. Span(row) = row.expires - row.created
    BY <1>5 DEF Span
  <2>2. x = Sec(now) /\ y = Sec(now + (row.expires - row.created))
    BY <1>5
  <2>3. y = Sec(now) + (row.expires - row.created)
    <3>1. /\ row.expires - row.created \in Int
          /\ (row.expires - row.created) % 2 = 0
      BY <1>0, <2>1
    <3>2. QED
      BY <2>2, <3>1, SecShift
  <2>4. Sec(now) \in Int
    BY SecFacts
  <2>5. y - x = Span(row)
    BY <1>0, <2>1, <2>2, <2>3, <2>4
  <2>6. QED
    BY <1>3, <1>4, <2>5 DEF Span
<1>6. CASE row.activated # Never
  <2>1. Span(row) = row.expires - row.activated /\ row.activated % 2 = 0
    BY <1>6 DEF Span
  <2>2. row.expires % 2 = 0
    BY <1>0, <2>1
  <2>3. x = row.activated /\ y = row.expires
    BY <1>0, <1>6, <2>1, <2>2, SecFacts
  <2>4. QED
    BY <1>3, <1>4, <2>1, <2>3 DEF Span
<1>7. QED
  BY <1>5, <1>6

\* Every edit but archiving keeps the issue and adds to the period exactly
\* what it buys.
LEMMA EditedSpan ==
  ASSUME NEW row \in Card, NEW kind \in EditKinds, NEW limit \in Limits,
         kind # "archive"
  PROVE  LET new == Edited(row, kind, limit) IN
         /\ new.created = row.created
         /\ new.activated \in {row.activated, Never}
         /\ Span(new) = Span(row) + (IF kind = "extend" THEN Extra ELSE 0)
<1> DEFINE new == Edited(row, kind, limit)
           back == IF row.activated = Never THEN row.expires
                   ELSE row.created + (row.expires - row.activated)
<1>0. /\ row.created \in Int /\ row.activated \in Int /\ row.expires \in Int
      /\ Extra \in Int
  BY TimesAssumption DEF Card
<1>1. kind \in AllEdits
  BY NamesAssumption
<1>2. CASE kind \in {"note", "limit", "disable", "freeze", "enable", "restore",
                     "expire"}
  <2>1. /\ new.created = row.created /\ new.activated = row.activated
        /\ new.expires = row.expires
    BY <1>2 DEF Edited, Card
  <2>2. QED
    BY <1>0, <1>2, <2>1 DEF Span
<1>3. CASE kind = "extend"
  <2>1. /\ new.created = row.created /\ new.activated = row.activated
        /\ new.expires = row.expires + Extra
    BY <1>3 DEF Edited, Card
  <2>2. QED
    BY <1>0, <1>3, <2>1 DEF Span
<1>4. CASE kind = "unbind"
  <2>1. back \in Int /\ Never \in Int /\ NoMachine \in MachineIDs
    BY <1>0 DEF Never, MachineIDs
  <2>2. new = Rebind(row, NoMachine, Never, back)
    BY <1>4 DEF Edited
  <2>3. /\ new.created = row.created /\ new.activated = Never
        /\ new.expires = back
    BY <2>1, <2>2, RebindType
  <2>4. Span(new) = back - row.created
    BY <2>3 DEF Span
  <2>5. back - row.created = Span(row)
    BY <1>0 DEF Span
  <2>6. Span(row) \in Int
    BY SpanType
  <2>7. QED
    BY <1>4, <2>3, <2>4, <2>5, <2>6
<1>5. QED
  BY <1>1, <1>2, <1>3, <1>4 DEF AllEdits

\* A step that changes no period, no history and no request in flight, except
\* that it may delete cards or give requests up.
LEMMA PaidQuiet ==
  ASSUME PaidInv, paid' = paid, origin' = origin,
         \A c \in Codes : cards'[c] \in {NoCard, cards[c]},
         \A a \in Admins : saving'[a] \in {Idle, saving[a]}
  PROVE  PaidInv'
BY DEF PaidInv, Pristine, PeriodFits

\* An activation moves the period of one card and changes nothing else of it.
LEMMA PaidActivated ==
  ASSUME TypeOK, PaidInv, NEW m \in MachineIDs, NEW c \in Codes,
         cards[c] # NoCard,
         cards' = [cards EXCEPT ![c] = Activated(cards[c], m)],
         paid' = paid, origin' = origin, saving' = saving
  PROVE  PaidInv'
<1>1. cards[c] \in Card /\ now \in Nat
  BY DEF TypeOK
<1>2. cards'[c] = Activated(cards[c], m)
  BY DEF TypeOK
<1>3. \A d \in Codes : d # c => cards'[d] = cards[d]
  BY DEF TypeOK
<1>4. origin[c] # Never
  BY DEF PaidInv
<1>5. ASSUME Pristine(c)
      PROVE  PeriodFits(c, cards[c], paid[c])'
  <2>1. PeriodFits(c, cards[c], paid[c])
    BY <1>5 DEF PaidInv
  <2>2. /\ cards'[c].activated % 2 = 0
        /\ Span(cards'[c]) = Span(cards[c])
        /\ cards'[c].created = cards[c].created
    BY <1>1, <1>2, <2>1, ActivatedSpan, ActivatedType DEF PeriodFits
  <2>3. QED
    BY <2>1, <2>2 DEF PeriodFits
<1>6. \A d \in Codes : Pristine(d) /\ cards'[d] # NoCard
         => PeriodFits(d, cards[d], paid[d])'
  <2> SUFFICES ASSUME NEW d \in Codes, Pristine(d), cards'[d] # NoCard
               PROVE  PeriodFits(d, cards[d], paid[d])'
    OBVIOUS
  <2>1. CASE d = c
    BY <1>5, <2>1
  <2>2. CASE d # c
    BY <1>3, <2>2 DEF PaidInv, PeriodFits
  <2>3. QED
    BY <2>1, <2>2
<1>7. \A d \in Codes, a \in Admins :
        Pristine(d) /\ saving[a] # Idle
          => (saving[a].code = d /\ ~saving[a].archives
                => PeriodFits(d, saving[a].row, paid[d] + saving[a].buys)')
  BY DEF PaidInv, PeriodFits
<1>8. \A d \in Codes : origin[d] = Never =>
         /\ cards'[d] = NoCard
         /\ \A a \in Admins : saving[a] # Idle => saving[a].code # d
  BY <1>3, <1>4 DEF PaidInv
<1>9. QED
  BY <1>6, <1>7, <1>8 DEF PaidInv, Pristine

LEMMA PaidCreated ==
  ASSUME TypeOK, PaidInv, NEW c \in Codes, NEW limit \in Limits,
         CreateCard(c, limit)
  PROVE  PaidInv'
<1>1. /\ paid'[c] = paid[c] + Duration
      /\ origin'[c] = IF origin[c] = Never THEN now ELSE Spoilt
      /\ cards'[c] # NoCard /\ saving' = saving
      /\ cards'[c].created = now /\ cards'[c].activated = Never
      /\ cards'[c].expires = now + Duration
      /\ \A d \in Codes : d # c => /\ paid'[d] = paid[d]
                                  /\ origin'[d] = origin[d]
                                  /\ cards'[d] = cards[d]
  <2> DEFINE new == [status |-> "active", machine |-> NoMachine,
                     created |-> now, activated |-> Never,
                     expires |-> now + Duration, limit |-> limit]
  <2>1. new \in Card
    BY TimesAssumption DEF TypeOK, Card, Status, MachineIDs, Never
  <2>2. cards'[c] = new /\ new # NoCard
    BY <2>1, AbsenceAssumption DEF CreateCard, TypeOK
  <2>3. QED
    BY <2>2 DEF CreateCard, TypeOK
<1>2. /\ paid[c] \in Int /\ paid[c] >= 0 /\ now \in Nat
      /\ Duration \in Int /\ Duration > 0 /\ Duration % 2 = 0
  BY TimesAssumption DEF TypeOK, PaidInv
<1>3. origin'[c] # Never
  BY <1>1, <1>2 DEF Never, Spoilt
<1>4. ASSUME origin'[c] \notin {Never, Spoilt}
      PROVE  PeriodFits(c, cards[c], paid[c])'
  <2>1. origin[c] = Never /\ origin'[c] = now
    BY <1>1, <1>4
  <2>2. Span(cards'[c]) = Duration
    BY <1>1, <1>2 DEF Span
  <2>3. QED
    BY <1>1, <1>2, <2>1, <2>2 DEF PeriodFits
<1>5. ASSUME NEW a \in Admins, saving[a] # Idle, saving[a].code = c
      PROVE  origin'[c] = Spoilt
  BY <1>1, <1>5 DEF PaidInv
<1>6. \A d \in Codes : paid'[d] >= 0
  BY <1>1, <1>2 DEF PaidInv
<1>7. \A d \in Codes : origin'[d] = Never =>
         /\ cards'[d] = NoCard
         /\ \A a \in Admins : saving'[a] # Idle => saving'[a].code # d
  BY <1>1, <1>3 DEF PaidInv
<1>8. \A d \in Codes : Pristine(d)' /\ cards'[d] # NoCard
         => PeriodFits(d, cards[d], paid[d])'
  <2> SUFFICES ASSUME NEW d \in Codes, Pristine(d)', cards'[d] # NoCard
               PROVE  PeriodFits(d, cards[d], paid[d])'
    OBVIOUS
  <2>1. CASE d = c
    BY <1>4, <2>1 DEF Pristine
  <2>2. CASE d # c
    BY <1>1, <2>2 DEF PaidInv, PeriodFits, Pristine
  <2>3. QED
    BY <2>1, <2>2
<1>9. \A d \in Codes, a \in Admins :
        Pristine(d)' /\ saving'[a] # Idle
          => (saving'[a].code = d /\ ~saving'[a].archives
                => PeriodFits(d, saving[a].row, paid[d] + saving[a].buys)')
  <2> SUFFICES ASSUME NEW d \in Codes, NEW a \in Admins, Pristine(d)',
                      saving[a] # Idle, saving[a].code = d, ~saving[a].archives
               PROVE  PeriodFits(d, saving[a].row, paid[d] + saving[a].buys)'
    BY <1>1
  <2>1. d # c
    BY <1>5 DEF Pristine
  <2>2. QED
    BY <1>1, <2>1 DEF PaidInv, PeriodFits, Pristine
<1>10. QED
  BY <1>6, <1>7, <1>8, <1>9 DEF PaidInv

LEMMA PaidRead ==
  ASSUME TypeOK, PaidInv, NEW a \in Admins, NEW c \in Codes,
         NEW kind \in EditKinds, NEW limit \in Limits,
         ReadForEdit(a, c, kind, limit)
  PROVE  PaidInv'
<1> DEFINE new == Edited(cards[c], kind, limit)
           buys == IF kind = "extend" THEN Extra ELSE 0
<1>1. cards[c] \in Card /\ cards[c] # NoCard
  BY DEF ReadForEdit, TypeOK
<1>2. /\ saving'[a].code = c /\ saving'[a].row = new
      /\ saving'[a].buys = buys /\ saving'[a].archives = (kind = "archive")
      /\ \A b \in Admins : b # a => saving'[b] = saving[b]
      /\ cards' = cards /\ paid' = paid /\ origin' = origin
  BY DEF ReadForEdit, TypeOK, history
<1>3. origin[c] # Never
  BY <1>1 DEF PaidInv
<1>4. ASSUME Pristine(c), kind # "archive"
      PROVE  PeriodFits(c, new, paid[c] + buys)
  <2>1. PeriodFits(c, cards[c], paid[c])
    BY <1>1, <1>4 DEF PaidInv
  <2>2. /\ new.created = cards[c].created
        /\ new.activated \in {cards[c].activated, Never}
        /\ Span(new) = Span(cards[c]) + buys
    BY <1>1, <1>4, EditedSpan
  <2>3. /\ Span(cards[c]) \in Int /\ paid[c] \in Int
        /\ Extra \in Int /\ Extra > 0 /\ Extra % 2 = 0 /\ Duration \in Int
    BY <1>1, SpanType, TimesAssumption DEF TypeOK
  <2>4. Span(new) % 2 = 0 /\ Duration <= Span(new) /\ Span(new) <= paid[c] + buys
    <3>1. buys \in Int /\ buys >= 0 /\ buys % 2 = 0
      BY <2>3
    <3>2. QED
      BY <2>1, <2>2, <2>3, <3>1 DEF PeriodFits
  <2>5. QED
    BY <2>1, <2>2, <2>4 DEF PeriodFits
<1>5. \A d \in Codes, b \in Admins :
        Pristine(d) /\ saving'[b] # Idle
          => (saving'[b].code = d /\ ~saving'[b].archives
                => PeriodFits(d, saving'[b].row, paid[d] + saving'[b].buys))
  <2> SUFFICES ASSUME NEW d \in Codes, NEW b \in Admins, Pristine(d),
                      saving'[b] # Idle, saving'[b].code = d,
                      ~saving'[b].archives
               PROVE  PeriodFits(d, saving'[b].row, paid[d] + saving'[b].buys)
    OBVIOUS
  <2>1. CASE b = a
    BY <1>2, <1>4, <2>1
  <2>2. CASE b # a
    BY <1>2, <2>2 DEF PaidInv
  <2>3. QED
    BY <2>1, <2>2
<1>6. \A d \in Codes : origin[d] = Never =>
         \A b \in Admins : saving'[b] # Idle => saving'[b].code # d
  BY <1>2, <1>3 DEF PaidInv
<1>7. QED
  BY <1>2, <1>5, <1>6 DEF PaidInv, Pristine, PeriodFits

LEMMA PaidSaved ==
  ASSUME TypeOK, PaidInv, NEW a \in Admins, SaveEdit(a)
  PROVE  PaidInv'
<1> DEFINE e == saving[a]
<1>0. e # Idle /\ e \in Edit
  BY DEF SaveEdit, TypeOK
<1> PICK c \in Codes : c = e.code
  BY <1>0 DEF Edit
<1>1. e # Idle /\ e.row \in Card /\ e.buys \in Int /\ e.buys >= 0
  BY <1>0, TimesAssumption DEF Edit
<1>2. /\ cards'[c] = Upserted(cards[c], e.row)
      /\ paid'[c] = paid[c] + e.buys
      /\ origin'[c] = IF e.archives THEN Spoilt ELSE origin[c]
      /\ saving'[a] = Idle
      /\ \A b \in Admins : b # a => saving'[b] = saving[b]
      /\ \A d \in Codes : d # c => /\ paid'[d] = paid[d]
                                  /\ origin'[d] = origin[d]
                                  /\ cards'[d] = cards[d]
  BY <1>1 DEF SaveEdit, TypeOK
<1>3. origin[c] # Never
  BY <1>1 DEF PaidInv
<1>4. paid[c] \in Int /\ paid[c] >= 0 /\ paid[c] <= paid'[c]
  BY <1>1, <1>2 DEF PaidInv, TypeOK
<1>5. ASSUME origin'[c] \notin {Never, Spoilt}
      PROVE  PeriodFits(c, cards[c], paid[c])'
  <2>1. origin'[c] = origin[c] /\ ~e.archives /\ Pristine(c)
    BY <1>2, <1>5 DEF Pristine
  <2>2. PeriodFits(c, e.row, paid[c] + e.buys)
    BY <1>1, <2>1 DEF PaidInv
  <2>3. cards[c] # NoCard => cards[c].created = origin[c]
    BY <1>1, <2>1 DEF PaidInv, PeriodFits
  <2>4. /\ cards'[c].created = origin[c]
        /\ cards'[c].activated = e.row.activated
        /\ cards'[c].expires = e.row.expires
    BY <1>1, <1>2, <2>2, <2>3 DEF Upserted, PeriodFits, Card
  <2>5. Span(cards'[c]) = Span(e.row)
    BY <2>2, <2>4 DEF Span, PeriodFits
  <2>6. QED
    BY <1>2, <2>1, <2>2, <2>4, <2>5 DEF PeriodFits
<1>6. \A d \in Codes : paid'[d] >= 0
  BY <1>1, <1>2, <1>4 DEF PaidInv
<1>7. \A d \in Codes : origin'[d] = Never =>
         /\ cards'[d] = NoCard
         /\ \A b \in Admins : saving'[b] # Idle => saving'[b].code # d
  <2>1. Spoilt # Never
    BY DEF Spoilt, Never
  <2>2. QED
    BY <1>2, <1>3, <2>1 DEF PaidInv
<1>8. \A d \in Codes : Pristine(d)' /\ cards'[d] # NoCard
         => PeriodFits(d, cards[d], paid[d])'
  <2> SUFFICES ASSUME NEW d \in Codes, Pristine(d)', cards'[d] # NoCard
               PROVE  PeriodFits(d, cards[d], paid[d])'
    OBVIOUS
  <2>1. CASE d = c
    BY <1>5, <2>1 DEF Pristine
  <2>2. CASE d # c
    BY <1>2, <2>2 DEF PaidInv, PeriodFits, Pristine
  <2>3. QED
    BY <2>1, <2>2
<1>9. \A d \in Codes, b \in Admins :
        Pristine(d)' /\ saving'[b] # Idle
          => (saving'[b].code = d /\ ~saving'[b].archives
                => PeriodFits(d, saving[b].row, paid[d] + saving[b].buys)')
  <2> SUFFICES ASSUME NEW d \in Codes, NEW b \in Admins, Pristine(d)',
                      saving'[b] # Idle, saving'[b].code = d,
                      ~saving'[b].archives
               PROVE  PeriodFits(d, saving[b].row, paid[d] + saving[b].buys)'
    OBVIOUS
  <2>1. b # a /\ saving'[b] = saving[b]
    BY <1>2
  <2>2. Pristine(d) /\ origin'[d] = origin[d]
    BY <1>2 DEF Pristine
  <2>3. PeriodFits(d, saving[b].row, paid[d] + saving[b].buys)
    BY <2>1, <2>2 DEF PaidInv
  <2>4. /\ saving[b].buys \in Int /\ saving[b].row \in Card
        /\ paid[d] \in Int /\ paid'[d] \in Int /\ paid[d] <= paid'[d]
    BY <1>1, <1>2, <1>4, <2>1, TimesAssumption DEF TypeOK, Edit
  <2>5. Span(saving[b].row) \in Int
    BY <2>4, SpanType
  <2>6. QED
    BY <2>1, <2>2, <2>3, <2>4, <2>5 DEF PeriodFits
<1>10. QED
  BY <1>6, <1>7, <1>8, <1>9 DEF PaidInv

\* A card that was issued once and never archived grants between the period of
\* its issue and the period paid for, for every number of administrators whose
\* reads and saves interleave with each other and with activations.  Assumes
\* what every handler does, that no session is ended with Unbind set.
THEOREM PaidHolds ==
  ASSUME UnbindOnExit = {FALSE}
  PROVE  Spec => []PaidPeriodKept
<1>1. Init => PaidInv
  BY DEF Init, PaidInv, Pristine
<1>2. TypeOK /\ PaidInv /\ [Next]_vars => PaidInv'
  <2> SUFFICES ASSUME TypeOK, PaidInv, [Next]_vars PROVE PaidInv'
    OBVIOUS
  <2>1. ASSUME NEW m \in MachineIDs, NEW c \in Codes, NEW tok \in Tokens,
               Activate(m, c, tok)
        PROVE  PaidInv'
    BY <2>1, PaidActivated DEF Activate, Passes
  <2>2. ASSUME NEW tok \in Tokens, NEW m \in MachineIDs,
               HeartbeatRenew(tok, m) \/ HeartbeatRefuse(tok, m)
        PROVE  PaidInv'
    BY <2>2, PaidQuiet DEF HeartbeatRenew, HeartbeatRefuse, history
  <2>3. ASSUME NEW tok \in Tokens, EndSession(tok, FALSE)
        PROVE  PaidInv'
    BY <2>3, PaidQuiet DEF EndSession
  <2>4. ASSUME NEW tok \in Tokens, NEW m \in MachineIDs, NEW claim \in Claims,
               DeactivateRefuse(tok, m, claim) \/ ValidateBound(tok, m, claim)
        PROVE  PaidInv'
    BY <2>4, PaidQuiet DEF DeactivateRefuse, ValidateBound, history
  <2>5. ASSUME NEW c \in Codes, NEW limit \in Limits, CreateCard(c, limit)
        PROVE  PaidInv'
    BY <2>5, PaidCreated
  <2>6. ASSUME NEW a \in Admins, NEW c \in Codes, NEW kind \in EditKinds,
               NEW limit \in Limits, ReadForEdit(a, c, kind, limit)
        PROVE  PaidInv'
    BY <2>6, PaidRead
  <2>7. ASSUME NEW a \in Admins, SaveEdit(a)
        PROVE  PaidInv'
    BY <2>7, PaidSaved
  <2>8. ASSUME NEW c \in Codes, DeleteCard(c)
        PROVE  PaidInv'
    <3>1. \A d \in Codes : cards'[d] \in {NoCard, cards[d]}
      BY <2>8 DEF DeleteCard, TypeOK
    <3>2. QED
      BY <2>8, <3>1, PaidQuiet DEF DeleteCard, history
  <2>9. ASSUME NEW v, BlacklistAdd(v) \/ BlacklistRemove(v)
        PROVE  PaidInv'
    BY <2>9, PaidQuiet DEF BlacklistAdd, BlacklistRemove, history
  <2>10. CASE Restart \/ \E a \in Admins : FailEdit(a)
    <3>1. \A a \in Admins : saving'[a] \in {Idle, saving[a]}
      BY <2>10 DEF Restart, FailEdit, TypeOK
    <3>2. QED
      BY <2>10, <3>1, PaidQuiet DEF Restart, FailEdit, history
  <2>11. CASE Tick \/ CleanupExpired \/ UNCHANGED vars
    BY <2>11, PaidQuiet DEF Tick, CleanupExpired, vars, history
  <2>12. QED
    BY <2>1, <2>2, <2>3, <2>4, <2>5, <2>6, <2>7, <2>8, <2>9, <2>10, <2>11
    DEF Next, ClientRequest, AdminRequest, Deactivate, ForceLogout
<1>3. PaidInv => PaidPeriodKept
  BY DEF PaidInv, PaidPeriodKept, Pristine, PeriodFits
<1>4. QED
  BY <1>1, <1>2, <1>3, TypeCorrect, PTL DEF Spec
-----------------------------------------------------------------------------
(* A card never has more renewable sessions than it ever had seats.        *)

SeatsInv ==
  /\ now \in Instants
  /\ \A t \in Tokens : sessions[t] # NoSession => sessions[t].expires % 2 = 0
  /\ \A c \in Codes : cards[c] # NoCard => cards[c].limit <= peak[c]
  /\ SeatsWithinLimit

LEMMA LiveIsFinite ==
  ASSUME NEW c
  PROVE  IsFiniteSet(Live(c)) /\ Cardinality(Live(c)) \in Nat
BY NamesAssumption, FS_Subset, FS_CardinalityType DEF Live

LEMMA FewerSeats ==
  ASSUME TypeOK, TypeOK', SeatsWithinLimit,
         \A c \in Codes : Live(c)' \subseteq Live(c),
         \A c \in Codes : peak[c] <= peak'[c]
  PROVE  SeatsWithinLimit'
<1> SUFFICES ASSUME NEW c \in Codes PROVE Cardinality(Live(c)') <= peak'[c]
  BY DEF SeatsWithinLimit
<1>1. /\ Cardinality(Live(c)') \in Nat
      /\ Cardinality(Live(c)') <= Cardinality(Live(c))
  BY LiveIsFinite, FS_Subset, FS_CardinalityType
<1>2. /\ Cardinality(Live(c)) <= peak[c] /\ Cardinality(Live(c)) \in Nat
      /\ peak[c] \in Int /\ peak'[c] \in Int /\ peak[c] <= peak'[c]
  BY LiveIsFinite DEF SeatsWithinLimit, TypeOK
<1>3. QED
  BY <1>1, <1>2

\* A step that opens or renews no session and lowers no peak.
LEMMA SeatsQuiet ==
  ASSUME TypeOK, TypeOK', SeatsInv, now' \in Instants, now <= now',
         \A t \in Tokens : sessions'[t] \in {NoSession, sessions[t]},
         \A c \in Codes : peak[c] <= peak'[c],
         \A c \in Codes : cards'[c] # NoCard => cards'[c].limit <= peak'[c]
  PROVE  SeatsInv'
<1>1. ASSUME NEW c \in Codes PROVE Live(c)' \subseteq Live(c)
  <2> SUFFICES ASSUME NEW t \in Tokens, sessions'[t] # NoSession,
                      sessions'[t].card = c, ~(sessions'[t].expires < now')
               PROVE  t \in Live(c)
    BY DEF Live
  <2>1. sessions'[t] = sessions[t] /\ sessions[t] \in Session
    BY DEF TypeOK
  <2>2. sessions[t].expires \in Int /\ now \in Int /\ now' \in Int
    BY <2>1 DEF TypeOK, Session
  <2>3. QED
    BY <2>1, <2>2 DEF Live
<1>2. SeatsWithinLimit'
  BY <1>1, FewerSeats DEF SeatsInv
<1>3. \A t \in Tokens : sessions'[t] # NoSession => sessions'[t].expires % 2 = 0
  BY DEF SeatsInv
<1>4. QED
  BY <1>2, <1>3 DEF SeatsInv

\* Between whole seconds, activation counts exactly the renewable sessions.
LEMMA CountedIsLive ==
  ASSUME TypeOK, SeatsInv, now % 2 = 1, NEW c \in Codes
  PROVE  Counted(c) = Live(c)
<1>1. ASSUME NEW t \in Tokens, sessions[t] # NoSession
      PROVE  ~(sessions[t].expires < now) <=> sessions[t].expires > now
  <2>1. /\ sessions[t].expires \in Int /\ now \in Int
        /\ sessions[t].expires % 2 = 0
    BY <1>1 DEF TypeOK, Session, SeatsInv
  <2>2. QED
    BY <2>1
<1>2. QED
  BY <1>1 DEF Counted, Live

LEMMA SeatsActivate ==
  ASSUME TypeOK, TypeOK', SeatsInv, now % 2 = 1,
         NEW m \in MachineIDs, NEW c \in Codes, NEW tok \in Tokens,
         Activate(m, c, tok)
  PROVE  SeatsInv'
<1>1. /\ sessions' = [sessions EXCEPT ![tok] = SeenSession(c, m)]
      /\ cards' = [cards EXCEPT ![c] = Activated(cards[c], m)]
      /\ now' = now /\ peak' = peak /\ cards[c] \in Card /\ cards[c] # NoCard
      /\ sessions[tok] = NoSession
  BY DEF Activate, Passes, TypeOK
<1>2. /\ SeenSession(c, m).card = c /\ SeenSession(c, m) \in Session
      /\ SeenSession(c, m).expires % 2 = 0
  BY SeenSessionType, SecFacts, TimesAssumption DEF TypeOK
<1>3. \A t \in Tokens : sessions'[t] # NoSession => sessions'[t].expires % 2 = 0
  BY <1>1, <1>2 DEF SeatsInv, TypeOK
<1>4. cards'[c].limit = cards[c].limit
  BY <1>1, ActivatedType DEF TypeOK
<1>5. \A d \in Codes : cards'[d] # NoCard => cards'[d].limit <= peak'[d]
  BY <1>1, <1>4 DEF SeatsInv, TypeOK
<1>6. Live(c)' \subseteq Live(c) \cup {tok}
  BY <1>1 DEF Live, TypeOK
<1>7. \A d \in Codes : d # c => Live(d)' \subseteq Live(d)
  BY <1>1, <1>2 DEF Live, TypeOK
<1>8. Cardinality(Live(c)) < cards[c].limit
  BY CountedIsLive DEF Activate
<1>9. Cardinality(Live(c)') <= peak'[c]
  <2>1. /\ IsFiniteSet(Live(c) \cup {tok})
        /\ Cardinality(Live(c) \cup {tok}) <= Cardinality(Live(c)) + 1
    BY LiveIsFinite, FS_AddElement
  <2>2. /\ Cardinality(Live(c)') <= Cardinality(Live(c) \cup {tok})
        /\ Cardinality(Live(c)') \in Nat /\ Cardinality(Live(c)) \in Nat
        /\ Cardinality(Live(c) \cup {tok}) \in Nat
    BY <1>6, <2>1, LiveIsFinite, FS_Subset, FS_CardinalityType
  <2>3. cards[c].limit \in Int /\ cards[c].limit <= peak[c] /\ peak[c] \in Int
    BY <1>1, LimitsArePositive DEF SeatsInv, TypeOK, Card
  <2>4. QED
    BY <1>1, <1>8, <2>1, <2>2, <2>3
<1>10. \A d \in Codes : Cardinality(Live(d)') <= peak'[d]
  <2> SUFFICES ASSUME NEW d \in Codes, d # c
               PROVE  Cardinality(Live(d)') <= peak'[d]
    BY <1>9
  <2>1. /\ Cardinality(Live(d)') <= Cardinality(Live(d))
        /\ Cardinality(Live(d)') \in Nat /\ Cardinality(Live(d)) \in Nat
    BY <1>7, LiveIsFinite, FS_Subset, FS_CardinalityType
  <2>2. Cardinality(Live(d)) <= peak[d] /\ peak[d] \in Int
    BY DEF SeatsInv, SeatsWithinLimit, TypeOK
  <2>3. QED
    BY <1>1, <2>1, <2>2
<1>11. QED
  BY <1>1, <1>3, <1>5, <1>10 DEF SeatsInv, SeatsWithinLimit

LEMMA SeatsRenew ==
  ASSUME TypeOK, TypeOK', SeatsInv, NEW tok \in Tokens, NEW m \in MachineIDs,
         HeartbeatRenew(tok, m)
  PROVE  SeatsInv'
<1> DEFINE new == SeenSession(sessions[tok].card, sessions[tok].machine)
<1>1. /\ sessions[tok].card \in Codes /\ sessions[tok].machine \in MachineIDs
      /\ sessions[tok] # NoSession /\ ~(sessions[tok].expires < now)
      /\ sessions' = [sessions EXCEPT ![tok] = new]
      /\ now' = now /\ peak' = peak /\ cards' = cards
  BY DEF HeartbeatRenew, TypeOK, Session, history
<1>2. new.card = sessions[tok].card /\ new.expires % 2 = 0
  BY <1>1, SeenSessionType, SecFacts, TimesAssumption DEF TypeOK
<1>3. \A c \in Codes : Live(c)' \subseteq Live(c)
  BY <1>1, <1>2 DEF Live, TypeOK
<1>4. \A c \in Codes : peak[c] <= peak'[c]
  BY <1>1 DEF TypeOK
<1>5. SeatsWithinLimit'
  BY <1>3, <1>4, FewerSeats DEF SeatsInv
<1>6. \A t \in Tokens : sessions'[t] # NoSession => sessions'[t].expires % 2 = 0
  BY <1>1, <1>2 DEF SeatsInv, TypeOK
<1>7. QED
  BY <1>1, <1>5, <1>6 DEF SeatsInv

\* The clock is never read on a whole second.
LEMMA SeatsInductive ==
  ASSUME \A i \in Instants : i % 2 = 1
  PROVE  Spec => []SeatsInv
<1>1. Init => SeatsInv
  <2> SUFFICES ASSUME Init PROVE SeatsInv
    OBVIOUS
  <2>1. ASSUME NEW c \in Codes PROVE Cardinality(Live(c)) <= peak[c]
    <3>1. Live(c) = {} /\ peak[c] = 0
      BY DEF Init, Live
    <3>2. QED
      BY <3>1, FS_EmptySet
  <2>2. QED
    BY <2>1, TimesAssumption DEF Init, SeatsInv, SeatsWithinLimit
<1>2. TypeOK /\ TypeOK' /\ SeatsInv /\ [Next]_vars => SeatsInv'
  <2> SUFFICES ASSUME TypeOK, TypeOK', SeatsInv, [Next]_vars PROVE SeatsInv'
    OBVIOUS
  <2>0. /\ now \in Instants /\ now <= now /\ now % 2 = 1
        /\ \A c \in Codes : peak[c] <= peak[c]
        /\ \A c \in Codes : cards[c] # NoCard => cards[c].limit <= peak[c]
    BY DEF SeatsInv, TypeOK
  <2>1. CASE Tick
    <3>1. now' \in Instants /\ now <= now'
      BY <2>1, TimesAssumption DEF Tick, TypeOK
    <3>2. QED
      BY <2>0, <2>1, <3>1, SeatsQuiet DEF Tick
  <2>2. ASSUME NEW m \in MachineIDs, NEW c \in Codes, NEW tok \in Tokens,
               Activate(m, c, tok)
        PROVE  SeatsInv'
    BY <2>0, <2>2, SeatsActivate
  <2>3. ASSUME NEW tok \in Tokens, NEW m \in MachineIDs, HeartbeatRenew(tok, m)
        PROVE  SeatsInv'
    BY <2>3, SeatsRenew
  <2>4. ASSUME NEW tok \in Tokens, NEW m \in MachineIDs, HeartbeatRefuse(tok, m)
        PROVE  SeatsInv'
    BY <2>0, <2>4, SeatsQuiet DEF HeartbeatRefuse, history
  <2>5. ASSUME NEW tok \in Tokens, NEW u, sessions[tok] # NoSession,
               EndSession(tok, u)
        PROVE  SeatsInv'
    <3> DEFINE d == sessions[tok].card
    <3>1. d \in Codes
      BY <2>5 DEF TypeOK, Session
    <3>2. now' = now /\ peak' = peak
          /\ \A t \in Tokens : sessions'[t] \in {NoSession, sessions[t]}
      BY <2>5 DEF EndSession, TypeOK
    <3>3. ASSUME NEW c \in Codes, cards'[c] # NoCard
          PROVE  cards'[c].limit <= peak'[c]
      <4>1. CASE cards'[c] = cards[c]
        BY <2>0, <3>2, <3>3, <4>1
      <4>2. CASE cards'[c] # cards[c]
        <5>1. /\ cards[c] # NoCard /\ cards[c] \in Card
              /\ cards'[c] = Released(cards[c])
          BY <2>5, <3>1, <4>2 DEF EndSession, TypeOK
        <5>2. cards'[c].limit = cards[c].limit
          BY <5>1, ReleasedType DEF TypeOK
        <5>3. QED
          BY <2>0, <3>2, <5>1, <5>2
      <4>3. QED
        BY <4>1, <4>2
    <3>4. QED
      BY <2>0, <3>2, <3>3, SeatsQuiet
  <2>6. ASSUME NEW tok \in Tokens, NEW m \in MachineIDs, NEW claim \in Claims,
               DeactivateRefuse(tok, m, claim) \/ ValidateBound(tok, m, claim)
        PROVE  SeatsInv'
    BY <2>0, <2>6, SeatsQuiet DEF DeactivateRefuse, ValidateBound, history
  <2>7. ASSUME NEW c \in Codes, NEW limit \in Limits, CreateCard(c, limit)
        PROVE  SeatsInv'
    <3>1. /\ peak'[c] = Larger(peak[c], limit) /\ cards'[c].limit = limit
          /\ now' = now /\ sessions' = sessions
          /\ \A d \in Codes : d # c => peak'[d] = peak[d] /\ cards'[d] = cards[d]
      BY <2>7 DEF CreateCard, TypeOK
    <3>2. limit <= Larger(peak[c], limit) /\ peak[c] <= Larger(peak[c], limit)
      BY LimitsArePositive DEF Larger, TypeOK
    <3>3. /\ \A d \in Codes : peak[d] <= peak'[d]
          /\ \A d \in Codes : cards'[d] # NoCard => cards'[d].limit <= peak'[d]
      BY <2>0, <3>1, <3>2
    <3>4. QED
      BY <2>0, <3>1, <3>3, SeatsQuiet
  <2>8. ASSUME NEW a \in Admins, NEW c \in Codes, NEW kind \in EditKinds,
               NEW limit \in Limits, ReadForEdit(a, c, kind, limit)
        PROVE  SeatsInv'
    BY <2>0, <2>8, SeatsQuiet DEF ReadForEdit, history
  <2>9. ASSUME NEW a \in Admins, SaveEdit(a)
        PROVE  SeatsInv'
    <3> DEFINE row == saving[a].row
    <3>1. saving[a] \in Edit
      BY <2>9 DEF SaveEdit, TypeOK
    <3> PICK c \in Codes : c = saving[a].code
      BY <3>1 DEF Edit
    <3>2. row \in Card /\ row.limit \in Int
      <4>1. row \in Card /\ row.limit \in Limits
        BY <3>1 DEF Edit, Card
      <4>2. QED
        BY <4>1, LimitsArePositive
    <3>3. /\ peak'[c] = Larger(peak[c], row.limit)
          /\ cards'[c] = Upserted(cards[c], row)
          /\ now' = now /\ sessions' = sessions
          /\ \A d \in Codes : d # c => peak'[d] = peak[d] /\ cards'[d] = cards[d]
      BY <2>9 DEF SaveEdit, TypeOK
    <3>4. cards'[c].limit = row.limit
      <4>1. row.limit = [row EXCEPT !.created = cards[c].created].limit
        BY <3>2 DEF Card
      <4>2. QED
        BY <3>3, <4>1 DEF Upserted
    <3>5. /\ row.limit <= Larger(peak[c], row.limit)
          /\ peak[c] <= Larger(peak[c], row.limit)
      BY <3>2 DEF Larger, TypeOK
    <3>6. /\ \A d \in Codes : peak[d] <= peak'[d]
          /\ \A d \in Codes : cards'[d] # NoCard => cards'[d].limit <= peak'[d]
      BY <2>0, <3>3, <3>4, <3>5
    <3>7. QED
      BY <2>0, <3>3, <3>6, SeatsQuiet
  <2>10. ASSUME NEW c \in Codes, DeleteCard(c)
         PROVE  SeatsInv'
    <3>1. \A d \in Codes : cards'[d] # NoCard => cards'[d].limit <= peak'[d]
      BY <2>0, <2>10 DEF DeleteCard, TypeOK, history
    <3>2. QED
      BY <2>0, <2>10, <3>1, SeatsQuiet DEF DeleteCard, history
  <2>11. ASSUME NEW v, BlacklistAdd(v) \/ BlacklistRemove(v)
         PROVE  SeatsInv'
    BY <2>0, <2>11, SeatsQuiet DEF BlacklistAdd, BlacklistRemove, history
  <2>12. CASE CleanupExpired
    <3>1. \A t \in Tokens : sessions'[t] \in {NoSession, sessions[t]}
      BY <2>12 DEF CleanupExpired
    <3>2. QED
      BY <2>0, <2>12, <3>1, SeatsQuiet DEF CleanupExpired, history
  <2>13. CASE Restart \/ \E a \in Admins : FailEdit(a)
    BY <2>0, <2>13, SeatsQuiet DEF Restart, FailEdit, history
  <2>14. CASE UNCHANGED vars
    BY <2>0, <2>14, SeatsQuiet DEF vars, history
  <2>15. QED
    BY <2>1, <2>2, <2>3, <2>4, <2>5, <2>6, <2>7, <2>8, <2>9, <2>10, <2>11,
       <2>12, <2>13, <2>14
    DEF Next, ClientRequest, AdminRequest, Deactivate, ForceLogout
<1>3. QED
  BY <1>1, <1>2, TypeCorrect, PTL DEF Spec

\* A card never has more renewable sessions than its largest max_sessions, as
\* long as the clock is never read on a whole second.  There, activation does
\* not count a session that ends at this second, and a heartbeat still renews it:
\* one card may then have a session too many.
THEOREM SeatsHold ==
  ASSUME \A i \in Instants : i % 2 = 1
  PROVE  Spec => []SeatsWithinLimit
<1>1. SeatsInv => SeatsWithinLimit
  BY DEF SeatsInv
<1>2. QED
  BY <1>1, SeatsInductive, PTL
=============================================================================
