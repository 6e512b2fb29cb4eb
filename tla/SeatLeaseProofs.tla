--------------------------- MODULE SeatLeaseProofs ---------------------------
(***************************************************************************)
(* The sessions are leases on the seats of the cards, for every number of  *)
(* cards, machines, tokens and administrators.                             *)
(***************************************************************************)
EXTENDS CardSessionsProofs

\* The sessions as SeatLease sees them, and what it sees of the cards.
Leases == [t \in Tokens |->
             IF sessions[t] = NoSession THEN NoSession
             ELSE [card |-> sessions[t].card, until |-> sessions[t].expires]]
GoodCards == {c \in Codes : Passes(cards[c], now)}
SeatsOf == [c \in Codes |-> IF cards[c] = NoCard THEN 0 ELSE cards[c].limit]

\* No session runs longer than a renewal now would make it run.
RenewalInv ==
  \A t \in Tokens : sessions[t] # NoSession =>
    sessions[t].expires <= Sec(now + SessionTTL)

-----------------------------------------------------------------------------
(* Expiries.                                                               *)

LEMMA SecIsMonotone ==
  ASSUME NEW a \in Int, NEW b \in Int, a <= b
  PROVE  Sec(a) <= Sec(b)
BY DEF Sec

\* A lease given now ends after now and within the time a lease may last.
LEMMA LeaseTime ==
  ASSUME TypeOK
  PROVE  /\ Sec(now + SessionTTL) \in Int
         /\ now <= Sec(now + SessionTTL)
         /\ Sec(now + SessionTTL) <= now + SessionTTL
<1>1. now \in Int /\ SessionTTL \in Nat \ {0}
  BY TimesAssumption DEF TypeOK
<1>2. QED
  BY <1>1 DEF Sec

-----------------------------------------------------------------------------
(* The steps, as far as the leases go.                                     *)

Elsewhere == now <= now' /\ sessions' = sessions
Activation == \E m \in MachineIDs, c \in Codes, tok \in Tokens : Activate(m, c, tok)
Renewal == \E m \in MachineIDs, tok \in Tokens : HeartbeatRenew(tok, m)
Ending(tok) == /\ sessions[tok] # NoSession /\ now' = now
               /\ sessions' = [sessions EXCEPT ![tok] = NoSession]

\* Session tok is given a new expiry.
Leased(tok, c, m) == sessions' = [sessions EXCEPT ![tok] = SeenSession(c, m)]

LEMMA LeaseSteps ==
  ASSUME TypeOK, [Next]_vars
  PROVE  \/ Elsewhere \/ Activation \/ Renewal \/ CleanupExpired
         \/ \E tok \in Tokens : Ending(tok)
<1>0. now <= now
  BY DEF TypeOK
<1>1. CASE Tick
  BY <1>1, TimesAssumption DEF Tick, TypeOK, Elsewhere
<1>2. ASSUME NEW tok \in Tokens, NEW u, sessions[tok] # NoSession,
             EndSession(tok, u)
      PROVE  Ending(tok)
  BY <1>2 DEF EndSession, Ending
<1>3. CASE ClientRequest
  <2>1. ASSUME NEW tok \in Tokens, NEW m \in MachineIDs,
               \/ HeartbeatRefuse(tok, m)
               \/ \E claim \in Claims : \/ DeactivateRefuse(tok, m, claim)
                                        \/ ValidateBound(tok, m, claim)
        PROVE  Elsewhere
    BY <1>0, <2>1 DEF HeartbeatRefuse, DeactivateRefuse, ValidateBound, Elsewhere
  <2>2. ASSUME NEW tok \in Tokens, NEW m \in MachineIDs, NEW claim \in Claims,
               NEW u \in UnbindOnExit, Deactivate(tok, m, claim, u)
        PROVE  Ending(tok)
    BY <1>2, <2>2 DEF Deactivate
  <2>3. QED
    BY <1>3, <2>1, <2>2 DEF ClientRequest, Activation, Renewal
<1>4. CASE AdminRequest
  <2>1. ASSUME NEW tok \in Tokens, ForceLogout(tok)
        PROVE  Ending(tok)
    BY <1>2, <2>1 DEF ForceLogout
  <2>2. ASSUME NEW c \in Codes,
               \/ DeleteCard(c)
               \/ \E limit \in Limits : CreateCard(c, limit)
               \/ \E a \in Admins, kind \in EditKinds, limit \in Limits :
                    ReadForEdit(a, c, kind, limit)
        PROVE  Elsewhere
    BY <1>0, <2>2 DEF DeleteCard, CreateCard, ReadForEdit, Elsewhere
  <2>3. ASSUME NEW a \in Admins, SaveEdit(a) \/ FailEdit(a)
        PROVE  Elsewhere
    BY <1>0, <2>3 DEF SaveEdit, FailEdit, Elsewhere
  <2>4. ASSUME NEW v, BlacklistAdd(v) \/ BlacklistRemove(v)
        PROVE  Elsewhere
    BY <1>0, <2>4 DEF BlacklistAdd, BlacklistRemove, Elsewhere
  <2>5. QED
    BY <1>4, <2>1, <2>2, <2>3, <2>4 DEF AdminRequest
<1>5. CASE Restart \/ UNCHANGED vars
  BY <1>0, <1>5 DEF Restart, vars, Elsewhere
<1>6. QED
  BY <1>1, <1>3, <1>4, <1>5 DEF Next

\* What a lease is given by an activation and by a heartbeat.
LEMMA Lent ==
  ASSUME TypeOK, NEW c \in Codes, NEW m \in MachineIDs, NEW tok \in Tokens,
         Leased(tok, c, m)
  PROVE  /\ sessions'[tok] # NoSession
         /\ sessions'[tok].card = c
         /\ sessions'[tok].expires = Sec(now + SessionTTL)
         /\ \A t \in Tokens : t # tok => sessions'[t] = sessions[t]
<1>1. now \in Nat /\ sessions \in [Tokens -> Session \cup {NoSession}]
  BY DEF TypeOK
<1>2. /\ sessions'[tok] = SeenSession(c, m)
      /\ \A t \in Tokens : t # tok => sessions'[t] = sessions[t]
  BY <1>1 DEF Leased
<1>3. SeenSession(c, m) # NoSession
  BY <1>1, SeenSessionType, AbsenceAssumption
<1>4. QED
  BY <1>1, <1>2, <1>3, SeenSessionType

LEMMA RenewalInductive == Spec => []RenewalInv
<1>1. Init => RenewalInv
  BY DEF Init, RenewalInv
<1>2. TypeOK /\ TypeOK' /\ RenewalInv /\ [Next]_vars => RenewalInv'
  <2> SUFFICES ASSUME TypeOK, TypeOK', RenewalInv, [Next]_vars,
                      NEW t \in Tokens, sessions'[t] # NoSession
               PROVE  sessions'[t].expires <= Sec(now' + SessionTTL)
    BY DEF RenewalInv
  <2>0. /\ now \in Int /\ now' \in Int /\ SessionTTL \in Int
        /\ Sec(now + SessionTTL) \in Int /\ Sec(now' + SessionTTL) \in Int
        /\ sessions[t] # NoSession => sessions[t].expires \in Int
    BY TimesAssumption, SecFacts DEF TypeOK, Session
  <2>1. ASSUME now <= now', sessions'[t] = sessions[t]
        PROVE  sessions'[t].expires <= Sec(now' + SessionTTL)
    <3>1. sessions[t].expires <= Sec(now + SessionTTL)
      BY <2>1 DEF RenewalInv
    <3>2. Sec(now + SessionTTL) <= Sec(now' + SessionTTL)
      BY <2>0, <2>1, SecIsMonotone
    <3>3. QED
      BY <2>0, <2>1, <3>1, <3>2
  <2>2. ASSUME NEW c \in Codes, NEW m \in MachineIDs, NEW tok \in Tokens,
               now' = now, Leased(tok, c, m)
        PROVE  sessions'[t].expires <= Sec(now' + SessionTTL)
    <3>1. CASE t = tok
      <4>1. sessions'[t].expires = Sec(now + SessionTTL)
        BY <2>2, <3>1, Lent
      <4>2. QED
        BY <2>0, <2>2, <4>1
    <3>2. CASE t # tok
      BY <2>0, <2>1, <2>2, <3>2, Lent
    <3>3. QED
      BY <3>1, <3>2
  <2>3. CASE Elsewhere
    BY <2>1, <2>3 DEF Elsewhere
  <2>4. CASE Activation
    BY <2>2, <2>4 DEF Activation, Activate, Leased
  <2>5. CASE Renewal
    BY <2>2, <2>5 DEF Renewal, HeartbeatRenew, Leased, TypeOK, Session
  <2>6. CASE CleanupExpired
    BY <2>0, <2>1, <2>6 DEF CleanupExpired
  <2>7. ASSUME NEW tok \in Tokens, Ending(tok)
        PROVE  sessions'[t].expires <= Sec(now' + SessionTTL)
    BY <2>0, <2>1, <2>7 DEF Ending, TypeOK
  <2>8. QED
    BY <2>3, <2>4, <2>5, <2>6, <2>7, LeaseSteps
<1>3. QED
  BY <1>1, <1>2, TypeCorrect, PTL DEF Spec

-----------------------------------------------------------------------------
(* The contract, in terms of what it sees.                                 *)

LEMMA LeaseTypes ==
  ASSUME TypeOK
  PROVE  /\ Leases \in [Tokens -> Seats!Lease \cup {NoSession}]
         /\ GoodCards \subseteq Codes
         /\ SeatsOf \in [Codes -> Nat]
<1>1. ASSUME NEW t \in Tokens, sessions[t] # NoSession
      PROVE  [card |-> sessions[t].card, until |-> sessions[t].expires]
               \in Seats!Lease
  BY <1>1 DEF TypeOK, Session, Seats!Lease
<1>2. ASSUME NEW c \in Codes, cards[c] # NoCard
      PROVE  cards[c].limit \in Nat
  BY <1>2, NamesAssumption DEF TypeOK, Card
<1>3. QED
  BY <1>1, <1>2 DEF Leases, GoodCards, SeatsOf

LEMMA LeaseFields ==
  ASSUME TypeOK, NEW t \in Tokens
  PROVE  /\ Leases[t] = NoSession <=> sessions[t] = NoSession
         /\ sessions[t] # NoSession => /\ Leases[t].card = sessions[t].card
                                       /\ Leases[t].until = sessions[t].expires
<1>1. sessions[t] # NoSession =>
        [card |-> sessions[t].card, until |-> sessions[t].expires] # NoSession
  BY LeaseAssumption DEF TypeOK, Session, Seats!Lease
<1>2. QED
  BY <1>1 DEF Leases

\* A lease runs as long as a heartbeat would renew its session.
LEMMA RunningIsLive ==
  ASSUME TypeOK
  PROVE  /\ \A t \in Tokens : Seats!Running(t) <=>
              sessions[t] # NoSession /\ ~(sessions[t].expires < now)
         /\ \A c \in Codes : Seats!RunningOn(c) = Live(c)
<1>0. \A t : Seats!Running(t) <=> Leases[t] # NoSession /\ ~(Leases[t].until < now)
  BY DEF Seats!Running, Leases
<1>1. ASSUME NEW t \in Tokens
      PROVE  Seats!Running(t) <=>
              sessions[t] # NoSession /\ ~(sessions[t].expires < now)
  BY <1>0, LeaseFields
<1>2. \A c : Seats!RunningOn(c)
                = {t \in Tokens : Seats!Running(t) /\ Leases[t].card = c}
  BY DEF Seats!RunningOn, Leases
<1>3. ASSUME NEW c \in Codes PROVE Seats!RunningOn(c) = Live(c)
  BY <1>1, <1>2, LeaseFields DEF Live
<1>4. QED
  BY <1>1, <1>3

\* The number of elements is the same in both modules.
LEMMA SameCardinality == \A S : Seats!Cardinality(S) = Cardinality(S)
BY DEF Seats!Cardinality, Cardinality

\* A session that is given a new expiry is lent until then.
LEMMA IsLent ==
  ASSUME TypeOK, TypeOK', NEW c \in Codes, NEW m \in MachineIDs, NEW tok \in Tokens,
         Leased(tok, c, m),
         NEW first \in Int, first <= Sec(now + SessionTTL)
  PROVE  Seats!Lend(tok, c, first)
<1> DEFINE until == Sec(now + SessionTTL)
           new == [card |-> c, until |-> until]
<1>1. now \in Int /\ SessionTTL \in Int
  BY TimesAssumption DEF TypeOK
<1>2. until \in first .. (now + SessionTTL)
  BY <1>1, LeaseTime
<1>3. Leases' = [Leases EXCEPT ![tok] = new]
  <2>1. ASSUME NEW t \in Tokens
        PROVE  Leases'[t] = IF t = tok THEN new ELSE Leases[t]
    <3>1. Leases'[t] = IF sessions'[t] = NoSession THEN NoSession
                       ELSE [card |-> sessions'[t].card,
                             until |-> sessions'[t].expires]
      BY DEF Leases
    <3>2. t # tok => sessions'[t] = sessions[t]
      BY Lent
    <3>3. t = tok => Leases'[t] = new
      BY <3>1, Lent
    <3>4. QED
      BY <3>2, <3>3 DEF Leases
  <2>2. DOMAIN Leases = Tokens /\ DOMAIN Leases' = Tokens
    BY DEF Leases
  <2> HIDE DEF new
  <2>3. Leases = [t \in Tokens |-> Leases[t]] /\ Leases' = [t \in Tokens |-> Leases'[t]]
    BY DEF Leases
  <2>4. QED
    BY <2>1, <2>2, <2>3
<1>4. QED
  BY <1>2, <1>3 DEF Seats!Lend, Leases

LEMMA ActivationGrants ==
  ASSUME TypeOK, TypeOK', SeatsInv, now % 2 = 1, NEW m \in MachineIDs,
         NEW c \in Codes, NEW tok \in Tokens, Activate(m, c, tok)
  PROVE  Seats!Grant(tok, c)
<1>1. /\ Passes(cards[c], now) /\ sessions[tok] = NoSession /\ cards[c] # NoCard
      /\ Cardinality(Counted(c)) < cards[c].limit
      /\ Leased(tok, c, m)
  BY DEF Activate, Passes, Leased
<1>2. Leases[tok] = NoSession
  BY <1>1, LeaseFields
<1>3. c \in GoodCards
  BY <1>1 DEF GoodCards
<1>4. Cardinality(Seats!RunningOn(c)) < SeatsOf[c]
  <2>1. Seats!RunningOn(c) = Counted(c)
    BY CountedIsLive, RunningIsLive
  <2>2. SeatsOf[c] = cards[c].limit
    BY <1>1 DEF SeatsOf
  <2>3. QED
    BY <1>1, <2>1, <2>2
<1>5. PICK first \in Int : first = now
  BY DEF TypeOK
<1>6. Seats!Lend(tok, c, first)
  BY <1>1, <1>5, LeaseTime, IsLent
<1>7. Seats!Lend(tok, c, now)
  BY <1>5, <1>6 DEF Seats!Lend
<1>8. Seats!Cardinality(Seats!RunningOn(c)) < SeatsOf[c]
  BY <1>4, SameCardinality
<1>9. QED
  BY <1>2, <1>3, <1>7, <1>8 DEF Seats!Grant, Leases, GoodCards, SeatsOf

LEMMA HeartbeatRenews ==
  ASSUME TypeOK, TypeOK', RenewalInv, NEW m \in MachineIDs, NEW tok \in Tokens,
         HeartbeatRenew(tok, m)
  PROVE  Seats!Renew(tok)
<1>0. /\ sessions[tok].card \in Codes /\ sessions[tok].machine \in MachineIDs
      /\ sessions[tok].expires \in Int
  BY DEF HeartbeatRenew, TypeOK, Session
<1> PICK c \in Codes, machine \in MachineIDs, first \in Int :
      /\ c = sessions[tok].card /\ machine = sessions[tok].machine
      /\ first = sessions[tok].expires
  BY <1>0
<1>1. /\ sessions[tok] # NoSession /\ ~(sessions[tok].expires < now)
      /\ Passes(cards[c], now)
      /\ Leased(tok, c, machine)
  BY DEF HeartbeatRenew, Leased
<1>2. Leases[tok].card = c /\ Leases[tok].until = first
  BY <1>1, LeaseFields
<1>3. Seats!Running(tok)
  BY <1>1, RunningIsLive
<1>4. Leases[tok].card \in GoodCards
  BY <1>1, <1>2 DEF GoodCards
<1>5. first <= Sec(now + SessionTTL)
  BY <1>1 DEF RenewalInv
<1>6. Seats!Lend(tok, c, first)
  BY <1>1, <1>5, IsLent
<1>7. Seats!Lend(tok, Leases[tok].card, Leases[tok].until)
  BY <1>2, <1>6 DEF Seats!Lend
<1>8. QED
  BY <1>3, <1>4, <1>7 DEF Seats!Renew, Leases, GoodCards

\* A session is deleted, whether given up or forgotten.
LEMMA EndingEnds ==
  ASSUME TypeOK, NEW tok \in Tokens, Ending(tok)
  PROVE  Seats!End(tok)
<1>1. ASSUME NEW t \in Tokens
      PROVE  Leases'[t] = IF t = tok THEN NoSession ELSE Leases[t]
  BY DEF Ending, Leases, TypeOK
<1>2. Leases = [t \in Tokens |-> Leases[t]] /\ Leases' = [t \in Tokens |-> Leases'[t]]
  BY DEF Leases
<1>3. Leases' = [Leases EXCEPT ![tok] = NoSession]
  BY <1>1, <1>2
<1>4. QED
  BY <1>3 DEF Seats!End, Leases

LEMMA CleanupForgets ==
  ASSUME TypeOK, TypeOK', Leases' \in [Tokens -> Seats!Lease \cup {NoSession}],
         CleanupExpired
  PROVE  Seats!Forget
<1>1. ASSUME NEW t \in Tokens, Leases'[t] # Leases[t]
      PROVE  Leases'[t] = NoSession /\ ~Seats!Running(t)
  <2>1. sessions'[t] = IF Removable(t) THEN NoSession ELSE sessions[t]
    BY DEF CleanupExpired
  <2>2. Removable(t) /\ sessions'[t] = NoSession
    BY <1>1, <2>1 DEF Leases
  <2>3. sessions[t] # NoSession /\ sessions[t].expires < Sec(now)
    BY <2>2 DEF Removable
  <2>4. sessions[t].expires \in Int /\ now \in Int
    BY <2>3 DEF TypeOK, Session
  <2>5. sessions[t].expires < now
    BY <2>3, <2>4, SecFacts
  <2>6. QED
    BY <2>2, <2>5, RunningIsLive DEF Leases
<1>2. QED
  BY <1>1 DEF Seats!Forget, Leases

\* What holds of the types holds after a step as well.
LEMMA LeaseTypesHold ==
  Spec => [](/\ Leases \in [Tokens -> Seats!Lease \cup {NoSession}]
             /\ GoodCards \subseteq Codes /\ SeatsOf \in [Codes -> Nat])
<1>1. TypeOK => /\ Leases \in [Tokens -> Seats!Lease \cup {NoSession}]
                /\ GoodCards \subseteq Codes /\ SeatsOf \in [Codes -> Nat]
  BY LeaseTypes
<1>2. QED
  BY <1>1, TypeCorrect, PTL

\* The sessions are leases, as long as the clock is never read on a whole second:
\* each is granted within the limit of the card at that moment (Activate),
\* renewed only before it has run out and while its card passes, never shortened
\* by a renewal (Heartbeat), never moved to another card, and forgotten by
\* CleanupExpired only when it has run out; for every number of cards, machines
\* and tokens, whatever the administrators' edits that interleave.
THEOREM LeasesHold ==
  ASSUME \A i \in Instants : i % 2 = 1
  PROVE  Spec => SessionsAreLeases
<1> DEFINE Types == /\ Leases \in [Tokens -> Seats!Lease \cup {NoSession}]
                    /\ GoodCards \subseteq Codes /\ SeatsOf \in [Codes -> Nat]
<1>1. Init /\ TypeOK => Seats!Init
  <2> SUFFICES ASSUME Init, TypeOK PROVE Seats!Init
    OBVIOUS
  <2>1. now \in Int /\ Leases = [t \in Tokens |-> NoSession]
    BY DEF Init, TypeOK, Leases
  <2>2. QED
    BY <2>1, LeaseTypes DEF Seats!Init, Leases, GoodCards, SeatsOf
<1>2. TypeOK /\ TypeOK' /\ SeatsInv /\ RenewalInv /\ Types' /\ [Next]_vars
      => Seats!Next
  <2> SUFFICES ASSUME TypeOK, TypeOK', SeatsInv, RenewalInv, Types', [Next]_vars
               PROVE  Seats!Next
    OBVIOUS
  <2>1. now % 2 = 1 /\ now \in Int /\ now' \in Int
    <3>1. now \in Instants
      BY DEF SeatsInv
    <3>2. now \in Int /\ now' \in Int
      BY DEF TypeOK
    <3>3. QED
      BY <3>1, <3>2
  <2>2. CASE Elsewhere
    <3>1. now' >= now /\ Leases' = Leases
      BY <2>1, <2>2 DEF Elsewhere, Leases
    <3>2. QED
      BY <3>1 DEF Seats!Next, Leases, GoodCards, SeatsOf
  <2>3. ASSUME NEW m \in MachineIDs, NEW c \in Codes, NEW tok \in Tokens,
               Activate(m, c, tok)
        PROVE  Seats!Next
    <3>1. Seats!Grant(tok, c) /\ now' = now
      BY <2>1, <2>3, ActivationGrants DEF Activate
    <3>2. QED
      BY <3>1 DEF Seats!Next, GoodCards, SeatsOf
  <2>4. ASSUME NEW m \in MachineIDs, NEW tok \in Tokens, HeartbeatRenew(tok, m)
        PROVE  Seats!Next
    <3>1. Seats!Renew(tok) /\ now' = now
      BY <2>4, HeartbeatRenews DEF HeartbeatRenew
    <3>2. QED
      BY <3>1 DEF Seats!Next, GoodCards, SeatsOf
  <2>5. ASSUME NEW tok \in Tokens, Ending(tok)
        PROVE  Seats!Next
    <3>1. Seats!End(tok) /\ now' = now
      BY <2>5, EndingEnds DEF Ending
    <3>2. QED
      BY <3>1 DEF Seats!Next, GoodCards, SeatsOf
  <2>6. CASE CleanupExpired
    <3>1. Seats!Forget /\ now' = now
      BY <2>6, CleanupForgets DEF CleanupExpired
    <3>2. QED
      BY <3>1 DEF Seats!Next, GoodCards, SeatsOf
  <2>7. QED
    BY <2>2, <2>3, <2>4, <2>5, <2>6, LeaseSteps DEF Activation, Renewal
<1>3. Spec => []SeatsInv
  BY SeatsInductive
<1>4. Spec => []Types
  BY LeaseTypesHold
<1> HIDE DEF Types
<1>5. QED
  BY <1>1, <1>2, <1>3, <1>4, TypeCorrect, RenewalInductive, PTL
     DEF Spec, SessionsAreLeases, Seats!Spec
=============================================================================
