------------------------------ MODULE SeatLease ------------------------------
(***************************************************************************)
(* What a card's owner and the administrators may hope for of sessions: a  *)
(* session is a lease on one of the card's seats.  It is granted, and later *)
(* renewed, only on a card that is good then, for at most TTL at a time;   *)
(* it never passes to another card; and once it has run out it is not      *)
(* renewed any more.                                                       *)
(***************************************************************************)
EXTENDS Integers, FiniteSets

CONSTANTS
  Tokens,              \* the leases there may be
  Cards,
  Free,                \* a token that is not in use
  TTL                  \* the longest time that a lease runs unless renewed

VARIABLES
  now,                 \* the clock
  lease,               \* for every token, its card and the end of its lease
  good,                \* the cards that are good now
  seats                \* the seats that every card has now

Lease == [card : Cards, until : Int]

Running(t) == lease[t] # Free /\ ~(lease[t].until < now)
RunningOn(c) == {t \in Tokens : Running(t) /\ lease[t].card = c}

Init == /\ now \in Int
        /\ lease = [t \in Tokens |-> Free]
        /\ good \subseteq Cards
        /\ seats \in [Cards -> Nat]

\* Leases the token until an instant from first to TTL from now.
Lend(t, c, first) ==
  \E until \in first .. (now + TTL) :
    lease' = [lease EXCEPT ![t] = [card |-> c, until |-> until]]

\* A seat of the card is free.
Grant(t, c) == /\ lease[t] = Free
               /\ c \in good
               /\ Cardinality(RunningOn(c)) < seats[c]
               /\ Lend(t, c, now)

\* No renewal shortens a lease.
Renew(t) == /\ Running(t)
            /\ lease[t].card \in good
            /\ Lend(t, lease[t].card, lease[t].until)

\* Its client or an administrator gives a lease up.
End(t) == lease' = [lease EXCEPT ![t] = Free]

\* Leases that have run out are forgotten, and no others.
Forget == lease' \in [Tokens -> Lease \cup {Free}] /\ \A t \in Tokens :
            lease'[t] # lease[t] => lease'[t] = Free /\ ~Running(t)

\* Time passes, and cards become good or bad and win or lose seats, whatever
\* else is done.
Next ==
  /\ good' \subseteq Cards /\ seats' \in [Cards -> Nat]
  /\ \/ now' >= now /\ lease' = lease
     \/ /\ now' = now
        /\ \/ \E t \in Tokens, c \in Cards : Grant(t, c)
           \/ \E t \in Tokens : Renew(t) \/ End(t)
           \/ Forget

Spec == Init /\ [][Next]_<<now, lease, good, seats>>
=============================================================================
