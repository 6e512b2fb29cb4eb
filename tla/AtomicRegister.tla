--------------------------- MODULE AtomicRegister ---------------------------
(***************************************************************************)
(* What a caller of storage.Store may hope for: a value that is replaced   *)
(* as a whole or not at all, by the value offered and by no other.         *)
(***************************************************************************)
CONSTANT Nothing       \* no value

VARIABLES
  value,               \* the value kept, or Nothing
  offered              \* the value a Save is to put in its place, or Nothing

Init == value = Nothing /\ offered = Nothing

Offer == /\ offered = Nothing /\ offered' # Nothing
         /\ UNCHANGED value

Commit == /\ offered # Nothing
          /\ value' = offered
          /\ offered' = Nothing

\* The Save fails, or the program ends.
Abandon == /\ offered' = Nothing
           /\ UNCHANGED value

Next == Offer \/ Commit \/ Abandon

Spec == Init /\ [][Next]_<<value, offered>>
=============================================================================
