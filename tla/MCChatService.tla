--------------------------- MODULE MCChatService ---------------------------
(* Instances of ChatService for TLC. *)
EXTENDS ChatService, TLC
CONSTANT r1

\* Past damage the invariants claim little: those states are not extended.
Undamaged == ~damaged
=============================================================================
