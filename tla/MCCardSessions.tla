--------------------------- MODULE MCCardSessions ---------------------------
(* Small instances of CardSessions for TLC. *)
EXTENDS CardSessions, TLC

CONSTANTS m1, m2, t1, t2, a1, a2

\* Clock readings between two whole seconds.
BetweenSeconds == {1, 3, 5, 7}
ThreeInstants == {1, 3, 5}

SeatEdits == {"limit", "unbind"}
PeriodEdits == {"extend", "unbind", "expire", "archive"}
ArchiveEdits == {"archive"}
CleanupEdits == {"disable"}

\* answer influences no step: states that differ in it alone are one state for
\* the properties that do not read it.
WithoutAnswer == <<now, cards, sessions, blacklist, saving, history>>

Symmetry == Permutations({m1, m2}) \cup Permutations({t1, t2})
              \cup Permutations({a1, a2})
=============================================================================
