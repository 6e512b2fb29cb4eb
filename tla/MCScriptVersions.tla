-------------------------- MODULE MCScriptVersions --------------------------
(* Small instances of ScriptVersions for TLC. *)
EXTENDS ScriptVersions, TLC

CONSTANTS r1, r2, s0, s1, s2

Symmetry == Permutations({r1, r2}) \cup Permutations({s1, s2})

\* Of a request, what its remaining steps and the properties read.
Has(q, steps) == \E i \in DOMAIN q.todo : q.todo[i] \in steps
Remaining(q) ==
  IF q = Idle THEN Idle
  ELSE <<q.todo,
         IF Has(q, {"store", "activate", "remove", "fetch"}) THEN q.id ELSE Idle,
         IF Has(q, {"store", "activate"}) THEN q.content ELSE Idle,
         IF Has(q, {"migrated index", "archive"}) THEN q.seen ELSE Idle,
         IF Has(q, {"index"}) THEN q.next ELSE Idle,
         IF Has(q, {"fetch"}) THEN q.window ELSE Idle>>
Essential == <<index, file, legacy, [r \in Requests |-> Remaining(request[r])],
               history, served>>
=============================================================================
