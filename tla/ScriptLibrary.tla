---------------------------- MODULE ScriptLibrary ----------------------------
(***************************************************************************)
(* What the administrators of the client script may hope for: a library of *)
(* versions with one active among them, on which every operation takes     *)
(* effect as a whole or not at all, and none undoes another, as long as    *)
(* they are not carried out at once.                                       *)
(***************************************************************************)
CONSTANTS
  Ids,                 \* identifiers of versions
  NoId,                \* no version
  Contents             \* what a version holds

VARIABLES
  versions,            \* the versions in the library
  active,              \* the identifier of the active version, or NoId
  contended            \* have operations been carried out at once?

Version == [id : Ids, content : Contents]

TypeOK == /\ versions \subseteq Version
          /\ active \in Ids \cup {NoId}
          /\ contended \in BOOLEAN

Listed(id) == \E v \in versions : v.id = id

Init == TypeOK /\ ~contended /\ (active # NoId => Listed(active))

Create(v) == versions' = versions \cup {v} /\ active' = active

Publish(v) == versions' = versions \cup {v} /\ active' = v.id

Activate(v) == /\ v \in versions
               /\ active' = v.id
               /\ versions' = versions

\* The active version is never deleted.
Delete(id) == /\ active # id
              /\ versions' = {v \in versions : v.id # id}
              /\ active' = active

Operation == \/ \E v \in Version : Create(v) \/ Publish(v) \/ Activate(v)
             \/ \E id \in Ids : Delete(id)

\* Nothing is promised of operations that are carried out at once.
Contend == contended' = TRUE /\ TypeOK'

Next == Contend \/ (~contended /\ Operation /\ contended' = contended)

Spec == Init /\ [][Next]_<<versions, active, contended>>
=============================================================================
