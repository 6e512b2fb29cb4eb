-------------------------- MODULE ScriptLibraryProofs --------------------------
(* The index file is a library on which the administrators' operations are      *)
(* atomic, for every number of requests and of versions.                        *)
EXTENDS ScriptFilesProofs

Pair(e) == [id |-> e.id, content |-> e.content]
Pairs(scripts) == {Pair(e) : e \in scripts}

\* The index new results from old by one operation of the library.
Created(old, new, v) ==
  /\ Pairs(new.scripts) = Pairs(old.scripts) \cup {v}
  /\ new.active \in {old.active, v.id}
Deleted(old, new, id) ==
  /\ Pairs(new.scripts) = {v \in Pairs(old.scripts) : v.id # id}
  /\ new.active = old.active /\ old.active # id
ByOne(old, new) == \/ \E v \in Library!Version : Created(old, new, v)
                   \/ \E id \in Ids : Deleted(old, new, id)

\* What a request is going to write is what it read, with one operation done.
Changes == \A r \in Serving : \/ request[r].next = request[r].seen
                              \/ ByOne(request[r].seen, request[r].next)

-----------------------------------------------------------------------------
(* Pairs.                                                                    *)

LEMMA PairsOf ==
  ASSUME NEW S, NEW T
  PROVE  /\ Pairs(S \cup T) = Pairs(S) \cup Pairs(T)
         /\ (\A x \in S : \E y \in T : Pair(x) = Pair(y)) => Pairs(S) \subseteq Pairs(T)
BY DEF Pairs

LEMMA PairOfVersion ==
  ASSUME NEW id \in Ids, NEW content \in Contents, NEW status
  PROVE  /\ Pair(Version(id, content, status)) = [id |-> id, content |-> content]
         /\ [id |-> id, content |-> content] \in Library!Version
         /\ Pairs({Version(id, content, status)}) = {[id |-> id, content |-> content]}
<1>1. Pair(Version(id, content, status)) = [id |-> id, content |-> content]
  BY VersionFields DEF Pair
<1>2. [id |-> id, content |-> content] \in Library!Version
  BY DEF Library!Version
<1>3. QED
  BY <1>1, <1>2 DEF Pairs

\* Archiving changes neither an identifier nor a content.
LEMMA ArchivedPairs ==
  ASSUME NEW entries
  PROVE  Pairs(Archived(entries)) = Pairs(entries)
<1> DEFINE entry(e) == IF e.status = "active"
                       THEN Version(e.id, e.content, "archived") ELSE e
<1>1. ASSUME NEW e PROVE Pair(entry(e)) = Pair(e)
  BY VersionFields DEF Pair
<1>2. Archived(entries) = {entry(e) : e \in entries}
  BY DEF Archived
<1> HIDE DEF entry
<1>3. QED
  BY <1>1, <1>2 DEF Pairs

-----------------------------------------------------------------------------
(* What the operations write.                                                *)

LEMMA CreateIsOne ==
  ASSUME PointerInv, RequestsInv, NEW id \in Ids, NEW content \in Contents
  PROVE  ByOne(Seen, [active |-> Seen.active,
                      scripts |-> Seen.scripts \cup {Version(id, content, "draft")}])
<1> DEFINE draft == {Version(id, content, "draft")}
           v == [id |-> id, content |-> content]
           new == [active |-> Seen.active, scripts |-> Seen.scripts \cup draft]
<1>1. Pairs(draft) = {v} /\ v \in Library!Version
  BY PairOfVersion
<1>2. new.active = Seen.active /\ new.scripts = Seen.scripts \cup draft
  OBVIOUS
<1> HIDE DEF new, draft, v
<1>3. Pairs(new.scripts) = Pairs(Seen.scripts) \cup {v}
  BY <1>1, <1>2, PairsOf
<1>4. Created(Seen, new, v)
  BY <1>2, <1>3 DEF Created
<1>5. QED
  BY <1>1, <1>4 DEF ByOne, new, draft

LEMMA PublishIsOne ==
  ASSUME PointerInv, RequestsInv, NEW id \in Ids, NEW content \in Contents,
         NEW entries, Pairs(entries) \cup {[id |-> id, content |-> content]}
                        = Pairs(Seen.scripts) \cup {[id |-> id, content |-> content]}
  PROVE  ByOne(Seen, [active |-> id,
                      scripts |-> Archived(entries)
                                    \cup {Version(id, content, "active")}])
<1> DEFINE added == {Version(id, content, "active")}
           v == [id |-> id, content |-> content]
           new == [active |-> id, scripts |-> Archived(entries) \cup added]
<1>1. /\ Pairs(added) = {v} /\ v \in Library!Version /\ v.id = id
      /\ Pairs(entries) \cup {v} = Pairs(Seen.scripts) \cup {v}
  BY PairOfVersion
<1>2. new.active = id /\ new.scripts = Archived(entries) \cup added
  OBVIOUS
<1> HIDE DEF new, added, v
<1>3. Pairs(new.scripts) = Pairs(Archived(entries)) \cup {v}
  BY <1>1, <1>2, PairsOf
<1>4. Created(Seen, new, v)
  BY <1>1, <1>2, <1>3, ArchivedPairs DEF Created
<1>5. QED
  BY <1>1, <1>4 DEF ByOne, new, added

LEMMA ActivateIsOne ==
  ASSUME PointerInv, RequestsInv, NEW e \in Seen.scripts
  PROVE  ByOne(Seen, [active |-> e.id,
                      scripts |-> Archived(Seen.scripts \ {e})
                                    \cup {Version(e.id, e.content, "active")}])
<1>1. e.id \in Ids /\ e.content \in Contents
  BY SeenParts, IndexIsOld DEF Entry
<1>2. Pairs(Seen.scripts \ {e}) \cup {Pair(e)} = Pairs(Seen.scripts) \cup {Pair(e)}
  BY DEF Pairs
<1>3. QED
  BY <1>1, <1>2, PublishIsOne DEF Pair

LEMMA DeleteIsOne ==
  ASSUME NEW id \in Ids, Seen.active # id
  PROVE  ByOne(Seen, [active |-> Seen.active,
                      scripts |-> {e \in Seen.scripts : e.id # id}])
<1> DEFINE new == [active |-> Seen.active,
                   scripts |-> {e \in Seen.scripts : e.id # id}]
<1>1. new.active = Seen.active /\ new.scripts = {e \in Seen.scripts : e.id # id}
  OBVIOUS
<1> HIDE DEF new
<1>2. \A e : Pair(e).id = e.id
  BY DEF Pair
<1>3. Pairs(new.scripts) = {v \in Pairs(Seen.scripts) : v.id # id}
  BY <1>1, <1>2 DEF Pairs
<1>4. QED
  BY <1>1, <1>3 DEF ByOne, Deleted, new

-----------------------------------------------------------------------------
(* The invariant.                                                            *)

LEMMA ReceiveKeepsChanges ==
  ASSUME RequestsInv, Changes, NEW r \in Requests, NEW id, NEW content, NEW next,
         NEW todo, Receive(r, id, content, next, todo),
         next = Seen \/ ByOne(Seen, next)
  PROVE  Changes'
<1>1. /\ request \in [Requests -> Request \cup {Idle}]
      /\ request' = [request EXCEPT ![r] =
           [id |-> id, content |-> content, seen |-> Seen,
            next |-> next, todo |-> todo, window |-> Active(Seen)]]
  BY DEF Receive, RequestsInv, TypeOK
<1>2. request'[r].seen = Seen /\ request'[r].next = next
  BY <1>1
<1>3. \A q \in Requests : q # r => request'[q] = request[q]
  BY <1>1
<1>4. QED
  BY <1>2, <1>3 DEF Changes, Serving

LEMMA MovedKeepsChanges ==
  ASSUME Changes, NEW r, NEW step, NEW W, Moved(r, step, W)
  PROVE  Changes'
BY MovedPending DEF Changes

LEMMA ChangesStep ==
  ASSUME PointerInv, RequestsInv, Changes, [Next]_vars
  PROVE  Changes'
<1>1. ASSUME NEW r \in Requests, NEW id \in Ids, Create(r, id)
      PROVE  Changes'
  <2>1. created + 1 \in Contents
    BY <1>1, NewVersionIsNumbered DEF Create
  <2>2. QED
    BY <1>1, <2>1, CreateIsOne, ReceiveKeepsChanges DEF Create
<1>2. ASSUME NEW r \in Requests, NEW id \in Ids, Publish(r, id)
      PROVE  Changes'
  <2>1. created + 1 \in Contents
    BY <1>2, NewVersionIsNumbered DEF Publish
  <2>2. QED
    BY <1>2, <2>1, PublishIsOne, ReceiveKeepsChanges DEF Publish
<1>3. ASSUME NEW r \in Requests, NEW id \in Ids, Activate(r, id)
      PROVE  Changes'
  BY <1>3, ActivateIsOne, ReceiveKeepsChanges DEF Activate
<1>4. ASSUME NEW r \in Requests, NEW id \in Ids, Delete(r, id)
      PROVE  Changes'
  BY <1>4, DeleteIsOne, ReceiveKeepsChanges DEF Delete
<1>5. ASSUME NEW r \in Requests, Download(r) \/ List(r)
      PROVE  Changes'
  BY <1>5, ReceiveKeepsChanges DEF Download, List
<1>6. ASSUME NEW r \in Requests, WriteMigratedIndex(r) \/ WriteNextIndex(r)
      PROVE  Changes'
  <2>1. r \in Serving
    BY <1>6 DEF WriteMigratedIndex, WriteNextIndex, WriteIndex, Doing, Serving
  <2>2. QED
    BY <1>6, <2>1, IndexesToWrite, WriteIndexKeepsRequests, MovedKeepsChanges
       DEF WriteMigratedIndex, WriteNextIndex
<1>7. ASSUME NEW r \in Requests,
             \/ WriteLegacyFile(r) \/ StoreFile(r) \/ ActivateFile(r)
             \/ ArchiveFile(r) \/ RemoveFile(r)
      PROVE  Changes'
  <2>1. PICK step, files : WriteFiles(r, step, files)
    BY <1>7 DEF WriteLegacyFile, StoreFile, ActivateFile, ArchiveFile, RemoveFile
  <2>2. QED
    BY <2>1, AdvancedMoves, MovedKeepsChanges DEF WriteFiles
<1>8. ASSUME NEW r \in Requests, Fetch(r)
      PROVE  Changes'
  BY <1>8, FetchParts, MovedKeepsChanges
<1>9. ASSUME \A q \in Requests : request'[q] \in {Idle, request[q]}
      PROVE  Changes'
  BY <1>9 DEF Changes, Serving
<1>10. request \in [Requests -> Request \cup {Idle}]
  BY DEF RequestsInv, TypeOK
<1>11. ASSUME NEW r \in Requests, Fail(r)
       PROVE  Changes'
  BY <1>9, <1>10, <1>11 DEF Fail
<1>12. CASE Restart
  BY <1>9, <1>12 DEF Restart
<1>13. CASE UNCHANGED vars
  BY <1>9, <1>13 DEF vars
<1>14. QED
  BY <1>1, <1>2, <1>3, <1>4, <1>5, <1>6, <1>7, <1>8, <1>11, <1>12, <1>13 DEF Next

LEMMA ChangesInductive == Spec => []Changes
<1>1. Init => Changes
  BY DEF Init, Changes, Serving
<1>2. PointerInv /\ RequestsInv /\ Changes /\ [Next]_vars => Changes'
  BY ChangesStep
<1>3. QED
  BY <1>1, <1>2, PointerInductive, RequestsInductive, PTL DEF Spec

-----------------------------------------------------------------------------
(* The refinement.                                                           *)

LEMMA LibraryTyped ==
  ASSUME PointerInv, RequestsInv
  PROVE  Library!TypeOK
<1>1. /\ Seen.scripts \subseteq Entry /\ Seen.active \in Ids \cup {NoId}
      /\ overlapped \in BOOLEAN
  BY SeenParts, IndexIsOld, IndexParts DEF RequestsInv, TypeOK
<1>2. \A e \in Seen.scripts :
        [id |-> e.id, content |-> e.content] \in Library!Version
  BY <1>1 DEF Entry, Library!Version
<1>3. QED
  BY <1>1, <1>2 DEF Library!TypeOK

\* The index changes by one operation when a request writes what it computed
\* from the index that it finds.
LEMMA WriteIsOperation ==
  ASSUME NEW new, Seen' = new, ByOne(Seen, new)
  PROVE  Library!Operation
<1>1. ASSUME NEW v \in Library!Version, Created(Seen, new, v)
      PROVE  Library!Create(v) \/ Library!Publish(v)
  BY <1>1 DEF Created, Pairs, Pair, Library!Create, Library!Publish
<1>2. ASSUME NEW id \in Ids, Deleted(Seen, new, id)
      PROVE  Library!Delete(id)
  BY <1>2 DEF Deleted, Pairs, Pair, Library!Delete
<1>3. QED
  BY <1>1, <1>2 DEF ByOne, Library!Operation

LEMMA LibraryStep ==
  ASSUME PointerInv, RequestsInv, WritesInv, Changes, Library!TypeOK', [Next]_vars
  PROVE  [Library!Next]_<<{[id |-> e.id, content |-> e.content] : e \in Seen.scripts},
                          Seen.active, overlapped>>
<1>1. CASE overlapped'
  BY <1>1 DEF Library!Next, Library!Contend
<1>2. CASE overlapped' = overlapped /\ Seen' = Seen
  BY <1>2
<1>3. CASE ~overlapped'
  <2>1. ASSUME NEW r \in Requests, NEW id, NEW content, NEW next, NEW todo,
               Reads(r, id, content, next, todo)
        PROVE  overlapped' = overlapped /\ Seen' = Seen
    BY <1>3, <2>1 DEF Reads, Receive, Seen, RequestsInv, TypeOK
  <2>2. ASSUME NEW r \in Requests, WriteMigratedIndex(r) \/ WriteNextIndex(r)
        PROVE  \/ overlapped' = overlapped /\ Seen' = Seen
               \/ ~overlapped /\ overlapped' = overlapped /\ Library!Operation
    <3>1. PICK step \in {"migrated index", "index"} :
            \/ WriteIndex(r, step, request[r].next) /\ step = "index"
            \/ WriteIndex(r, step, request[r].seen) /\ step = "migrated index"
      BY <2>2 DEF WriteMigratedIndex, WriteNextIndex
    <3>2. /\ r \in Serving /\ Doing(r, step)
          /\ overlapped' = overlapped /\ ~overlapped
      <4>1. Doing(r, step) /\ UNCHANGED history
        BY <3>1 DEF WriteIndex
      <4>2. r \in Serving
        BY <4>1 DEF Doing, Serving
      <4>3. overlapped' = overlapped
        BY <4>1 DEF history
      <4>4. QED
        BY <1>3, <4>1, <4>2, <4>3
    <3>3. step \in Pending(r) /\ Busy(r)
      BY <3>2, AdvancedParts DEF Busy, Writes
    <3>4. request[r].seen = Seen
      BY <3>2, <3>3 DEF WritesInv, StoredInv, WritesInOrder, SeenIsCurrent
    <3>5. /\ step = "index" => Seen' = request[r].next
          /\ step = "migrated index" => Seen' = request[r].seen
      BY <3>1, <3>2, IndexesToWrite, WriteIndexKeepsRequests
    <3>6. QED
      BY <3>2, <3>4, <3>5, WriteIsOperation DEF Changes
  <2>3. ASSUME NEW r \in Requests, NEW step, NEW files, WriteFiles(r, step, files)
        PROVE  overlapped' = overlapped /\ Seen' = Seen
    BY <2>3 DEF WriteFiles, Seen, history
  <2>4. ASSUME NEW r \in Requests, Fetch(r)
        PROVE  overlapped' = overlapped /\ Seen' = Seen
    BY <2>4 DEF Fetch, Seen, history
  <2>5. CASE EndOfRequests
    BY <1>2, <2>5 DEF EndOfRequests, Seen, history
  <2>6. QED
    BY <1>2, <2>1, <2>2, <2>3, <2>4, <2>5, StepsAndEnds
       DEF StepOfRequest, Library!Next
<1>4. QED
  BY <1>1, <1>3

\* The administrators' operations are atomic, none deletes the active version,
\* and none undoes another as long as no two of them had writes to do at once:
\* for any number of requests and of versions, any interleaving of their steps
\* and of reads, failed writes and restarts, and even if versions share
\* identifiers (create, Publish, Activate and Delete in repository.go).
THEOREM LibraryHolds == Spec => LibraryIsAtomic
<1>1. Init /\ PointerInv /\ RequestsInv => Library!Init
  <2> SUFFICES ASSUME Init, PointerInv, RequestsInv PROVE Library!Init
    OBVIOUS
  <2>1. Library!TypeOK /\ ~overlapped
    BY LibraryTyped DEF Init
  <2>2. Seen.active # NoId => \E e \in Seen.scripts : e.id = Seen.active
    BY SeenParts DEF Named, Active
  <2>3. Seen.active # NoId => Library!Listed(Seen.active)
    <3>1. ASSUME NEW e \in Seen.scripts, e.id = Seen.active
          PROVE  Library!Listed(Seen.active)
      <4> DEFINE v == [id |-> e.id, content |-> e.content]
      <4>1. v \in {[id |-> f.id, content |-> f.content] : f \in Seen.scripts}
        OBVIOUS
      <4>2. v.id = Seen.active
        BY <3>1
      <4> HIDE DEF v
      <4>3. QED
        BY <4>1, <4>2 DEF Library!Listed
    <3>2. QED
      BY <2>2, <3>1
  <2>4. QED
    BY <2>1, <2>3 DEF Library!Init
<1>2. PointerInv /\ RequestsInv => Library!TypeOK
  BY LibraryTyped
<1>3. PointerInv /\ RequestsInv /\ WritesInv /\ Changes /\ Library!TypeOK'
        /\ [Next]_vars
      => [Library!Next]_<<{[id |-> e.id, content |-> e.content] : e \in Seen.scripts},
                          Seen.active, overlapped>>
  BY LibraryStep
<1>4. QED
  BY <1>1, <1>2, <1>3, PointerInductive, RequestsInductive, WritesInductive,
     ChangesInductive, PTL DEF Spec, LibraryIsAtomic, Library!Spec
=============================================================================
