------------------------- MODULE ScriptVersionsProofs -------------------------
(* The index of script versions has one active version, whatever the        *)
(* number of requests and versions.                                         *)
EXTENDS ScriptVersions, TLAPS

\* An index in which every entry has a status.
HasStatuses(idx) == \A e \in idx.scripts : e.status # ""

Sound(idx) == HasStatuses(idx) /\ OnePointer(idx)

\* A function on the requests.
Table(requests) == requests = [r \in Requests |-> requests[r]]

\* The inductive invariant: what a request has read, and what it is going to
\* write, has one active version as well.
PointerInv ==
  /\ OneActiveVersion
  /\ Table(request)
  /\ \A r \in Requests : request[r] # Idle =>
       /\ {"seen", "next"} \subseteq DOMAIN request[r]
       /\ Sound(request[r].seen) /\ Sound(request[r].next)

-----------------------------------------------------------------------------
LEMMA VersionFields ==
  ASSUME NEW id, NEW content, NEW status
  PROVE  /\ Version(id, content, status).id = id
         /\ Version(id, content, status).content = content
         /\ Version(id, content, status).status = status
BY DEF Version

\* Migration leaves no entry without a status.
LEMMA MigratedHasStatuses ==
  ASSUME NEW idx
  PROVE  HasStatuses(Migrated(idx))
<1>1. ASSUME NEW x \in Migrated(idx).scripts
      PROVE  x.status # ""
  <2>1. PICK e \in idx.scripts :
          x = Version(e.id, e.content,
                      IF e.status # "" THEN e.status
                      ELSE IF e.id = idx.active THEN "active"
                      ELSE "archived")
    BY <1>1 DEF Migrated
  <2>2. x.status = IF e.status # "" THEN e.status
                   ELSE IF e.id = idx.active THEN "active"
                   ELSE "archived"
    BY <2>1 DEF Version
  <2>3. QED
    BY <2>2
<1>2. QED
  BY <1>1 DEF HasStatuses

\* An index that has all its statuses has the same active version migrated.
LEMMA MigratedIsSound ==
  ASSUME NEW idx, Sound(idx)
  PROVE  OnePointer(Migrated(idx))
<1>1. \A x \in Migrated(idx).scripts : \E e \in idx.scripts :
         x = Version(e.id, e.content, e.status)
  BY DEF Migrated, Sound, HasStatuses
<1>2. \A x \in Active(Migrated(idx)) : \E e \in Active(idx) :
         x = Version(e.id, e.content, e.status)
  BY <1>1, VersionFields DEF Active
<1>3. Migrated(idx).active = idx.active
  BY DEF Migrated
<1>4. QED
  BY <1>2, <1>3, VersionFields DEF OnePointer, Sound

\* What a request reads is sound when the index is.
LEMMA SeenIsSound ==
  ASSUME OneActiveVersion
  PROVE  Sound(Seen)
<1>1. CASE index # NoFile
  BY <1>1, MigratedHasStatuses DEF Seen, Sound, OneActiveVersion
<1>2. CASE index = NoFile /\ legacy
  <2>1. /\ Seen.active = LegacyId
        /\ Seen.scripts = {Version(LegacyId, 0, "active")}
    BY <1>2 DEF Seen
  <2>2. QED
    <3>1. /\ \A e \in Seen.scripts : e = Version(LegacyId, 0, "active")
          /\ Version(LegacyId, 0, "active").status = "active"
          /\ Version(LegacyId, 0, "active").id = LegacyId
      BY <2>1 DEF Version
    <3>2. HasStatuses(Seen)
      BY <3>1 DEF HasStatuses
    <3>3. OnePointer(Seen)
      BY <3>1, <2>1 DEF OnePointer, Active
    <3>4. QED
      BY <3>2, <3>3 DEF Sound
<1>3. CASE index = NoFile /\ ~legacy
  <2>1. Seen.scripts = {}
    BY <1>3 DEF Seen, EmptyIndex
  <2>2. QED
    BY <2>1 DEF Sound, HasStatuses, OnePointer, Active
<1>4. QED
  BY <1>1, <1>2, <1>3

\* Archiving leaves no active entry and takes no status away.
LEMMA ArchivedIsInactive ==
  ASSUME NEW entries, \A e \in entries : e.status # ""
  PROVE  \A x \in Archived(entries) : x.status # "active" /\ x.status # ""
<1>1. ASSUME NEW x \in Archived(entries)
      PROVE  x.status # "active" /\ x.status # ""
  <2>1. PICK e \in entries :
          x = IF e.status = "active" THEN Version(e.id, e.content, "archived")
                                     ELSE e
    BY <1>1 DEF Archived
  <2>2. CASE e.status = "active"
    BY <2>1, <2>2 DEF Version
  <2>3. CASE e.status # "active"
    BY <2>1, <2>3
  <2>4. QED
    BY <2>2, <2>3
<1>2. QED
  BY <1>1

\* An index whose only active version is the new one is sound.
LEMMA PublishedIsSound ==
  ASSUME NEW id, NEW content, NEW entries, \A e \in entries : e.status # ""
  PROVE  Sound([active |-> id,
                scripts |-> Archived(entries)
                              \cup {Version(id, content, "active")}])
<1> DEFINE idx == [active |-> id,
                   scripts |-> Archived(entries)
                                 \cup {Version(id, content, "active")}]
<1>1. /\ idx.active = id
      /\ idx.scripts = Archived(entries) \cup {Version(id, content, "active")}
  OBVIOUS
<1> HIDE DEF idx
<1>2. /\ Version(id, content, "active").status = "active"
      /\ Version(id, content, "active").id = id
  BY DEF Version
<1>a. \A x \in Archived(entries) : x.status # "active" /\ x.status # ""
  BY ArchivedIsInactive
<1>3. HasStatuses(idx)
  BY <1>1, <1>2, <1>a DEF HasStatuses
<1>b. \A e \in Active(idx) : e = Version(id, content, "active")
  BY <1>1, <1>a DEF Active
<1>4. Sound(idx)
  BY <1>1, <1>2, <1>3, <1>b DEF Sound, OnePointer
<1>6. QED
  BY <1>4 DEF idx

\* Adding a draft, or removing entries, leaves a sound index sound.
LEMMA FewerActiveIsSound ==
  ASSUME NEW idx, Sound(idx), NEW scripts,
         \A x \in scripts : x.status # "" /\ (x.status = "active" => x \in idx.scripts)
  PROVE  Sound([active |-> idx.active, scripts |-> scripts])
BY DEF Sound, HasStatuses, OnePointer, Active

\* A request that is received keeps the invariant if what it will write is
\* sound.
LEMMA ReceiveKeepsInv ==
  ASSUME PointerInv, NEW r \in Requests, NEW id, NEW content, NEW next,
         NEW todo, Sound(next), Receive(r, id, content, next, todo)
  PROVE  PointerInv'
<1>1. Sound(Seen)
  BY SeenIsSound DEF PointerInv
<1>2. index' = index
  BY DEF Receive
<1>3. \A q \in Requests : request'[q] # Idle =>
        \/ /\ {"seen", "next"} \subseteq DOMAIN request'[q]
           /\ request'[q].seen = Seen /\ request'[q].next = next
        \/ request[q] # Idle /\ request'[q] = request[q]
  BY DEF Receive, PointerInv, Table
<1>4. Table(request')
  BY DEF Receive, PointerInv, Table
<1>5. QED
  BY <1>1, <1>2, <1>3, <1>4 DEF PointerInv, OneActiveVersion

\* What a request has read and what it will write survive its own steps.
LEMMA AdvancedKeepsIndexes ==
  ASSUME PointerInv, NEW r \in Requests, request[r] # Idle
  PROVE  \A q \in Requests : Advanced(r)[q] # Idle =>
           /\ request[q] # Idle
           /\ {"seen", "next"} \subseteq DOMAIN Advanced(r)[q]
           /\ Advanced(r)[q].seen = request[q].seen
           /\ Advanced(r)[q].next = request[q].next
<1>1. \A q \in Requests : q # r => Advanced(r)[q] = request[q]
  BY DEF Advanced, PointerInv, Table
<1>2. \/ Advanced(r)[r] = Idle
      \/ Advanced(r)[r] = [request[r] EXCEPT !.todo = Tail(request[r].todo)]
  <2> DEFINE rest == [request[r] EXCEPT !.todo = Tail(request[r].todo)]
             last == Len(request[r].todo) = 1
  <2>1. Advanced(r) = [request EXCEPT ![r] = IF last THEN Idle ELSE rest]
    BY DEF Advanced
  <2> HIDE DEF rest, last
  <2>2. DOMAIN request = Requests
    BY DEF PointerInv, Table
  <2>3. Advanced(r)[r] = IF last THEN Idle ELSE rest
    BY <2>1, <2>2
  <2>4. QED
    BY <2>3 DEF rest
<1>3. {"seen", "next"} \subseteq DOMAIN request[r]
  BY DEF PointerInv
<1>4. QED
  BY <1>1, <1>2, <1>3 DEF PointerInv

\* A step that writes version files keeps the invariant.
LEMMA WriteFilesKeepsInv ==
  ASSUME PointerInv, NEW r \in Requests, NEW step, NEW files,
         WriteFiles(r, step, files)
  PROVE  PointerInv'
<1>1. index' = index /\ request' = Advanced(r) /\ request[r] # Idle
  BY DEF WriteFiles, Doing
<1>2. Table(request')
  BY <1>1 DEF Advanced, PointerInv, Table
<1>3. QED
  BY <1>1, <1>2, AdvancedKeepsIndexes DEF PointerInv, OneActiveVersion

\* A step that writes the index keeps the invariant if what it writes is
\* sound.
LEMMA WriteIndexKeepsInv ==
  ASSUME PointerInv, NEW r \in Requests, NEW step, NEW idx, Sound(idx),
         WriteIndex(r, step, idx)
  PROVE  PointerInv'
<1>1. /\ index' = idx /\ request' = Witnessed(Advanced(r), idx)
      /\ request[r] # Idle
  BY DEF WriteIndex, Doing
<1>2. OneActiveVersion'
  BY <1>1, MigratedIsSound DEF OneActiveVersion
<1>3. Table(request')
  BY <1>1 DEF Witnessed, Table
<1>4. ASSUME NEW q \in Requests, request'[q] # Idle
      PROVE  /\ {"seen", "next"} \subseteq DOMAIN request'[q]
             /\ Sound(request'[q].seen) /\ Sound(request'[q].next)
  <2> DEFINE was == Advanced(r)[q]
             window == was.window \cup Active(idx)
  <2>1. was # Idle /\ request'[q] = [was EXCEPT !.window = window]
    BY <1>1, <1>4 DEF Witnessed
  <2>2. /\ request[q] # Idle /\ {"seen", "next"} \subseteq DOMAIN was
        /\ was.seen = request[q].seen /\ was.next = request[q].next
    BY <1>1, <2>1, AdvancedKeepsIndexes
  <2> HIDE DEF was, window
  <2>3. /\ {"seen", "next"} \subseteq DOMAIN request'[q]
        /\ request'[q].seen = was.seen /\ request'[q].next = was.next
    BY <2>1, <2>2
  <2>4. QED
    BY <2>2, <2>3 DEF PointerInv
<1>5. QED
  BY <1>2, <1>3, <1>4 DEF PointerInv

\* Requests that end keep the invariant.
LEMMA EndKeepsInv ==
  ASSUME PointerInv, index' = index, Table(request'),
         \A q \in Requests : request'[q] \in {Idle, request[q]}
  PROVE  PointerInv'
BY DEF PointerInv, OneActiveVersion

-----------------------------------------------------------------------------
LEMMA PointerInductive == Spec => []PointerInv
<1>1. Init => PointerInv
  <2> SUFFICES ASSUME Init PROVE PointerInv
    OBVIOUS
  <2>1. OneActiveVersion
    <3>1. CASE index = NoFile
      BY <3>1 DEF OneActiveVersion
    <3>2. CASE index # NoFile
      <4>1. /\ index.active = LegacyId
            /\ index.scripts = {Version(LegacyId, 0, "")}
        <5>1. index = [active |-> LegacyId,
                       scripts |-> {Version(LegacyId, 0, "")}]
          BY <3>2 DEF Init
        <5>2. QED
          BY <5>1
      <4>2. Migrated(index).active = LegacyId
        BY <4>1 DEF Migrated
      <4>3. /\ Version(LegacyId, 0, "").id = LegacyId
            /\ Version(LegacyId, 0, "").status = ""
            /\ Version(LegacyId, 0, "").content = 0
        BY DEF Version
      <4>4. \A e \in Migrated(index).scripts :
              e = Version(LegacyId, 0, "active")
        BY <4>1, <4>3 DEF Migrated
      <4>5. Version(LegacyId, 0, "active").id = LegacyId
        BY DEF Version
      <4>6. QED
        BY <4>2, <4>4, <4>5 DEF OneActiveVersion, OnePointer, Active
    <3>3. QED
      BY <3>1, <3>2
  <2>2. QED
    BY <2>1 DEF Init, PointerInv, Table
<1>2. PointerInv /\ [Next]_vars => PointerInv'
  <2> SUFFICES ASSUME PointerInv, [Next]_vars PROVE PointerInv'
    OBVIOUS
  <2>0. /\ Sound(Seen)
        /\ \A q \in Requests : request[q] # Idle =>
             Sound(request[q].seen) /\ Sound(request[q].next)
    BY SeenIsSound DEF PointerInv
  <2>1. ASSUME NEW r \in Requests, NEW id \in Ids, Create(r, id)
        PROVE  PointerInv'
    <3> DEFINE new == Version(id, created + 1, "draft")
               scripts == Seen.scripts \cup {new}
    <3>1. new.status = "draft"
      BY DEF Version
    <3>2. \A x \in scripts :
            x.status # "" /\ (x.status = "active" => x \in Seen.scripts)
      BY <2>0, <3>1 DEF Sound, HasStatuses
    <3>3. Sound([active |-> Seen.active, scripts |-> scripts])
      BY <2>0, <3>2, FewerActiveIsSound
    <3>4. QED
      BY <2>1, <3>3, ReceiveKeepsInv DEF Create
  <2>2. ASSUME NEW r \in Requests, NEW id \in Ids, Publish(r, id)
        PROVE  PointerInv'
    <3>1. \A e \in Seen.scripts : e.status # ""
      BY <2>0 DEF Sound, HasStatuses
    <3>2. QED
      BY <2>2, <3>1, PublishedIsSound, ReceiveKeepsInv DEF Publish
  <2>3. ASSUME NEW r \in Requests, NEW id \in Ids, Activate(r, id)
        PROVE  PointerInv'
    <3>1. PICK e \in Seen.scripts :
            Receive(r, id, e.content,
                    [active |-> id,
                     scripts |-> Archived(Seen.scripts \ {e})
                                   \cup {Version(id, e.content, "active")}],
                    Migration \o Archiving \o <<"activate", "index">>)
      BY <2>3 DEF Activate
    <3>2. \A f \in Seen.scripts \ {e} : f.status # ""
      BY <2>0 DEF Sound, HasStatuses
    <3>3. QED
      BY <3>1, <3>2, PublishedIsSound, ReceiveKeepsInv
  <2>4. ASSUME NEW r \in Requests, NEW id \in Ids, Delete(r, id)
        PROVE  PointerInv'
    <3> DEFINE scripts == {e \in Seen.scripts : e.id # id}
    <3>1. \A x \in scripts :
            x.status # "" /\ (x.status = "active" => x \in Seen.scripts)
      BY <2>0 DEF Sound, HasStatuses
    <3>2. Sound([active |-> Seen.active, scripts |-> scripts])
      BY <2>0, <3>1, FewerActiveIsSound
    <3>3. QED
      BY <2>4, <3>2, ReceiveKeepsInv DEF Delete
  <2>5. ASSUME NEW r \in Requests, Download(r) \/ List(r)
        PROVE  PointerInv'
    BY <2>0, <2>5, ReceiveKeepsInv DEF Download, List
  <2>6. ASSUME NEW r \in Requests, WriteMigratedIndex(r) \/ WriteNextIndex(r)
        PROVE  PointerInv'
    BY <2>0, <2>6, WriteIndexKeepsInv
       DEF WriteMigratedIndex, WriteNextIndex, WriteIndex, Doing
  <2>7. ASSUME NEW r \in Requests,
               \/ WriteLegacyFile(r) \/ StoreFile(r) \/ ActivateFile(r)
               \/ ArchiveFile(r) \/ RemoveFile(r)
        PROVE  PointerInv'
    BY <2>7, WriteFilesKeepsInv
       DEF WriteLegacyFile, StoreFile, ActivateFile, ArchiveFile, RemoveFile
  <2>8. ASSUME NEW r \in Requests, Fetch(r)
        PROVE  PointerInv'
    <3>1. index' = index /\ request' = Advanced(r) /\ request[r] # Idle
      BY <2>8 DEF Fetch, Doing
    <3>2. Table(request')
      BY <3>1 DEF Advanced, PointerInv, Table
    <3>3. QED
      BY <3>1, <3>2, AdvancedKeepsIndexes DEF PointerInv, OneActiveVersion
  <2>9. ASSUME NEW r \in Requests, Fail(r)
        PROVE  PointerInv'
    BY <2>9, EndKeepsInv DEF Fail, PointerInv, Table
  <2>10. CASE Restart
    BY <2>10, EndKeepsInv DEF Restart, Table
  <2>11. CASE UNCHANGED vars
    BY <2>11, EndKeepsInv DEF vars, PointerInv, Table
  <2>12. QED
    BY <2>1, <2>2, <2>3, <2>4, <2>5, <2>6, <2>7, <2>8, <2>9, <2>10, <2>11
       DEF Next
<1>3. QED
  BY <1>1, <1>2, PTL DEF Spec

\* ADR 0005's one active pointer, for any number of concurrent requests and of
\* versions, any interleaving of their steps, failed writes and restarts, and
\* even if versions share identifiers.
THEOREM OneActiveVersionHolds == Spec => []OneActiveVersion
<1>1. PointerInv => OneActiveVersion
  BY DEF PointerInv
<1>2. QED
  BY <1>1, PointerInductive, PTL
=============================================================================
