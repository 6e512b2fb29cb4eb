---------------------------- MODULE ScriptVersions ----------------------------
(***************************************************************************)
(* The versions of the client script (internal/features/scripts): an index *)
(* file that names the active version and lists all of them, and one file  *)
(* per version with the content that clients download.                     *)
(*                                                                         *)
(* Each file is replaced atomically, by a rename, but a request writes     *)
(* several of them, and no lock is held: a request reads the index,        *)
(* computes the new one in memory, writes version files, and at last       *)
(* overwrites the index with what it computed.  Requests interleave        *)
(* between any two of these steps, a write may fail, and the server may    *)
(* stop.                                                                   *)
(***************************************************************************)
EXTENDS Naturals, Sequences, FiniteSets

CONSTANTS
  Ids,              \* identifiers of versions: "<version>-<second of creation>"
  NoId,             \* the empty identifier
  NoFile,           \* the file does not exist
  Requests,         \* HTTP requests that may be served at once
  Idle,             \* a request that is not being served
  Nothing,          \* no download
  LegacyId,         \* the version an older server left behind
  Origins,          \* what an older server left behind: see Init
  SameSecond,       \* may a new version get the identifier of an older one?
  MaxCreated        \* bound: versions created

ASSUME NamesAssumption ==
  /\ NoId \notin Ids /\ LegacyId \in Ids
  /\ Origins \subseteq {"nothing", "active.json", "index without statuses"}
  /\ SameSecond \in BOOLEAN
  /\ MaxCreated \in Nat

VARIABLES
  index,            \* index.json
  file,             \* the content in <id>.json, for every identifier
  legacy,           \* does active.json, of version LegacyId, exist?
  request,          \* the requests being served
  \* history
  issued,           \* identifiers given to versions
  created,          \* number of versions created; it numbers their contents
  overlapped,       \* have two requests ever had writes to do at once?
  served            \* how the download ended that the last step ended

history == <<issued, created, overlapped>>
vars == <<index, file, legacy, request, history, served>>
-----------------------------------------------------------------------------
(* An entry of the index stands for a version; it has its own copy of the  *)
(* content.  A new version is put before the others, so that the order of  *)
(* the list is that of the contents' numbers, the largest first.           *)

Contents == 0 .. MaxCreated
Statuses == {"draft", "active", "archived"}
Entry == [id : Ids, content : Contents, status : Statuses]
OldEntry == [id : Ids, content : Contents, status : Statuses \cup {""}]
Index == [active : Ids \cup {NoId}, scripts : SUBSET Entry]
OldIndex == [active : Ids \cup {NoId}, scripts : SUBSET OldEntry]
Writes == {"legacy file", "migrated index", "archive", "store", "activate",
           "index", "remove"}
Request == [id : Ids \cup {NoId}, content : Contents,
            seen : Index,             \* the index as read
            next : Index,             \* the index as it is to be written
            todo : Seq(Writes \cup {"fetch"}),
            window : SUBSET Entry]    \* history: active while it was served

ASSUME AbsenceAssumption ==
  /\ NoFile \notin OldIndex \cup Contents
  /\ Idle \notin Request
  /\ NoId # Nothing

Version(id, content, status) ==
  [id |-> id, content |-> content, status |-> status]
EmptyIndex == [active |-> NoId, scripts |-> {}]
Active(idx) == {e \in idx.scripts : e.status = "active"}
Archived(entries) ==
  {IF e.status = "active" THEN Version(e.id, e.content, "archived") ELSE e :
     e \in entries}

\* Mutant of Migrated: only the pointer is taken over.
MigratedPointer(idx) == [active |-> idx.active, scripts |-> idx.scripts]

\* readIndex gives the entries of older servers a status, and takes over the
\* version in active.json when there is no index.
Migrated(idx) ==
  [active |-> idx.active,
   scripts |-> {Version(e.id, e.content,
                        IF e.status # "" THEN e.status
                        ELSE IF e.id = idx.active THEN "active"
                        ELSE "archived") : e \in idx.scripts}]

Seen ==
  IF index # NoFile THEN Migrated(index)
  ELSE IF legacy THEN [active |-> LegacyId,
                       scripts |-> {Version(LegacyId, 0, "active")}]
  ELSE EmptyIndex

\* What readIndex writes before it returns.
Migration ==
  IF index # NoFile
  THEN IF \E e \in index.scripts : e.status = "" THEN <<"migrated index">>
                                                 ELSE <<>>
  ELSE IF legacy THEN <<"legacy file", "migrated index">> ELSE <<>>

\* Some request other than r still has something to write.
Writing(r) ==
  \E q \in Requests \ {r} :
    request[q] # Idle /\ \E i \in DOMAIN request[q].todo :
                           request[q].todo[i] \in Writes
-----------------------------------------------------------------------------
Init ==
  /\ \E origin \in Origins :
       /\ legacy = (origin = "active.json")
       /\ index = IF origin = "index without statuses"
                  THEN [active |-> LegacyId,
                        scripts |-> {Version(LegacyId, 0, "")}]
                  ELSE NoFile
       /\ file = [s \in Ids |->
                    IF s = LegacyId /\ origin = "index without statuses"
                    THEN 0 ELSE NoFile]
       /\ issued = IF origin = "nothing" THEN {} ELSE {LegacyId}
  /\ request = [r \in Requests |-> Idle]
  /\ created = 0 /\ overlapped = FALSE /\ served = Nothing
-----------------------------------------------------------------------------
(* A request is received and reads the index; what it will write is        *)
(* settled then.                                                           *)

HasWrites(todo) == \E i \in DOMAIN todo : todo[i] \in Writes

Receive(r, id, content, next, todo) ==
  /\ request[r] = Idle
  /\ request' = [request EXCEPT ![r] =
                   [id |-> id, content |-> content, seen |-> Seen,
                    next |-> next, todo |-> todo, window |-> Active(Seen)]]
  /\ overlapped' = (overlapped \/ (HasWrites(todo) /\ Writing(r)))
  /\ served' = Nothing
  /\ UNCHANGED <<index, file, legacy>>

Archiving == IF Active(Seen) # {} THEN <<"archive">> ELSE <<>>

\* uniqueVersion reads the index first, and so migrates it (see List); it
\* compares versions, and not identifiers, and cannot see a default version,
\* which is given later: versions of one second may share an identifier.
NewVersion(id) ==
  /\ Migration = <<>>
  /\ created < MaxCreated
  /\ id \notin issued \/ (SameSecond /\ id # LegacyId)
  /\ issued' = issued \cup {id}
  /\ created' = created + 1

Create(r, id) ==
  /\ NewVersion(id)
  /\ Receive(r, id, created + 1,
             [active |-> Seen.active,
              scripts |-> Seen.scripts
                            \cup {Version(id, created + 1, "draft")}],
             <<"store", "index">>)

\* Mutants of Publish: the version active before is not archived; the index is
\* written before the file.
PublishBesideOld(r, id) ==
  /\ NewVersion(id)
  /\ Receive(r, id, created + 1,
             [active |-> id,
              scripts |-> Seen.scripts
                            \cup {Version(id, created + 1, "active")}],
             <<"store", "index">>)
PublishIndexFirst(r, id) ==
  /\ NewVersion(id)
  /\ Receive(r, id, created + 1,
             [active |-> id,
              scripts |-> Archived(Seen.scripts)
                            \cup {Version(id, created + 1, "active")}],
             Archiving \o <<"index", "store">>)

Publish(r, id) ==
  /\ NewVersion(id)
  /\ Receive(r, id, created + 1,
             [active |-> id,
              scripts |-> Archived(Seen.scripts)
                            \cup {Version(id, created + 1, "active")}],
             Archiving \o <<"store", "index">>)

\* The first entry of the list that has the identifier.
IsFirst(e, idx) ==
  \A f \in idx.scripts : f.id = e.id => f.content <= e.content

Activate(r, id) ==
  \E e \in Seen.scripts :
    /\ e.id = id /\ IsFirst(e, Seen) /\ e.status # "active"
    /\ Receive(r, id, e.content,
               [active |-> id,
                scripts |-> Archived(Seen.scripts \ {e})
                              \cup {Version(id, e.content, "active")}],
               Migration \o Archiving \o <<"activate", "index">>)
    /\ UNCHANGED <<issued, created>>

\* Mutants of Delete: the active version is deleted; the file goes before the
\* entry.
DeleteAny(r, id) ==
  /\ \E e \in Seen.scripts : e.id = id
  /\ Receive(r, id, 0,
             [active |-> Seen.active,
              scripts |-> {e \in Seen.scripts : e.id # id}],
             Migration \o <<"index", "remove">>)
  /\ UNCHANGED <<issued, created>>
DeleteFileFirst(r, id) ==
  /\ Seen.active # id
  /\ \E e \in Seen.scripts : e.id = id
  /\ Receive(r, id, 0,
             [active |-> Seen.active,
              scripts |-> {e \in Seen.scripts : e.id # id}],
             Migration \o <<"remove", "index">>)
  /\ UNCHANGED <<issued, created>>

Delete(r, id) ==
  /\ Seen.active # id
  /\ \E e \in Seen.scripts : e.id = id
  /\ Receive(r, id, 0,
             [active |-> Seen.active,
              scripts |-> {e \in Seen.scripts : e.id # id}],
             Migration \o <<"index", "remove">>)
  /\ UNCHANGED <<issued, created>>

\* Mutant of Download: the newest version is served.
DownloadNewest(r) ==
  \E e \in Seen.scripts :
    /\ \A f \in Seen.scripts : f.content <= e.content
    /\ Receive(r, e.id, 0, Seen, Migration \o <<"fetch">>)
    /\ UNCHANGED <<issued, created>>

\* GetActive, for a client's download.
Download(r) ==
  /\ Seen.active # NoId
  /\ Receive(r, Seen.active, 0, Seen, Migration \o <<"fetch">>)
  /\ UNCHANGED <<issued, created>>

\* Any other reader of the index, when its read migrates it.
List(r) ==
  /\ Migration # <<>>
  /\ Receive(r, NoId, 0, Seen, Migration)
  /\ UNCHANGED <<issued, created>>
-----------------------------------------------------------------------------
(* A request does the next thing it has to do.                             *)

\* Every request in flight sees the versions of idx become active.
Witnessed(requests, idx) ==
  [q \in Requests |->
     IF requests[q] = Idle THEN Idle
     ELSE [requests[q] EXCEPT !.window = @ \cup Active(idx)]]

Advanced(r) ==
  LET q == request[r] IN
  [request EXCEPT ![r] = IF Len(q.todo) = 1 THEN Idle
                         ELSE [q EXCEPT !.todo = Tail(q.todo)]]

\* Request r has to do this step now.
Doing(r, step) == request[r] # Idle /\ Head(request[r].todo) = step

WriteIndex(r, step, idx) ==
  /\ Doing(r, step)
  /\ index' = idx
  /\ request' = Witnessed(Advanced(r), idx)
  /\ served' = Nothing
  /\ UNCHANGED <<file, legacy, history>>

WriteMigratedIndex(r) == WriteIndex(r, "migrated index", request[r].seen)
WriteNextIndex(r) == WriteIndex(r, "index", request[r].next)

WriteFiles(r, step, files) ==
  /\ Doing(r, step)
  /\ file' = files
  /\ request' = Advanced(r)
  /\ served' = Nothing
  /\ UNCHANGED <<index, legacy, history>>

WriteLegacyFile(r) ==
  WriteFiles(r, "legacy file", [file EXCEPT ![LegacyId] = 0])

\* The file of a new version.
StoreFile(r) ==
  WriteFiles(r, "store", [file EXCEPT ![request[r].id] = request[r].content])

\* The content in the file is kept; a missing file is made from the index.
ActivateFile(r) ==
  WriteFiles(r, "activate",
             [file EXCEPT ![request[r].id] =
                IF @ = NoFile THEN request[r].content ELSE @])

ArchiveFile(r) ==
  Doing(r, "archive") /\ \E e \in Active(request[r].seen) :
    WriteFiles(r, "archive",
               [file EXCEPT ![e.id] = IF @ = NoFile THEN e.content ELSE @])

RemoveFile(r) ==
  WriteFiles(r, "remove", [file EXCEPT ![request[r].id] = NoFile])

Fetch(r) ==
  /\ Doing(r, "fetch")
  /\ served' = [content |-> file[request[r].id],
                window |-> request[r].window]
  /\ request' = Advanced(r)
  /\ UNCHANGED <<index, file, legacy, history>>

\* A write fails, and the request ends there.
Fail(r) ==
  /\ request[r] # Idle
  /\ request' = [request EXCEPT ![r] = Idle]
  /\ served' = Nothing
  /\ UNCHANGED <<index, file, legacy, history>>

\* The server stops, and starts again.
Restart ==
  /\ request' = [r \in Requests |-> Idle]
  /\ served' = Nothing
  /\ UNCHANGED <<index, file, legacy, history>>

Next ==
  \/ \E r \in Requests, id \in Ids :
       Create(r, id) \/ Publish(r, id) \/ Activate(r, id) \/ Delete(r, id)
  \/ \E r \in Requests :
       \/ Download(r) \/ List(r)
       \/ WriteLegacyFile(r) \/ WriteMigratedIndex(r) \/ WriteNextIndex(r)
       \/ StoreFile(r) \/ ActivateFile(r) \/ ArchiveFile(r) \/ RemoveFile(r)
       \/ Fetch(r) \/ Fail(r)
  \/ Restart

Spec == Init /\ [][Next]_vars
-----------------------------------------------------------------------------
\* Every variable has its type.
TypeOK ==
  /\ index \in OldIndex \cup {NoFile}
  /\ file \in [Ids -> Contents \cup {NoFile}]
  /\ legacy \in BOOLEAN
  /\ request \in [Requests -> Request \cup {Idle}]
  /\ issued \subseteq Ids /\ created \in 0 .. MaxCreated
  /\ overlapped \in BOOLEAN
  /\ served = Nothing \/ /\ served.content \in Contents \cup {NoFile}
                         /\ served.window \subseteq Entry

\* "exactly ONE active pointer" (docs/adr/0005): once an index is migrated, at
\* most one version in it is active, and it is the one the pointer names,
\* however the requests that rewrite it interleave, fail, or are cut off.
OnePointer(idx) ==
  /\ \A e, f \in Active(idx) : e = f
  /\ \A e \in Active(idx) : e.id = idx.active

OneActiveVersion == index # NoFile => OnePointer(Migrated(index))

\* The index, with a request that reads it, computes a new one and overwrites it,
\* is a library on which the administrators' operations are atomic: an operation
\* that fails, or that the server's end cuts off, before it wrote the index has
\* no effect, none deletes the active version, and no version is lost as long as
\* no two requests had writes to do at once.
Library ==
  INSTANCE ScriptLibrary
    WITH versions <- {[id |-> e.id, content |-> e.content] : e \in Seen.scripts},
         active <- Seen.active,
         contended <- overlapped

LibraryIsAtomic == Library!Spec

\* As long as no two requests had writes to do at once, every listed version
\* has its file: whatever step a request fails or the server stops at, the
\* index never names a version whose content is not stored.
ListedIsStored ==
  index # NoFile /\ ~overlapped =>
    \A e \in index.scripts : file[e.id] # NoFile

\* Under the same condition, a download fails to find the active version only
\* if another version became active while it was served.
DownloadFindsScript ==
  served # Nothing /\ ~overlapped =>
    served.content # NoFile \/ Cardinality(served.window) > 1

\* ADR 0005, 3.: the download "MUST serve only the script referenced by the
\* active script pointer": its content is that of a version that was active
\* while the download was served.
DeliversActive ==
  served # Nothing /\ served.content # NoFile =>
    \E e \in served.window : e.content = served.content
=============================================================================
