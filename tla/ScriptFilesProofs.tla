-------------------------- MODULE ScriptFilesProofs --------------------------
(* The version files and the downloads of them, for every number of requests *)
(* and of versions.                                                          *)
EXTENDS ScriptVersionsProofs, FiniteSetTheorems

\* The order in which a request takes its steps.
Steps == Writes \cup {"fetch"}
Before(x, y) ==
  \/ x = "legacy file" /\ y # "legacy file"
  \/ x = "migrated index" /\ y \notin {"legacy file", "migrated index"}
  \/ x = "archive" /\ y \in {"store", "activate", "index", "remove", "fetch"}
  \/ x \in {"store", "activate"} /\ y \in {"index", "remove", "fetch"}
  \/ x = "index" /\ y \in {"remove", "fetch"}

Ordered(todo) == \A i, j \in DOMAIN todo : i < j => Before(todo[i], todo[j])
Plan(todo) == todo \in Seq(Steps) /\ todo # <<>> /\ Ordered(todo)
StepsOf(todo) == {todo[i] : i \in DOMAIN todo}

Serving == {r \in Requests : request[r] # Idle}
Pending(r) == StepsOf(request[r].todo)

\* The steps that concern one version.
OfVersion == {"store", "activate", "index", "remove", "fetch"}

\* The active version that an index names is in it.
Named(idx) == idx.active # NoId => \E e \in Active(idx) : e.id = idx.active

\* What a request is served with.
WellPlanned(r) ==
  /\ Plan(request[r].todo)
  /\ Pending(r) \cap OfVersion # {} => request[r].id \in Ids
  /\ "legacy file" \in Pending(r) => legacy

\* The window of a request holds what it is to download.
Watched(r) ==
  /\ IsFiniteSet(request[r].window)
  /\ "fetch" \in Pending(r) =>
       \E e \in request[r].window : e.id = request[r].id

\* What holds of every request, whatever else is under way.
RequestsInv ==
  /\ TypeOK
  /\ \A r \in Serving : /\ WellPlanned(r) /\ Watched(r)
                        /\ Named(request[r].seen) /\ Named(request[r].next)
  /\ index # NoFile => Named(Migrated(index))

-----------------------------------------------------------------------------
(* Plans.                                                                    *)

LEMMA BeforeIsStrict == \A x : ~Before(x, x)
BY DEF Before

LEMMA StepNames ==
  /\ "legacy file" \in Steps /\ "migrated index" \in Steps
  /\ "archive" \in Steps /\ "store" \in Steps /\ "activate" \in Steps
  /\ "index" \in Steps /\ "remove" \in Steps /\ "fetch" \in Steps
BY DEF Steps, Writes

LEMMA NumberTypes == MaxCreated \in Nat /\ 0 \in Contents
<1>1. MaxCreated \in Nat
  BY NamesAssumption
<1>2. QED
  BY <1>1 DEF Contents

\* Two plans, one after the other.
LEMMA PlanAfterPlan ==
  ASSUME NEW s \in Seq(Steps), NEW t \in Seq(Steps), Ordered(s), Ordered(t),
         \A x \in StepsOf(s), y \in StepsOf(t) : Before(x, y)
  PROVE  /\ s \o t \in Seq(Steps) /\ Ordered(s \o t)
         /\ StepsOf(s \o t) = StepsOf(s) \cup StepsOf(t)
<1>1. /\ s \o t \in Seq(Steps) /\ Len(s \o t) = Len(s) + Len(t)
      /\ \A i \in 1..Len(s \o t) :
           (s \o t)[i] = IF i <= Len(s) THEN s[i] ELSE t[i - Len(s)]
  OBVIOUS
<1>2. \A i \in 1..Len(s) : s[i] \in StepsOf(s)
  BY DEF StepsOf
<1>3. \A i \in 1..Len(t) : t[i] \in StepsOf(t)
  BY DEF StepsOf
<1>4. Ordered(s \o t)
  <2> SUFFICES ASSUME NEW i \in 1..Len(s \o t), NEW j \in 1..Len(s \o t), i < j
               PROVE  Before((s \o t)[i], (s \o t)[j])
    BY <1>1 DEF Ordered
  <2>1. CASE j <= Len(s)
    BY <1>1, <2>1 DEF Ordered
  <2>2. CASE i <= Len(s) /\ ~(j <= Len(s))
    BY <1>1, <1>2, <1>3, <2>2
  <2>3. CASE ~(i <= Len(s))
    BY <1>1, <2>3 DEF Ordered
  <2>4. QED
    BY <2>1, <2>2, <2>3
<1>5. StepsOf(s \o t) = StepsOf(s) \cup StepsOf(t)
  <2>1. StepsOf(s \o t) \subseteq StepsOf(s) \cup StepsOf(t)
    BY <1>1, <1>2, <1>3 DEF StepsOf
  <2>2. ASSUME NEW i \in 1..Len(s)
        PROVE  s[i] \in StepsOf(s \o t)
    <3>1. i \in DOMAIN (s \o t) /\ (s \o t)[i] = s[i]
      BY <1>1
    <3>2. QED
      BY <3>1 DEF StepsOf
  <2>3. ASSUME NEW i \in 1..Len(t)
        PROVE  t[i] \in StepsOf(s \o t)
    <3>1. i + Len(s) \in DOMAIN (s \o t) /\ (s \o t)[i + Len(s)] = t[i]
      BY <1>1
    <3>2. QED
      BY <3>1 DEF StepsOf
  <2>4. \A x \in StepsOf(s) : x \in StepsOf(s \o t)
    <3>1. \A x \in StepsOf(s) : \E i \in 1..Len(s) : x = s[i]
      BY DEF StepsOf
    <3>2. QED
      BY <2>2, <3>1
  <2>5. \A x \in StepsOf(t) : x \in StepsOf(s \o t)
    <3>1. \A x \in StepsOf(t) : \E i \in 1..Len(t) : x = t[i]
      BY DEF StepsOf
    <3>2. QED
      BY <2>3, <3>1
  <2>6. QED
    BY <2>1, <2>4, <2>5
<1>6. QED
  BY <1>1, <1>4, <1>5

\* The rest of a plan, when its first step has been taken.
LEMMA PlanGoesOn ==
  ASSUME NEW todo, Plan(todo)
  PROVE  /\ Len(todo) \in Nat \ {0}
         /\ Head(todo) \in StepsOf(todo)
         /\ \A x \in StepsOf(todo) : x # Head(todo) => Before(Head(todo), x)
         /\ Len(todo) = 1 => StepsOf(todo) = {Head(todo)}
         /\ Len(todo) # 1 => /\ Plan(Tail(todo))
                             /\ StepsOf(Tail(todo)) = StepsOf(todo) \ {Head(todo)}
<1>1. /\ todo \in Seq(Steps) /\ todo # <<>> /\ Len(todo) \in Nat \ {0}
      /\ Head(todo) = todo[1] /\ DOMAIN todo = 1..Len(todo)
  BY DEF Plan
<1>2. \A i \in 2..Len(todo) : Before(todo[1], todo[i])
  BY <1>1 DEF Plan, Ordered
<1>3. \A i \in 2..Len(todo) : todo[i] # todo[1]
  BY <1>2, BeforeIsStrict
<1>4. /\ Head(todo) \in StepsOf(todo)
      /\ \A x \in StepsOf(todo) : x # Head(todo) => Before(Head(todo), x)
  <2>1. ASSUME NEW x \in StepsOf(todo), x # Head(todo)
        PROVE  Before(Head(todo), x)
    <3>1. PICK i \in 1..Len(todo) : x = todo[i]
      BY <1>1 DEF StepsOf
    <3>2. i \in 2..Len(todo)
      BY <1>1, <2>1, <3>1
    <3>3. QED
      BY <1>1, <1>2, <3>1, <3>2
  <2>2. QED
    BY <1>1, <2>1 DEF StepsOf
<1>5. Len(todo) = 1 => StepsOf(todo) = {Head(todo)}
  BY <1>1 DEF StepsOf
<1>6. ASSUME Len(todo) # 1
      PROVE  /\ Plan(Tail(todo))
             /\ StepsOf(Tail(todo)) = StepsOf(todo) \ {Head(todo)}
  <2>1. /\ Tail(todo) \in Seq(Steps) /\ Len(Tail(todo)) = Len(todo) - 1
        /\ \A i \in 1..(Len(todo) - 1) : Tail(todo)[i] = todo[i + 1]
    BY <1>1
  <2>2. Tail(todo) # <<>>
    <3>1. Len(<<>>) = 0
      OBVIOUS
    <3>2. Len(Tail(todo)) # 0
      BY <1>1, <1>6, <2>1
    <3>3. QED
      BY <3>1, <3>2
  <2>3. Ordered(Tail(todo))
    BY <1>1, <2>1 DEF Plan, Ordered
  <2>4. StepsOf(Tail(todo)) \subseteq StepsOf(todo) \ {Head(todo)}
    <3>1. ASSUME NEW i \in 1..(Len(todo) - 1)
          PROVE  Tail(todo)[i] \in StepsOf(todo) \ {Head(todo)}
      <4>1. i + 1 \in 2..Len(todo) /\ Tail(todo)[i] = todo[i + 1]
        BY <1>1, <2>1
      <4>2. QED
        BY <1>1, <1>3, <4>1 DEF StepsOf
    <3>2. QED
      BY <2>1, <3>1 DEF StepsOf
  <2>5. ASSUME NEW x \in StepsOf(todo) \ {Head(todo)}
        PROVE  x \in StepsOf(Tail(todo))
    <3>1. PICK i \in 1..Len(todo) : x = todo[i]
      BY <1>1 DEF StepsOf
    <3>2. i - 1 \in 1..(Len(todo) - 1) /\ Tail(todo)[i - 1] = todo[i]
      BY <1>1, <2>1, <2>5, <3>1
    <3>3. DOMAIN Tail(todo) = 1..(Len(todo) - 1)
      BY <1>1, <2>1
    <3>4. QED
      BY <3>1, <3>2, <3>3 DEF StepsOf
  <2>6. QED
    BY <2>1, <2>2, <2>3, <2>4, <2>5 DEF Plan
<1>7. QED
  BY <1>1, <1>4, <1>5, <1>6


LEMMA NoSteps ==
  /\ <<>> \in Seq(Steps) /\ Ordered(<<>>) /\ StepsOf(<<>>) = {}
<1>1. DOMAIN <<>> = {}
  OBVIOUS
<1>2. QED
  BY <1>1 DEF Ordered, StepsOf

LEMMA OneStep ==
  ASSUME NEW a \in Steps
  PROVE  <<a>> \in Seq(Steps) /\ Ordered(<<a>>) /\ StepsOf(<<a>>) = {a}
<1>1. DOMAIN <<a>> = {1} /\ <<a>>[1] = a /\ <<a>> \in Seq(Steps)
  OBVIOUS
<1>2. QED
  BY <1>1 DEF Ordered, StepsOf

LEMMA TwoSteps ==
  ASSUME NEW a \in Steps, NEW b \in Steps, Before(a, b)
  PROVE  <<a, b>> \in Seq(Steps) /\ Ordered(<<a, b>>) /\ StepsOf(<<a, b>>) = {a, b}
<1>1. /\ DOMAIN <<a, b>> = {1, 2} /\ <<a, b>>[1] = a /\ <<a, b>>[2] = b
      /\ <<a, b>> \in Seq(Steps)
  OBVIOUS
<1>2. QED
  BY <1>1 DEF Ordered, StepsOf

\* A sequence with steps in it is not empty.
LEMMA HasSteps ==
  ASSUME NEW todo \in Seq(Steps), Ordered(todo), NEW x \in StepsOf(todo)
  PROVE  Plan(todo)
BY NoSteps DEF Plan

LEMMA MigrationSteps ==
  /\ Migration \in Seq(Steps) /\ Ordered(Migration)
  /\ StepsOf(Migration) \in {{}, {"migrated index"},
                             {"legacy file", "migrated index"}}
  /\ Migration = <<>> <=> StepsOf(Migration) = {}
  /\ "legacy file" \in StepsOf(Migration) <=> index = NoFile /\ legacy
<1> DEFINE old == index # NoFile /\ \E e \in index.scripts : e.status = ""
           first == index = NoFile /\ legacy
<1>1. Migration = IF old THEN <<"migrated index">>
                  ELSE IF first THEN <<"legacy file", "migrated index">> ELSE <<>>
  BY DEF Migration
<1>2. /\ <<"migrated index">> \in Seq(Steps) /\ Ordered(<<"migrated index">>)
      /\ StepsOf(<<"migrated index">>) = {"migrated index"}
  BY OneStep, StepNames
<1>3. Before("legacy file", "migrated index")
  BY DEF Before
<1> DEFINE both == <<"legacy file", "migrated index">>
<1>4. /\ both \in Seq(Steps) /\ Ordered(both)
      /\ StepsOf(both) = {"legacy file", "migrated index"}
  BY <1>3, TwoSteps, StepNames
<1>5. ~(old /\ first)
  OBVIOUS
<1> HIDE DEF old, both
<1>6. CASE old
  BY <1>1, <1>2, <1>5, <1>6, NoSteps
<1>7. CASE ~old /\ first
  BY <1>1, <1>4, <1>7, NoSteps DEF both
<1>8. CASE ~old /\ ~first
  BY <1>1, <1>8, NoSteps
<1>9. QED
  BY <1>6, <1>7, <1>8

LEMMA ArchivingSteps ==
  /\ Archiving \in Seq(Steps) /\ Ordered(Archiving)
  /\ StepsOf(Archiving) \subseteq {"archive"}
BY NoSteps, OneStep, StepNames DEF Archiving

-----------------------------------------------------------------------------
(* What a request reads.                                                     *)

LEMMA EntryIsVersion ==
  ASSUME NEW e \in OldEntry
  PROVE  e = Version(e.id, e.content, e.status)
BY DEF OldEntry, Version

LEMMA VersionIsEntry ==
  ASSUME NEW id \in Ids, NEW content \in Contents, NEW status \in Statuses
  PROVE  Version(id, content, status) \in Entry
BY DEF Version, Entry

LEMMA IndexParts ==
  ASSUME NEW idx \in OldIndex
  PROVE  /\ idx.active \in Ids \cup {NoId} /\ idx.scripts \subseteq OldEntry
         /\ idx = [active |-> idx.active, scripts |-> idx.scripts]
BY DEF OldIndex

LEMMA IndexIsOld ==
  /\ Entry \subseteq OldEntry /\ Index \subseteq OldIndex
  /\ \A idx \in Index : idx.scripts \subseteq Entry
<1>1. Entry \subseteq OldEntry
  BY DEF Entry, OldEntry
<1>2. QED
  BY <1>1 DEF Index, OldIndex

\* Migration leaves the identifiers and the contents as they are.
LEMMA MigratedEntries ==
  ASSUME NEW idx \in OldIndex
  PROVE  /\ Migrated(idx) \in Index
         /\ Migrated(idx).active = idx.active
         /\ \A e \in Migrated(idx).scripts :
              \E f \in idx.scripts : e.id = f.id /\ e.content = f.content
         /\ \A f \in idx.scripts :
              \E e \in Migrated(idx).scripts : e.id = f.id /\ e.content = f.content
<1> DEFINE status(e) == IF e.status # "" THEN e.status
                        ELSE IF e.id = idx.active THEN "active" ELSE "archived"
           entry(e) == Version(e.id, e.content, status(e))
<1>1. /\ idx.active \in Ids \cup {NoId}
      /\ \A e \in idx.scripts : e.id \in Ids /\ e.content \in Contents
                                /\ e.status \in Statuses \cup {""}
  BY IndexParts DEF OldEntry
<1>2. \A e \in idx.scripts : status(e) \in Statuses
  BY <1>1 DEF Statuses
<1>3. \A e \in idx.scripts : /\ entry(e) \in Entry
                             /\ entry(e).id = e.id /\ entry(e).content = e.content
  <2> HIDE DEF status
  <2>1. ASSUME NEW e \in idx.scripts
        PROVE  /\ entry(e) \in Entry
               /\ entry(e).id = e.id /\ entry(e).content = e.content
    <3> DEFINE id == e.id
               content == e.content
               new == status(e)
    <3>1. id \in Ids /\ content \in Contents /\ new \in Statuses
      BY <1>1, <1>2
    <3>2. entry(e) = Version(id, content, new)
      OBVIOUS
    <3> HIDE DEF id, content, new, entry
    <3>3. /\ entry(e) \in Entry /\ entry(e).id = id /\ entry(e).content = content
      BY <3>1, <3>2, VersionIsEntry, VersionFields
    <3>4. QED
      BY <3>3 DEF id, content
  <2>2. QED
    BY <2>1
<1>4. /\ Migrated(idx).active = idx.active
      /\ Migrated(idx).scripts = {entry(e) : e \in idx.scripts}
      /\ Migrated(idx) = [active |-> idx.active,
                          scripts |-> {entry(e) : e \in idx.scripts}]
  BY DEF Migrated
<1> HIDE DEF entry
<1>5. {entry(e) : e \in idx.scripts} \in SUBSET Entry
  BY <1>3
<1>6. Migrated(idx) \in Index
  BY <1>1, <1>4, <1>5 DEF Index
<1>7. QED
  BY <1>3, <1>4, <1>6

\* An index with all its statuses is migrated already.
LEMMA MigratedAgain ==
  ASSUME NEW idx \in Index, HasStatuses(idx)
  PROVE  Migrated(idx) = idx
<1> DEFINE status(e) == IF e.status # "" THEN e.status
                        ELSE IF e.id = idx.active THEN "active" ELSE "archived"
           entry(e) == Version(e.id, e.content, status(e))
<1>1. \A e \in idx.scripts : e \in OldEntry /\ e.status # ""
  BY IndexIsOld DEF HasStatuses
<1>2. \A e \in idx.scripts : entry(e) = e
  BY <1>1, EntryIsVersion
<1>3. Migrated(idx) = [active |-> idx.active,
                       scripts |-> {entry(e) : e \in idx.scripts}]
  BY DEF Migrated
<1> HIDE DEF entry
<1>4. {entry(e) : e \in idx.scripts} = idx.scripts
  BY <1>2
<1>5. QED
  BY <1>3, <1>4, IndexIsOld, IndexParts

LEMMA SeenParts ==
  ASSUME PointerInv, RequestsInv
  PROVE  /\ Seen \in Index /\ Sound(Seen) /\ Named(Seen)
         /\ index = NoFile /\ legacy =>
              /\ Seen.active = LegacyId
              /\ Seen.scripts = {Version(LegacyId, 0, "active")}
         /\ index = NoFile /\ ~legacy => Seen.active = NoId /\ Seen.scripts = {}
<1>1. Sound(Seen)
  BY SeenIsSound DEF PointerInv
<1>2. CASE index # NoFile
  <2>1. index \in OldIndex
    BY <1>2 DEF RequestsInv, TypeOK
  <2>2. QED
    BY <1>1, <1>2, <2>1, MigratedEntries DEF Seen, RequestsInv
<1>3. CASE index = NoFile /\ legacy
  <2> DEFINE old == Version(LegacyId, 0, "active")
  <2>1. Seen = [active |-> LegacyId, scripts |-> {old}]
    BY <1>3 DEF Seen
  <2>2. old \in Entry /\ old.id = LegacyId /\ old.status = "active"
    <3>1. /\ LegacyId \in Ids /\ 0 \in Contents /\ "active" \in Statuses
      BY NamesAssumption, NumberTypes DEF Statuses
    <3>2. QED
      BY <3>1, VersionIsEntry, VersionFields
  <2> HIDE DEF old
  <2>3. Seen \in Index /\ Seen.active = LegacyId /\ Seen.scripts = {old}
    BY <2>1, <2>2, NamesAssumption DEF Index
  <2>4. Named(Seen)
    BY <2>2, <2>3 DEF Named, Active
  <2>5. QED
    BY <1>1, <1>3, <2>3, <2>4 DEF old
<1>4. CASE index = NoFile /\ ~legacy
  <2>1. Seen = [active |-> NoId, scripts |-> {}]
    BY <1>4 DEF Seen, EmptyIndex
  <2>2. Seen \in Index /\ Seen.active = NoId /\ Seen.scripts = {}
    BY <2>1 DEF Index
  <2>3. QED
    BY <1>1, <1>4, <2>2 DEF Named
<1>5. QED
  BY <1>2, <1>3, <1>4

\* At most one version of a sound index is active.
LEMMA ActiveIsFinite ==
  ASSUME NEW idx, Sound(idx)
  PROVE  IsFiniteSet(Active(idx))
<1>1. CASE Active(idx) = {}
  BY <1>1, FS_EmptySet
<1>2. ASSUME NEW e \in Active(idx)
      PROVE  IsFiniteSet(Active(idx))
  <2>1. Active(idx) = {e}
    BY DEF Sound, OnePointer
  <2>2. QED
    BY <2>1, FS_Singleton
<1>3. QED
  BY <1>1, <1>2

-----------------------------------------------------------------------------
(* What a request is going to do when it has read the index.                 *)

\* An entry of the index as read.
Known(id, content) == \E f \in Seen.scripts : f.id = id /\ f.content = content

\* What the actions that receive a request have in common.
Intended(id, content, next, steps) ==
  /\ steps \cap {"legacy file", "migrated index"} = StepsOf(Migration)
  /\ steps \cap OfVersion # {} => id \in Ids
  /\ Named(next) /\ next.active \in {Seen.active, id}
  /\ \A e \in next.scripts :
       \/ Known(e.id, e.content)
       \/ /\ steps \cap {"store", "activate"} # {}
          /\ e.id = id /\ e.content = content
  /\ "activate" \in steps => Known(id, content)
  /\ "remove" \in steps => /\ "index" \in steps /\ next.active # id
                           /\ \A e \in next.scripts : e.id # id
  /\ "fetch" \in steps => Seen.active = id

\* A version is created by the requests that store a file, and by no others.
Numbered(id, content, steps) ==
  IF "store" \in steps
  THEN /\ id \in Ids /\ (id \notin issued \/ SameSecond)
       /\ content = created + 1 /\ content \in 0 .. MaxCreated
       /\ issued' = issued \cup {id} /\ created' = created + 1
  ELSE UNCHANGED <<issued, created>>

Reads(r, id, content, next, todo) ==
  /\ Receive(r, id, content, next, todo)
  /\ id \in Ids \cup {NoId} /\ content \in Contents /\ next \in Index
  /\ Plan(todo)
  /\ Intended(id, content, next, StepsOf(todo))
  /\ Numbered(id, content, StepsOf(todo))

LEMMA ArchivedEntries ==
  ASSUME NEW entries, entries \subseteq Entry
  PROVE  /\ Archived(entries) \subseteq Entry
         /\ \A x \in Archived(entries) :
              \E e \in entries : x.id = e.id /\ x.content = e.content
<1> DEFINE entry(e) == IF e.status = "active"
                       THEN Version(e.id, e.content, "archived") ELSE e
<1>1. ASSUME NEW e \in entries
      PROVE  entry(e) \in Entry /\ entry(e).id = e.id /\ entry(e).content = e.content
  <2>1. e.id \in Ids /\ e.content \in Contents /\ e \in Entry
    BY DEF Entry
  <2>2. QED
    BY <2>1, VersionIsEntry, VersionFields DEF Statuses
<1>2. Archived(entries) = {entry(e) : e \in entries}
  BY DEF Archived
<1> HIDE DEF entry
<1>3. QED
  BY <1>1, <1>2

\* The index with the version id made active, and what it was before archived.
LEMMA NextActive ==
  ASSUME NEW id \in Ids, NEW content \in Contents, NEW entries,
         entries \subseteq Entry, NEW next,
         next = [active |-> id,
                 scripts |-> Archived(entries) \cup {Version(id, content, "active")}]
  PROVE  /\ next \in Index /\ Named(next) /\ next.active = id
         /\ \A e \in next.scripts :
              \/ \E f \in entries : e.id = f.id /\ e.content = f.content
              \/ e.id = id /\ e.content = content
<1>1. /\ Version(id, content, "active") \in Entry
      /\ Version(id, content, "active").id = id
      /\ Version(id, content, "active").content = content
      /\ Version(id, content, "active").status = "active"
  BY VersionIsEntry, VersionFields DEF Statuses
<1> DEFINE new == Version(id, content, "active")
<1> HIDE DEF new
<1>2. next.active = id /\ next.scripts = Archived(entries) \cup {new}
  BY DEF new
<1>3. Archived(entries) \cup {new} \in SUBSET Entry
  BY <1>1, ArchivedEntries DEF new
<1>4. next \in Index
  BY <1>3 DEF Index, new
<1>5. Named(next)
  BY <1>1, <1>2 DEF Named, Active, new
<1>6. QED
  BY <1>1, <1>2, <1>4, <1>5, ArchivedEntries DEF new

LEMMA NewVersionIsNumbered ==
  ASSUME RequestsInv, NEW id \in Ids, NewVersion(id), NEW steps, "store" \in steps
  PROVE  /\ Numbered(id, created + 1, steps) /\ created + 1 \in Contents
         /\ StepsOf(Migration) = {}
<1>1. /\ created \in 0 .. MaxCreated /\ MaxCreated \in Nat
      /\ created < MaxCreated
  BY NumberTypes DEF NewVersion, RequestsInv, TypeOK
<1>2. created + 1 \in 0 .. MaxCreated
  BY <1>1
<1>3. QED
  BY <1>2, MigrationSteps DEF NewVersion, Numbered, Contents

LEMMA CreateReads ==
  ASSUME PointerInv, RequestsInv, NEW r \in Requests, NEW id \in Ids, Create(r, id)
  PROVE  \E content, next, todo : Reads(r, id, content, next, todo)
<1> DEFINE content == created + 1
           new == Version(id, content, "draft")
           scripts == Seen.scripts \cup {new}
           next == [active |-> Seen.active, scripts |-> scripts]
           todo == <<"store", "index">>
<1>1. Plan(todo) /\ StepsOf(todo) = {"store", "index"}
  <2>1. Before("store", "index")
    BY DEF Before
  <2>2. /\ todo \in Seq(Steps) /\ Ordered(todo)
        /\ StepsOf(todo) = {"store", "index"}
    BY <2>1, TwoSteps, StepNames
  <2>3. QED
    BY <2>2, HasSteps
<1>2. /\ NewVersion(id) /\ Receive(r, id, content, next, todo)
      /\ Numbered(id, content, {"store", "index"})
      /\ StepsOf(Migration) = {} /\ content \in Contents
  BY NewVersionIsNumbered DEF Create
<1> HIDE DEF content, todo
<1>3. /\ new \in Entry /\ new.id = id /\ new.content = content
      /\ new.status = "draft"
  BY <1>2, VersionIsEntry, VersionFields DEF Statuses
<1> HIDE DEF new
<1>4. /\ Seen.active \in Ids \cup {NoId} /\ scripts \in SUBSET Entry
      /\ Named(Seen)
  BY <1>3, SeenParts, IndexIsOld, IndexParts
<1>5. next \in Index /\ next.active = Seen.active /\ next.scripts = scripts
  BY <1>4 DEF Index
<1>6. Named(next)
  BY <1>4, <1>5 DEF Named, Active
<1> HIDE DEF next
<1>7. Intended(id, content, next, {"store", "index"})
  BY <1>2, <1>3, <1>5, <1>6 DEF Intended, Known
<1>8. QED
  BY <1>1, <1>2, <1>5, <1>7 DEF Reads

LEMMA PublishReads ==
  ASSUME PointerInv, RequestsInv, NEW r \in Requests, NEW id \in Ids, Publish(r, id)
  PROVE  \E content, next, todo : Reads(r, id, content, next, todo)
<1> DEFINE content == created + 1
           next == [active |-> id,
                    scripts |-> Archived(Seen.scripts)
                                  \cup {Version(id, content, "active")}]
           last == <<"store", "index">>
           todo == Archiving \o last
           steps == StepsOf(todo)
<1>1. Plan(todo) /\ steps = StepsOf(Archiving) \cup {"store", "index"}
  <2>1. /\ last \in Seq(Steps) /\ Ordered(last)
        /\ StepsOf(last) = {"store", "index"}
    BY TwoSteps, StepNames DEF Before
  <2> HIDE DEF last
  <2>2. \A x \in StepsOf(Archiving), y \in {"store", "index"} : Before(x, y)
    BY ArchivingSteps DEF Before
  <2>3. /\ todo \in Seq(Steps) /\ Ordered(todo)
        /\ steps = StepsOf(Archiving) \cup {"store", "index"}
    BY <2>1, <2>2, ArchivingSteps, PlanAfterPlan
  <2>4. QED
    BY <2>3, HasSteps
<1> HIDE DEF steps
<1>2. /\ NewVersion(id) /\ Receive(r, id, content, next, todo)
      /\ Numbered(id, content, steps)
      /\ StepsOf(Migration) = {} /\ content \in Contents
  BY <1>1, NewVersionIsNumbered DEF Publish
<1> HIDE DEF content, todo
<1>3. Seen.scripts \subseteq Entry
  BY SeenParts, IndexIsOld
<1>4. /\ next \in Index /\ Named(next) /\ next.active = id
      /\ \A e \in next.scripts :
           \/ \E f \in Seen.scripts : e.id = f.id /\ e.content = f.content
           \/ e.id = id /\ e.content = content
  BY <1>2, <1>3, NextActive
<1> HIDE DEF next
<1>5. Intended(id, content, next, steps)
  BY <1>1, <1>2, <1>4, ArchivingSteps DEF Intended, Known
<1>6. QED
  BY <1>1, <1>2, <1>4, <1>5 DEF Reads, steps

LEMMA ActivateReads ==
  ASSUME PointerInv, RequestsInv, NEW r \in Requests, NEW id \in Ids, Activate(r, id)
  PROVE  \E content, next, todo : Reads(r, id, content, next, todo)
<1>1. PICK e \in Seen.scripts :
        /\ e.id = id
        /\ Receive(r, id, e.content,
                   [active |-> id,
                    scripts |-> Archived(Seen.scripts \ {e})
                                  \cup {Version(id, e.content, "active")}],
                   Migration \o Archiving \o <<"activate", "index">>)
        /\ UNCHANGED <<issued, created>>
  BY DEF Activate
<1> DEFINE content == e.content
           next == [active |-> id,
                    scripts |-> Archived(Seen.scripts \ {e})
                                  \cup {Version(id, content, "active")}]
           first == Migration \o Archiving
           last == <<"activate", "index">>
           todo == first \o last
           steps == StepsOf(todo)
<1>2. /\ Plan(todo)
      /\ steps = StepsOf(Migration) \cup StepsOf(Archiving) \cup {"activate", "index"}
  <2>1. /\ last \in Seq(Steps) /\ Ordered(last)
        /\ StepsOf(last) = {"activate", "index"}
    BY TwoSteps, StepNames DEF Before
  <2>2. \A x \in StepsOf(Migration), y \in StepsOf(Archiving) : Before(x, y)
    BY MigrationSteps, ArchivingSteps DEF Before
  <2>3. /\ first \in Seq(Steps) /\ Ordered(first)
        /\ StepsOf(first) = StepsOf(Migration) \cup StepsOf(Archiving)
    BY <2>2, MigrationSteps, ArchivingSteps, PlanAfterPlan
  <2>4. \A x \in StepsOf(Migration) \cup StepsOf(Archiving),
           y \in {"activate", "index"} : Before(x, y)
    BY MigrationSteps, ArchivingSteps DEF Before
  <2> HIDE DEF first, last
  <2>5. /\ first \o last \in Seq(Steps) /\ Ordered(first \o last)
        /\ StepsOf(first \o last) = StepsOf(first) \cup StepsOf(last)
    BY <2>1, <2>3, <2>4, PlanAfterPlan
  <2>6. QED
    BY <2>1, <2>3, <2>5, HasSteps
<1> HIDE DEF steps
<1>3. Seen.scripts \subseteq Entry /\ content \in Contents
  BY SeenParts, IndexIsOld DEF Entry
<1>4. Receive(r, id, content, next, todo)
  BY <1>1
<1> HIDE DEF content, todo
<1> DEFINE others == Seen.scripts \ {e}
<1>5. /\ next \in Index /\ Named(next) /\ next.active = id
      /\ \A x \in next.scripts :
           \/ \E f \in others : x.id = f.id /\ x.content = f.content
           \/ x.id = id /\ x.content = content
  <2>1. others \subseteq Entry
    BY <1>3
  <2>2. next = [active |-> id,
                scripts |-> Archived(others) \cup {Version(id, content, "active")}]
    OBVIOUS
  <2> HIDE DEF others, next
  <2>3. QED
    BY <1>3, <2>1, <2>2, NextActive
<1> HIDE DEF next
<1>6. Known(id, content)
  BY <1>1 DEF Known, content
<1>7. Intended(id, content, next, steps)
  BY <1>2, <1>5, <1>6, MigrationSteps, ArchivingSteps DEF Intended, Known
<1>8. Numbered(id, content, steps)
  BY <1>1, <1>2, MigrationSteps, ArchivingSteps DEF Numbered
<1>9. QED
  BY <1>2, <1>3, <1>4, <1>5, <1>7, <1>8 DEF Reads, steps

LEMMA DeleteReads ==
  ASSUME PointerInv, RequestsInv, NEW r \in Requests, NEW id \in Ids, Delete(r, id)
  PROVE  \E content, next, todo : Reads(r, id, content, next, todo)
<1> DEFINE scripts == {e \in Seen.scripts : e.id # id}
           next == [active |-> Seen.active, scripts |-> scripts]
           last == <<"index", "remove">>
           todo == Migration \o last
           steps == StepsOf(todo)
<1>1. Plan(todo) /\ steps = StepsOf(Migration) \cup {"index", "remove"}
  <2>1. /\ last \in Seq(Steps) /\ Ordered(last)
        /\ StepsOf(last) = {"index", "remove"}
    BY TwoSteps, StepNames DEF Before
  <2> HIDE DEF last
  <2>2. /\ Migration \in Seq(Steps) /\ Ordered(Migration)
        /\ \A x \in StepsOf(Migration), y \in StepsOf(last) : Before(x, y)
    BY <2>1, MigrationSteps DEF Before
  <2>3. /\ todo \in Seq(Steps) /\ Ordered(todo)
        /\ steps = StepsOf(Migration) \cup {"index", "remove"}
    BY <2>1, <2>2, PlanAfterPlan
  <2>4. QED
    BY <2>3, HasSteps
<1> HIDE DEF steps
<1>2. /\ Receive(r, id, 0, next, todo) /\ UNCHANGED <<issued, created>>
      /\ Seen.active # id
  BY DEF Delete
<1> HIDE DEF todo
<1>3. /\ Seen.active \in Ids \cup {NoId} /\ scripts \in SUBSET Entry
      /\ Named(Seen)
  BY SeenParts, IndexIsOld, IndexParts
<1>4. next \in Index /\ next.active = Seen.active /\ next.scripts = scripts
  BY <1>3 DEF Index
<1>5. Named(next)
  BY <1>2, <1>3, <1>4 DEF Named, Active
<1> HIDE DEF next
<1>6. Intended(id, 0, next, steps)
  BY <1>1, <1>2, <1>4, <1>5, MigrationSteps DEF Intended, Known
<1>7. Numbered(id, 0, steps)
  BY <1>1, <1>2, MigrationSteps DEF Numbered
<1>8. QED
  BY <1>1, <1>2, <1>4, <1>6, <1>7, NumberTypes DEF Reads, steps

LEMMA DownloadReads ==
  ASSUME PointerInv, RequestsInv, NEW r \in Requests, Download(r)
  PROVE  \E id, content, next, todo : Reads(r, id, content, next, todo)
<1> DEFINE id == Seen.active
           last == <<"fetch">>
           todo == Migration \o last
           steps == StepsOf(todo)
<1>1. Plan(todo) /\ steps = StepsOf(Migration) \cup {"fetch"}
  <2>1. /\ last \in Seq(Steps) /\ Ordered(last) /\ StepsOf(last) = {"fetch"}
    BY OneStep, StepNames
  <2> HIDE DEF last
  <2>2. /\ Migration \in Seq(Steps) /\ Ordered(Migration)
        /\ \A x \in StepsOf(Migration), y \in StepsOf(last) : Before(x, y)
    BY <2>1, MigrationSteps DEF Before
  <2>3. /\ todo \in Seq(Steps) /\ Ordered(todo)
        /\ steps = StepsOf(Migration) \cup {"fetch"}
    BY <2>1, <2>2, PlanAfterPlan
  <2>4. QED
    BY <2>3, HasSteps
<1> HIDE DEF steps
<1>2. /\ Receive(r, id, 0, Seen, todo) /\ UNCHANGED <<issued, created>>
      /\ id \in Ids
  BY SeenParts, IndexIsOld, IndexParts DEF Download
<1> HIDE DEF todo
<1>3. Intended(id, 0, Seen, steps)
  BY <1>1, <1>2, SeenParts, MigrationSteps DEF Intended, Known
<1>4. Numbered(id, 0, steps)
  BY <1>1, <1>2, MigrationSteps DEF Numbered
<1>5. QED
  BY <1>1, <1>2, <1>3, <1>4, SeenParts, NumberTypes DEF Reads, steps

LEMMA ListReads ==
  ASSUME PointerInv, RequestsInv, NEW r \in Requests, List(r)
  PROVE  \E id, content, next, todo : Reads(r, id, content, next, todo)
<1> DEFINE steps == StepsOf(Migration)
<1>1. Plan(Migration) /\ steps \subseteq {"legacy file", "migrated index"}
  BY MigrationSteps DEF Plan, List
<1>2. Receive(r, NoId, 0, Seen, Migration) /\ UNCHANGED <<issued, created>>
  BY DEF List
<1>3. Intended(NoId, 0, Seen, steps)
  BY <1>1, SeenParts DEF Intended, Known, OfVersion
<1>4. Numbered(NoId, 0, steps)
  BY <1>1, <1>2 DEF Numbered
<1>5. QED
  BY <1>1, <1>2, <1>3, <1>4, SeenParts, NumberTypes DEF Reads

-----------------------------------------------------------------------------
(* What the steps do to the requests.                                        *)

\* Every request in flight stays as it is or ends.
Kept ==
  /\ request' \in [Requests -> Request \cup {Idle}]
  /\ \A q \in Requests : request'[q] \in {Idle, request[q]}

\* Request r has taken its first step, and all see the versions W.
Moved(r, step, W) ==
  /\ r \in Serving /\ step \in Pending(r)
  /\ \A x \in Pending(r) : x # step => Before(step, x)
  /\ request' \in [Requests -> Request \cup {Idle}]
  /\ \A q \in Serving' :
       /\ q \in Serving
       /\ request'[q].id = request[q].id
       /\ request'[q].content = request[q].content
       /\ request'[q].seen = request[q].seen
       /\ request'[q].next = request[q].next
       /\ request'[q].window = request[q].window \cup W
       /\ IF q = r
          THEN /\ Plan(request'[q].todo)
               /\ StepsOf(request'[q].todo) = Pending(q) \ {step}
          ELSE request'[q].todo = request[q].todo

LEMMA RequestParts ==
  ASSUME NEW q \in Request
  PROVE  /\ q.id \in Ids \cup {NoId} /\ q.content \in Contents
         /\ q.seen \in Index /\ q.next \in Index
         /\ q.todo \in Seq(Steps) /\ q.window \subseteq Entry
         /\ q # Idle
BY AbsenceAssumption DEF Request, Steps

LEMMA ServingParts ==
  ASSUME TypeOK
  PROVE  \A r \in Serving :
           /\ request[r] \in Request
           /\ request[r].id \in Ids \cup {NoId} /\ request[r].content \in Contents
           /\ request[r].seen \in Index /\ request[r].next \in Index
           /\ request[r].todo \in Seq(Steps) /\ request[r].window \subseteq Entry
BY RequestParts DEF TypeOK, Serving

LEMMA ReadsRequest ==
  ASSUME PointerInv, RequestsInv, NEW r \in Requests, NEW id, NEW content,
         NEW next, NEW todo, Reads(r, id, content, next, todo)
  PROVE  /\ r \notin Serving /\ Serving' = Serving \cup {r}
         /\ request' \in [Requests -> Request \cup {Idle}]
         /\ \A q \in Serving : request'[q] = request[q]
         /\ request'[r].id = id /\ request'[r].content = content
         /\ request'[r].seen = Seen /\ request'[r].next = next
         /\ request'[r].todo = todo /\ request'[r].window = Active(Seen)
<1> DEFINE new == [id |-> id, content |-> content, seen |-> Seen,
                   next |-> next, todo |-> todo, window |-> Active(Seen)]
<1>1. request[r] = Idle /\ request' = [request EXCEPT ![r] = new]
  BY DEF Reads, Receive
<1>2. new \in Request
  <2>1. /\ Seen \in Index /\ Active(Seen) \subseteq Entry
        /\ todo \in Seq(Writes \cup {"fetch"})
    BY SeenParts, IndexIsOld DEF Active, Reads, Plan, Steps
  <2>2. QED
    BY <2>1 DEF Request, Reads
<1>3. /\ new.id = id /\ new.content = content /\ new.seen = Seen
      /\ new.next = next /\ new.todo = todo /\ new.window = Active(Seen)
  OBVIOUS
<1> HIDE DEF new
<1>4. request \in [Requests -> Request \cup {Idle}]
  BY DEF RequestsInv, TypeOK
<1>5. request' \in [Requests -> Request \cup {Idle}] /\ request'[r] = new
  BY <1>1, <1>2, <1>4
<1>6. new # Idle
  BY <1>2, AbsenceAssumption
<1>7. \A q \in Requests : q # r => request'[q] = request[q]
  BY <1>1, <1>4
<1>8. QED
  BY <1>1, <1>3, <1>5, <1>6, <1>7 DEF Serving

\* A request that has its first step behind it.
LEMMA RestIsRequest ==
  ASSUME NEW q \in Request, Plan(q.todo), Len(q.todo) # 1, NEW rest,
         rest = [q EXCEPT !.todo = Tail(q.todo)]
  PROVE  /\ rest \in Request
         /\ rest.id = q.id /\ rest.content = q.content /\ rest.seen = q.seen
         /\ rest.next = q.next /\ rest.window = q.window
         /\ Plan(rest.todo)
         /\ StepsOf(rest.todo) = StepsOf(q.todo) \ {Head(q.todo)}
<1>1. Plan(Tail(q.todo)) /\ StepsOf(Tail(q.todo)) = StepsOf(q.todo) \ {Head(q.todo)}
  BY PlanGoesOn
<1>2. Tail(q.todo) \in Seq(Writes \cup {"fetch"})
  BY <1>1 DEF Plan, Steps
<1>3. /\ rest \in Request
      /\ rest.id = q.id /\ rest.content = q.content /\ rest.seen = q.seen
      /\ rest.next = q.next /\ rest.window = q.window /\ rest.todo = Tail(q.todo)
  BY <1>2 DEF Request
<1>4. QED
  BY <1>1, <1>3

LEMMA AdvancedParts ==
  ASSUME RequestsInv, NEW r \in Requests, NEW step, Doing(r, step)
  PROVE  /\ r \in Serving /\ step \in Pending(r)
         /\ \A x \in Pending(r) : x # step => Before(step, x)
         /\ Advanced(r) \in [Requests -> Request \cup {Idle}]
         /\ \A q \in Requests : q # r => Advanced(r)[q] = request[q]
         /\ Advanced(r)[r] # Idle =>
              /\ Advanced(r)[r].id = request[r].id
              /\ Advanced(r)[r].content = request[r].content
              /\ Advanced(r)[r].seen = request[r].seen
              /\ Advanced(r)[r].next = request[r].next
              /\ Advanced(r)[r].window = request[r].window
              /\ Plan(Advanced(r)[r].todo)
              /\ StepsOf(Advanced(r)[r].todo) = Pending(r) \ {step}
<1>1. /\ r \in Serving /\ request[r] \in Request /\ Plan(request[r].todo)
      /\ step = Head(request[r].todo)
      /\ request \in [Requests -> Request \cup {Idle}]
  BY ServingParts DEF Serving, Doing, RequestsInv, WellPlanned, TypeOK
<1>2. /\ step \in Pending(r)
      /\ \A x \in Pending(r) : x # step => Before(step, x)
  BY <1>1, PlanGoesOn DEF Pending
<1> DEFINE last == Len(request[r].todo) = 1
           rest == [request[r] EXCEPT !.todo = Tail(request[r].todo)]
<1>3. Advanced(r) = [request EXCEPT ![r] = IF last THEN Idle ELSE rest]
  BY DEF Advanced
<1>4. ~last => /\ rest \in Request
               /\ rest.id = request[r].id /\ rest.content = request[r].content
               /\ rest.seen = request[r].seen /\ rest.next = request[r].next
               /\ rest.window = request[r].window
               /\ Plan(rest.todo) /\ StepsOf(rest.todo) = Pending(r) \ {step}
  <2>1. rest = [request[r] EXCEPT !.todo = Tail(request[r].todo)]
    OBVIOUS
  <2> HIDE DEF rest
  <2>2. ASSUME ~last
        PROVE  /\ rest \in Request
               /\ rest.id = request[r].id /\ rest.content = request[r].content
               /\ rest.seen = request[r].seen /\ rest.next = request[r].next
               /\ rest.window = request[r].window
               /\ Plan(rest.todo)
               /\ StepsOf(rest.todo)
                    = StepsOf(request[r].todo) \ {Head(request[r].todo)}
    <3> DEFINE was == request[r]
    <3>1. was \in Request /\ Plan(was.todo) /\ Len(was.todo) # 1
      BY <1>1, <2>2
    <3>2. rest = [was EXCEPT !.todo = Tail(was.todo)]
      BY <2>1
    <3> HIDE DEF was
    <3>3. /\ rest \in Request
          /\ rest.id = was.id /\ rest.content = was.content
          /\ rest.seen = was.seen /\ rest.next = was.next
          /\ rest.window = was.window /\ Plan(rest.todo)
          /\ StepsOf(rest.todo) = StepsOf(was.todo) \ {Head(was.todo)}
      BY <3>1, <3>2, RestIsRequest
    <3>4. QED
      BY <3>3 DEF was
  <2>3. QED
    BY <1>1, <2>2 DEF Pending
<1> HIDE DEF last, rest
<1>5. /\ Advanced(r) \in [Requests -> Request \cup {Idle}]
      /\ \A q \in Requests : q # r => Advanced(r)[q] = request[q]
      /\ Advanced(r)[r] = IF last THEN Idle ELSE rest
  BY <1>1, <1>3, <1>4
<1>6. QED
  BY <1>1, <1>2, <1>4, <1>5

LEMMA AdvancedMoves ==
  ASSUME RequestsInv, NEW r \in Requests, NEW step, Doing(r, step),
         request' = Advanced(r)
  PROVE  Moved(r, step, {})
<1>1. \A q \in Serving' :
        /\ q \in Serving
        /\ request'[q].window = request[q].window
  BY AdvancedParts DEF Serving
<1>2. QED
  BY <1>1, AdvancedParts DEF Moved, Serving

LEMMA WitnessedMoves ==
  ASSUME RequestsInv, NEW r \in Requests, NEW step, Doing(r, step),
         NEW idx \in Index, request' = Witnessed(Advanced(r), idx)
  PROVE  Moved(r, step, Active(idx))
<1> DEFINE was == Advanced(r)
<1>1. /\ was \in [Requests -> Request \cup {Idle}]
      /\ Active(idx) \subseteq Entry
  BY AdvancedParts, IndexIsOld DEF Active
<1>2. ASSUME NEW q \in Requests
      PROVE  /\ was[q] = Idle => request'[q] = Idle
             /\ was[q] # Idle =>
                  /\ request'[q] \in Request
                  /\ request'[q].id = was[q].id
                  /\ request'[q].content = was[q].content
                  /\ request'[q].seen = was[q].seen
                  /\ request'[q].next = was[q].next
                  /\ request'[q].todo = was[q].todo
                  /\ request'[q].window = was[q].window \cup Active(idx)
  <2> DEFINE window == was[q].window \cup Active(idx)
  <2>1. request'[q] = IF was[q] = Idle THEN Idle
                      ELSE [was[q] EXCEPT !.window = window]
    BY DEF Witnessed
  <2>2. CASE was[q] = Idle
    BY <2>1, <2>2
  <2>3. CASE was[q] # Idle
    <3>1. was[q] \in Request /\ window \in SUBSET Entry
      BY <1>1, <2>3, RequestParts
    <3> HIDE DEF was, window
    <3>2. request'[q] = [was[q] EXCEPT !.window = window]
      BY <2>1, <2>3
    <3>3. /\ request'[q] \in Request
          /\ request'[q].id = was[q].id /\ request'[q].content = was[q].content
          /\ request'[q].seen = was[q].seen /\ request'[q].next = was[q].next
          /\ request'[q].todo = was[q].todo /\ request'[q].window = window
      BY <3>1, <3>2 DEF Request
    <3>4. QED
      BY <2>3, <3>3 DEF window
  <2>4. QED
    BY <2>2, <2>3
<1>3. request' \in [Requests -> Request \cup {Idle}]
  <2>1. request' = [q \in Requests |-> request'[q]]
    BY DEF Witnessed
  <2>2. QED
    BY <1>2, <2>1
<1>4. \A q \in Serving' : was[q] # Idle /\ q \in Requests
  BY <1>2 DEF Serving
<1> HIDE DEF was
<1>5. ASSUME NEW q \in Serving'
      PROVE  /\ q \in Serving
             /\ request'[q].id = request[q].id
             /\ request'[q].content = request[q].content
             /\ request'[q].seen = request[q].seen
             /\ request'[q].next = request[q].next
             /\ request'[q].window = request[q].window \cup Active(idx)
             /\ IF q = r
                THEN /\ Plan(request'[q].todo)
                     /\ StepsOf(request'[q].todo) = Pending(q) \ {step}
                ELSE request'[q].todo = request[q].todo
  <2>1. CASE q = r
    BY <1>2, <1>4, <2>1, AdvancedParts DEF was
  <2>2. CASE q # r
    BY <1>2, <1>4, <2>2, AdvancedParts DEF was, Serving
  <2>3. QED
    BY <2>1, <2>2
<1>6. QED
  BY <1>3, <1>5, AdvancedParts DEF Moved

-----------------------------------------------------------------------------
(* The invariant of the requests.                                            *)

LEMMA ReadsKeepsType ==
  ASSUME PointerInv, RequestsInv, NEW r \in Requests, NEW id, NEW content,
         NEW next, NEW todo, Reads(r, id, content, next, todo)
  PROVE  TypeOK'
<1>1. /\ index' = index /\ file' = file /\ legacy' = legacy /\ served' = Nothing
      /\ request' \in [Requests -> Request \cup {Idle}] /\ TypeOK
  BY ReadsRequest DEF Reads, Receive, RequestsInv
<1>2. overlapped' \in BOOLEAN
  BY DEF Reads, Receive
<1>3. issued' \subseteq Ids /\ created' \in 0 .. MaxCreated
  BY <1>1, NamesAssumption DEF Reads, Numbered, TypeOK
<1>4. QED
  BY <1>1, <1>2, <1>3 DEF TypeOK

LEMMA ReadsKeepsRequests ==
  ASSUME PointerInv, RequestsInv, NEW r \in Requests, NEW id, NEW content,
         NEW next, NEW todo, Reads(r, id, content, next, todo)
  PROVE  RequestsInv'
<1>1. index' = index /\ legacy' = legacy
  BY DEF Reads, Receive
<1>2. ASSUME NEW q \in Serving'
      PROVE  /\ WellPlanned(q)' /\ Watched(q)'
             /\ Named(request'[q].seen) /\ Named(request'[q].next)
  <2>1. CASE q = r
    <3>1. /\ request'[q].id = id /\ request'[q].seen = Seen
          /\ request'[q].next = next /\ request'[q].todo = todo
          /\ request'[q].window = Active(Seen)
      BY <2>1, ReadsRequest
    <3>2. /\ Plan(todo) /\ Intended(id, content, next, StepsOf(todo))
          /\ Named(Seen) /\ Sound(Seen)
      BY SeenParts DEF Reads
    <3>3. WellPlanned(q)'
      <4>1. "legacy file" \in StepsOf(todo) => legacy
        BY <3>2, MigrationSteps DEF Intended
      <4>2. QED
        BY <1>1, <3>1, <3>2, <4>1 DEF WellPlanned, Pending, Intended
    <3>4. Watched(q)'
      <4>1. "fetch" \in StepsOf(todo) =>
              \E e \in Active(Seen) : e.id = id
        <5>1. "fetch" \in StepsOf(todo) => id \in Ids /\ Seen.active = id
          BY <3>2 DEF Intended, OfVersion
        <5>2. QED
          BY <3>2, <5>1, NamesAssumption DEF Named
      <4>2. QED
        BY <3>1, <3>2, <4>1, ActiveIsFinite DEF Watched, Pending
    <3>5. QED
      BY <3>1, <3>2, <3>3, <3>4 DEF Intended
  <2>2. CASE q # r
    <3>1. q \in Serving /\ request'[q] = request[q]
      BY <2>2, ReadsRequest
    <3>2. QED
      BY <1>1, <3>1 DEF RequestsInv, WellPlanned, Watched, Pending
  <2>3. QED
    BY <2>1, <2>2
<1>3. TypeOK'
  BY ReadsKeepsType
<1>4. QED
  BY <1>1, <1>2, <1>3 DEF RequestsInv

LEMMA MovedKeepsRequests ==
  ASSUME RequestsInv, NEW r, NEW step, NEW W, Moved(r, step, W), IsFiniteSet(W),
         legacy' = legacy, TypeOK', index' # NoFile => Named(Migrated(index'))
  PROVE  RequestsInv'
<1>1. ASSUME NEW q \in Serving'
      PROVE  /\ WellPlanned(q)' /\ Watched(q)'
             /\ Named(request'[q].seen) /\ Named(request'[q].next)
  <2>1. /\ q \in Serving
        /\ request'[q].id = request[q].id
        /\ request'[q].seen = request[q].seen
        /\ request'[q].next = request[q].next
        /\ request'[q].window = request[q].window \cup W
        /\ WellPlanned(q) /\ Watched(q)
        /\ Named(request[q].seen) /\ Named(request[q].next)
    BY DEF Moved, RequestsInv
  <2>2. Plan(request'[q].todo) /\ StepsOf(request'[q].todo) \subseteq Pending(q)
    BY <2>1 DEF Moved, WellPlanned, Pending
  <2>3. WellPlanned(q)'
    BY <2>1, <2>2 DEF WellPlanned, Pending
  <2>4. IsFiniteSet(request'[q].window)
    BY <2>1, FS_Union DEF Watched
  <2>5. Watched(q)'
    BY <2>1, <2>2, <2>4 DEF Watched, Pending
  <2>6. QED
    BY <2>1, <2>3, <2>5
<1>2. QED
  BY <1>1 DEF RequestsInv

LEMMA KeptKeepsRequests ==
  ASSUME RequestsInv, Kept, TypeOK', index' = index, legacy' = legacy
  PROVE  RequestsInv'
<1>1. \A q \in Serving' : q \in Serving /\ request'[q] = request[q]
  BY DEF Kept, Serving
<1>2. QED
  BY <1>1 DEF RequestsInv, WellPlanned, Watched, Pending

\* What the writes of version files have in common.
LEMMA WriteFilesKeepsRequests ==
  ASSUME RequestsInv, NEW r \in Requests, NEW step, NEW files,
         WriteFiles(r, step, files), files \in [Ids -> Contents \cup {NoFile}]
  PROVE  RequestsInv' /\ Moved(r, step, {})
<1>1. Moved(r, step, {})
  BY AdvancedMoves DEF WriteFiles
<1>2. TypeOK'
  BY <1>1 DEF WriteFiles, RequestsInv, TypeOK, Moved, history
<1>3. QED
  BY <1>1, <1>2, MovedKeepsRequests, FS_EmptySet DEF WriteFiles, RequestsInv

LEMMA WriteIndexKeepsRequests ==
  ASSUME RequestsInv, NEW r \in Requests, NEW step, NEW idx \in Index,
         Sound(idx), Named(idx), WriteIndex(r, step, idx)
  PROVE  /\ RequestsInv' /\ Moved(r, step, Active(idx))
         /\ index' # NoFile /\ Seen' = idx
<1>1. Moved(r, step, Active(idx)) /\ index' = idx
  BY WitnessedMoves DEF WriteIndex
<1>2. TypeOK'
  BY <1>1, IndexIsOld DEF WriteIndex, RequestsInv, TypeOK, Moved, history
<1>3. Migrated(idx) = idx
  BY MigratedAgain DEF Sound
<1>4. index' # NoFile
  BY <1>1, IndexIsOld, AbsenceAssumption
<1>5. Seen' = idx
  BY <1>1, <1>3, <1>4 DEF Seen
<1>6. IsFiniteSet(Active(idx)) /\ legacy' = legacy
  BY ActiveIsFinite DEF WriteIndex
<1>7. QED
  BY <1>1, <1>2, <1>3, <1>4, <1>5, <1>6, MovedKeepsRequests

\* What the steps of a request write.
LEMMA IndexesToWrite ==
  ASSUME PointerInv, RequestsInv, NEW r \in Serving
  PROVE  /\ request[r].seen \in Index /\ request[r].next \in Index
         /\ Sound(request[r].seen) /\ Sound(request[r].next)
         /\ Named(request[r].seen) /\ Named(request[r].next)
BY ServingParts DEF PointerInv, RequestsInv, Serving

\* The files after each of the steps that write one.
FilesWritten(r, step, files) ==
  \/ step = "legacy file" /\ files = [file EXCEPT ![LegacyId] = 0]
  \/ /\ step = "store"
     /\ files = [file EXCEPT ![request[r].id] = request[r].content]
  \/ /\ step = "activate"
     /\ files = [file EXCEPT ![request[r].id] =
                   IF @ = NoFile THEN request[r].content ELSE @]
  \/ /\ step = "archive"
     /\ \E e \in Active(request[r].seen) :
          files = [file EXCEPT ![e.id] = IF @ = NoFile THEN e.content ELSE @]
  \/ step = "remove" /\ files = [file EXCEPT ![request[r].id] = NoFile]

LEMMA FilesAreTyped ==
  ASSUME RequestsInv, NEW r \in Serving, NEW step, NEW files,
         FilesWritten(r, step, files)
  PROVE  files \in [Ids -> Contents \cup {NoFile}]
<1>1. /\ file \in [Ids -> Contents \cup {NoFile}]
      /\ request[r].content \in Contents /\ 0 \in Contents
  BY ServingParts, NumberTypes DEF RequestsInv, TypeOK
<1>2. \A e \in Active(request[r].seen) : e.content \in Contents
  BY ServingParts, IndexIsOld DEF RequestsInv, Active, Entry
<1>3. QED
  BY <1>1, <1>2 DEF FilesWritten

\* Every step of the specification is one of these.
StepOfRequest ==
  \E r \in Requests :
    \/ \E id, content, next, todo : Reads(r, id, content, next, todo)
    \/ WriteMigratedIndex(r) \/ WriteNextIndex(r)
    \/ \E step, files : WriteFiles(r, step, files) /\ FilesWritten(r, step, files)
    \/ Fetch(r)

EndOfRequests ==
  /\ Kept /\ UNCHANGED <<index, file, legacy, history>>
  /\ served' \in {Nothing, served}

LEMMA StepsAndEnds ==
  ASSUME PointerInv, RequestsInv, [Next]_vars
  PROVE  StepOfRequest \/ EndOfRequests
<1>1. ASSUME NEW r \in Requests, NEW id \in Ids,
             Create(r, id) \/ Publish(r, id) \/ Activate(r, id) \/ Delete(r, id)
      PROVE  StepOfRequest
  BY <1>1, CreateReads, PublishReads, ActivateReads, DeleteReads DEF StepOfRequest
<1>2. ASSUME NEW r \in Requests, Download(r) \/ List(r)
      PROVE  StepOfRequest
  BY <1>2, DownloadReads, ListReads DEF StepOfRequest
<1>3. ASSUME NEW r \in Requests,
             \/ WriteLegacyFile(r) \/ StoreFile(r) \/ ActivateFile(r)
             \/ ArchiveFile(r) \/ RemoveFile(r)
      PROVE  StepOfRequest
  <2>1. \E step, files : WriteFiles(r, step, files) /\ FilesWritten(r, step, files)
    BY <1>3 DEF WriteLegacyFile, StoreFile, ActivateFile, ArchiveFile, RemoveFile,
                FilesWritten
  <2>2. QED
    BY <2>1 DEF StepOfRequest
<1>4. ASSUME NEW r \in Requests,
             WriteMigratedIndex(r) \/ WriteNextIndex(r) \/ Fetch(r)
      PROVE  StepOfRequest
  BY <1>4 DEF StepOfRequest
<1>5. request \in [Requests -> Request \cup {Idle}]
  BY DEF RequestsInv, TypeOK
<1>6. ASSUME NEW r \in Requests, Fail(r)
      PROVE  EndOfRequests
  BY <1>5, <1>6 DEF Fail, EndOfRequests, Kept
<1>7. CASE Restart
  BY <1>5, <1>7 DEF Restart, EndOfRequests, Kept
<1>8. CASE UNCHANGED vars
  BY <1>5, <1>8 DEF vars, EndOfRequests, Kept
<1>9. QED
  BY <1>1, <1>2, <1>3, <1>4, <1>6, <1>7, <1>8 DEF Next

LEMMA FetchParts ==
  ASSUME RequestsInv, NEW r \in Requests, Fetch(r)
  PROVE  /\ Moved(r, "fetch", {}) /\ r \in Serving /\ "fetch" \in Pending(r)
         /\ request[r].id \in Ids
         /\ served'.content = file[request[r].id]
         /\ served'.window = request[r].window
         /\ UNCHANGED <<index, file, legacy, history>>
<1>1. Moved(r, "fetch", {}) /\ UNCHANGED <<index, file, legacy, history>>
  BY AdvancedMoves DEF Fetch
<1>2. r \in Serving /\ "fetch" \in Pending(r)
  BY <1>1 DEF Moved
<1>3. request[r].id \in Ids
  BY <1>2 DEF RequestsInv, WellPlanned, OfVersion
<1>4. QED
  BY <1>1, <1>2, <1>3 DEF Fetch

LEMMA FetchKeepsRequests ==
  ASSUME RequestsInv, NEW r \in Requests, Fetch(r)
  PROVE  RequestsInv'
<1>1. /\ Moved(r, "fetch", {}) /\ r \in Serving /\ request[r].id \in Ids
      /\ served'.content = file[request[r].id]
      /\ served'.window = request[r].window
      /\ UNCHANGED <<index, file, legacy, history>>
  BY FetchParts
<1>2. /\ served'.content \in Contents \cup {NoFile}
      /\ served'.window \subseteq Entry
  BY <1>1, ServingParts DEF RequestsInv, TypeOK
<1>3. TypeOK'
  BY <1>1, <1>2 DEF RequestsInv, TypeOK, Moved, history
<1>4. QED
  BY <1>1, <1>3, MovedKeepsRequests, FS_EmptySet DEF RequestsInv

LEMMA RequestsStep ==
  ASSUME PointerInv, RequestsInv, [Next]_vars
  PROVE  RequestsInv'
<1>1. ASSUME NEW r \in Requests, WriteMigratedIndex(r) \/ WriteNextIndex(r)
      PROVE  RequestsInv'
  <2>1. r \in Serving
    BY <1>1 DEF WriteMigratedIndex, WriteNextIndex, WriteIndex, Doing, Serving
  <2>2. QED
    BY <1>1, <2>1, IndexesToWrite, WriteIndexKeepsRequests
       DEF WriteMigratedIndex, WriteNextIndex
<1>2. ASSUME NEW r \in Requests, NEW step, NEW files,
             WriteFiles(r, step, files), FilesWritten(r, step, files)
      PROVE  RequestsInv'
  <2>1. r \in Serving
    BY <1>2 DEF WriteFiles, Doing, Serving
  <2>2. QED
    BY <1>2, <2>1, FilesAreTyped, WriteFilesKeepsRequests
<1>3. CASE EndOfRequests
  <2>1. TypeOK'
    BY <1>3 DEF EndOfRequests, Kept, RequestsInv, TypeOK, history
  <2>2. QED
    BY <1>3, <2>1, KeptKeepsRequests DEF EndOfRequests
<1>4. CASE StepOfRequest
  BY <1>1, <1>2, <1>4, ReadsKeepsRequests, FetchKeepsRequests DEF StepOfRequest
<1>5. QED
  BY <1>3, <1>4, StepsAndEnds

LEMMA RequestsInit ==
  ASSUME Init
  PROVE  RequestsInv
<1>1. /\ legacy \in BOOLEAN /\ issued \subseteq Ids
      /\ file \in [Ids -> Contents \cup {NoFile}]
      /\ created \in 0 .. MaxCreated /\ overlapped \in BOOLEAN /\ served = Nothing
      /\ request \in [Requests -> Request \cup {Idle}] /\ Serving = {}
  <2>1. legacy \in BOOLEAN
    BY DEF Init
  <2>2. issued \subseteq Ids /\ file \in [Ids -> Contents \cup {NoFile}]
    BY NamesAssumption, NumberTypes DEF Init
  <2>3. created = 0 /\ overlapped = FALSE /\ served = Nothing
    BY DEF Init
  <2>4. 0 \in 0 .. MaxCreated
    BY NumberTypes
  <2>5. request \in [Requests -> Request \cup {Idle}] /\ Serving = {}
    BY DEF Init, Serving
  <2>6. QED
    BY <2>1, <2>2, <2>3, <2>4, <2>5
<1>2. CASE index = NoFile
  BY <1>1, <1>2 DEF RequestsInv, TypeOK
<1>3. CASE index # NoFile
  <2> DEFINE old == Version(LegacyId, 0, "")
             new == Version(LegacyId, 0, "active")
  <2>1. index = [active |-> LegacyId, scripts |-> {old}]
    BY <1>3 DEF Init
  <2>2. /\ old.id = LegacyId /\ old.content = 0 /\ old.status = ""
        /\ new.id = LegacyId /\ new.status = "active" /\ old \in OldEntry
    BY NamesAssumption, NumberTypes DEF Version, OldEntry
  <2> HIDE DEF old
  <2>3. index.active = LegacyId /\ index.scripts = {old} /\ index \in OldIndex
    BY <2>1, <2>2, NamesAssumption DEF OldIndex
  <2>4. new \in Migrated(index).scripts /\ Migrated(index).active = LegacyId
    BY <2>2, <2>3 DEF Migrated
  <2> HIDE DEF new
  <2>5. Named(Migrated(index))
    BY <2>2, <2>4 DEF Named, Active
  <2>6. QED
    BY <1>1, <2>3, <2>5 DEF RequestsInv, TypeOK
<1>4. QED
  BY <1>2, <1>3

LEMMA RequestsInductive == Spec => []RequestsInv
<1>1. Init => RequestsInv
  BY RequestsInit
<1>2. PointerInv /\ RequestsInv /\ [Next]_vars => RequestsInv'
  BY RequestsStep
<1>3. QED
  BY <1>1, <1>2, PointerInductive, PTL DEF Spec

\* Every variable has its type in every behaviour of the script repository: in
\* particular a download has an identifier to look for, whatever the index
\* and the requests that rewrite it went through.
THEOREM TypeCorrect == Spec => []TypeOK
<1>1. RequestsInv => TypeOK
  BY DEF RequestsInv
<1>2. QED
  BY <1>1, RequestsInductive, PTL

-----------------------------------------------------------------------------
(* Listed versions are stored.                                               *)

Busy(r) == Pending(r) \cap Writes # {}
Stored(id) == file[id] # NoFile

\* The files that request r will have written before it writes an index.
Awaits(r, id) ==
  \/ "legacy file" \in Pending(r) /\ id = LegacyId
  \/ Pending(r) \cap {"store", "activate"} # {} /\ id = request[r].id

\* No entry of the index has the identifier, and the pointer does not name it.
Unlisted(id, idx) == idx.active # id /\ \A e \in idx.scripts : e.id # id

\* A request that is the only one to write finds the index as it read it, does
\* not write an entry before its file, and does not remove a file before its
\* entry.
SeenIsCurrent(r) == Pending(r) \ {"remove", "fetch"} # {} => request[r].seen = Seen
MigratesStored(r) ==
  "migrated index" \in Pending(r) =>
    \A e \in request[r].seen.scripts :
      Stored(e.id) \/ ("legacy file" \in Pending(r) /\ e.id = LegacyId)
WritesStored(r) ==
  "index" \in Pending(r) =>
    /\ request[r].next.active \in {request[r].seen.active, request[r].id}
    /\ \A e \in request[r].next.scripts : Stored(e.id) \/ Awaits(r, e.id)
RemovesUnlisted(r) ==
  "remove" \in Pending(r) =>
    IF "index" \in Pending(r) THEN Unlisted(request[r].id, request[r].next)
    ELSE index # NoFile /\ Unlisted(request[r].id, index)

WritesInOrder(r) == /\ SeenIsCurrent(r) /\ MigratesStored(r)
                    /\ WritesStored(r) /\ RemovesUnlisted(r)

\* A download finds its version, or has seen it replaced.
Finds(r) ==
  "fetch" \in Pending(r) =>
    /\ index = NoFile => "migrated index" \in Pending(r)
    /\ \/ Seen.active = request[r].id
       \/ \E e, f \in request[r].window : e # f

Listed == index # NoFile => \A e \in index.scripts : Stored(e.id)
OneWriter == \A q, r \in Serving : Busy(q) /\ Busy(r) => q = r

StoredInv ==
  /\ OneWriter /\ Listed
  /\ \A r \in Serving : (Busy(r) => WritesInOrder(r)) /\ Finds(r)

-----------------------------------------------------------------------------
LEMMA BusyWrites ==
  /\ \A todo : HasWrites(todo) <=> StepsOf(todo) \cap Writes # {}
  /\ \A r : Writing(r) <=> \E q \in Serving : q # r /\ Busy(q)
<1>1. \A todo : HasWrites(todo) <=> StepsOf(todo) \cap Writes # {}
  BY DEF HasWrites, StepsOf
<1>2. \A r : Writing(r) <=>
               \E q \in Requests \ {r} : request[q] # Idle
                                         /\ HasWrites(request[q].todo)
  BY DEF Writing, HasWrites
<1>3. QED
  BY <1>1, <1>2 DEF Busy, Pending, Serving

\* The entries that a request reads have their files, but for the one in
\* active.json, whose file is written first.
LEMMA SeenIsStored ==
  ASSUME PointerInv, RequestsInv, Listed
  PROVE  /\ \A e \in Seen.scripts :
              \/ Stored(e.id)
              \/ "legacy file" \in StepsOf(Migration) /\ e.id = LegacyId
         /\ index = NoFile /\ Seen.active # NoId =>
              "migrated index" \in StepsOf(Migration)
<1>1. CASE index # NoFile
  <2>1. index \in OldIndex /\ Seen = Migrated(index)
    BY <1>1 DEF RequestsInv, TypeOK, Seen
  <2>2. \A e \in Seen.scripts : \E f \in index.scripts : e.id = f.id
    BY <2>1, MigratedEntries
  <2>3. QED
    BY <1>1, <2>2 DEF Listed
<1>2. CASE index = NoFile /\ legacy
  <2>1. Seen.scripts = {Version(LegacyId, 0, "active")}
    BY <1>2, SeenParts
  <2>2. Version(LegacyId, 0, "active").id = LegacyId
    BY VersionFields
  <2>3. "legacy file" \in StepsOf(Migration) /\ "migrated index" \in StepsOf(Migration)
    BY <1>2, MigrationSteps
  <2>4. QED
    BY <2>1, <2>2, <2>3
<1>3. CASE index = NoFile /\ ~legacy
  BY <1>3, SeenParts
<1>4. QED
  BY <1>1, <1>2, <1>3

LEMMA ReadsKeepsStored ==
  ASSUME PointerInv, RequestsInv, StoredInv, ~overlapped', NEW r \in Requests,
         NEW id, NEW content, NEW next, NEW todo,
         Reads(r, id, content, next, todo)
  PROVE  StoredInv'
<1> DEFINE steps == StepsOf(todo)
<1>1. /\ index' = index /\ file' = file /\ legacy' = legacy
      /\ (steps \cap Writes # {} => \A q \in Serving : q # r => ~Busy(q))
  BY BusyWrites DEF Reads, Receive
<1>2. /\ r \notin Serving /\ Serving' = Serving \cup {r}
      /\ \A q \in Serving : request'[q] = request[q]
      /\ request'[r].id = id /\ request'[r].seen = Seen
      /\ request'[r].next = next /\ request'[r].window = Active(Seen)
      /\ Pending(r)' = steps
  BY ReadsRequest DEF Pending
<1> HIDE DEF steps
<1>3. \A q \in Serving : q # r /\ Pending(q)' = Pending(q)
  BY <1>2 DEF Pending
<1>4. Intended(id, content, next, steps) /\ Plan(todo)
  BY DEF Reads, steps
<1>5. OneWriter'
  BY <1>1, <1>2, <1>3 DEF StoredInv, OneWriter, Busy
<1>6. Listed'
  BY <1>1 DEF StoredInv, Listed, Stored
<1>7. Seen' = Seen
  BY <1>1 DEF Seen
<1>8. /\ \A e \in Seen.scripts :
           Stored(e.id) \/ ("legacy file" \in steps /\ e.id = LegacyId)
      /\ index = NoFile /\ Seen.active # NoId => "migrated index" \in steps
  BY <1>4, SeenIsStored, MigrationSteps DEF StoredInv, Intended
<1>9. WritesInOrder(r)'
  <2>1. SeenIsCurrent(r)'
    BY <1>2, <1>7 DEF SeenIsCurrent
  <2>2. MigratesStored(r)'
    BY <1>1, <1>2, <1>8 DEF MigratesStored, Stored
  <2>3. WritesStored(r)'
    <3>1. next.active \in {Seen.active, id}
      BY <1>4 DEF Intended
    <3>2. ASSUME NEW e \in next.scripts
          PROVE  \/ Stored(e.id)
                 \/ "legacy file" \in steps /\ e.id = LegacyId
                 \/ steps \cap {"store", "activate"} # {} /\ e.id = id
      BY <1>4, <1>8 DEF Intended, Known
    <3>3. QED
      BY <1>1, <1>2, <3>1, <3>2 DEF WritesStored, Awaits, Stored
  <2>4. RemovesUnlisted(r)'
    BY <1>2, <1>4 DEF RemovesUnlisted, Intended, Unlisted
  <2>5. QED
    BY <2>1, <2>2, <2>3, <2>4 DEF WritesInOrder
<1>10. Finds(r)'
  <2>1. "fetch" \in steps => Seen.active = id /\ id # NoId
    BY <1>4, NamesAssumption DEF Intended, OfVersion
  <2>2. QED
    BY <1>1, <1>2, <1>7, <1>8, <2>1 DEF Finds
<1>11. ASSUME NEW q \in Serving
       PROVE  (Busy(q) => WritesInOrder(q))' /\ Finds(q)'
  <2>1. /\ Pending(q)' = Pending(q) /\ request'[q] = request[q]
        /\ (Busy(q) => WritesInOrder(q)) /\ Finds(q)
    BY <1>2, <1>3 DEF StoredInv
  <2>2. Finds(q)'
    BY <1>1, <1>7, <2>1 DEF Finds
  <2>3. WritesInOrder(q) => WritesInOrder(q)'
    <3>1. SeenIsCurrent(q) => SeenIsCurrent(q)'
      BY <1>7, <2>1 DEF SeenIsCurrent
    <3>2. MigratesStored(q) => MigratesStored(q)'
      BY <1>1, <2>1 DEF MigratesStored, Stored
    <3>3. WritesStored(q) => WritesStored(q)'
      BY <1>1, <2>1 DEF WritesStored, Stored, Awaits
    <3>4. RemovesUnlisted(q) => RemovesUnlisted(q)'
      BY <1>1, <2>1 DEF RemovesUnlisted
    <3>5. QED
      BY <3>1, <3>2, <3>3, <3>4 DEF WritesInOrder
  <2>4. QED
    BY <2>1, <2>2, <2>3 DEF Busy
<1>12. QED
  BY <1>2, <1>5, <1>6, <1>9, <1>10, <1>11 DEF StoredInv

\* What a request has left to do after a step.
LEMMA MovedPending ==
  ASSUME NEW r, NEW step, NEW W, Moved(r, step, W)
  PROVE  /\ r \in Serving /\ Serving' \subseteq Serving
         /\ \A q \in Serving' :
              /\ Pending(q)' = IF q = r THEN Pending(q) \ {step} ELSE Pending(q)
              /\ request'[q].id = request[q].id
              /\ request'[q].seen = request[q].seen
              /\ request'[q].next = request[q].next
              /\ request'[q].window = request[q].window \cup W
BY DEF Moved, Pending

\* A request that writes stays the only one.
LEMMA MovedOneWriter ==
  ASSUME OneWriter, NEW r, NEW step, NEW W, Moved(r, step, W)
  PROVE  /\ OneWriter'
         /\ step \in Writes => Busy(r) /\ \A q \in Serving' : Busy(q)' => q = r
<1>1. \A q \in Serving' : q \in Serving /\ (Busy(q)' => Busy(q))
  BY MovedPending DEF Busy
<1>2. step \in Writes => Busy(r) /\ r \in Serving
  BY DEF Moved, Busy
<1>3. QED
  BY <1>1, <1>2 DEF OneWriter

\* A download that has not ended goes on as it must, if each change of the
\* active version shows in its window.
LEMMA MovedFinds ==
  ASSUME RequestsInv, \A q \in Serving : Finds(q),
         NEW r, NEW step, NEW W, Moved(r, step, W),
         index' = NoFile => index = NoFile /\ step # "migrated index",
         Seen'.active # Seen.active /\ Seen.active # NoId =>
           \E f \in W : f.id # Seen.active
  PROVE  \A q \in Serving' : Finds(q)'
<1> SUFFICES ASSUME NEW q \in Serving', "fetch" \in Pending(q)'
             PROVE  Finds(q)'
  BY DEF Finds
<1>1. /\ q \in Serving /\ "fetch" \in Pending(q)
      /\ \A x \in Pending(q) : x # step => x \in Pending(q)'
      /\ request'[q].id = request[q].id
      /\ request'[q].window = request[q].window \cup W
  <2> DEFINE left == Pending(q)'
  <2>1. left = IF q = r THEN Pending(q) \ {step} ELSE Pending(q)
    BY MovedPending
  <2>2. "fetch" \in left
    OBVIOUS
  <2>3. Serving' \subseteq Serving /\ request'[q].id = request[q].id
    BY MovedPending
  <2>4. request'[q].window = request[q].window \cup W
    BY Zenon DEF Moved
  <2> HIDE DEF left
  <2>5. "fetch" \in Pending(q) /\ \A x \in Pending(q) : x # step => x \in left
    BY <2>1, <2>2
  <2>6. QED
    BY <2>3, <2>4, <2>5 DEF left
<1>2. Finds(q) /\ request[q].id \in Ids
  BY <1>1 DEF RequestsInv, WellPlanned, OfVersion
<1>3. PICK e \in request[q].window : e.id = request[q].id
  BY <1>1 DEF RequestsInv, Watched
<1>4. index' = NoFile => "migrated index" \in Pending(q)'
  BY <1>1, <1>2 DEF Finds
<1>5. CASE \E x, y \in request[q].window : x # y
  BY <1>1, <1>4, <1>5 DEF Finds
<1>6. CASE Seen.active = request[q].id
  <2>1. Seen.active # NoId
    BY <1>2, <1>6, NamesAssumption
  <2>2. CASE Seen'.active = Seen.active
    BY <1>1, <1>4, <1>6, <2>2 DEF Finds
  <2>3. CASE Seen'.active # Seen.active
    <3>1. PICK f \in W : f.id # Seen.active
      BY <2>1, <2>3
    <3>2. e # f /\ e \in request'[q].window /\ f \in request'[q].window
      BY <1>1, <1>3, <1>6, <3>1
    <3>3. QED
      BY <1>4, <3>2 DEF Finds
  <2>4. QED
    BY <2>2, <2>3
<1>7. QED
  BY <1>1, <1>2, <1>5, <1>6 DEF Finds

\* The steps that come before the one that is taken are not left to do.
LEMMA NothingBefore ==
  ASSUME NEW r, NEW step, NEW W, Moved(r, step, W)
  PROVE  /\ \A x \in Pending(r) : x = step \/ Before(step, x)
         /\ r \in Serving' => \A x \in Pending(r)' : x \in Pending(r) /\ Before(step, x)
<1>1. \A x \in Pending(r) : x = step \/ Before(step, x)
  BY DEF Moved
<1>2. r \in Serving' => \A x \in Pending(r)' : x \in Pending(r) /\ x # step
  BY MovedPending
<1>3. QED
  BY <1>1, <1>2

LEMMA MigrationKeepsStored ==
  ASSUME PointerInv, RequestsInv, StoredInv, NEW r \in Requests,
         WriteMigratedIndex(r)
  PROVE  StoredInv'
<1> DEFINE step == "migrated index"
           idx == request[r].seen
<1>1. r \in Serving /\ WriteIndex(r, step, idx) /\ index' = idx /\ file' = file
  BY DEF WriteMigratedIndex, WriteIndex, Doing, Serving
<1>2. /\ Moved(r, step, Active(idx)) /\ index' # NoFile /\ Seen' = idx
      /\ idx \in Index
  BY <1>1, IndexesToWrite, WriteIndexKeepsRequests
<1>3. step \in Pending(r)
  BY <1>2 DEF Moved
<1>4. Busy(r) /\ OneWriter' /\ \A q \in Serving' : Busy(q)' => q = r
  BY <1>2, MovedOneWriter DEF StoredInv, Writes
<1>5. WritesInOrder(r) /\ "legacy file" \notin Pending(r)
  <2>1. WritesInOrder(r)
    BY <1>1, <1>4 DEF StoredInv
  <2>2. "legacy file" # step /\ ~Before(step, "legacy file")
    BY DEF Before
  <2>3. QED
    BY <1>2, <2>1, <2>2, NothingBefore
<1>6. idx = Seen
  <2>1. step \in Pending(r) \ {"remove", "fetch"}
    BY <1>3
  <2>2. QED
    BY <1>5, <2>1 DEF WritesInOrder, SeenIsCurrent
<1>7. \A e \in idx.scripts : Stored(e.id)
  BY <1>3, <1>5 DEF WritesInOrder, MigratesStored
<1>8. Listed'
  BY <1>1, <1>7 DEF Listed, Stored
<1>9. \A q \in Serving' : Finds(q)'
  <2>1. Seen'.active = Seen.active
    BY <1>2, <1>6
  <2>2. QED
    BY <1>2, <2>1, MovedFinds DEF StoredInv
<1>10. ASSUME r \in Serving'
       PROVE  WritesInOrder(r)'
  <2>1. /\ request'[r].id = request[r].id /\ request'[r].seen = idx
        /\ request'[r].next = request[r].next
        /\ Pending(r)' = Pending(r) \ {step}
    BY <1>2, <1>10, MovedPending
  <2>2. SeenIsCurrent(r)' /\ MigratesStored(r)'
    BY <1>2, <2>1 DEF SeenIsCurrent, MigratesStored
  <2>3. WritesStored(r)'
    <3>1. WritesStored(r)
      BY <1>5 DEF WritesInOrder
    <3>2. QED
      BY <1>1, <2>1, <3>1 DEF WritesStored, Stored, Awaits
  <2>4. RemovesUnlisted(r)'
    <3>1. RemovesUnlisted(r)
      BY <1>5 DEF WritesInOrder
    <3>2. CASE "index" \in Pending(r)
      BY <2>1, <3>1, <3>2 DEF RemovesUnlisted
    <3>3. CASE "remove" \in Pending(r) /\ "index" \notin Pending(r)
      <4>1. index # NoFile /\ Unlisted(request[r].id, index)
        BY <3>1, <3>3 DEF RemovesUnlisted
      <4>2. index \in OldIndex /\ idx = Migrated(index)
        BY <1>6, <4>1 DEF RequestsInv, TypeOK, Seen
      <4>3. /\ idx.active = index.active
            /\ \A e \in idx.scripts : \E f \in index.scripts : e.id = f.id
        BY <4>2, MigratedEntries
      <4>4. Unlisted(request[r].id, idx)
        BY <4>1, <4>3 DEF Unlisted
      <4>5. QED
        BY <1>1, <1>2, <2>1, <3>3, <4>4 DEF RemovesUnlisted
    <3>4. CASE "remove" \notin Pending(r)
      BY <2>1, <3>4 DEF RemovesUnlisted
    <3>5. QED
      BY <3>2, <3>3, <3>4
  <2>5. QED
    BY <2>2, <2>3, <2>4 DEF WritesInOrder
<1>11. QED
  BY <1>4, <1>8, <1>9, <1>10 DEF StoredInv

LEMMA NextIndexKeepsStored ==
  ASSUME PointerInv, RequestsInv, StoredInv, NEW r \in Requests,
         WriteNextIndex(r)
  PROVE  StoredInv'
<1> DEFINE step == "index"
           idx == request[r].next
<1>1. r \in Serving /\ WriteIndex(r, step, idx) /\ index' = idx /\ file' = file
  BY DEF WriteNextIndex, WriteIndex, Doing, Serving
<1>2. /\ Moved(r, step, Active(idx)) /\ index' # NoFile /\ Seen' = idx
      /\ idx \in Index /\ Named(idx)
  BY <1>1, IndexesToWrite, WriteIndexKeepsRequests
<1>3. step \in Pending(r) /\ request[r].id \in Ids
  BY <1>1, <1>2 DEF Moved, RequestsInv, WellPlanned, OfVersion
<1>4. Busy(r) /\ OneWriter' /\ \A q \in Serving' : Busy(q)' => q = r
  BY <1>2, MovedOneWriter DEF StoredInv, Writes
<1>5. /\ WritesInOrder(r)
      /\ Pending(r) \cap {"legacy file", "store", "activate"} = {}
  <2>1. \A x \in {"legacy file", "store", "activate"} : x # step /\ ~Before(step, x)
    BY DEF Before
  <2>2. QED
    BY <1>1, <1>2, <1>4, <2>1, NothingBefore DEF StoredInv
<1>6. /\ request[r].seen = Seen
      /\ idx.active \in {request[r].seen.active, request[r].id}
      /\ \A e \in idx.scripts : Stored(e.id)
  <2>1. step \in Pending(r) \ {"remove", "fetch"}
    BY <1>3
  <2>2. request[r].seen = Seen
    BY <1>5, <2>1 DEF WritesInOrder, SeenIsCurrent
  <2>3. \A id : ~Awaits(r, id)
    BY <1>5 DEF Awaits
  <2>4. QED
    BY <1>3, <1>5, <2>2, <2>3 DEF WritesInOrder, WritesStored
<1>7. Listed'
  BY <1>1, <1>6 DEF Listed, Stored
<1>8. \A q \in Serving' : Finds(q)'
  <2>1. ASSUME Seen'.active # Seen.active
        PROVE  \E f \in Active(idx) : f.id # Seen.active
    <3>1. idx.active = request[r].id /\ idx.active # Seen.active
      BY <1>2, <1>6, <2>1
    <3>2. idx.active # NoId
      BY <1>3, <3>1, NamesAssumption
    <3>3. QED
      BY <1>2, <3>1, <3>2 DEF Named
  <2>2. QED
    BY <1>2, <2>1, MovedFinds DEF StoredInv
<1>9. ASSUME r \in Serving'
      PROVE  WritesInOrder(r)'
  <2>1. /\ request'[r].id = request[r].id
        /\ \A x \in Pending(r)' : x \in Pending(r) /\ Before(step, x)
    BY <1>2, <1>9, MovedPending, NothingBefore
  <2>2. Pending(r)' \subseteq {"remove", "fetch"}
    BY <2>1 DEF Before
  <2>3. SeenIsCurrent(r)' /\ MigratesStored(r)' /\ WritesStored(r)'
    BY <2>2 DEF SeenIsCurrent, MigratesStored, WritesStored
  <2>4. RemovesUnlisted(r)'
    BY <1>1, <1>2, <1>3, <1>5, <2>1, <2>2 DEF WritesInOrder, RemovesUnlisted
  <2>5. QED
    BY <2>3, <2>4 DEF WritesInOrder
<1>10. QED
  BY <1>4, <1>7, <1>8, <1>9 DEF StoredInv

\* The files after a step that writes one.
LEMMA FilesStored ==
  ASSUME RequestsInv, NEW r \in Serving, NEW step, FilesWritten(r, step, file'),
         step # "remove"
  PROVE  /\ \A id \in Ids : Stored(id) => Stored(id)'
         /\ step = "legacy file" => Stored(LegacyId)'
         /\ step \in {"store", "activate"} =>
              \A id \in Ids : id = request[r].id => Stored(id)'
<1>1. /\ file \in [Ids -> Contents \cup {NoFile}] /\ LegacyId \in Ids
      /\ request[r].content \in Contents /\ 0 \in Contents
      /\ NoFile \notin Contents
  BY ServingParts, NumberTypes, NamesAssumption, AbsenceAssumption
     DEF RequestsInv, TypeOK
<1>2. \A e \in Active(request[r].seen) : e.content \in Contents /\ e.id \in Ids
  BY ServingParts, IndexIsOld DEF RequestsInv, Active, Entry
<1>3. CASE step = "legacy file"
  BY <1>1, <1>3 DEF FilesWritten, Stored
<1> DEFINE own == request[r].id
<1>4. CASE step = "store"
  <2>1. file' = [file EXCEPT ![own] = request[r].content]
    BY <1>4 DEF FilesWritten
  <2> HIDE DEF own
  <2>2. \A id \in Ids : file'[id] = IF id = own THEN request[r].content
                                    ELSE file[id]
    BY <1>1, <2>1
  <2>3. \A id \in Ids : Stored(id) \/ id = own => Stored(id)'
    BY <1>1, <2>2 DEF Stored
  <2>4. step # "legacy file"
    BY <1>4
  <2>5. QED
    BY <2>3, <2>4 DEF own
<1>5. CASE step = "activate"
  <2>1. file' = [file EXCEPT ![own] = IF @ = NoFile THEN request[r].content ELSE @]
    BY <1>5 DEF FilesWritten
  <2> HIDE DEF own
  <2>2. \A id \in Ids : file'[id] = IF id = own /\ file[id] = NoFile
                                    THEN request[r].content ELSE file[id]
    BY <1>1, <2>1
  <2>3. \A id \in Ids : Stored(id) \/ id = own => Stored(id)'
    BY <1>1, <2>2 DEF Stored
  <2>4. step # "legacy file"
    BY <1>5
  <2>5. QED
    BY <2>3, <2>4 DEF own
<1>6. CASE step = "archive"
  BY <1>1, <1>2, <1>6 DEF FilesWritten, Stored
<1>7. QED
  BY <1>3, <1>4, <1>5, <1>6 DEF FilesWritten

LEMMA MoreFilesKeepStored ==
  ASSUME RequestsInv, StoredInv, NEW r \in Requests,
         NEW step \in {"legacy file", "archive", "store", "activate"},
         Moved(r, step, {}), index' = index, legacy' = legacy,
         FilesWritten(r, step, file')
  PROVE  StoredInv'
<1>1. /\ r \in Serving /\ step \in Pending(r) /\ step \in Writes
      /\ step # "remove" /\ step # "migrated index" /\ step # "index"
      /\ step # "fetch"
  BY DEF Moved, Writes
<1>2. /\ \A id \in Ids : Stored(id) => Stored(id)'
      /\ step = "legacy file" => Stored(LegacyId)'
      /\ step \in {"store", "activate"} =>
           \A id \in Ids : id = request[r].id => Stored(id)'
  BY <1>1, FilesStored
<1>3. Seen' = Seen
  BY DEF Seen
<1>4. Busy(r) /\ OneWriter' /\ \A q \in Serving' : Busy(q)' => q = r
  BY <1>1, MovedOneWriter DEF StoredInv
<1>5. WritesInOrder(r)
  BY <1>1, <1>4 DEF StoredInv
<1>6. Listed'
  <2>1. index # NoFile => \A e \in index.scripts : e.id \in Ids
    BY IndexParts DEF RequestsInv, TypeOK, OldEntry
  <2>2. QED
    BY <1>2, <2>1 DEF StoredInv, Listed
<1>7. \A q \in Serving' : Finds(q)'
  BY <1>1, <1>3, MovedFinds DEF StoredInv
<1>8. ASSUME r \in Serving'
      PROVE  WritesInOrder(r)'
  <2>1. /\ request'[r].id = request[r].id /\ request'[r].seen = request[r].seen
        /\ request'[r].next = request[r].next
        /\ Pending(r)' = Pending(r) \ {step}
    BY <1>8, MovedPending
  <2>2. /\ \A e \in request[r].seen.scripts : e.id \in Ids
        /\ \A e \in request[r].next.scripts : e.id \in Ids
    BY <1>1, ServingParts, IndexIsOld DEF RequestsInv, Entry
  <2>3. SeenIsCurrent(r)'
    <3>1. SeenIsCurrent(r)
      BY <1>5 DEF WritesInOrder
    <3>2. QED
      BY <1>3, <2>1, <3>1 DEF SeenIsCurrent
  <2>4. MigratesStored(r)'
    <3>1. MigratesStored(r)
      BY <1>5 DEF WritesInOrder
    <3>2. QED
      BY <1>2, <2>1, <2>2, <3>1 DEF MigratesStored
  <2>5. WritesStored(r)'
    <3>1. WritesStored(r)
      BY <1>5 DEF WritesInOrder
    <3>2. ASSUME NEW e \in request[r].next.scripts, Awaits(r, e.id)
          PROVE  Stored(e.id)' \/ Awaits(r, e.id)'
      <4>1. CASE "legacy file" \in Pending(r) /\ e.id = LegacyId
        BY <1>2, <2>1, <4>1 DEF Awaits
      <4>2. CASE /\ Pending(r) \cap {"store", "activate"} # {}
                 /\ e.id = request[r].id
        <5>1. CASE step \in {"store", "activate"}
          BY <1>2, <2>2, <4>2, <5>1
        <5>2. CASE step \notin {"store", "activate"}
          <6>1. Pending(r)' \cap {"store", "activate"} # {}
            BY <2>1, <4>2, <5>2
          <6>2. QED
            BY <2>1, <4>2, <6>1 DEF Awaits
        <5>3. QED
          BY <5>1, <5>2
      <4>3. QED
        BY <3>2, <4>1, <4>2 DEF Awaits
    <3>3. QED
      BY <1>2, <2>1, <2>2, <3>1, <3>2 DEF WritesStored
  <2>6. RemovesUnlisted(r)'
    <3>1. RemovesUnlisted(r)
      BY <1>5 DEF WritesInOrder
    <3>2. /\ "remove" \in Pending(r)' => "remove" \in Pending(r)
          /\ "index" \in Pending(r)' <=> "index" \in Pending(r)
      BY <1>1, <2>1
    <3>3. QED
      BY <2>1, <3>1, <3>2 DEF RemovesUnlisted
  <2>7. QED
    BY <2>3, <2>4, <2>5, <2>6 DEF WritesInOrder
<1>9. QED
  BY <1>4, <1>6, <1>7, <1>8 DEF StoredInv

LEMMA RemovalKeepsStored ==
  ASSUME RequestsInv, StoredInv, NEW r \in Requests,
         Moved(r, "remove", {}), index' = index, legacy' = legacy,
         FilesWritten(r, "remove", file')
  PROVE  StoredInv'
<1>1. /\ r \in Serving /\ "remove" \in Pending(r)
      /\ file' = [file EXCEPT ![request[r].id] = NoFile]
      /\ file \in [Ids -> Contents \cup {NoFile}]
  BY DEF Moved, FilesWritten, RequestsInv, TypeOK
<1>2. Busy(r) /\ OneWriter' /\ \A q \in Serving' : Busy(q)' => q = r
  BY MovedOneWriter DEF StoredInv, Writes
<1>3. "index" \notin Pending(r)
  <2>1. "index" # "remove" /\ ~Before("remove", "index")
    BY DEF Before
  <2>2. QED
    BY <2>1, NothingBefore
<1>4. index # NoFile /\ Unlisted(request[r].id, index)
  BY <1>1, <1>2, <1>3 DEF StoredInv, WritesInOrder, RemovesUnlisted
<1>5. Listed'
  <2>1. \A e \in index.scripts : e.id \in Ids /\ e.id # request[r].id
    BY <1>4, IndexParts DEF RequestsInv, TypeOK, OldEntry, Unlisted
  <2>2. \A e \in index.scripts : file'[e.id] = file[e.id]
    BY <1>1, <2>1
  <2>3. QED
    BY <2>2 DEF StoredInv, Listed, Stored
<1>6. Seen' = Seen
  BY DEF Seen
<1>7. \A q \in Serving' : Finds(q)'
  BY <1>4, <1>6, MovedFinds DEF StoredInv
<1>8. r \in Serving' => ~Busy(r)'
  <2>1. \A x : ~Before("remove", x)
    BY DEF Before
  <2>2. QED
    BY <2>1, NothingBefore DEF Busy
<1>9. QED
  BY <1>2, <1>5, <1>7, <1>8 DEF StoredInv

LEMMA FetchKeepsStored ==
  ASSUME RequestsInv, StoredInv, NEW r \in Requests, Fetch(r)
  PROVE  StoredInv'
<1>1. /\ Moved(r, "fetch", {}) /\ r \in Serving
      /\ index' = index /\ file' = file /\ legacy' = legacy
  BY FetchParts
<1>2. Seen' = Seen
  BY <1>1 DEF Seen
<1>3. OneWriter' /\ Listed'
  BY <1>1, MovedOneWriter DEF StoredInv, Listed, Stored
<1>4. \A q \in Serving' : Finds(q)'
  BY <1>1, <1>2, MovedFinds DEF StoredInv
<1>5. r \in Serving' => ~Busy(r)'
  <2>1. \A x : ~Before("fetch", x)
    BY DEF Before
  <2>2. QED
    BY <1>1, <2>1, NothingBefore DEF Busy
<1>6. ASSUME NEW q \in Serving', q # r, Busy(q)'
      PROVE  WritesInOrder(q)'
  <2>1. /\ q \in Serving /\ Pending(q)' = Pending(q)
        /\ request'[q].id = request[q].id /\ request'[q].seen = request[q].seen
        /\ request'[q].next = request[q].next
    BY <1>1, <1>6, MovedPending
  <2>2. WritesInOrder(q)
    BY <1>6, <2>1 DEF StoredInv, Busy
  <2>3. SeenIsCurrent(q)' /\ RemovesUnlisted(q)'
    BY <1>1, <1>2, <2>1, <2>2 DEF WritesInOrder, SeenIsCurrent, RemovesUnlisted
  <2>4. MigratesStored(q)' /\ WritesStored(q)'
    BY <1>1, <2>1, <2>2
       DEF WritesInOrder, MigratesStored, WritesStored, Stored, Awaits
  <2>5. QED
    BY <2>3, <2>4 DEF WritesInOrder
<1>7. QED
  BY <1>3, <1>4, <1>5, <1>6 DEF StoredInv

LEMMA EndKeepsStored ==
  ASSUME StoredInv, EndOfRequests
  PROVE  StoredInv'
<1>1. /\ index' = index /\ file' = file /\ Seen' = Seen
      /\ \A q \in Serving' : q \in Serving /\ request'[q] = request[q]
  BY DEF EndOfRequests, Kept, Serving, Seen
<1>2. \A q \in Serving' : Pending(q)' = Pending(q) /\ (Busy(q)' => Busy(q))
  BY <1>1 DEF Pending, Busy
<1>3. OneWriter' /\ Listed'
  BY <1>1, <1>2 DEF StoredInv, OneWriter, Listed, Stored
<1>4. ASSUME NEW q \in Serving'
      PROVE  (Busy(q) => WritesInOrder(q))' /\ Finds(q)'
  <2>1. q \in Serving /\ (Busy(q) => WritesInOrder(q)) /\ Finds(q)
    BY <1>1 DEF StoredInv
  <2>2. Finds(q)'
    BY <1>1, <1>2, <2>1 DEF Finds
  <2>3. SeenIsCurrent(q) /\ RemovesUnlisted(q) =>
          SeenIsCurrent(q)' /\ RemovesUnlisted(q)'
    BY <1>1, <1>2 DEF SeenIsCurrent, RemovesUnlisted
  <2>4. MigratesStored(q) /\ WritesStored(q) =>
          MigratesStored(q)' /\ WritesStored(q)'
    BY <1>1, <1>2 DEF MigratesStored, WritesStored, Stored, Awaits
  <2>5. QED
    BY <1>2, <2>1, <2>2, <2>3, <2>4 DEF WritesInOrder
<1>5. QED
  BY <1>3, <1>4 DEF StoredInv

\* A download that does not find its version has seen two.
LEMMA TwoSeen ==
  ASSUME NEW S, IsFiniteSet(S), NEW e \in S, NEW f \in S, e # f
  PROVE  Cardinality(S) > 1
<1>1. IsFiniteSet({e}) /\ Cardinality({e}) = 1
  BY FS_Singleton
<1>2. IsFiniteSet({e} \cup {f}) /\ Cardinality({e} \cup {f}) = 2
  <2>1. f \notin {e}
    OBVIOUS
  <2> DEFINE T == {e}
  <2> HIDE DEF T
  <2>2. IsFiniteSet(T) /\ Cardinality(T) = 1 /\ f \notin T
    BY <1>1, <2>1 DEF T
  <2>3. IsFiniteSet(T \cup {f}) /\ Cardinality(T \cup {f}) = 1 + 1
    BY <2>2, FS_AddElement
  <2>4. QED
    BY <2>3 DEF T
<1>3. {e} \cup {f} \subseteq S
  OBVIOUS
<1>4. Cardinality({e} \cup {f}) <= Cardinality(S) /\ Cardinality(S) \in Nat
  BY <1>3, FS_Subset, FS_CardinalityType
<1>5. QED
  BY <1>2, <1>4

LEMMA FetchFindsScript ==
  ASSUME PointerInv, RequestsInv, StoredInv, NEW r \in Requests, Fetch(r)
  PROVE  DownloadFindsScript'
<1>1. /\ Moved(r, "fetch", {}) /\ r \in Serving /\ "fetch" \in Pending(r)
      /\ request[r].id \in Ids
      /\ served'.content = file[request[r].id]
      /\ served'.window = request[r].window
  BY FetchParts
<1>2. index # NoFile
  <2>1. "migrated index" # "fetch" /\ ~Before("fetch", "migrated index")
    BY DEF Before
  <2>2. "migrated index" \notin Pending(r)
    BY <1>1, <2>1, NothingBefore
  <2>3. QED
    BY <1>1, <2>2 DEF StoredInv, Finds
<1>3. CASE Seen.active = request[r].id
  <2>1. PICK e \in Active(Seen) : e.id = request[r].id
    BY <1>1, <1>3, SeenParts, NamesAssumption DEF Named
  <2>2. index \in OldIndex /\ Seen = Migrated(index)
    BY <1>2 DEF RequestsInv, TypeOK, Seen
  <2>3. \E f \in index.scripts : f.id = request[r].id
    BY <2>1, <2>2, MigratedEntries DEF Active
  <2>4. file[request[r].id] # NoFile
    BY <1>2, <2>3 DEF StoredInv, Listed, Stored
  <2>5. QED
    BY <1>1, <2>4 DEF DownloadFindsScript
<1>4. CASE \E e, f \in request[r].window : e # f
  <2>1. IsFiniteSet(request[r].window)
    BY <1>1 DEF RequestsInv, Watched
  <2>2. Cardinality(request[r].window) > 1
    BY <1>4, <2>1, TwoSeen
  <2>3. QED
    BY <1>1, <2>2 DEF DownloadFindsScript
<1>5. QED
  BY <1>1, <1>3, <1>4 DEF StoredInv, Finds

LEMMA StoredStep ==
  ASSUME PointerInv, RequestsInv, StoredInv, [Next]_vars, ~overlapped',
         DownloadFindsScript
  PROVE  StoredInv' /\ DownloadFindsScript'
<1>1. ASSUME NEW r \in Requests, NEW id, NEW content, NEW next, NEW todo,
             Reads(r, id, content, next, todo)
      PROVE  StoredInv' /\ DownloadFindsScript'
  BY <1>1, ReadsKeepsStored DEF Reads, Receive, DownloadFindsScript
<1>2. ASSUME NEW r \in Requests, WriteMigratedIndex(r) \/ WriteNextIndex(r)
      PROVE  StoredInv' /\ DownloadFindsScript'
  BY <1>2, MigrationKeepsStored, NextIndexKeepsStored
     DEF WriteMigratedIndex, WriteNextIndex, WriteIndex, DownloadFindsScript
<1>3. ASSUME NEW r \in Requests, NEW step, NEW files,
             WriteFiles(r, step, files), FilesWritten(r, step, files)
      PROVE  StoredInv' /\ DownloadFindsScript'
  <2>1. /\ r \in Serving /\ file' = files /\ served' = Nothing
        /\ index' = index /\ legacy' = legacy
    BY <1>3 DEF WriteFiles, Doing, Serving
  <2>2. Moved(r, step, {}) /\ FilesWritten(r, step, file')
    BY <1>3, <2>1, FilesAreTyped, WriteFilesKeepsRequests
  <2>3. step \in {"legacy file", "archive", "store", "activate"} \/ step = "remove"
    BY <1>3 DEF FilesWritten
  <2>4. StoredInv'
    BY <2>1, <2>2, <2>3, MoreFilesKeepStored, RemovalKeepsStored
  <2>5. QED
    BY <2>1, <2>4 DEF DownloadFindsScript
<1>4. ASSUME NEW r \in Requests, Fetch(r)
      PROVE  StoredInv' /\ DownloadFindsScript'
  BY <1>4, FetchKeepsStored, FetchFindsScript
<1>5. CASE EndOfRequests
  <2>1. DownloadFindsScript'
    BY <1>5 DEF EndOfRequests, DownloadFindsScript, history
  <2>2. QED
    BY <1>5, <2>1, EndKeepsStored
<1>6. CASE StepOfRequest
  BY <1>1, <1>2, <1>3, <1>4, <1>6 DEF StepOfRequest
<1>7. QED
  BY <1>5, <1>6, StepsAndEnds

\* What the theorems on the files need: the invariant of the writes, as long as
\* they have not overlapped.
WritesInv == ~overlapped => StoredInv /\ DownloadFindsScript

LEMMA WritesInductive == Spec => []WritesInv
<1>1. Init => WritesInv
  <2> SUFFICES ASSUME Init PROVE StoredInv /\ DownloadFindsScript
    BY DEF WritesInv
  <2>1. Serving = {} /\ DownloadFindsScript
    BY DEF Init, Serving, DownloadFindsScript
  <2>2. Listed
    <3>1. CASE index = NoFile
      BY <3>1 DEF Listed
    <3>2. CASE index # NoFile
      <4>1. /\ index = [active |-> LegacyId,
                        scripts |-> {Version(LegacyId, 0, "")}]
            /\ Stored(LegacyId)
        <5>1. PICK origin \in Origins :
                /\ index = IF origin = "index without statuses"
                           THEN [active |-> LegacyId,
                                 scripts |-> {Version(LegacyId, 0, "")}]
                           ELSE NoFile
                /\ file = [s \in Ids |->
                             IF s = LegacyId /\ origin = "index without statuses"
                             THEN 0 ELSE NoFile]
          BY DEF Init
        <5>2. /\ origin = "index without statuses" /\ LegacyId \in Ids
              /\ 0 # NoFile
          BY <3>2, <5>1, NumberTypes, NamesAssumption, AbsenceAssumption
        <5>3. file[LegacyId] = 0
          BY <5>1, <5>2
        <5>4. QED
          BY <5>1, <5>2, <5>3 DEF Stored
      <4>2. \A e \in index.scripts : e.id = LegacyId
        <5>1. index.scripts = {Version(LegacyId, 0, "")}
          BY <4>1
        <5>2. Version(LegacyId, 0, "").id = LegacyId
          BY DEF Version
        <5>3. QED
          BY <5>1, <5>2
      <4>3. QED
        BY <4>1, <4>2 DEF Listed
    <3>3. QED
      BY <3>1, <3>2
  <2>3. QED
    BY <2>1, <2>2 DEF StoredInv, OneWriter
<1>2. PointerInv /\ RequestsInv /\ WritesInv /\ [Next]_vars => WritesInv'
  <2> SUFFICES ASSUME PointerInv, RequestsInv, WritesInv, [Next]_vars, ~overlapped'
               PROVE  StoredInv' /\ DownloadFindsScript'
    BY DEF WritesInv
  <2>1. ASSUME overlapped PROVE overlapped'
    <3>1. CASE EndOfRequests
      BY <2>1, <3>1 DEF EndOfRequests, history
    <3>2. CASE StepOfRequest
      <4>1. PICK r \in Requests :
              \/ \E id, content, next, todo : Reads(r, id, content, next, todo)
              \/ WriteMigratedIndex(r) \/ WriteNextIndex(r)
              \/ \E step, files : WriteFiles(r, step, files)
              \/ Fetch(r)
        BY <3>2 DEF StepOfRequest
      <4>2. QED
        BY <2>1, <4>1 DEF Reads, Receive, WriteMigratedIndex, WriteNextIndex,
                          WriteIndex, WriteFiles, Fetch, history
    <3>3. QED
      BY <3>1, <3>2, StepsAndEnds
  <2>2. StoredInv /\ DownloadFindsScript
    BY <2>1 DEF WritesInv
  <2>3. QED
    BY <2>2, StoredStep
<1>3. QED
  BY <1>1, <1>2, PointerInductive, RequestsInductive, PTL DEF Spec

\* Every listed version has its file, whatever step a request fails or the
\* server stops at, for any number of requests and versions, as long as no two
\* requests had writes to do at once.
THEOREM ListedHolds == Spec => []ListedIsStored
<1>1. WritesInv => ListedIsStored
  BY DEF WritesInv, StoredInv, Listed, Stored, ListedIsStored
<1>2. QED
  BY <1>1, WritesInductive, PTL

\* Under the same condition a download finds the file of the active version, or
\* another version became active while it was served.
THEOREM DownloadHolds == Spec => []DownloadFindsScript
<1>1. WritesInv => DownloadFindsScript
  BY DEF WritesInv, DownloadFindsScript
<1>2. QED
  BY <1>1, WritesInductive, PTL

-----------------------------------------------------------------------------
(* A version has one content.                                                *)

\* The entries are of versions that were created, and have their contents.
Genuine(content, entries) ==
  \A e \in entries : e.id \in issued /\ e.content = content[e.id]

\* What a request read, is going to write, and saw.
RequestIsGenuine(content, r) ==
  /\ Genuine(content, request[r].seen.scripts)
  /\ Genuine(content, request[r].next.scripts)
  /\ Genuine(content, request[r].window)
  /\ Pending(r) \cap {"store", "activate"} # {} =>
       /\ request[r].id \in issued
       /\ request[r].content = content[request[r].id]

AllGenuine(content) ==
  /\ \A r \in Serving : RequestIsGenuine(content, r)
  /\ \A id \in Ids : Stored(id) => id \in issued /\ file[id] = content[id]
  /\ index # NoFile => Genuine(content, index.scripts)
  /\ legacy => LegacyId \in issued /\ content[LegacyId] = 0

\* If identifiers are not used twice, every version has one content, wherever
\* it is written.
ContentsInv ==
  ~SameSecond => /\ \E content \in [Ids -> Contents] : AllGenuine(content)
                 /\ DeliversActive

LEMMA SeenIsGenuine ==
  ASSUME PointerInv, RequestsInv, NEW content, AllGenuine(content)
  PROVE  Genuine(content, Seen.scripts) /\ Genuine(content, Active(Seen))
<1>1. Genuine(content, Seen.scripts)
  <2>1. CASE index # NoFile
    <3>1. index \in OldIndex /\ Seen = Migrated(index)
      BY <2>1 DEF RequestsInv, TypeOK, Seen
    <3>2. \A e \in Seen.scripts :
            \E f \in index.scripts : e.id = f.id /\ e.content = f.content
      BY <3>1, MigratedEntries
    <3>3. QED
      BY <2>1, <3>2 DEF AllGenuine, Genuine
  <2>2. CASE index = NoFile /\ legacy
    <3>1. Seen.scripts = {Version(LegacyId, 0, "active")}
      BY <2>2, SeenParts
    <3>2. /\ Version(LegacyId, 0, "active").id = LegacyId
          /\ Version(LegacyId, 0, "active").content = 0
      BY DEF Version
    <3>3. QED
      BY <2>2, <3>1, <3>2 DEF AllGenuine, Genuine
  <2>3. CASE index = NoFile /\ ~legacy
    BY <2>3, SeenParts DEF Genuine
  <2>4. QED
    BY <2>1, <2>2, <2>3
<1>2. QED
  BY <1>1 DEF Genuine, Active

\* A request that creates a version gives a content to a new identifier; any
\* other changes no content.
LEMMA ReadsKeepsContents ==
  ASSUME PointerInv, RequestsInv, ~SameSecond,
         NEW content \in [Ids -> Contents], AllGenuine(content),
         NEW r \in Requests, NEW id, NEW number, NEW next, NEW todo,
         Reads(r, id, number, next, todo)
  PROVE  \E new \in [Ids -> Contents] : AllGenuine(new)'
<1> DEFINE steps == StepsOf(todo)
           new == IF "store" \in steps THEN [content EXCEPT ![id] = number]
                  ELSE content
<1>1. /\ index' = index /\ file' = file /\ legacy' = legacy
      /\ Intended(id, number, next, steps) /\ number \in Contents
  BY DEF Reads, Receive
<1>2. /\ Serving' = Serving \cup {r}
      /\ \A q \in Serving : q # r /\ request'[q] = request[q]
      /\ request'[r].id = id /\ request'[r].content = number
      /\ request'[r].seen = Seen /\ request'[r].next = next
      /\ request'[r].window = Active(Seen)
      /\ Pending(r)' = steps
  BY ReadsRequest DEF Pending
<1>3. /\ issued \subseteq issued' /\ issued' \subseteq Ids
      /\ "store" \in steps => id \in Ids /\ id \notin issued /\ id \in issued'
  <2>1. issued \subseteq Ids
    BY DEF RequestsInv, TypeOK
  <2>2. QED
    BY <2>1 DEF Reads, Numbered
<1> HIDE DEF steps
<1>4. /\ new \in [Ids -> Contents]
      /\ \A s \in issued : new[s] = content[s]
      /\ "store" \in steps => new[id] = number
  <2>1. issued \subseteq Ids
    BY <1>3
  <2>2. QED
    BY <1>1, <1>3, <2>1
<1> HIDE DEF new
<1>5. ASSUME NEW entries, Genuine(content, entries)
      PROVE  Genuine(new, entries)'
  BY <1>3, <1>4, <1>5 DEF Genuine
<1> SUFFICES AllGenuine(new)'
  BY <1>4
<1>6. Genuine(content, Seen.scripts) /\ Genuine(content, Active(Seen))
  BY SeenIsGenuine
<1>7. RequestIsGenuine(new, r)'
  <2>1. \A e \in Seen.scripts \cup Active(Seen) :
          e.id \in issued' /\ e.content = new[e.id]
    BY <1>3, <1>4, <1>6 DEF Genuine
  <2>2. steps \cap {"store", "activate"} # {} =>
          id \in issued' /\ number = new[id]
    <3>1. CASE "store" \in steps
      BY <1>3, <1>4, <3>1
    <3>2. CASE "store" \notin steps /\ "activate" \in steps
      BY <1>1, <1>3, <1>4, <1>6, <3>2 DEF Intended, Known, Genuine
    <3>3. QED
      BY <3>1, <3>2
  <2>3. ASSUME NEW e \in next.scripts
        PROVE  e.id \in issued' /\ e.content = new[e.id]
    <3>1. CASE Known(e.id, e.content)
      BY <1>3, <1>4, <1>6, <3>1 DEF Known, Genuine
    <3>2. CASE /\ steps \cap {"store", "activate"} # {}
               /\ e.id = id /\ e.content = number
      BY <2>2, <3>2
    <3>3. QED
      BY <1>1, <3>1, <3>2 DEF Intended
  <2>4. QED
    BY <1>2, <2>1, <2>2, <2>3 DEF RequestIsGenuine, Genuine
<1>8. ASSUME NEW q \in Serving
      PROVE  RequestIsGenuine(new, q)'
  <2>1. request'[q] = request[q] /\ Pending(q)' = Pending(q)
    BY <1>2 DEF Pending
  <2>2. RequestIsGenuine(content, q)
    BY DEF AllGenuine
  <2>3. /\ Genuine(new, request[q].seen.scripts)'
        /\ Genuine(new, request[q].next.scripts)'
        /\ Genuine(new, request[q].window)'
    BY <1>5, <2>1, <2>2 DEF RequestIsGenuine, Genuine
  <2>4. Pending(q) \cap {"store", "activate"} # {} =>
          request[q].id \in issued' /\ request[q].content = new[request[q].id]
    BY <1>3, <1>4, <2>2 DEF RequestIsGenuine
  <2>5. QED
    BY <2>1, <2>3, <2>4 DEF RequestIsGenuine
<1>9. /\ \A s \in Ids : Stored(s)' => s \in issued' /\ file'[s] = new[s]
      /\ index' # NoFile => Genuine(new, index.scripts)'
      /\ legacy' => LegacyId \in issued' /\ new[LegacyId] = 0
  <2>1. \A s \in Ids : Stored(s)' => s \in issued' /\ file'[s] = new[s]
    BY <1>1, <1>3, <1>4 DEF AllGenuine, Stored
  <2>2. index' # NoFile => Genuine(new, index.scripts)'
    BY <1>1, <1>3, <1>4 DEF AllGenuine, Genuine
  <2>3. legacy' => LegacyId \in issued' /\ new[LegacyId] = 0
    BY <1>1, <1>3, <1>4 DEF AllGenuine
  <2>4. QED
    BY <2>1, <2>2, <2>3
<1>10. QED
  BY <1>2, <1>7, <1>8, <1>9 DEF AllGenuine

\* A step of a request changes no content.
LEMMA MovedKeepsContents ==
  ASSUME NEW content, AllGenuine(content), issued' = issued, legacy' = legacy,
         NEW r, NEW step, NEW W, Moved(r, step, W), Genuine(content, W),
         \A id \in Ids : Stored(id)' => id \in issued /\ file'[id] = content[id],
         index' # NoFile => Genuine(content, index.scripts)'
  PROVE  AllGenuine(content)'
<1>1. ASSUME NEW q \in Serving'
      PROVE  RequestIsGenuine(content, q)'
  <2>1. /\ q \in Serving /\ RequestIsGenuine(content, q)
        /\ Pending(q)' \subseteq Pending(q)
        /\ request'[q].id = request[q].id
        /\ request'[q].seen = request[q].seen
        /\ request'[q].next = request[q].next
    BY MovedPending DEF AllGenuine
  <2>2. /\ request'[q].window = request[q].window \cup W
        /\ request'[q].content = request[q].content
    BY Zenon DEF Moved
  <2>3. Genuine(content, request[q].window)'
    BY <2>1, <2>2 DEF RequestIsGenuine, Genuine
  <2>4. QED
    BY <2>1, <2>2, <2>3 DEF RequestIsGenuine, Genuine
<1>2. QED
  BY <1>1 DEF AllGenuine

LEMMA FilesKeepContents ==
  ASSUME RequestsInv, NEW content, AllGenuine(content), NEW r \in Serving,
         NEW step \in Pending(r), FilesWritten(r, step, file')
  PROVE  \A id \in Ids : Stored(id)' => id \in issued /\ file'[id] = content[id]
<1>1. /\ file \in [Ids -> Contents \cup {NoFile}]
      /\ RequestIsGenuine(content, r) /\ WellPlanned(r)
      /\ \A id \in Ids : Stored(id) => id \in issued /\ file[id] = content[id]
      /\ legacy => LegacyId \in issued /\ content[LegacyId] = 0
  BY DEF AllGenuine, RequestsInv, TypeOK
<1>2. ASSUME NEW id, NEW number,
             \A s \in Ids : \/ file'[s] = file[s]
                            \/ s = id /\ file'[s] = number,
             number = NoFile \/ (id \in issued /\ number = content[id])
      PROVE  \A s \in Ids : Stored(s)' => s \in issued /\ file'[s] = content[s]
  BY <1>1, <1>2 DEF Stored
<1> DEFINE own == request[r].id
           number == request[r].content
<1>3. CASE step = "legacy file"
  <2>1. file' = [file EXCEPT ![LegacyId] = 0] /\ legacy
    BY <1>1, <1>3 DEF FilesWritten, WellPlanned
  <2>2. \A s \in Ids : file'[s] = file[s] \/ (s = LegacyId /\ file'[s] = 0)
    BY <1>1, <2>1
  <2>3. LegacyId \in issued /\ 0 = content[LegacyId]
    BY <1>1, <2>1
  <2>4. QED
    BY <1>2, <2>2, <2>3
<1>4. CASE step \in {"store", "activate"}
  <2>1. /\ own \in issued /\ number = content[own]
        /\ \/ file' = [file EXCEPT ![own] = number]
           \/ file' = [file EXCEPT ![own] =
                         IF @ = NoFile THEN number ELSE @]
    BY <1>1, <1>4 DEF FilesWritten, RequestIsGenuine
  <2> HIDE DEF own, number
  <2>2. CASE file' = [file EXCEPT ![own] = number]
    <3>1. \A s \in Ids : file'[s] = file[s] \/ (s = own /\ file'[s] = number)
      BY <1>1, <2>2
    <3>2. QED
      BY <1>2, <2>1, <3>1
  <2>3. CASE file' = [file EXCEPT ![own] =
                        IF @ = NoFile THEN number ELSE @]
    <3>1. \A s \in Ids : file'[s] = file[s] \/ (s = own /\ file'[s] = number)
      BY <1>1, <2>3
    <3>2. QED
      BY <1>2, <2>1, <3>1
  <2>4. QED
    BY <2>1, <2>2, <2>3
<1>5. CASE step = "archive"
  <2>1. PICK e \in Active(request[r].seen) :
          file' = [file EXCEPT ![e.id] = IF @ = NoFile THEN e.content ELSE @]
    BY <1>5 DEF FilesWritten
  <2> DEFINE id == e.id
             old == e.content
  <2>2. id \in issued /\ old = content[id]
    BY <1>1 DEF RequestIsGenuine, Genuine, Active
  <2>3. file' = [file EXCEPT ![id] = IF @ = NoFile THEN old ELSE @]
    BY <2>1
  <2> HIDE DEF id, old
  <2>4. \A s \in Ids : file'[s] = file[s] \/ (s = id /\ file'[s] = old)
    BY <1>1, <2>3
  <2>5. QED
    BY <1>2, <2>2, <2>4
<1>6. CASE step = "remove"
  <2>1. file' = [file EXCEPT ![own] = NoFile]
    BY <1>6 DEF FilesWritten
  <2> HIDE DEF own
  <2>2. \A s \in Ids : file'[s] = file[s] \/ (s = own /\ file'[s] = NoFile)
    BY <1>1, <2>1
  <2>3. QED
    BY <1>2, <2>2
<1>7. QED
  BY <1>3, <1>4, <1>5, <1>6 DEF FilesWritten

LEMMA WriteIndexKeepsContents ==
  ASSUME PointerInv, RequestsInv, NEW content, AllGenuine(content),
         NEW r \in Requests, WriteMigratedIndex(r) \/ WriteNextIndex(r)
  PROVE  AllGenuine(content)'
<1>1. PICK step, idx : /\ WriteIndex(r, step, idx)
                       /\ idx \in {request[r].seen, request[r].next}
  BY DEF WriteMigratedIndex, WriteNextIndex
<1>2. /\ r \in Serving /\ index' = idx /\ file' = file /\ legacy' = legacy
      /\ issued' = issued
  BY <1>1 DEF WriteIndex, Doing, Serving, history
<1>3. Moved(r, step, Active(idx))
  <2>1. idx \in Index /\ Sound(idx) /\ Named(idx)
    BY <1>1, <1>2, IndexesToWrite
  <2>2. QED
    BY <1>1, <2>1, WriteIndexKeepsRequests
<1>4. Genuine(content, idx.scripts)
  BY <1>1, <1>2 DEF AllGenuine, RequestIsGenuine
<1>5. /\ Genuine(content, Active(idx))
      /\ index' # NoFile => Genuine(content, index.scripts)'
      /\ \A id \in Ids : Stored(id)' => id \in issued /\ file'[id] = content[id]
  BY <1>2, <1>4 DEF Genuine, Active, Stored, AllGenuine
<1>6. QED
  BY <1>2, <1>3, <1>5, MovedKeepsContents

LEMMA WriteFilesKeepsContents ==
  ASSUME RequestsInv, NEW content, AllGenuine(content), NEW r \in Requests,
         NEW step, NEW files, WriteFiles(r, step, files),
         FilesWritten(r, step, files)
  PROVE  AllGenuine(content)'
<1>1. /\ r \in Serving /\ file' = files /\ index' = index /\ legacy' = legacy
      /\ issued' = issued
  BY DEF WriteFiles, Doing, Serving, history
<1>2. Moved(r, step, {}) /\ FilesWritten(r, step, file')
  BY <1>1, FilesAreTyped, WriteFilesKeepsRequests
<1>3. step \in Pending(r)
  BY <1>2 DEF Moved
<1>4. \A id \in Ids : Stored(id)' => id \in issued /\ file'[id] = content[id]
  BY <1>1, <1>2, <1>3, FilesKeepContents
<1>5. /\ Genuine(content, {})
      /\ index' # NoFile => Genuine(content, index.scripts)'
  BY <1>1 DEF Genuine, AllGenuine
<1>6. QED
  BY <1>1, <1>2, <1>4, <1>5, MovedKeepsContents

\* A download is served the content of a version in its window.
LEMMA FetchDelivers ==
  ASSUME RequestsInv, NEW content, AllGenuine(content), NEW r \in Requests,
         Fetch(r)
  PROVE  AllGenuine(content)' /\ DeliversActive'
<1>1. /\ Moved(r, "fetch", {}) /\ r \in Serving /\ "fetch" \in Pending(r)
      /\ request[r].id \in Ids
      /\ served'.content = file[request[r].id]
      /\ served'.window = request[r].window
      /\ index' = index /\ file' = file /\ legacy' = legacy /\ issued' = issued
  BY FetchParts DEF history
<1>2. PICK e \in request[r].window : e.id = request[r].id
  BY <1>1 DEF RequestsInv, Watched
<1>3. e.content = content[request[r].id]
  BY <1>1, <1>2 DEF AllGenuine, RequestIsGenuine, Genuine
<1>4. file[request[r].id] # NoFile => file[request[r].id] = content[request[r].id]
  BY <1>1 DEF AllGenuine, Stored
<1>5. DeliversActive'
  BY <1>1, <1>2, <1>3, <1>4 DEF DeliversActive
<1>6. /\ Genuine(content, {})
      /\ index' # NoFile => Genuine(content, index.scripts)'
      /\ \A id \in Ids : Stored(id)' => id \in issued /\ file'[id] = content[id]
  BY <1>1 DEF Genuine, AllGenuine, Stored
<1>7. QED
  BY <1>1, <1>5, <1>6, MovedKeepsContents

LEMMA EndKeepsContents ==
  ASSUME NEW content, AllGenuine(content), EndOfRequests
  PROVE  AllGenuine(content)'
<1>1. /\ index' = index /\ file' = file /\ legacy' = legacy /\ issued' = issued
      /\ \A q \in Serving' : q \in Serving /\ request'[q] = request[q]
  BY DEF EndOfRequests, Kept, Serving, history
<1>2. ASSUME NEW q \in Serving'
      PROVE  RequestIsGenuine(content, q)'
  <2>1. Pending(q)' = Pending(q) /\ RequestIsGenuine(content, q)
    BY <1>1 DEF Pending, AllGenuine
  <2>2. QED
    BY <1>1, <2>1 DEF RequestIsGenuine, Genuine
<1>3. QED
  BY <1>1, <1>2 DEF AllGenuine, Genuine, Stored

LEMMA ContentsStep ==
  ASSUME PointerInv, RequestsInv, ContentsInv, [Next]_vars, ~SameSecond
  PROVE  (\E content \in [Ids -> Contents] : AllGenuine(content)') /\ DeliversActive'
<1>1. PICK content \in [Ids -> Contents] : AllGenuine(content)
  BY DEF ContentsInv
<1>2. ASSUME served' = Nothing PROVE DeliversActive'
  BY <1>2 DEF DeliversActive
<1>3. ASSUME NEW r \in Requests, NEW id, NEW number, NEW next, NEW todo,
             Reads(r, id, number, next, todo)
      PROVE  (\E new \in [Ids -> Contents] : AllGenuine(new)') /\ DeliversActive'
  <2>1. served' = Nothing
    BY <1>3 DEF Reads, Receive
  <2>2. QED
    BY <1>1, <1>2, <1>3, <2>1, ReadsKeepsContents
<1>4. ASSUME NEW r \in Requests, WriteMigratedIndex(r) \/ WriteNextIndex(r)
      PROVE  AllGenuine(content)' /\ DeliversActive'
  <2>1. served' = Nothing
    BY <1>4 DEF WriteMigratedIndex, WriteNextIndex, WriteIndex
  <2>2. QED
    BY <1>1, <1>2, <1>4, <2>1, WriteIndexKeepsContents
<1>5. ASSUME NEW r \in Requests, NEW step, NEW files,
             WriteFiles(r, step, files), FilesWritten(r, step, files)
      PROVE  AllGenuine(content)' /\ DeliversActive'
  <2>1. served' = Nothing
    BY <1>5 DEF WriteFiles
  <2>2. QED
    BY <1>1, <1>2, <1>5, <2>1, WriteFilesKeepsContents
<1>6. ASSUME NEW r \in Requests, Fetch(r)
      PROVE  AllGenuine(content)' /\ DeliversActive'
  BY <1>1, <1>6, FetchDelivers
<1>7. CASE EndOfRequests
  <2>1. DeliversActive'
    BY <1>7 DEF EndOfRequests, ContentsInv, DeliversActive
  <2>2. QED
    BY <1>1, <1>7, <2>1, EndKeepsContents
<1>8. CASE StepOfRequest
  BY <1>1, <1>3, <1>4, <1>5, <1>6, <1>8 DEF StepOfRequest
<1>9. QED
  BY <1>7, <1>8, StepsAndEnds

LEMMA ContentsInit ==
  ASSUME Init
  PROVE  ContentsInv
<1> DEFINE content == [id \in Ids |-> 0]
<1>1. content \in [Ids -> Contents] /\ content[LegacyId] = 0
  BY NumberTypes, NamesAssumption
<1>2. PICK origin \in Origins :
        /\ legacy = (origin = "active.json")
        /\ index = IF origin = "index without statuses"
                   THEN [active |-> LegacyId,
                         scripts |-> {Version(LegacyId, 0, "")}]
                   ELSE NoFile
        /\ file = [s \in Ids |->
                     IF s = LegacyId /\ origin = "index without statuses"
                     THEN 0 ELSE NoFile]
        /\ issued = IF origin = "nothing" THEN {} ELSE {LegacyId}
  BY DEF Init
<1>3. Serving = {} /\ served = Nothing
  BY DEF Init, Serving
<1>4. legacy => LegacyId \in issued
  BY <1>2
<1>5. \A id \in Ids : Stored(id) => id \in issued /\ file[id] = content[id]
  <2>1. ASSUME NEW id \in Ids, Stored(id)
        PROVE  id \in issued /\ file[id] = content[id]
    <3>1. id = LegacyId /\ origin = "index without statuses"
      BY <1>2, <2>1 DEF Stored
    <3>2. QED
      BY <1>2, <3>1
  <2>2. QED
    BY <2>1
<1>6. ASSUME index # NoFile
      PROVE  Genuine(content, index.scripts)
  <2>1. origin = "index without statuses"
    BY <1>2, <1>6
  <2>2. index = [active |-> LegacyId, scripts |-> {Version(LegacyId, 0, "")}]
    BY <1>2, <2>1
  <2>3. LegacyId \in issued
    BY <1>2, <2>1
  <2>4. index.scripts = {Version(LegacyId, 0, "")}
    BY <2>2
  <2>5. /\ Version(LegacyId, 0, "").id = LegacyId
        /\ Version(LegacyId, 0, "").content = 0
    BY DEF Version
  <2>6. QED
    BY <1>1, <2>3, <2>4, <2>5 DEF Genuine
<1> HIDE DEF content
<1>7. AllGenuine(content)
  BY <1>1, <1>3, <1>4, <1>5, <1>6 DEF AllGenuine
<1>8. QED
  BY <1>1, <1>3, <1>7 DEF ContentsInv, DeliversActive

\* A download is served the content of a version that was active while it was
\* served, whatever requests overlap, if no two versions share an identifier.
THEOREM DeliveryHolds == ~SameSecond => (Spec => []DeliversActive)
<1> SUFFICES ASSUME ~SameSecond PROVE Spec => []DeliversActive
  OBVIOUS
<1>1. Init => ContentsInv
  BY ContentsInit
<1>2. PointerInv /\ RequestsInv /\ ContentsInv /\ [Next]_vars => ContentsInv'
  BY ContentsStep DEF ContentsInv
<1>3. ContentsInv => DeliversActive
  BY DEF ContentsInv
<1>4. QED
  BY <1>1, <1>2, <1>3, PointerInductive, RequestsInductive, PTL DEF Spec

=============================================================================
