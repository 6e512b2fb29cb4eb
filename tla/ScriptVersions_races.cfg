SPECIFICATION Spec
CONSTANTS
  r1 = r1
  r2 = r2
  s1 = s1
  s2 = s2
  s0 = s0
  Ids = {s0, s1, s2}
  Requests = {r1, r2}
  NoId = NoId
  NoFile = NoFile
  Idle = Idle
  Nothing = Nothing
  LegacyId = s0
  Origins = {"nothing", "active.json", "index without statuses"}
  SameSecond = FALSE
  MaxCreated = 2
INVARIANTS TypeOK OneActiveVersion ListedIsStored DownloadFindsScript DeliversActive
PROPERTIES LibraryIsAtomic
SYMMETRY Symmetry
VIEW Essential
