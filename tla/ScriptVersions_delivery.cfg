SPECIFICATION Spec
CONSTANTS
  r1 = r1
  r2 = r2
  s1 = s1
  s2 = s2
  s0 = s0
  Ids = {s0, s1, s2}
  Requests = {r1}
  NoId = NoId
  NoFile = NoFile
  Idle = Idle
  Nothing = Nothing
  LegacyId = s0
  Origins = {"nothing"}
  SameSecond = TRUE
  MaxCreated = 2
INVARIANT DeliversActive
SYMMETRY Symmetry
