SPECIFICATION Spec
CONSTANTS
  m1 = m1
  m2 = m2
  t1 = t1
  t2 = t2
  a1 = a1
  a2 = a2
  Codes = {c1}
  Machines = {m1}
  Tokens = {t1}
  Admins = {a1, a2}
  NoMachine = NoMachine
  All = All
  NoCard = NoCard
  NoSession = NoSession
  Idle = Idle
  SessionTTL = 4
  Duration = 4
  Extra = 2
  Limits = {1}
  EditKinds <- PeriodEdits
  Claims = {"stored"}
  Blockable = {c1}
  UnbindOnExit = {FALSE}
  Instants <- ThreeInstants
  LastRequest = 5
  MaxPaid = 6
INVARIANTS RefusalEndsSessions PaidPeriodKept
SYMMETRY Symmetry
VIEW WithoutAnswer
