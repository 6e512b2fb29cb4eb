SPECIFICATION FairSpec
CONSTANTS
  c1 = c1
  c2 = c2
  t1 = t1
  t2 = t2
  t3 = t3
  Cards = {c1}
  Tokens = {t1}
  Slots = {1, 2}
  Seats = 1
  NoCard = NoCard
  NoToken = NoToken
  NoRequest = NoRequest
INVARIANT WaitsForRequest
PROPERTY DeadSessionNoticed
