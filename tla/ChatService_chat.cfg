SPECIFICATION Spec
CONSTANTS
  r1 = r1
  Readers = {r1}
  Admin = Admin
  Followed = {Admin}
  MaxMessages = 2
  MaxPosts = 3
  Nothing = Nothing
  Torn = Torn
INVARIANTS TypeOK NumberNamesMessage DecisionsLast MessagesLast
PROPERTY SaveIsAtomic
CONSTRAINT Undamaged
