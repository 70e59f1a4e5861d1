\* Two items and a third to come, two mutations in flight of three, one event from elsewhere.
CONSTANTS
  i1 = i1
  i2 = i2
  Item = {i1, i2, i3}
  Call = {c1, c2}
  MaxEvents = 2
  Initial <- MCInitial
  Null = Null
SPECIFICATION FairSpec
CHECK_DEADLOCK FALSE
INVARIANTS
  TypeOK
  NoItemTwice
  PageIsCurrent
  OrderIsHeld
PROPERTIES
  StaysCleared
  CallsEnd
