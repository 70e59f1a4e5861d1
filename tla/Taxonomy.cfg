\* Four items, three names, two concurrent requests besides renames and removals.
CONSTANTS
  Item = {i1, i2, i3, i4}
  Name = {n1, n2, n3}
  Call = {r1, r2}
  Null = Null
SPECIFICATION Spec
SYMMETRY Rows
INVARIANTS
  TypeOK
  LastReorderWins
PROPERTY
  RefinesItemOrder
