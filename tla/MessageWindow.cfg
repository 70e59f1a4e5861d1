\* Every history of up to five messages at four points in time, every range over them.
CONSTANTS
  MaxLen = 5
  MaxSentAt = 3
  Histories <- MCHistories
  Bounds <- MCBounds
  TenMinutes = 1
  None = None
SPECIFICATION Spec
\* The generator returns, or throws.
CHECK_DEADLOCK FALSE
INVARIANTS
  TypeOK
  ContextIsNeighbourhood
PROPERTY
  RefinesStream
