CONSTANTS
  Cap = 4
  Stale = TRUE
  Value = {a, b}
  p = p
  c = c
  QueueNode = {n1, n2, n3, n4}
  StackThread = {t1, t2, t3}
  StackNode = {n1, n2}
  MaxSpurious = 1
  Default = Default
  Wild = Wild
  Null = Null
SPECIFICATION MCSpec
INVARIANTS NoDataRace ObjectLifetimes QueueNoBadAccess StackListIntact
PROPERTIES
  ImplementsLinQueue
  QueueImplementsLinQueue
  ImplementsLinStack
  LockFree
