CONSTANTS
  Blocks = {b1, b2, b3, b4}
  Null = Null
  DefaultBlockSize = 10
  UnitHeader = 2
  Sizes = {1, 2, 9}
  Values = {v1, v2}
  Zero = v1
  MaxCapacity = 8
  Keys = {k1, k2, k3, k4}
  Missing = Missing
  MaxKeys = 3
  MaxFreq = 3
  Node = {n1, n2, n3, n4}
  PoolSize = 2
  PageSize = 2
  LastPage = 2
  MaxFile = 3
  MaxSize = 4
  Garbage = Garbage
  Capacity = 3
  Rate = 1
  MaxElapsed = 4
  MaxBack = 2
SPECIFICATION MCSpec
SYMMETRY Symmetry
INVARIANTS
  UnitsApart
  ChainIntact
  VectorHolds
  TablesAgree
  QueueHolds
  DiskVectorsHold
  GrantsBounded
PROPERTY
  ImplementsLFUPolicy
