CONSTANTS
  Thread = {t1, t2, t3}
  n1 = n1
  n2 = n2
  a = a
  b = b
  TableThread = {t1, t2}
  Key = {k1, k2}
  Bucket = {bucket}
  Hash <- MCHash
  Node = {n1, n2, n3}
  Value = {a, b}
  HeadNode = HeadNode
  Initial <- MCInitial
  Content <- MCContent
  Calls = 1
  Null = Null
SPECIFICATION MCSpec
INVARIANTS NoUseAfterFree WalkComplete
PROPERTIES CallsReturn ImplementsLinMap
