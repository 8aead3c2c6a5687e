CONSTANTS
  Node = {n1, n2}
  Value = {a, b}
  Null = Null
SPECIFICATION Spec
INVARIANT EmptyMeansNull
