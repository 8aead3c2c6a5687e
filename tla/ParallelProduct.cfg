\* Two matrices of up to two rows and columns over the residues of 3; the
\* product of one of them in parallel by two workers.
SPECIFICATION Spec
CONSTANTS
  Name = {a, b}
  Sizes = {1, 2}
  Modulus = 3
  MaxStored = 4
  Null = Null
  Shared = a
  Workers = 2
INVARIANTS
  EqualMeansSame
  ProductsRight
PROPERTIES
  ImplementsDense
