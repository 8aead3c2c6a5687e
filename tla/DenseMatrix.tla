----------------------------- MODULE DenseMatrix -----------------------------
(***************************************************************************)
(* The promise of a matrix class: every matrix a program declares is an    *)
(* array with an element in every place, whatever is stored of it.  Places *)
(* are numbered from <<0, 0>>; elements are residues, so that sums and     *)
(* products cancel as those of unsigned integers do.                       *)
(***************************************************************************)
EXTENDS Integers, Sums

CONSTANTS
  Name,     \* the variables of the program
  Sizes,    \* the numbers of rows and columns it declares
  Modulus,  \* number of values of an element
  Null      \* not declared

VARIABLE array  \* of every name: m, n and the elements at <<i, j>>

Element == 0 .. Modulus - 1
Places(m, n) == (0 .. m - 1) \X (0 .. n - 1)

Array ==
  UNION {[m : {m}, n : {n}, at : [Places(m, n) -> Element]] : m, n \in Sizes}

Matrix(m, n, Value(_, _)) ==
  [m |-> m, n |-> n,
   at |-> [p \in Places(m, n) |-> Value(p[1], p[2]) % Modulus]]

Zero(m, n) == Matrix(m, n, LAMBDA i, j : 0)

SameShape(A, B) == A.m = B.m /\ A.n = B.n
Sum(A, B) == Matrix(A.m, A.n, LAMBDA i, j : A.at[i, j] + B.at[i, j])
Difference(A, B) == Matrix(A.m, A.n, LAMBDA i, j : A.at[i, j] - B.at[i, j])
Product(A, B) ==
  Matrix(A.m, B.n,
         LAMBDA i, j : Total([k \in 0 .. A.n - 1 |-> A.at[i, k] * B.at[k, j]], A.n))

(* Row i of A times a vector.                                               *)
RowTimes(A, i, x) ==
  Total([k \in 0 .. A.n - 1 |-> A.at[i, k] * x[k]], A.n) % Modulus

-----------------------------------------------------------------------------
Init == array = [x \in Name |-> Null]

(* A step gives one variable a value.                                       *)
Gets(x, Values) ==
  /\ \A z \in Name \ {x} : array'[z] = array[z]
  /\ array'[x] \in Values

Declare(x) == Gets(x, {Zero(m, n) : m, n \in Sizes})

Put(x) ==
  LET A == array[x]
  IN  /\ A # Null
      /\ Gets(x, {[A EXCEPT !.at[p] = v] : p \in DOMAIN A.at, v \in Element})

(* x becomes the result of an operation on y and z, or a copy of y.         *)
Compute(x, y, z) ==
  LET A == array[y]
      B == array[z]
  IN  /\ A # Null /\ B # Null
      /\ \/ SameShape(A, B) /\ Gets(x, {Sum(A, B), Difference(A, B)})
         \/ A.n = B.m /\ Gets(x, {Product(A, B)})

Copy(x, y) == array[y] # Null /\ Gets(x, {array[y]})

Next ==
  \E x \in Name :
    \/ Declare(x)
    \/ Put(x)
    \/ \E y, z \in Name : Compute(x, y, z)
    \/ \E y \in Name : Copy(x, y)

Spec == Init /\ [][Next]_array
=============================================================================
