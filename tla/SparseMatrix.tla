---------------------------- MODULE SparseMatrix ----------------------------
(***************************************************************************)
(* SparseMatrix<T> of src/matrix/ and of src/parallel-sparse-matrix/:      *)
(* compressed row storage.  vals and cols hold the elements that are not   *)
(* T(), row after row, and rows says where each row begins.                *)
(*                                                                         *)
(* The two versions of the class differ in what they count from: rows,     *)
(* columns and positions are numbered from 1 in src/matrix/ and from 0 in  *)
(* src/parallel-sparse-matrix/.  An object's base is that number.  T are   *)
(* the residues of Modulus, whose sums and products cancel as those of     *)
(* unsigned do.                                                            *)
(***************************************************************************)
EXTENDS Integers, Sequences, FiniteSetsExt, SequencesExt, Sums

CONSTANTS
  Name,       \* the variables of a program
  Sizes,      \* bound: the numbers of rows and columns it declares
  Modulus,    \* number of values of T
  MaxStored,  \* bound: how many elements its matrices store together
  Null        \* nullptr; also "not declared"

ASSUME SparseAssumption ==
  /\ Modulus \in Nat \ {0}
  /\ Sizes \subseteq Nat \ {0}
  /\ MaxStored \in Nat

VARIABLES
  base,  \* which version of the class the program is compiled with
  mat    \* the object of every name

T == 0 .. Modulus - 1

Object ==
  [base : {0, 1}, m : Sizes, n : Sizes, rows : Seq(Int),
   vals : Seq(T) \cup {Null}, cols : Seq(Int) \cup {Null}]

(* v[i] of a std::vector.                                                   *)
At(v, i) == v[i + 1]

Constructed(first, m, n) ==
  [base |-> first, m |-> m, n |-> n, rows |-> [i \in 1 .. m + 1 |-> first],
   vals |-> Null, cols |-> Null]

-----------------------------------------------------------------------------
(* get and set                                                              *)

RowStart(M, row) == At(M.rows, row - M.base) - M.base
RowEnd(M, row) == At(M.rows, row - M.base + 1) - M.base
Positions(M, row) == RowStart(M, row) .. RowEnd(M, row) - 1

(* Where the search of a row stops: at the first column that is not less    *)
(* than col, or behind the row.                                             *)
Place(M, row, col) ==
  LET there == {p \in Positions(M, row) : At(M.cols, p) >= col}
  IN  IF there = {} THEN RowEnd(M, row) ELSE Min(there)

(* The column the search has seen last, below every column if none.         *)
LastSeen(M, row, col) ==
  LET p == Place(M, row, col)
  IN  IF p \in Positions(M, row) THEN At(M.cols, p)
      ELSE IF Positions(M, row) = {} THEN M.base - 1
      ELSE At(M.cols, p - 1)

Get(M, row, col) ==
  LET p == Place(M, row, col)
  IN  IF p \in Positions(M, row) /\ At(M.cols, p) = col THEN At(M.vals, p) ELSE 0

(* Mutant of Shifted: only the next row begins d positions further on.      *)
ShiftedOnce(M, row, d) ==
  [k \in DOMAIN M.rows |-> IF k - 2 = row - M.base THEN M.rows[k] + d ELSE M.rows[k]]

(* The rows behind row begin d positions further on.                        *)
Shifted(M, row, d) ==
  [k \in DOMAIN M.rows |-> IF k - 1 > row - M.base THEN M.rows[k] + d ELSE M.rows[k]]

Inserted(M, p, row, col, val) ==
  [M EXCEPT !.vals = IF @ = Null THEN <<val>> ELSE InsertAt(@, p + 1, val),
            !.cols = IF @ = Null THEN <<col>> ELSE InsertAt(@, p + 1, col),
            !.rows = Shifted(M, row, 1)]

Removed(M, p, row) ==
  [M EXCEPT !.vals = RemoveAt(@, p + 1),
            !.cols = RemoveAt(@, p + 1),
            !.rows = Shifted(M, row, -1)]

(* Mutant of Stored: a zero is stored like any other value.                 *)
StoredZero(M, row, col, val) ==
  LET p == Place(M, row, col)
  IN  IF LastSeen(M, row, col) # col
      THEN IF val # 0 THEN Inserted(M, p, row, col, val) ELSE M
      ELSE [M EXCEPT !.vals[p + 1] = val]

(* set: only values other than T() are stored.                              *)
Stored(M, row, col, val) ==
  LET p == Place(M, row, col)
  IN  IF LastSeen(M, row, col) # col
      THEN IF val # 0 THEN Inserted(M, p, row, col, val) ELSE M
      ELSE IF val = 0 THEN Removed(M, p, row)
      ELSE [M EXCEPT !.vals[p + 1] = val]

-----------------------------------------------------------------------------
(* Arithmetic                                                               *)

(* A row times the vector x: x[0], x[1], ...                                *)
MultiplyRow(M, row, x) ==
  LET first == RowStart(M, row)
      count == RowEnd(M, row) - first
      term(p) == At(M.vals, p) * x[At(M.cols, p) - M.base]
  IN  IF M.vals = Null THEN 0
      ELSE Total([k \in 0 .. count - 1 |-> term(first + k)], count) % Modulus

(* The product with a vector, element by element.                           *)
MultiplyVector(M, x) == [i \in 0 .. M.m - 1 |-> MultiplyRow(M, M.base + i, x)]

Rows(M) == M.base .. M.base + M.m - 1
Cols(M) == M.base .. M.base + M.n - 1

(* The new matrix result: its elements are set one after the other.         *)
Filled(result, value) ==
  LET After(M, k) == LET row == M.base + (k \div M.n)
                         col == M.base + (k % M.n)
                     IN  Stored(M, row, col, value[row, col] % Modulus)
      filled[k \in 0 .. result.m * result.n] ==
        IF k = 0 THEN result ELSE After(filled[k - 1], k - 1)
  IN  filled[result.m * result.n]

Add(A, B) ==
  Filled(Constructed(A.base, A.m, A.n),
         [p \in Rows(A) \X Cols(A) |-> Get(A, p[1], p[2]) + Get(B, p[1], p[2])])

Subtract(A, B) ==
  Filled(Constructed(A.base, A.m, A.n),
         [p \in Rows(A) \X Cols(A) |-> Get(A, p[1], p[2]) - Get(B, p[1], p[2])])

Multiply(A, B) ==
  LET term(i, j) ==
        [k \in 0 .. A.n - 1 |-> Get(A, i, A.base + k) * Get(B, B.base + k, j)]
  IN  Filled(Constructed(A.base, A.m, B.n),
             [p \in Rows(A) \X Cols(B) |-> Total(term(p[1], p[2]), A.n)])

(* operator==                                                               *)
Equal(A, B) == A.vals = B.vals /\ A.cols = B.cols /\ A.rows = B.rows

-----------------------------------------------------------------------------
(* A program that works on matrices.  Only the version of src/matrix/ has   *)
(* copies and arithmetic.                                                   *)

Init ==
  /\ base \in {0, 1}
  /\ mat = [x \in Name |-> Null]

Declare(x) ==
  /\ \E m, n \in Sizes : mat' = [mat EXCEPT ![x] = Constructed(base, m, n)]
  /\ UNCHANGED base

Set(x) ==
  /\ mat[x] # Null
  /\ \E row \in Rows(mat[x]), col \in Cols(mat[x]), val \in T :
       mat' = [mat EXCEPT ![x] = Stored(@, row, col, val)]
  /\ UNCHANGED base

(* A new x, initialised with y + z, y - z or y * z: the result is built in  *)
(* x itself.  When the dimensions do not fit the operators throw: no step.  *)
Compute(x, y, z) ==
  LET A == mat[y]
      B == mat[z]
      result(M) == mat' = [mat EXCEPT ![x] = M]
  IN  /\ base = 1
      /\ A # Null /\ B # Null
      /\ \/ A.m = B.m /\ A.n = B.n /\ result(Add(A, B))
         \/ A.m = B.m /\ A.n = B.n /\ result(Subtract(A, B))
         \/ A.n = B.m /\ result(Multiply(A, B))
      /\ UNCHANGED base

(* Copy construction, and assignment, which destructs first.  deepCopy of a *)
(* matrix that has never stored anything leaves vals and cols undefined; a  *)
(* program has to avoid it.                                                 *)
Copy(x, y) ==
  /\ base = 1
  /\ mat[y] # Null
  /\ mat[y].vals # Null
  /\ mat' = [mat EXCEPT ![x] = mat[y]]
  /\ UNCHANGED base

Count(M) == IF M = Null \/ M.vals = Null THEN 0 ELSE Len(M.vals)

MatrixStep(names) ==
  /\ \E x \in names :
       \/ Declare(x)
       \/ Set(x)
       \/ \E y, z \in names : Compute(x, y, z)
       \/ \E y \in names : Copy(x, y)
  /\ MapThenSumSet(LAMBDA x : Count(mat'[x]), Name) <= MaxStored

-----------------------------------------------------------------------------
(* What an object stands for: the elements get finds.                       *)
Content(M) ==
  IF M = Null THEN Null
  ELSE [m |-> M.m, n |-> M.n,
        at |-> [p \in (0 .. M.m - 1) \X (0 .. M.n - 1)
                  |-> Get(M, M.base + p[1], M.base + p[2])]]

array == [z \in Name |-> Content(mat[z])]

Dense == INSTANCE DenseMatrix

ASSUME NullAssumption == Null \notin Seq(Int) \cup Object \cup Dense!Array

(* Whatever is set, overwritten, erased, added, multiplied and copied, in   *)
(* any order, the elements are those of an array.                           *)
ImplementsDense == Dense!Spec

(* == compares only what is stored: it tells matrices of the same shape     *)
(* apart exactly if they differ in an element, whatever their histories, so *)
(* long as both have or neither has ever stored anything.                   *)
EqualMeansSame ==
  \A x, y \in Name :
    LET A == mat[x]
        B == mat[y]
    IN  A # Null /\ B # Null =>
          (A.m = B.m /\ A.n = B.n /\ (A.vals = Null <=> B.vals = Null)
             => (Equal(A, B) <=> Content(A) = Content(B)))
=============================================================================
