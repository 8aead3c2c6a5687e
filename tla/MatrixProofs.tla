---------------------------- MODULE MatrixProofs ----------------------------
(***************************************************************************)
(* SparseMatrix is a matrix, and the product of its rows by the tasks of a *)
(* pool the product with a vector, for every size and modulus.             *)
(***************************************************************************)
EXTENDS ParallelProduct, FiniteSetTheorems, FunctionTheorems,
        SequenceTheorems, WellFoundedInduction, NaturalsInduction, TLAPS

LEMMA LessThan == \A a, b \in Nat : <<a, b>> \in OpToRel(<, Nat) <=> a < b
BY DEF OpToRel

LEMMA DivMod ==
  ASSUME NEW n \in Int, NEW m \in Int, m > 0
  PROVE  /\ n % m \in 0 .. m - 1 /\ n \div m \in Int
         /\ n % m = n - (n \div m) * m
<1>1. n % m \in 0 .. m - 1
  BY SMT
<1>2. n \div m \in Int
  BY SMT
<1>3. n % m = n - (n \div m) * m
  BY SMT
<1> QED
  BY <1>1, <1>2, <1>3

(* Induction, for a set of numbers: it has what a proof about the next      *)
(* number needs, and no predicate as a parameter.                           *)
LEMMA Induction ==
  ASSUME NEW S, 0 \in S, \A k \in Nat : k \in S => k + 1 \in S
  PROVE  Nat \subseteq S
<1> SUFFICES ASSUME Nat \ S # {} PROVE FALSE
  OBVIOUS
<1>1. PICK k \in Nat \ S : \A j \in Nat \ S : ~(<<j, k>> \in OpToRel(<, Nat))
  BY NatLessThanWellFounded, WFMin
<1>5. k \in Nat /\ k \notin S
  BY Zenon
<1>2. k # 0 /\ k - 1 \in Nat /\ k - 1 < k
  BY <1>5
<1>3. k - 1 \in S
  <2>1. <<k - 1, k>> \in OpToRel(<, Nat)
    BY <1>2, LessThan, Zenon
  <2> QED
    BY <1>1, <1>2, <2>1, Zenon
<1>4. k - 1 + 1 \in S
  BY <1>2, <1>3
<1> QED
  BY <1>5, <1>2, <1>4

LEMMA Least ==
  ASSUME NEW S \in SUBSET Nat, S # {}
  PROVE  Min(S) \in S /\ \A j \in S : Min(S) <= j
<1>1. PICK k \in S : \A j \in S : ~(<<j, k>> \in OpToRel(<, Nat))
  BY NatLessThanWellFounded, WFMin
<1>2. \A j \in S : ~(j < k)
  BY <1>1, LessThan, Zenon
<1>3. \A j \in S : k <= j
  BY <1>2
<1> QED
  BY <1>1, <1>3 DEF Min

LEMMA RemoveAtIs ==
  ASSUME NEW S, NEW s \in Seq(S), NEW i \in 1 .. Len(s)
  PROVE  /\ RemoveAt(s, i) \in Seq(S) /\ Len(RemoveAt(s, i)) = Len(s) - 1
         /\ \A j \in 1 .. Len(s) - 1 :
              RemoveAt(s, i)[j] = IF j < i THEN s[j] ELSE s[j + 1]
<1>1. Len(s) \in Nat /\ (\A j \in 1 .. Len(s) : s[j] \in S) /\ i \in Int
  OBVIOUS
<1>2. (\A j \in 1 .. i - 1 : s[j] \in S) /\ (\A j \in i + 1 .. Len(s) : s[j] \in S)
  BY <1>1
<1> DEFINE a == SubSeq(s, 1, i - 1)
           b == SubSeq(s, i + 1, Len(s))
<1>3. /\ a \in Seq(S) /\ Len(a) = (IF 1 <= i - 1 THEN i - 1 - 1 + 1 ELSE 0)
      /\ \A j \in 1 .. i - 1 - 1 + 1 : a[j] = s[1 + j - 1]
  BY <1>1, <1>2, SubSeqProperties
<1>4. /\ b \in Seq(S)
      /\ Len(b) = (IF i + 1 <= Len(s) THEN Len(s) - (i + 1) + 1 ELSE 0)
      /\ \A j \in 1 .. Len(s) - (i + 1) + 1 : b[j] = s[i + 1 + j - 1]
  BY <1>1, <1>2, SubSeqProperties
<1>5. RemoveAt(s, i) = a \o b
  BY DEF RemoveAt
<1> HIDE DEF a, b
<1>6. Len(a) = i - 1 /\ Len(b) = Len(s) - i
  BY <1>1, <1>3, <1>4
<1>7. /\ a \o b \in Seq(S) /\ Len(a \o b) = Len(a) + Len(b)
      /\ \A j \in 1 .. Len(a) + Len(b) :
           (a \o b)[j] = IF j <= Len(a) THEN a[j] ELSE b[j - Len(a)]
  BY <1>3, <1>4, ConcatProperties
<1>8. ASSUME NEW j \in 1 .. Len(s) - 1
      PROVE  (a \o b)[j] = IF j < i THEN s[j] ELSE s[j + 1]
  <2>1. j \in 1 .. Len(a) + Len(b)
    BY <1>1, <1>6
  <2>2. CASE j < i
    <3>1. j <= Len(a) /\ j \in 1 .. i - 1 - 1 + 1 /\ 1 + j - 1 = j
      BY <1>1, <1>6, <2>2
    <3> QED
      BY <1>3, <1>7, <2>1, <2>2, <3>1
  <2>3. CASE ~(j < i)
    <3>1. /\ ~(j <= Len(a)) /\ j - Len(a) \in 1 .. Len(s) - (i + 1) + 1
          /\ i + 1 + (j - Len(a)) - 1 = j + 1
      BY <1>1, <1>6, <2>3
    <3> QED
      BY <1>4, <1>7, <2>1, <2>3, <3>1
  <2> QED
    BY <2>2, <2>3
<1> QED
  BY <1>1, <1>5, <1>6, <1>7, <1>8

Insertion(s, u, S, i, e) ==
  /\ u \in Seq(S) /\ Len(u) = Len(s) + 1
  /\ \A j \in 1 .. Len(s) + 1 :
       u[j] = IF j < i THEN s[j] ELSE IF j = i THEN e ELSE s[j - 1]

LEMMA InsertAtIs ==
  ASSUME NEW S, NEW s \in Seq(S), NEW i \in 1 .. Len(s) + 1, NEW e \in S
  PROVE  Insertion(s, InsertAt(s, i, e), S, i, e)
<1>1. Len(s) \in Nat /\ (\A j \in 1 .. Len(s) : s[j] \in S) /\ i \in Int
  OBVIOUS
<1>2. (\A j \in 1 .. i - 1 : s[j] \in S) /\ (\A j \in i .. Len(s) : s[j] \in S)
  BY <1>1
<1> DEFINE a == SubSeq(s, 1, i - 1)
           b == SubSeq(s, i, Len(s))
           c == a \o <<e>>
<1>3. /\ a \in Seq(S) /\ Len(a) = (IF 1 <= i - 1 THEN i - 1 - 1 + 1 ELSE 0)
      /\ \A j \in 1 .. i - 1 - 1 + 1 : a[j] = s[1 + j - 1]
  BY <1>1, <1>2, SubSeqProperties
<1>4. /\ b \in Seq(S) /\ Len(b) = (IF i <= Len(s) THEN Len(s) - i + 1 ELSE 0)
      /\ \A j \in 1 .. Len(s) - i + 1 : b[j] = s[i + j - 1]
  BY <1>1, <1>2, SubSeqProperties
<1>5. InsertAt(s, i, e) = c \o b
  BY DEF InsertAt
<1> HIDE DEF a, b
<1>6. Len(a) = i - 1 /\ Len(b) = Len(s) - i + 1
  BY <1>1, <1>3, <1>4
<1>7. /\ c \in Seq(S) /\ Len(c) = i /\ c[i] = e
      /\ \A j \in 1 .. i - 1 : c[j] = a[j]
  BY <1>1, <1>3, <1>6
<1> HIDE DEF c
<1>8. /\ c \o b \in Seq(S) /\ Len(c \o b) = Len(c) + Len(b)
      /\ \A j \in 1 .. Len(c) + Len(b) :
           (c \o b)[j] = IF j <= Len(c) THEN c[j] ELSE b[j - Len(c)]
  BY <1>4, <1>7, ConcatProperties
<1>9. ASSUME NEW j \in 1 .. Len(s) + 1
      PROVE  (c \o b)[j] = IF j < i THEN s[j] ELSE IF j = i THEN e ELSE s[j - 1]
  <2>1. j \in 1 .. Len(c) + Len(b)
    BY <1>1, <1>6, <1>7
  <2>2. CASE j < i
    <3>1. /\ j <= Len(c) /\ j \in 1 .. i - 1 - 1 + 1 /\ 1 + j - 1 = j
          /\ j \in 1 .. i - 1
      BY <1>1, <1>7, <2>2
    <3> QED
      BY <1>3, <1>7, <1>8, <2>1, <2>2, <3>1
  <2>3. CASE j = i
    BY <1>1, <1>7, <1>8, <2>1, <2>3
  <2>4. CASE j > i
    <3>1. /\ ~(j <= Len(c)) /\ j - Len(c) \in 1 .. Len(s) - i + 1
          /\ i + (j - Len(c)) - 1 = j - 1 /\ ~(j < i) /\ j # i
      BY <1>1, <1>6, <1>7, <2>4
    <3>2. (c \o b)[j] = b[j - Len(c)]
      BY <1>8, <2>1, <3>1
    <3>3. b[j - Len(c)] = s[j - 1]
      BY <1>4, <3>1
    <3> QED
      BY <3>1, <3>2, <3>3
  <2>5. j < i \/ j = i \/ j > i
    BY <1>1
  <2> QED
    BY <2>2, <2>3, <2>4, <2>5
<1>10. Len(c \o b) = Len(s) + 1
  BY <1>1, <1>6, <1>7, <1>8
<1> QED
  BY <1>5, <1>8, <1>9, <1>10, Zenon DEF Insertion

-----------------------------------------------------------------------------
(* Sums                                                                     *)

Terms(f, n) == \A k \in 0 .. n - 1 : f[k] \in Int

Sums(s, f, n) ==
  /\ s \in [0 .. n -> Int]
  /\ s[0] = 0
  /\ \A k \in 0 .. n - 1 : s[k + 1] = s[k] + f[k]

(* There are partial sums that end in the total.                            *)
LEMMA TotalIs ==
  ASSUME NEW n \in Nat, NEW f, Terms(f, n)
  PROVE  \E s : Sums(s, f, n) /\ Total(f, n) = s[n]
<1> DEFINE Is(s, j) ==
      s = [k \in 0 .. j |-> IF k = 0 THEN 0 ELSE s[k - 1] + f[k - 1]]
           S == {j \in Nat : j <= n => \E s \in [0 .. j -> Int] : Is(s, j)}
<1>1. 0 \in S
  <2> DEFINE s == [k \in 0 .. 0 |-> 0]
  <2>1. s \in [0 .. 0 -> Int]
    OBVIOUS
  <2>2. \A k \in 0 .. 0 : s[k] = IF k = 0 THEN 0 ELSE s[k - 1] + f[k - 1]
    OBVIOUS
  <2>3. Is(s, 0)
    BY <2>2
  <2> QED
    BY <2>1, <2>3
<1>2. ASSUME NEW j \in Nat, j \in S PROVE j + 1 \in S
  <2> SUFFICES ASSUME j + 1 <= n PROVE \E s \in [0 .. j + 1 -> Int] : Is(s, j + 1)
    OBVIOUS
  <2>1. PICK s \in [0 .. j -> Int] : Is(s, j)
    BY <1>2
  <2>2. \A k \in 0 .. j : s[k] = IF k = 0 THEN 0 ELSE s[k - 1] + f[k - 1]
    BY <2>1
  <2> DEFINE u == [k \in 0 .. j + 1 |-> IF k = j + 1 THEN s[j] + f[j] ELSE s[k]]
  <2>3. u \in [0 .. j + 1 -> Int]
    BY DEF Terms
  <2>4. \A k \in 0 .. j + 1 : u[k] = IF k = 0 THEN 0 ELSE u[k - 1] + f[k - 1]
    BY <2>2
  <2>5. Is(u, j + 1)
    BY <2>4
  <2> QED
    BY <2>3, <2>5
<1>3. n \in S
  <2> HIDE DEF S
  <2> QED
    BY <1>1, <1>2, Induction
<1>4. \E s : Is(s, n)
  BY <1>3
<1> DEFINE t == CHOOSE s : Is(s, n)
<1>5. Is(t, n)
  BY <1>4, Zenon
<1>6. Total(f, n) = t[n]
  BY Zenon DEF Total
<1> HIDE DEF t
<1>7. \A k \in 0 .. n : t[k] = IF k = 0 THEN 0 ELSE t[k - 1] + f[k - 1]
  BY <1>5
<1>8. \A k \in 0 .. n : t[k] \in Int
  <2> DEFINE R == {j \in Nat : j <= n => t[j] \in Int}
  <2>1. 0 \in R
    BY <1>7
  <2>2. \A k \in Nat : k \in R => k + 1 \in R
    <3> SUFFICES ASSUME NEW k \in Nat, k \in R, k + 1 <= n PROVE t[k + 1] \in Int
      OBVIOUS
    <3>1. t[k + 1] = t[k] + f[k] /\ t[k] \in Int /\ f[k] \in Int
      BY <1>7 DEF Terms
    <3> QED
      BY <3>1
  <2>3. Nat \subseteq R
    <3> HIDE DEF R
    <3> QED
      BY <2>1, <2>2, Induction
  <2> QED
    BY <2>3
<1>9. t \in [0 .. n -> Int]
  <2>1. t = [k \in 0 .. n |-> IF k = 0 THEN 0 ELSE t[k - 1] + f[k - 1]]
    BY <1>5
  <2>2. \A k \in 0 .. n : (IF k = 0 THEN 0 ELSE t[k - 1] + f[k - 1]) \in Int
    BY <1>7, <1>8
  <2> QED
    BY <2>1, <2>2, Zenon
<1>10. \A k \in 0 .. n - 1 : k + 1 \in 0 .. n /\ k + 1 # 0 /\ k + 1 - 1 = k
  OBVIOUS
<1>11. t[0] = 0 /\ \A k \in 0 .. n - 1 : t[k + 1] = t[k] + f[k]
  BY <1>7, <1>10
<1>12. Sums(t, f, n)
  BY <1>9, <1>11, Zenon DEF Sums
<1> QED
  BY <1>6, <1>12

-----------------------------------------------------------------------------
(* Compressed rows                                                          *)

(* A place counted from 0 is one counted from the base.                     *)
LEMMA OffsetIn ==
  ASSUME NEW b \in Int, NEW n \in Int, NEW k \in 0 .. n - 1
  PROVE  b + k \in b .. b + n - 1
OBVIOUS

LEMMA OffsetOut ==
  ASSUME NEW b \in Int, NEW n \in Int, NEW c \in b .. b + n - 1
  PROVE  c - b \in 0 .. n - 1
OBVIOUS

Stores(M) == IF M.vals = Null THEN 0 ELSE Len(M.vals)

(* What every object is at any time: the rows share out the positions, in   *)
(* their order; in a row the columns ascend; and no zero is stored.         *)
Crs(M) ==
  /\ M = [base |-> M.base, m |-> M.m, n |-> M.n,
          rows |-> M.rows, vals |-> M.vals, cols |-> M.cols]
  /\ M.base \in {0, 1} /\ M.m \in Sizes /\ M.n \in Sizes
  /\ M.rows \in [1 .. M.m + 1 -> Int]
  /\ \/ M.vals = Null /\ M.cols = Null
     \/ /\ M.vals \in Seq(1 .. Modulus - 1)
        /\ M.cols \in Seq(Cols(M))
        /\ Len(M.cols) = Len(M.vals)
  /\ M.rows[1] = M.base /\ M.rows[M.m + 1] = M.base + Stores(M)
  /\ \A i, j \in 1 .. M.m + 1 : i <= j => M.rows[i] <= M.rows[j]
  /\ \A i \in Rows(M) : \A p, q \in Positions(M, i) :
       p < q => At(M.cols, p) < At(M.cols, q)

LEMMA SizeFacts ==
  /\ Modulus \in Nat /\ Modulus > 0
  /\ \A m \in Sizes : m \in Nat /\ m > 0
  /\ Null \notin Seq(Int)
BY SparseAssumption, NullAssumption

LEMMA CrsFacts ==
  ASSUME NEW M, Crs(M)
  PROVE  /\ M.base \in {0, 1} /\ M.m \in Nat /\ M.m > 0 /\ M.n \in Nat /\ M.n > 0
         /\ Stores(M) \in Nat
         /\ \A i \in Rows(M) :
              /\ i \in Int /\ i - M.base \in 0 .. M.m - 1
              /\ RowStart(M, i) \in Nat /\ RowEnd(M, i) \in Nat
              /\ RowStart(M, i) <= RowEnd(M, i) /\ RowEnd(M, i) <= Stores(M)
         /\ \A i, j \in Rows(M) : i < j => RowEnd(M, i) <= RowStart(M, j)
         /\ \A p \in 0 .. Stores(M) - 1 :
              At(M.cols, p) \in Cols(M) /\ At(M.vals, p) \in 1 .. Modulus - 1
<1>1. M.base \in {0, 1} /\ M.m \in Nat /\ M.m > 0 /\ M.n \in Nat /\ M.n > 0
  BY SizeFacts DEF Crs
<1>2. Stores(M) \in Nat
  <2>1. M.vals # Null => Len(M.vals) \in Nat
    BY DEF Crs
  <2> QED
    BY <2>1 DEF Stores
<1>3. ASSUME NEW i \in Rows(M)
      PROVE  /\ i \in Int /\ i - M.base \in 0 .. M.m - 1
             /\ RowStart(M, i) \in Nat /\ RowEnd(M, i) \in Nat
             /\ RowStart(M, i) <= RowEnd(M, i) /\ RowEnd(M, i) <= Stores(M)
  <2>1. i \in Int /\ i - M.base \in 0 .. M.m - 1
    BY <1>1 DEF Rows
  <2> DEFINE k == i - M.base + 1
  <2>2. /\ k \in 1 .. M.m + 1 /\ k + 1 \in 1 .. M.m + 1
        /\ 1 \in 1 .. M.m + 1 /\ M.m + 1 \in 1 .. M.m + 1
        /\ 1 <= k /\ k <= k + 1 /\ k + 1 <= M.m + 1
    BY <1>1, <2>1
  <2>3. RowStart(M, i) = M.rows[k] - M.base /\ RowEnd(M, i) = M.rows[k + 1] - M.base
    BY DEF RowStart, RowEnd, At
  <2> HIDE DEF k
  <2>4. /\ M.rows[k] \in Int /\ M.rows[k + 1] \in Int
        /\ M.base <= M.rows[k] /\ M.rows[k] <= M.rows[k + 1]
        /\ M.rows[k + 1] <= M.base + Stores(M)
    BY <2>2 DEF Crs
  <2> QED
    BY <1>1, <1>2, <2>1, <2>3, <2>4
<1>4. ASSUME NEW i \in Rows(M), NEW j \in Rows(M), i < j
      PROVE  RowEnd(M, i) <= RowStart(M, j)
  <2>1. /\ i \in Int /\ i - M.base \in 0 .. M.m - 1
        /\ j \in Int /\ j - M.base \in 0 .. M.m - 1
    BY <1>3
  <2> DEFINE k == i - M.base + 2
             l == j - M.base + 1
  <2>2. k \in 1 .. M.m + 1 /\ l \in 1 .. M.m + 1 /\ k <= l
    BY <1>1, <1>4, <2>1
  <2>3. RowEnd(M, i) = M.rows[k] - M.base /\ RowStart(M, j) = M.rows[l] - M.base
    <3>1. i - M.base + 1 + 1 = k
      BY <1>1, <2>1
    <3> QED
      BY <3>1 DEF RowStart, RowEnd, At
  <2> HIDE DEF k, l
  <2>4. M.rows[k] \in Int /\ M.rows[l] \in Int /\ M.rows[k] <= M.rows[l]
    BY <2>2 DEF Crs
  <2> QED
    BY <1>1, <2>3, <2>4
<1>5. ASSUME NEW p \in 0 .. Stores(M) - 1
      PROVE  At(M.cols, p) \in Cols(M) /\ At(M.vals, p) \in 1 .. Modulus - 1
  <2>1. /\ M.vals \in Seq(1 .. Modulus - 1) /\ M.cols \in Seq(Cols(M))
        /\ Len(M.cols) = Len(M.vals) /\ Stores(M) = Len(M.vals)
    BY <1>5 DEF Crs, Stores
  <2>2. p + 1 \in 1 .. Len(M.vals)
    BY <2>1
  <2>3. M.cols[p + 1] \in Cols(M) /\ M.vals[p + 1] \in 1 .. Modulus - 1
    BY <2>1, <2>2, ElementOfSeq, Zenon
  <2> QED
    BY <2>3 DEF At
<1> QED
  BY <1>1, <1>2, <1>3, <1>4, <1>5, Zenon

(* A position is in one row only.                                           *)
LEMMA OneRow ==
  ASSUME NEW M, Crs(M), NEW i \in Rows(M), NEW j \in Rows(M),
         NEW p \in Positions(M, i), p \in Positions(M, j)
  PROVE  i = j
<1>1. /\ i \in Int /\ j \in Int
      /\ i < j => RowEnd(M, i) <= RowStart(M, j)
      /\ j < i => RowEnd(M, j) <= RowStart(M, i)
      /\ RowStart(M, i) \in Nat /\ RowEnd(M, i) \in Nat
      /\ RowStart(M, j) \in Nat /\ RowEnd(M, j) \in Nat
  BY CrsFacts
<1> QED
  BY <1>1 DEF Positions

(* What the search of a row finds.                                          *)
LEMMA PlaceIs ==
  ASSUME NEW M, Crs(M), NEW i \in Rows(M), NEW col \in Int
  PROVE  /\ Place(M, i, col) \in RowStart(M, i) .. RowEnd(M, i)
         /\ \A q \in Positions(M, i) :
              IF q < Place(M, i, col) THEN At(M.cols, q) < col
                                      ELSE At(M.cols, q) >= col
<1> DEFINE there == {p \in Positions(M, i) : At(M.cols, p) >= col}
           place == Place(M, i, col)
<1>1. /\ RowStart(M, i) \in Nat /\ RowEnd(M, i) \in Nat
      /\ RowStart(M, i) <= RowEnd(M, i)
      /\ \A p \in Positions(M, i) : p \in Nat /\ At(M.cols, p) \in Int
  <2>1. /\ RowStart(M, i) \in Nat /\ RowEnd(M, i) \in Nat
        /\ RowStart(M, i) <= RowEnd(M, i) /\ RowEnd(M, i) <= Stores(M)
        /\ Stores(M) \in Nat /\ M.base \in Int /\ M.n \in Int
        /\ \A p \in 0 .. Stores(M) - 1 : At(M.cols, p) \in Cols(M)
    BY CrsFacts
  <2>2. \A p \in Positions(M, i) : p \in Nat /\ p \in 0 .. Stores(M) - 1
    BY <2>1 DEF Positions
  <2> QED
    BY <2>1, <2>2 DEF Cols
<1>2. CASE there = {}
  <2>1. place = RowEnd(M, i)
    BY <1>2 DEF Place
  <2>2. \A q \in Positions(M, i) : q < place /\ At(M.cols, q) < col
    BY <1>1, <1>2, <2>1 DEF Positions
  <2> QED
    BY <1>1, <2>1, <2>2
<1>3. CASE there # {}
  <2>1. place = Min(there)
    BY <1>3, Zenon DEF Place
  <2>2. there \in SUBSET Nat
    BY <1>1
  <2> HIDE DEF place
  <2>3. place \in there /\ \A j \in there : place <= j
    <3> HIDE DEF there
    <3> QED
      BY <1>3, <2>1, <2>2, Least
  <2>4. place \in RowStart(M, i) .. RowEnd(M, i) /\ place \in Positions(M, i)
    BY <1>1, <2>3 DEF Positions
  <2>5. \A p, q \in Positions(M, i) : p < q => At(M.cols, p) < At(M.cols, q)
    BY DEF Crs
  <2>6. ASSUME NEW q \in Positions(M, i)
        PROVE  IF q < place THEN At(M.cols, q) < col ELSE At(M.cols, q) >= col
    <3>1. CASE q < place
      <4>1. q \notin there
        BY <1>1, <2>3, <3>1
      <4> QED
        BY <1>1, <3>1, <4>1
    <3>2. CASE ~(q < place)
      <4>1. place <= q /\ At(M.cols, place) >= col /\ place \in Nat /\ q \in Nat
        BY <1>1, <2>3, <3>2
      <4>2. CASE place = q
        BY <3>2, <4>1, <4>2
      <4>3. CASE place < q
        <5>1. At(M.cols, place) < At(M.cols, q)
          BY <2>4, <2>5, <4>3
        <5> QED
          BY <1>1, <2>4, <3>2, <4>1, <5>1
      <4> QED
        BY <4>1, <4>2, <4>3
    <3> QED
      BY <3>1, <3>2
  <2> QED
    BY <2>4, <2>6 DEF place
<1> QED
  BY <1>2, <1>3

(* What is stored at a place; nothing, if it is zero.                       *)
Has(M, i, j, val) ==
  \E p \in Positions(M, i) : At(M.cols, p) = j /\ At(M.vals, p) = val

LEMMA Lookup ==
  ASSUME NEW M, Crs(M), NEW i \in Rows(M), NEW j \in Cols(M)
  PROVE  /\ Get(M, i, j) \in T
         /\ \A val \in 1 .. Modulus - 1 : Get(M, i, j) = val <=> Has(M, i, j, val)
<1> DEFINE p == Place(M, i, j)
<1>1. j \in Int
  BY CrsFacts DEF Cols
<1>2. /\ p \in RowStart(M, i) .. RowEnd(M, i)
      /\ \A q \in Positions(M, i) :
           IF q < p THEN At(M.cols, q) < j ELSE At(M.cols, q) >= j
  BY <1>1, PlaceIs
<1>3. /\ \A q \in Positions(M, i) : q \in Nat /\ At(M.cols, q) \in Int
                                    /\ At(M.vals, q) \in 1 .. Modulus - 1
      /\ \A q, r \in Positions(M, i) : q < r => At(M.cols, q) < At(M.cols, r)
  <2>1. /\ RowStart(M, i) \in Nat /\ RowEnd(M, i) \in Nat
        /\ RowEnd(M, i) <= Stores(M) /\ Stores(M) \in Nat
        /\ M.base \in Int /\ M.n \in Int
        /\ \A q \in 0 .. Stores(M) - 1 :
             At(M.cols, q) \in Cols(M) /\ At(M.vals, q) \in 1 .. Modulus - 1
    BY CrsFacts
  <2>2. \A q \in Positions(M, i) : q \in Nat /\ q \in 0 .. Stores(M) - 1
    BY <2>1 DEF Positions
  <2> QED
    BY <2>1, <2>2 DEF Cols, Crs
<1>4. Get(M, i, j) = IF p \in Positions(M, i) /\ At(M.cols, p) = j
                     THEN At(M.vals, p) ELSE 0
  BY Zenon DEF Get
<1>5. p \in Int
  BY <1>2
<1> HIDE DEF p
<1>6. CASE p \in Positions(M, i) /\ At(M.cols, p) = j
  <2>1. Get(M, i, j) = At(M.vals, p) /\ At(M.vals, p) \in 1 .. Modulus - 1
    BY <1>3, <1>4, <1>6
  <2>2. \A q \in Positions(M, i) : At(M.cols, q) = j => q = p
    BY <1>3, <1>6
  <2>3. \A val : Has(M, i, j, val) <=> val = At(M.vals, p)
    BY <1>6, <2>2, Zenon DEF Has
  <2> QED
    BY <2>1, <2>3, SizeFacts DEF T
<1>7. CASE ~(p \in Positions(M, i) /\ At(M.cols, p) = j)
  <2>1. Get(M, i, j) = 0
    BY <1>4, <1>7
  <2>2. ASSUME NEW q \in Positions(M, i), At(M.cols, q) = j PROVE FALSE
    <3>1. q \in Nat /\ ~(q < p)
      BY <1>1, <1>2, <1>3, <2>2
    <3>2. p \in Positions(M, i)
      <4>1. RowStart(M, i) \in Nat /\ RowEnd(M, i) \in Nat
        BY CrsFacts
      <4>2. RowStart(M, i) <= p /\ p <= q /\ q <= RowEnd(M, i) - 1
        BY <1>2, <1>5, <3>1, <4>1 DEF Positions
      <4> QED
        BY <1>5, <3>1, <4>1, <4>2 DEF Positions
    <3>3. p < q
      BY <1>5, <1>7, <2>2, <3>1, <3>2
    <3>4. At(M.cols, p) < j /\ At(M.cols, p) >= j /\ At(M.cols, p) \in Int
      <4>1. At(M.cols, p) < j /\ At(M.cols, p) \in Int
        BY <1>3, <2>2, <3>2, <3>3
      <4>2. ~(p < p)
        BY <1>5
      <4> QED
        BY <1>2, <3>2, <4>1, <4>2, Zenon
    <3> QED
      BY <1>1, <3>4
  <2>3. \A val : ~Has(M, i, j, val)
    BY <2>2, Zenon DEF Has
  <2> QED
    BY <2>1, <2>3, SizeFacts DEF T
<1> QED
  BY <1>6, <1>7

(* M with d more positions in row i.                                        *)
Resized(M, N, i, d) ==
  /\ N.base = M.base /\ N.m = M.m /\ N.n = M.n
  /\ N.rows = Shifted(M, i, d)

(* d more positions in row i move the bounds of the rows behind it.         *)
LEMMA ResizedRows ==
  ASSUME NEW M, Crs(M), NEW i \in Rows(M), NEW N, NEW d \in Int, Resized(M, N, i, d)
  PROVE  /\ Rows(N) = Rows(M) /\ Cols(N) = Cols(M)
         /\ \A r \in Rows(M) :
              /\ RowStart(N, r) = IF r > i THEN RowStart(M, r) + d ELSE RowStart(M, r)
              /\ RowEnd(N, r) = IF r >= i THEN RowEnd(M, r) + d ELSE RowEnd(M, r)
         /\ N.rows \in [1 .. N.m + 1 -> Int]
         /\ N.rows[1] = N.base /\ N.rows[N.m + 1] = N.base + Stores(M) + d
<1>1. /\ M.base \in Int /\ M.m \in Nat /\ M.m > 0 /\ Stores(M) \in Nat
      /\ i \in Int /\ i - M.base \in 0 .. M.m - 1
      /\ N.base = M.base /\ N.m = M.m /\ N.n = M.n
  BY CrsFacts DEF Resized
<1>2. /\ N.rows \in [1 .. M.m + 1 -> Int]
      /\ \A k \in 1 .. M.m + 1 :
           /\ N.rows[k] = IF k - 1 > i - M.base THEN M.rows[k] + d ELSE M.rows[k]
           /\ M.rows[k] \in Int
  <2>1. M.rows \in [1 .. M.m + 1 -> Int]
    BY DEF Crs
  <2>2. N.rows = [k \in 1 .. M.m + 1 |->
                    IF k - 1 > i - M.base THEN M.rows[k] + d ELSE M.rows[k]]
    BY <2>1 DEF Resized, Shifted
  <2>3. \A k \in 1 .. M.m + 1 : M.rows[k] \in Int /\ M.rows[k] + d \in Int
    BY <1>1, <2>1
  <2> QED
    BY <2>2, <2>3
<1>3. Rows(N) = Rows(M) /\ Cols(N) = Cols(M)
  BY <1>1 DEF Rows, Cols
<1>4. ASSUME NEW r \in Rows(M)
      PROVE  /\ RowStart(N, r) = IF r > i THEN RowStart(M, r) + d ELSE RowStart(M, r)
             /\ RowEnd(N, r) = IF r >= i THEN RowEnd(M, r) + d ELSE RowEnd(M, r)
  <2>1. r \in Int /\ r - M.base \in 0 .. M.m - 1
    BY CrsFacts
  <2> DEFINE k == r - M.base + 1
             l == r - M.base + 1 + 1
  <2>2. /\ k \in 1 .. M.m + 1 /\ l \in 1 .. M.m + 1
        /\ k - 1 > i - M.base <=> r > i
        /\ l - 1 > i - M.base <=> r >= i
    BY <1>1, <2>1
  <2>3. /\ RowStart(N, r) = N.rows[k] - M.base /\ RowEnd(N, r) = N.rows[l] - M.base
        /\ RowStart(M, r) = M.rows[k] - M.base /\ RowEnd(M, r) = M.rows[l] - M.base
    BY <1>1 DEF RowStart, RowEnd, At
  <2> HIDE DEF k, l
  <2>4. /\ N.rows[k] = IF r > i THEN M.rows[k] + d ELSE M.rows[k]
        /\ N.rows[l] = IF r >= i THEN M.rows[l] + d ELSE M.rows[l]
        /\ M.rows[k] \in Int /\ M.rows[l] \in Int
    BY <1>2, <2>2
  <2> QED
    BY <1>1, <2>3, <2>4
<1>5. N.rows[1] = N.base /\ N.rows[N.m + 1] = N.base + Stores(M) + d
  <2>1. /\ 1 \in 1 .. M.m + 1 /\ M.m + 1 \in 1 .. M.m + 1
        /\ ~(1 - 1 > i - M.base) /\ M.m + 1 - 1 > i - M.base
    BY <1>1
  <2>2. M.rows[1] = M.base /\ M.rows[M.m + 1] = M.base + Stores(M)
    BY DEF Crs
  <2> DEFINE e == M.m + 1
  <2>3. e \in 1 .. M.m + 1 /\ e - 1 > i - M.base
    BY <1>1, <2>1
  <2>4. N.rows[e] = M.rows[e] + d /\ N.rows[1] = M.rows[1]
    <3> HIDE DEF e
    <3> QED
      BY <1>2, <2>1, <2>3
  <2> QED
    BY <1>1, <2>2, <2>4
<1> QED
  BY <1>1, <1>2, <1>3, <1>4, <1>5

LEMMA ResizedAscends ==
  ASSUME NEW M, Crs(M), NEW i \in Rows(M), NEW N, NEW d \in Int, Resized(M, N, i, d),
         RowStart(M, i) <= RowEnd(M, i) + d
  PROVE  \A k, l \in 1 .. N.m + 1 : k <= l => N.rows[k] <= N.rows[l]
<1>1. /\ M.base \in Int /\ M.m \in Nat /\ i \in Int /\ i - M.base \in 0 .. M.m - 1
      /\ N.m = M.m
  BY CrsFacts DEF Resized
<1>2. /\ \A k \in 1 .. M.m + 1 :
           /\ N.rows[k] = IF k - 1 > i - M.base THEN M.rows[k] + d ELSE M.rows[k]
           /\ M.rows[k] \in Int
      /\ \A k, l \in 1 .. M.m + 1 : k <= l => M.rows[k] <= M.rows[l]
  <2>1. M.rows \in [1 .. M.m + 1 -> Int] /\ DOMAIN M.rows = 1 .. M.m + 1
    BY DEF Crs
  <2> QED
    BY <2>1 DEF Resized, Shifted, Crs
<1> DEFINE b == i - M.base + 1
<1>3. b \in 1 .. M.m + 1 /\ b + 1 \in 1 .. M.m + 1 /\ M.rows[b] <= M.rows[b + 1] + d
  <2>1. b \in 1 .. M.m + 1 /\ b + 1 \in 1 .. M.m + 1
    BY <1>1
  <2>2. RowStart(M, i) = M.rows[b] - M.base /\ RowEnd(M, i) = M.rows[b + 1] - M.base
    BY DEF RowStart, RowEnd, At
  <2> HIDE DEF b
  <2> QED
    BY <1>1, <1>2, <2>1, <2>2
<1>4. \A k \in Int : k - 1 > i - M.base <=> k > b
  BY <1>1
<1> SUFFICES ASSUME NEW k \in 1 .. M.m + 1, NEW l \in 1 .. M.m + 1, k <= l
             PROVE  N.rows[k] <= N.rows[l]
  BY <1>1
<1> HIDE DEF b
<1>5. /\ M.rows[k] <= M.rows[l] /\ M.rows[k] \in Int /\ M.rows[l] \in Int
      /\ N.rows[k] = IF k > b THEN M.rows[k] + d ELSE M.rows[k]
      /\ N.rows[l] = IF l > b THEN M.rows[l] + d ELSE M.rows[l]
  BY <1>2, <1>4
<1>6. CASE k <= b /\ l > b
  <2>1. M.rows[k] <= M.rows[b] /\ M.rows[b + 1] <= M.rows[l]
    BY <1>2, <1>3, <1>6
  <2> QED
    BY <1>2, <1>3, <1>5, <1>6, <2>1
<1> QED
  BY <1>3, <1>5, <1>6

(* An element put in at position p of row i.                                *)
Grows(M, N, i, p, col, val) ==
  /\ Resized(M, N, i, 1)
  /\ Stores(N) = Stores(M) + 1
  /\ \A q \in 0 .. Stores(M) :
       /\ At(N.cols, q) = IF q < p THEN At(M.cols, q)
                          ELSE IF q = p THEN col ELSE At(M.cols, q - 1)
       /\ At(N.vals, q) = IF q < p THEN At(M.vals, q)
                          ELSE IF q = p THEN val ELSE At(M.vals, q - 1)

LEMMA GrownRow ==
  ASSUME NEW M, Crs(M), NEW i \in Rows(M), NEW N, NEW p \in Nat, NEW col, NEW val,
         Grows(M, N, i, p, col, val), RowStart(M, i) <= p, p <= RowEnd(M, i)
  PROVE  /\ p \in Positions(N, i)
         /\ At(N.cols, p) = col /\ At(N.vals, p) = val
         /\ \A r \in Rows(M) : \A q \in Positions(M, r) :
              IF q < p
              THEN /\ q \in Positions(N, r)
                   /\ At(N.cols, q) = At(M.cols, q) /\ At(N.vals, q) = At(M.vals, q)
              ELSE /\ q + 1 \in Positions(N, r)
                   /\ At(N.cols, q + 1) = At(M.cols, q)
                   /\ At(N.vals, q + 1) = At(M.vals, q)
         /\ \A r \in Rows(M) : \A q \in Positions(N, r) :
              \/ q < p /\ q \in Positions(M, r)
              \/ q = p /\ r = i
              \/ q > p /\ q - 1 \in Positions(M, r)
<1>1. /\ Stores(M) \in Nat
      /\ \A r \in Rows(M) :
           /\ r \in Int
           /\ RowStart(M, r) \in Nat /\ RowEnd(M, r) \in Nat
           /\ RowStart(M, r) <= RowEnd(M, r) /\ RowEnd(M, r) <= Stores(M)
      /\ \A r, s \in Rows(M) : r < s => RowEnd(M, r) <= RowStart(M, s)
  BY CrsFacts
<1>2. \A r \in Rows(M) :
        /\ RowStart(N, r) = IF r > i THEN RowStart(M, r) + 1 ELSE RowStart(M, r)
        /\ RowEnd(N, r) = IF r >= i THEN RowEnd(M, r) + 1 ELSE RowEnd(M, r)
  BY ResizedRows DEF Grows
<1>3. p \in Positions(N, i) /\ p \in 0 .. Stores(M)
  BY <1>1, <1>2 DEF Positions
<1>4. At(N.cols, p) = col /\ At(N.vals, p) = val
  <2>1. ~(p < p)
    OBVIOUS
  <2> QED
    BY <1>3, <2>1 DEF Grows
<1>5. ASSUME NEW r \in Rows(M), NEW q \in Positions(M, r)
      PROVE  IF q < p
             THEN /\ q \in Positions(N, r)
                  /\ At(N.cols, q) = At(M.cols, q) /\ At(N.vals, q) = At(M.vals, q)
             ELSE /\ q + 1 \in Positions(N, r)
                  /\ At(N.cols, q + 1) = At(M.cols, q)
                  /\ At(N.vals, q + 1) = At(M.vals, q)
  <2>1. /\ r \in Int /\ i \in Int /\ q \in Nat
        /\ RowStart(M, r) <= q /\ q < RowEnd(M, r) /\ RowEnd(M, r) <= Stores(M)
        /\ RowStart(M, r) \in Nat /\ RowEnd(M, r) \in Nat
        /\ RowStart(M, i) \in Nat /\ RowEnd(M, i) \in Nat
        /\ r < i => RowEnd(M, r) <= RowStart(M, i)
        /\ i < r => RowEnd(M, i) <= RowStart(M, r)
    BY <1>1 DEF Positions
  <2>2. CASE q < p
    <3>1. ~(i < r)
      BY <2>1, <2>2
    <3>2. q \in Positions(N, r) /\ q \in 0 .. Stores(M)
      BY <1>1, <1>2, <2>1, <2>2, <3>1 DEF Positions
    <3> QED
      BY <2>2, <3>2 DEF Grows
  <2>3. CASE ~(q < p)
    <3>1. ~(r < i)
      BY <2>1, <2>3
    <3>2. /\ q + 1 \in Positions(N, r) /\ q + 1 \in 0 .. Stores(M)
          /\ ~(q + 1 < p) /\ q + 1 # p /\ q + 1 - 1 = q
      BY <1>1, <1>2, <2>1, <2>3, <3>1 DEF Positions
    <3>3. At(N.cols, q + 1) = At(M.cols, q) /\ At(N.vals, q + 1) = At(M.vals, q)
      <4>1. PICK s \in 0 .. Stores(M) : s = q + 1
        BY <3>2
      <4>2. ~(s < p) /\ s # p /\ s - 1 = q
        BY <2>1, <3>2, <4>1
      <4>3. At(N.cols, s) = At(M.cols, s - 1) /\ At(N.vals, s) = At(M.vals, s - 1)
        BY <4>2, Zenon DEF Grows
      <4> QED
        BY <4>1, <4>2, <4>3, Zenon
    <3> QED
      BY <2>3, <3>2, <3>3
  <2> QED
    BY <2>2, <2>3
<1>6. ASSUME NEW r \in Rows(M), NEW q \in Positions(N, r)
      PROVE  \/ q < p /\ q \in Positions(M, r)
             \/ q = p /\ r = i
             \/ q > p /\ q - 1 \in Positions(M, r)
  <2>1. /\ r \in Int /\ i \in Int
        /\ RowStart(M, r) \in Nat /\ RowEnd(M, r) \in Nat
        /\ RowStart(M, i) \in Nat /\ RowEnd(M, i) \in Nat
        /\ RowStart(M, r) <= RowEnd(M, r)
        /\ r < i => RowEnd(M, r) <= RowStart(M, i)
        /\ i < r => RowEnd(M, i) <= RowStart(M, r)
        /\ RowStart(N, r) = IF r > i THEN RowStart(M, r) + 1 ELSE RowStart(M, r)
        /\ RowEnd(N, r) = IF r >= i THEN RowEnd(M, r) + 1 ELSE RowEnd(M, r)
    BY <1>1, <1>2
  <2>2. q \in Int /\ RowStart(N, r) <= q /\ q < RowEnd(N, r)
    BY <2>1 DEF Positions
  <2>3. CASE r < i
    BY <2>1, <2>2, <2>3 DEF Positions
  <2>4. CASE r = i
    BY <2>1, <2>2, <2>4 DEF Positions
  <2>5. CASE r > i
    BY <2>1, <2>2, <2>5 DEF Positions
  <2> QED
    BY <2>1, <2>3, <2>4, <2>5
<1> QED
  BY <1>3, <1>4, <1>5, <1>6, Zenon

(* u is s with e put in at position p.                                      *)
PutIn(s, u, S, p, e) ==
  /\ u \in Seq(S) /\ Len(u) = Len(s) + 1
  /\ \A q \in 0 .. Len(s) :
       At(u, q) = IF q < p THEN At(s, q) ELSE IF q = p THEN e ELSE At(s, q - 1)

LEMMA InsertedAt ==
  ASSUME NEW S, NEW s \in Seq(S), NEW p \in 0 .. Len(s), NEW e \in S
  PROVE  PutIn(s, InsertAt(s, p + 1, e), S, p, e)
<1>1. Len(s) \in Nat
  OBVIOUS
<1>2. PICK i \in 1 .. Len(s) + 1 : i = p + 1
  BY <1>1
<1>3. PICK u \in Seq(S) :
        /\ u = InsertAt(s, p + 1, e) /\ Len(u) = Len(s) + 1
        /\ \A j \in 1 .. Len(s) + 1 :
             u[j] = IF j < i THEN s[j] ELSE IF j = i THEN e ELSE s[j - 1]
  <2>1. PICK u : u = InsertAt(s, i, e)
    OBVIOUS
  <2>2. Insertion(s, u, S, i, e)
    BY <2>1, InsertAtIs, Zenon
  <2> QED
    BY <1>2, <2>1, <2>2 DEF Insertion
<1>4. ASSUME NEW q \in 0 .. Len(s)
      PROVE  At(u, q) = IF q < p THEN At(s, q) ELSE IF q = p THEN e ELSE At(s, q - 1)
  <2>1. PICK j \in 1 .. Len(s) + 1 : j = q + 1
    BY <1>1
  <2>2. (j < i <=> q < p) /\ (j = i <=> q = p) /\ j - 1 = q - 1 + 1
    BY <1>1, <1>2, <2>1
  <2>3. u[j] = IF q < p THEN s[j] ELSE IF q = p THEN e ELSE s[j - 1]
    BY <1>3, <2>2, Zenon
  <2> QED
    BY <2>1, <2>2, <2>3, Zenon DEF At
<1>5. PutIn(s, u, S, p, e)
  BY <1>3, <1>4, Zenon DEF PutIn
<1> QED
  BY <1>3, <1>5, Zenon

(* What inserting leaves of the vectors themselves.                         *)
LEMMA InsertedIs ==
  ASSUME NEW M, Crs(M), NEW i \in Rows(M), NEW j \in Cols(M),
         NEW val \in 1 .. Modulus - 1, NEW p \in 0 .. Stores(M)
  PROVE  LET N == Inserted(M, p, i, j, val)
         IN  /\ N = [base |-> M.base, m |-> M.m, n |-> M.n,
                     rows |-> Shifted(M, i, 1), vals |-> N.vals, cols |-> N.cols]
             /\ N.vals \in Seq(1 .. Modulus - 1) /\ N.cols \in Seq(Cols(M))
             /\ Len(N.cols) = Len(N.vals)
             /\ Grows(M, N, i, p, j, val)
<1> DEFINE N == Inserted(M, p, i, j, val)
<1>1. /\ M = [base |-> M.base, m |-> M.m, n |-> M.n,
              rows |-> M.rows, vals |-> M.vals, cols |-> M.cols]
      /\ Stores(M) \in Nat
  BY CrsFacts DEF Crs
<1>2. /\ N.base = M.base /\ N.m = M.m /\ N.n = M.n /\ N.rows = Shifted(M, i, 1)
      /\ N.vals = IF M.vals = Null THEN <<val>> ELSE InsertAt(M.vals, p + 1, val)
      /\ N.cols = IF M.cols = Null THEN <<j>> ELSE InsertAt(M.cols, p + 1, j)
      /\ N = [base |-> N.base, m |-> N.m, n |-> N.n,
              rows |-> N.rows, vals |-> N.vals, cols |-> N.cols]
  <2>1. N = [[[M EXCEPT !.vals = IF @ = Null THEN <<val>> ELSE InsertAt(@, p + 1, val)]
               EXCEPT !.cols = IF @ = Null THEN <<j>> ELSE InsertAt(@, p + 1, j)]
               EXCEPT !.rows = Shifted(M, i, 1)]
    BY DEF Inserted
  <2> QED
    BY <1>1, <2>1
<1> HIDE DEF N
<1>3. Resized(M, N, i, 1)
  BY <1>2 DEF Resized
<1>4. CASE M.vals = Null
  <2>1. M.cols = Null
    <3>1. Null \notin Seq(1 .. Modulus - 1)
      <4>1. \A s : s \in Seq(1 .. Modulus - 1) => s \in Seq(Int)
        BY SizeFacts
      <4> QED
        BY <4>1, SizeFacts, Zenon
    <3> QED
      BY <1>4, <3>1 DEF Crs
  <2>2. N.vals = <<val>> /\ N.cols = <<j>> /\ Stores(M) = 0
    BY <1>2, <1>4, <2>1 DEF Stores
  <2>3. /\ N.vals \in Seq(1 .. Modulus - 1) /\ N.cols \in Seq(Cols(M))
        /\ Len(N.cols) = 1 /\ Len(N.vals) = 1 /\ N.vals[1] = val /\ N.cols[1] = j
    BY <2>2
  <2>4. N.vals # Null
    <3>1. N.vals \in Seq(Int)
      BY <2>2
    <3> QED
      BY <3>1, SizeFacts
  <2>5. Stores(N) = Stores(M) + 1
    BY <2>2, <2>3, <2>4 DEF Stores
  <2>6. p = 0 /\ At(N.cols, 0) = j /\ At(N.vals, 0) = val
    BY <2>2, <2>3 DEF At
  <2>7. Grows(M, N, i, p, j, val)
    BY <1>3, <2>2, <2>5, <2>6 DEF Grows
  <2> QED
    BY <1>2, <2>3, <2>7 DEF N
<1>5. CASE M.vals # Null
  <2>1. /\ M.vals \in Seq(1 .. Modulus - 1) /\ M.cols \in Seq(Cols(M))
        /\ Len(M.cols) = Len(M.vals) /\ Stores(M) = Len(M.vals)
    BY <1>5 DEF Crs, Stores
  <2>2. M.cols # Null
    <3>1. \A s : s \in Seq(Cols(M)) => s \in Seq(Int)
      <4>1. M.base \in Int /\ M.n \in Int
        BY CrsFacts
      <4> QED
        BY <4>1 DEF Cols
    <3> QED
      BY <2>1, <3>1, SizeFacts
  <2>3. N.vals = InsertAt(M.vals, p + 1, val) /\ N.cols = InsertAt(M.cols, p + 1, j)
    BY <1>2, <1>5, <2>2
  <2>5. PutIn(M.vals, N.vals, 1 .. Modulus - 1, p, val)
    <3> DEFINE F == 1 .. Modulus - 1
    <3>1. M.vals \in Seq(F) /\ p \in 0 .. Len(M.vals) /\ val \in F
      BY <2>1
    <3> HIDE DEF F
    <3>2. PutIn(M.vals, InsertAt(M.vals, p + 1, val), F, p, val)
      BY <3>1, InsertedAt
    <3> QED
      BY <2>3, <3>2, Zenon DEF F
  <2>6. PutIn(M.cols, N.cols, Cols(M), p, j)
    <3>1. M.cols \in Seq(Cols(M)) /\ p \in 0 .. Len(M.cols) /\ j \in Cols(M)
      BY <2>1
    <3>2. PutIn(M.cols, InsertAt(M.cols, p + 1, j), Cols(M), p, j)
      BY <3>1, InsertedAt
    <3> QED
      BY <2>3, <3>2, Zenon
  <2>7. N.vals # Null
    <3>1. \A s : s \in Seq(1 .. Modulus - 1) => s \in Seq(Int)
      BY SizeFacts
    <3> QED
      BY <2>5, <3>1, SizeFacts DEF PutIn
  <2>8. /\ Stores(N) = Stores(M) + 1 /\ Len(N.cols) = Len(N.vals)
        /\ N.vals \in Seq(1 .. Modulus - 1) /\ N.cols \in Seq(Cols(M))
    BY <2>1, <2>5, <2>6, <2>7 DEF Stores, PutIn
  <2>9. \A q \in 0 .. Stores(M) :
          /\ At(N.cols, q) = IF q < p THEN At(M.cols, q)
                             ELSE IF q = p THEN j ELSE At(M.cols, q - 1)
          /\ At(N.vals, q) = IF q < p THEN At(M.vals, q)
                             ELSE IF q = p THEN val ELSE At(M.vals, q - 1)
    BY <2>1, <2>5, <2>6 DEF PutIn
  <2>10. Grows(M, N, i, p, j, val)
    BY <1>3, <2>8, <2>9 DEF Grows
  <2> QED
    BY <1>2, <2>8, <2>10 DEF N
<1> QED
  BY <1>4, <1>5

(* The set of what is stored grows by the element inserted.                 *)
LEMMA Inserting ==
  ASSUME NEW M, Crs(M), NEW i \in Rows(M), NEW j \in Cols(M),
         NEW val \in 1 .. Modulus - 1, NEW p \in 0 .. Stores(M), p = Place(M, i, j),
         p \in Positions(M, i) => At(M.cols, p) # j
  PROVE  LET N == Inserted(M, p, i, j, val)
         IN  /\ Crs(N) /\ N.base = M.base /\ N.m = M.m /\ N.n = M.n
             /\ \A r \in Rows(M), c \in Cols(M) : \A w :
                  Has(N, r, c, w) <=> IF r = i /\ c = j THEN w = val ELSE Has(M, r, c, w)
<1> DEFINE N == Inserted(M, p, i, j, val)
<1>1. /\ N = [base |-> M.base, m |-> M.m, n |-> M.n,
              rows |-> Shifted(M, i, 1), vals |-> N.vals, cols |-> N.cols]
      /\ N.vals \in Seq(1 .. Modulus - 1) /\ N.cols \in Seq(Cols(M))
      /\ Len(N.cols) = Len(N.vals)
      /\ Grows(M, N, i, p, j, val)
  BY InsertedIs
<1> HIDE DEF N
<1>2. /\ N.base = M.base /\ N.m = M.m /\ N.n = M.n /\ Stores(N) = Stores(M) + 1
      /\ Resized(M, N, i, 1)
      /\ N = [base |-> N.base, m |-> N.m, n |-> N.n,
              rows |-> N.rows, vals |-> N.vals, cols |-> N.cols]
  BY <1>1 DEF Grows, Resized
<1>3. /\ p \in RowStart(M, i) .. RowEnd(M, i)
      /\ \A q \in Positions(M, i) :
           IF q < p THEN At(M.cols, q) < j ELSE At(M.cols, q) >= j
      /\ j \in Int
  <2>1. j \in Int
    BY CrsFacts DEF Cols
  <2> QED
    BY <2>1, PlaceIs
<1>4. /\ Stores(M) \in Nat /\ M.m \in Nat
      /\ RowStart(M, i) \in Nat /\ RowEnd(M, i) \in Nat
      /\ RowStart(M, i) <= RowEnd(M, i)
      /\ \A r \in Rows(M) : \A q \in Positions(M, r) : q \in Nat /\ At(M.cols, q) \in Int
  <2>1. /\ Stores(M) \in Nat /\ M.m \in Nat /\ M.base \in Int /\ M.n \in Int
        /\ \A r \in Rows(M) :
             /\ RowStart(M, r) \in Nat /\ RowEnd(M, r) \in Nat
             /\ RowStart(M, r) <= RowEnd(M, r) /\ RowEnd(M, r) <= Stores(M)
        /\ \A q \in 0 .. Stores(M) - 1 : At(M.cols, q) \in Cols(M)
    BY CrsFacts
  <2>2. ASSUME NEW r \in Rows(M), NEW q \in Positions(M, r)
        PROVE  q \in Nat /\ q \in 0 .. Stores(M) - 1
    BY <2>1 DEF Positions
  <2>3. \A c \in Cols(M) : c \in Int
    BY <2>1 DEF Cols
  <2> QED
    BY <2>1, <2>2, <2>3
<1>5. p \in Nat /\ RowStart(M, i) <= p /\ p <= RowEnd(M, i)
  BY <1>3, <1>4
<1>6. /\ p \in Positions(N, i)
      /\ At(N.cols, p) = j /\ At(N.vals, p) = val
      /\ \A r \in Rows(M) : \A q \in Positions(M, r) :
           IF q < p
           THEN /\ q \in Positions(N, r)
                /\ At(N.cols, q) = At(M.cols, q) /\ At(N.vals, q) = At(M.vals, q)
           ELSE /\ q + 1 \in Positions(N, r)
                /\ At(N.cols, q + 1) = At(M.cols, q)
                /\ At(N.vals, q + 1) = At(M.vals, q)
      /\ \A r \in Rows(M) : \A q \in Positions(N, r) :
           \/ q < p /\ q \in Positions(M, r)
           \/ q = p /\ r = i
           \/ q > p /\ q - 1 \in Positions(M, r)
  BY <1>1, <1>5, GrownRow
<1>7. Rows(N) = Rows(M) /\ Cols(N) = Cols(M)
      /\ N.rows \in [1 .. N.m + 1 -> Int]
      /\ N.rows[1] = N.base /\ N.rows[N.m + 1] = N.base + Stores(M) + 1
  BY <1>2, ResizedRows
<1>8. \A k, l \in 1 .. N.m + 1 : k <= l => N.rows[k] <= N.rows[l]
  <2>1. RowStart(M, i) <= RowEnd(M, i) + 1
    BY <1>4
  <2> QED
    BY <1>2, <2>1, ResizedAscends
<1>9. \A q \in Positions(M, i) :
        IF q < p THEN At(M.cols, q) < j ELSE At(M.cols, q) > j
  <2> SUFFICES ASSUME NEW q \in Positions(M, i), ~(q < p) PROVE At(M.cols, q) > j
    BY <1>3
  <2>1. q \in Nat /\ At(M.cols, q) \in Int /\ At(M.cols, q) >= j /\ p \in Nat
    BY <1>3, <1>4, <1>5
  <2>2. CASE q = p
    BY <1>3, <2>1, <2>2
  <2>3. CASE p < q
    <3>1. p \in Positions(M, i)
      BY <1>4, <1>5, <2>1, <2>3 DEF Positions
    <3>2. At(M.cols, p) < At(M.cols, q)
      BY <2>3, <3>1 DEF Crs
    <3>3. At(M.cols, p) \in Int /\ At(M.cols, p) >= j
      <4>1. ~(p < p)
        BY <1>5
      <4> QED
        BY <1>3, <1>4, <3>1, <4>1
    <3> QED
      BY <1>3, <2>1, <3>2, <3>3
  <2> QED
    BY <2>1, <2>2, <2>3
<1>10. ASSUME NEW r \in Rows(M), NEW q \in Positions(N, r)
       PROVE  \/ /\ q < p /\ q \in Positions(M, r)
                 /\ At(N.cols, q) = At(M.cols, q) /\ At(N.vals, q) = At(M.vals, q)
              \/ q = p /\ r = i
              \/ /\ q > p /\ q - 1 \in Positions(M, r)
                 /\ At(N.cols, q) = At(M.cols, q - 1) /\ At(N.vals, q) = At(M.vals, q - 1)
  <2>1. CASE q < p /\ q \in Positions(M, r)
    BY <1>6, <2>1, Zenon
  <2>2. CASE q > p /\ q - 1 \in Positions(M, r)
    <3>1. PICK s \in Positions(M, r) : s = q - 1
      BY <2>2
    <3>2. s \in Nat /\ ~(s < p) /\ s + 1 = q
      <4>1. s \in Nat
        BY <1>4
      <4>2. q \in Int
        BY DEF Positions
      <4> QED
        BY <1>5, <2>2, <3>1, <4>1, <4>2
    <3>3. At(N.cols, s + 1) = At(M.cols, s) /\ At(N.vals, s + 1) = At(M.vals, s)
      BY <1>6, <3>2, Zenon
    <3> QED
      BY <2>2, <3>1, <3>2, <3>3
  <2> QED
    BY <1>6, <2>1, <2>2, Zenon
<1>11. ASSUME NEW r \in Rows(M), NEW q \in Positions(N, r), NEW s \in Positions(N, r), q < s
       PROVE  At(N.cols, q) < At(N.cols, s)
  <2>1. q \in Int /\ s \in Int
    BY DEF Positions
  <2>2. \A g, h \in Positions(M, r) : g < h => At(M.cols, g) < At(M.cols, h)
    BY DEF Crs
  <2>3. CASE q < p /\ s < p
    BY <1>5, <1>10, <1>11, <2>1, <2>2, <2>3
  <2>4. CASE q > p /\ s > p
    BY <1>5, <1>10, <1>11, <2>1, <2>2, <2>4
  <2>5. CASE q < p /\ s > p
    <3>1. /\ q \in Positions(M, r) /\ At(N.cols, q) = At(M.cols, q)
          /\ s - 1 \in Positions(M, r) /\ At(N.cols, s) = At(M.cols, s - 1)
      BY <1>5, <1>10, <2>1, <2>5
    <3>2. q < s - 1
      BY <1>5, <2>1, <2>5
    <3> QED
      BY <2>2, <3>1, <3>2
  <2>6. CASE q = p
    <3>1. r = i
      BY <1>10, <2>6, <1>5
    <3>2. s - 1 \in Positions(M, i) /\ At(N.cols, s) = At(M.cols, s - 1)
      BY <1>5, <1>10, <1>11, <2>1, <2>6, <3>1
    <3>3. ~(s - 1 < p)
      BY <1>5, <1>11, <2>1, <2>6
    <3> QED
      BY <1>3, <1>4, <1>6, <1>9, <2>6, <3>2, <3>3
  <2>7. CASE s = p
    <3>1. r = i
      BY <1>10, <2>7, <1>5
    <3>2. q \in Positions(M, i) /\ At(N.cols, q) = At(M.cols, q) /\ q < p
      BY <1>5, <1>10, <1>11, <2>1, <2>7, <3>1
    <3> QED
      BY <1>6, <1>9, <2>7, <3>2
  <2> QED
    BY <1>5, <1>11, <2>1, <2>3, <2>4, <2>5, <2>6, <2>7
<1>12. Crs(N)
  <2>1. N.m \in Sizes /\ N.n \in Sizes /\ N.base \in {0, 1} /\ N.base \in Int
    BY <1>2 DEF Crs
  <2>2. N.rows[N.m + 1] = N.base + Stores(N)
    BY <1>2, <1>4, <1>7, <2>1
  <2>3. \A r \in Rows(N) : \A q, s \in Positions(N, r) :
          q < s => At(N.cols, q) < At(N.cols, s)
    BY <1>7, <1>11
  <2>4. N.cols \in Seq(Cols(N))
    BY <1>1, <1>7
  <2> QED
    BY <1>1, <1>2, <1>7, <1>8, <2>1, <2>2, <2>3, <2>4, Zenon DEF Crs
<1>13. ASSUME NEW r \in Rows(M), NEW c \in Cols(M), NEW w
       PROVE  Has(N, r, c, w) <=> IF r = i /\ c = j THEN w = val ELSE Has(M, r, c, w)
  <2>1. ASSUME Has(N, r, c, w)
        PROVE  IF r = i /\ c = j THEN w = val ELSE Has(M, r, c, w)
    <3>1. PICK q \in Positions(N, r) : At(N.cols, q) = c /\ At(N.vals, q) = w
      BY <2>1 DEF Has
    <3>2. CASE q = p /\ r = i
      BY <1>6, <3>1, <3>2
    <3>3. CASE q < p /\ q \in Positions(M, r)
               /\ At(N.cols, q) = At(M.cols, q) /\ At(N.vals, q) = At(M.vals, q)
      <4>1. Has(M, r, c, w)
        BY <3>1, <3>3 DEF Has
      <4>2. r = i => c # j
        BY <1>3, <1>4, <1>9, <3>1, <3>3
      <4> QED
        BY <4>1, <4>2
    <3>4. CASE q > p /\ q - 1 \in Positions(M, r)
               /\ At(N.cols, q) = At(M.cols, q - 1) /\ At(N.vals, q) = At(M.vals, q - 1)
      <4>1. Has(M, r, c, w)
        BY <3>1, <3>4 DEF Has
      <4>2. r = i => c # j
        BY <1>3, <1>4, <1>9, <3>1, <3>4
      <4> QED
        BY <4>1, <4>2
    <3> QED
      BY <1>10, <3>2, <3>3, <3>4
  <2>2. CASE r = i /\ c = j
    <3>1. Has(N, i, j, val)
      BY <1>6 DEF Has
    <3> QED
      BY <2>1, <2>2, <3>1
  <2>3. ASSUME ~(r = i /\ c = j), Has(M, r, c, w) PROVE Has(N, r, c, w)
    <3>1. PICK q \in Positions(M, r) : At(M.cols, q) = c /\ At(M.vals, q) = w
      BY <2>3 DEF Has
    <3>2. CASE q < p
      BY <1>6, <3>1, <3>2 DEF Has
    <3>3. CASE ~(q < p)
      BY <1>6, <3>1, <3>3 DEF Has
    <3> QED
      BY <3>2, <3>3
  <2> QED
    BY <2>1, <2>2, <2>3
<1> QED
  BY <1>2, <1>12, <1>13 DEF N

(* u is s without the element at position p.                                *)
TakenOut(s, u, S, p) ==
  /\ u \in Seq(S) /\ Len(u) = Len(s) - 1
  /\ \A q \in 0 .. Len(s) - 2 :
       At(u, q) = IF q < p THEN At(s, q) ELSE At(s, q + 1)

LEMMA RemovedAt ==
  ASSUME NEW S, NEW s \in Seq(S), NEW p \in 0 .. Len(s) - 1
  PROVE  TakenOut(s, RemoveAt(s, p + 1), S, p)
<1>1. Len(s) \in Nat
  OBVIOUS
<1>2. PICK i \in 1 .. Len(s) : i = p + 1
  BY <1>1
<1> DEFINE u == RemoveAt(s, i)
<1>3. /\ u \in Seq(S) /\ Len(u) = Len(s) - 1
      /\ \A j \in 1 .. Len(s) - 1 : u[j] = IF j < i THEN s[j] ELSE s[j + 1]
  BY RemoveAtIs
<1> HIDE DEF u
<1>4. ASSUME NEW q \in 0 .. Len(s) - 2
      PROVE  At(u, q) = IF q < p THEN At(s, q) ELSE At(s, q + 1)
  <2>1. PICK j \in 1 .. Len(s) - 1 : j = q + 1
    BY <1>1
  <2>2. j < i <=> q < p
    BY <1>1, <1>2, <2>1
  <2>3. u[j] = IF q < p THEN s[j] ELSE s[j + 1]
    BY <1>3, <2>2, Zenon
  <2> QED
    BY <2>1, <2>3, Zenon DEF At
<1>5. TakenOut(s, u, S, p)
  BY <1>3, <1>4, Zenon DEF TakenOut
<1> QED
  BY <1>2, <1>5, Zenon DEF u

(* The element at position p of row i taken out.                            *)
Shrinks(M, N, i, p) ==
  /\ Resized(M, N, i, -1)
  /\ Stores(N) = Stores(M) - 1
  /\ \A q \in 0 .. Stores(M) - 2 :
       /\ At(N.cols, q) = IF q < p THEN At(M.cols, q) ELSE At(M.cols, q + 1)
       /\ At(N.vals, q) = IF q < p THEN At(M.vals, q) ELSE At(M.vals, q + 1)

LEMMA ShrunkRow ==
  ASSUME NEW M, Crs(M), NEW i \in Rows(M), NEW N, NEW p \in Positions(M, i),
         Shrinks(M, N, i, p)
  PROVE  /\ \A r \in Rows(M) : \A q \in Positions(N, r) :
              IF q < p
              THEN /\ q \in Positions(M, r)
                   /\ At(N.cols, q) = At(M.cols, q) /\ At(N.vals, q) = At(M.vals, q)
              ELSE /\ q + 1 \in Positions(M, r)
                   /\ At(N.cols, q) = At(M.cols, q + 1)
                   /\ At(N.vals, q) = At(M.vals, q + 1)
         /\ \A r \in Rows(M) : \A q \in Positions(M, r) :
              \/ q < p /\ q \in Positions(N, r)
              \/ q = p /\ r = i
              \/ q > p /\ q - 1 \in Positions(N, r)
<1>1. /\ Stores(M) \in Nat
      /\ \A r \in Rows(M) :
           /\ r \in Int
           /\ RowStart(M, r) \in Nat /\ RowEnd(M, r) \in Nat
           /\ RowStart(M, r) <= RowEnd(M, r) /\ RowEnd(M, r) <= Stores(M)
      /\ \A r, s \in Rows(M) : r < s => RowEnd(M, r) <= RowStart(M, s)
  BY CrsFacts
<1>2. \A r \in Rows(M) :
        /\ RowStart(N, r) = IF r > i THEN RowStart(M, r) + (-1) ELSE RowStart(M, r)
        /\ RowEnd(N, r) = IF r >= i THEN RowEnd(M, r) + (-1) ELSE RowEnd(M, r)
  <2>1. PICK d \in Int : d = -1
    OBVIOUS
  <2>2. Resized(M, N, i, d)
    BY <2>1 DEF Shrinks
  <2>3. \A r \in Rows(M) :
          /\ RowStart(N, r) = IF r > i THEN RowStart(M, r) + d ELSE RowStart(M, r)
          /\ RowEnd(N, r) = IF r >= i THEN RowEnd(M, r) + d ELSE RowEnd(M, r)
    BY <2>2, ResizedRows, Zenon
  <2> QED
    BY <2>1, <2>3, Zenon
<1>3. p \in Nat /\ RowStart(M, i) <= p /\ p < RowEnd(M, i)
  BY <1>1 DEF Positions
<1>4. ASSUME NEW r \in Rows(M), NEW q \in Positions(N, r)
      PROVE  IF q < p
             THEN /\ q \in Positions(M, r)
                  /\ At(N.cols, q) = At(M.cols, q) /\ At(N.vals, q) = At(M.vals, q)
             ELSE /\ q + 1 \in Positions(M, r)
                  /\ At(N.cols, q) = At(M.cols, q + 1)
                  /\ At(N.vals, q) = At(M.vals, q + 1)
  <2>1. /\ r \in Int /\ i \in Int
        /\ RowStart(M, r) \in Nat /\ RowEnd(M, r) \in Nat
        /\ RowStart(M, i) \in Nat /\ RowEnd(M, i) \in Nat
        /\ RowStart(M, r) <= RowEnd(M, r) /\ RowEnd(M, r) <= Stores(M)
        /\ r < i => RowEnd(M, r) <= RowStart(M, i)
        /\ i < r => RowEnd(M, i) <= RowStart(M, r)
        /\ RowStart(N, r) = IF r > i THEN RowStart(M, r) + (-1) ELSE RowStart(M, r)
        /\ RowEnd(N, r) = IF r >= i THEN RowEnd(M, r) + (-1) ELSE RowEnd(M, r)
    BY <1>1, <1>2
  <2>2. q \in Int /\ RowStart(N, r) <= q /\ q < RowEnd(N, r)
    BY <2>1 DEF Positions
  <2>3. CASE q < p
    <3>1. ~(i < r)
      BY <1>3, <2>1, <2>2, <2>3
    <3>2. q \in Positions(M, r)
      BY <1>3, <2>1, <2>2, <2>3, <3>1 DEF Positions
    <3>3. p <= Stores(M) - 1
      BY <1>1, <1>3
    <3>4. q \in 0 .. Stores(M) - 2
      BY <1>1, <1>3, <2>1, <2>2, <2>3, <3>1, <3>3
    <3> QED
      BY <2>3, <3>2, <3>4 DEF Shrinks
  <2>4. CASE ~(q < p)
    <3>1. ~(r < i)
      BY <1>3, <2>1, <2>2, <2>4
    <3>2. q + 1 \in Positions(M, r) /\ q \in 0 .. Stores(M) - 2
      BY <1>1, <1>3, <2>1, <2>2, <2>4, <3>1 DEF Positions
    <3> QED
      BY <2>4, <3>2 DEF Shrinks
  <2> QED
    BY <2>3, <2>4
<1>5. ASSUME NEW r \in Rows(M), NEW q \in Positions(M, r)
      PROVE  \/ q < p /\ q \in Positions(N, r)
             \/ q = p /\ r = i
             \/ q > p /\ q - 1 \in Positions(N, r)
  <2>1. /\ r \in Int /\ i \in Int /\ q \in Int
        /\ RowStart(M, r) <= q /\ q < RowEnd(M, r)
        /\ RowStart(M, r) \in Nat /\ RowEnd(M, r) \in Nat
        /\ RowStart(M, i) \in Nat /\ RowEnd(M, i) \in Nat
        /\ r < i => RowEnd(M, r) <= RowStart(M, i)
        /\ i < r => RowEnd(M, i) <= RowStart(M, r)
        /\ RowStart(N, r) = IF r > i THEN RowStart(M, r) + (-1) ELSE RowStart(M, r)
        /\ RowEnd(N, r) = IF r >= i THEN RowEnd(M, r) + (-1) ELSE RowEnd(M, r)
    BY <1>1, <1>2 DEF Positions
  <2>2. CASE r < i
    BY <1>3, <2>1, <2>2 DEF Positions
  <2>3. CASE r = i
    BY <1>3, <2>1, <2>3 DEF Positions
  <2>4. CASE r > i
    BY <1>3, <2>1, <2>4 DEF Positions
  <2> QED
    BY <2>1, <2>2, <2>3, <2>4
<1> QED
  BY <1>4, <1>5, Zenon

(* What removing leaves of the vectors themselves.                          *)
LEMMA RemovedIs ==
  ASSUME NEW M, Crs(M), NEW i \in Rows(M), NEW p \in 0 .. Stores(M) - 1
  PROVE  LET N == Removed(M, p, i)
         IN  /\ N = [base |-> M.base, m |-> M.m, n |-> M.n,
                     rows |-> Shifted(M, i, -1), vals |-> N.vals, cols |-> N.cols]
             /\ N.vals \in Seq(1 .. Modulus - 1) /\ N.cols \in Seq(Cols(M))
             /\ Len(N.cols) = Len(N.vals)
             /\ Shrinks(M, N, i, p)
<1> DEFINE N == Removed(M, p, i)
<1>1. /\ M = [base |-> M.base, m |-> M.m, n |-> M.n,
              rows |-> M.rows, vals |-> M.vals, cols |-> M.cols]
      /\ Stores(M) \in Nat
  BY CrsFacts DEF Crs
<1>2. /\ N.base = M.base /\ N.m = M.m /\ N.n = M.n /\ N.rows = Shifted(M, i, -1)
      /\ N.vals = RemoveAt(M.vals, p + 1) /\ N.cols = RemoveAt(M.cols, p + 1)
      /\ N = [base |-> N.base, m |-> N.m, n |-> N.n,
              rows |-> N.rows, vals |-> N.vals, cols |-> N.cols]
  <2>1. N = [[[M EXCEPT !.vals = RemoveAt(@, p + 1)] EXCEPT !.cols = RemoveAt(@, p + 1)]
               EXCEPT !.rows = Shifted(M, i, -1)]
    BY DEF Removed
  <2> QED
    BY <1>1, <2>1
<1> HIDE DEF N
<1>3. /\ M.vals \in Seq(1 .. Modulus - 1) /\ M.cols \in Seq(Cols(M))
      /\ Len(M.cols) = Len(M.vals) /\ Stores(M) = Len(M.vals) /\ Len(M.vals) \in Nat
  <2>1. M.vals # Null
    BY <1>1 DEF Stores
  <2> QED
    BY <2>1 DEF Crs, Stores
<1>4. TakenOut(M.vals, N.vals, 1 .. Modulus - 1, p)
  <2> DEFINE F == 1 .. Modulus - 1
  <2>1. M.vals \in Seq(F) /\ p \in 0 .. Len(M.vals) - 1
    BY <1>3
  <2> HIDE DEF F
  <2>2. TakenOut(M.vals, RemoveAt(M.vals, p + 1), F, p)
    BY <2>1, RemovedAt
  <2> QED
    BY <1>2, <2>2, Zenon DEF F
<1>5. TakenOut(M.cols, N.cols, Cols(M), p)
  <2>1. M.cols \in Seq(Cols(M)) /\ p \in 0 .. Len(M.cols) - 1
    BY <1>3
  <2>2. TakenOut(M.cols, RemoveAt(M.cols, p + 1), Cols(M), p)
    BY <2>1, RemovedAt
  <2> QED
    BY <1>2, <2>2, Zenon
<1>6. N.vals # Null
  <2>1. \A s : s \in Seq(1 .. Modulus - 1) => s \in Seq(Int)
    BY SizeFacts
  <2> QED
    BY <1>4, <2>1, SizeFacts DEF TakenOut
<1>7. /\ Stores(N) = Stores(M) - 1 /\ Len(N.cols) = Len(N.vals)
      /\ N.vals \in Seq(1 .. Modulus - 1) /\ N.cols \in Seq(Cols(M))
  BY <1>3, <1>4, <1>5, <1>6 DEF Stores, TakenOut
<1>8. \A q \in 0 .. Stores(M) - 2 :
        /\ At(N.cols, q) = IF q < p THEN At(M.cols, q) ELSE At(M.cols, q + 1)
        /\ At(N.vals, q) = IF q < p THEN At(M.vals, q) ELSE At(M.vals, q + 1)
  BY <1>3, <1>4, <1>5 DEF TakenOut
<1>9. Shrinks(M, N, i, p)
  BY <1>2, <1>7, <1>8 DEF Shrinks, Resized
<1> QED
  BY <1>2, <1>7, <1>9 DEF N

(* What is stored loses what was at position p of row i.                    *)
LEMMA Removing ==
  ASSUME NEW M, Crs(M), NEW i \in Rows(M), NEW j \in Cols(M),
         NEW p \in Positions(M, i), At(M.cols, p) = j
  PROVE  LET N == Removed(M, p, i)
         IN  /\ Crs(N) /\ N.base = M.base /\ N.m = M.m /\ N.n = M.n
             /\ \A r \in Rows(M), c \in Cols(M) : \A w :
                  Has(N, r, c, w) <=> ~(r = i /\ c = j) /\ Has(M, r, c, w)
<1> DEFINE N == Removed(M, p, i)
<1>1. /\ Stores(M) \in Nat /\ M.m \in Nat
      /\ RowStart(M, i) \in Nat /\ RowEnd(M, i) \in Nat /\ RowEnd(M, i) <= Stores(M)
      /\ p \in Nat /\ RowStart(M, i) <= p /\ p < RowEnd(M, i) /\ p \in 0 .. Stores(M) - 1
  <2>1. /\ Stores(M) \in Nat /\ M.m \in Nat
        /\ RowStart(M, i) \in Nat /\ RowEnd(M, i) \in Nat /\ RowEnd(M, i) <= Stores(M)
    BY CrsFacts
  <2> QED
    BY <2>1 DEF Positions
<1>2. /\ N = [base |-> M.base, m |-> M.m, n |-> M.n,
              rows |-> Shifted(M, i, -1), vals |-> N.vals, cols |-> N.cols]
      /\ N.vals \in Seq(1 .. Modulus - 1) /\ N.cols \in Seq(Cols(M))
      /\ Len(N.cols) = Len(N.vals)
      /\ Shrinks(M, N, i, p)
  BY <1>1, RemovedIs
<1> HIDE DEF N
<1>3. /\ N.base = M.base /\ N.m = M.m /\ N.n = M.n /\ Stores(N) = Stores(M) - 1
      /\ Resized(M, N, i, -1)
      /\ N = [base |-> N.base, m |-> N.m, n |-> N.n,
              rows |-> N.rows, vals |-> N.vals, cols |-> N.cols]
  BY <1>2 DEF Shrinks, Resized
<1>4. /\ \A r \in Rows(M) : \A q \in Positions(N, r) :
           IF q < p
           THEN /\ q \in Positions(M, r)
                /\ At(N.cols, q) = At(M.cols, q) /\ At(N.vals, q) = At(M.vals, q)
           ELSE /\ q + 1 \in Positions(M, r)
                /\ At(N.cols, q) = At(M.cols, q + 1)
                /\ At(N.vals, q) = At(M.vals, q + 1)
      /\ \A r \in Rows(M) : \A q \in Positions(M, r) :
           \/ q < p /\ q \in Positions(N, r)
           \/ q = p /\ r = i
           \/ q > p /\ q - 1 \in Positions(N, r)
  BY <1>2, ShrunkRow
<1>5. PICK d \in Int : d = -1
  OBVIOUS
<1>6. /\ Rows(N) = Rows(M) /\ Cols(N) = Cols(M)
      /\ N.rows \in [1 .. N.m + 1 -> Int]
      /\ N.rows[1] = N.base /\ N.rows[N.m + 1] = N.base + Stores(M) + d
      /\ \A k, l \in 1 .. N.m + 1 : k <= l => N.rows[k] <= N.rows[l]
  <2>1. Resized(M, N, i, d) /\ RowStart(M, i) <= RowEnd(M, i) + d
    BY <1>1, <1>3, <1>5
  <2> QED
    BY <2>1, ResizedRows, ResizedAscends
<1>7. \A r \in Rows(M) : \A g, h \in Positions(M, r) : g < h => At(M.cols, g) < At(M.cols, h)
  BY DEF Crs
<1>8. ASSUME NEW r \in Rows(M), NEW q \in Positions(N, r), NEW s \in Positions(N, r), q < s
      PROVE  At(N.cols, q) < At(N.cols, s)
  <2>1. q \in Int /\ s \in Int
    BY DEF Positions
  <2> DEFINE g == IF q < p THEN q ELSE q + 1
             h == IF s < p THEN s ELSE s + 1
  <2>2. /\ g \in Positions(M, r) /\ At(N.cols, q) = At(M.cols, g)
        /\ h \in Positions(M, r) /\ At(N.cols, s) = At(M.cols, h)
    BY <1>4
  <2>3. g < h
    BY <1>1, <1>8, <2>1
  <2> HIDE DEF g, h
  <2> QED
    BY <1>7, <2>2, <2>3
<1>9. Crs(N)
  <2>1. N.m \in Sizes /\ N.n \in Sizes /\ N.base \in {0, 1} /\ N.base \in Int
    BY <1>3 DEF Crs
  <2>2. N.rows[N.m + 1] = N.base + Stores(N)
    BY <1>1, <1>3, <1>5, <1>6, <2>1
  <2>3. \A r \in Rows(N) : \A q, s \in Positions(N, r) :
          q < s => At(N.cols, q) < At(N.cols, s)
    BY <1>6, <1>8
  <2>4. N.cols \in Seq(Cols(N))
    BY <1>2, <1>6
  <2> QED
    BY <1>2, <1>3, <1>6, <2>1, <2>2, <2>3, <2>4, Zenon DEF Crs
<1>10. ASSUME NEW r \in Rows(M), NEW c \in Cols(M), NEW w
       PROVE  Has(N, r, c, w) <=> ~(r = i /\ c = j) /\ Has(M, r, c, w)
  <2>1. \A q \in Positions(M, i) : At(M.cols, q) = j => q = p
    <3> SUFFICES ASSUME NEW q \in Positions(M, i), At(M.cols, q) = j, q # p PROVE FALSE
      OBVIOUS
    <3>1. q \in Int /\ (q < p \/ p < q)
      <4>1. q \in Int
        BY DEF Positions
      <4> QED
        BY <1>1, <4>1
    <3>2. j < j /\ j \in Int
      <4>1. j \in Int
        BY CrsFacts DEF Cols
      <4> QED
        BY <1>7, <3>1, <4>1
    <3> QED
      BY <3>2
  <2>2. ASSUME Has(N, r, c, w)
        PROVE  ~(r = i /\ c = j) /\ Has(M, r, c, w)
    <3>1. PICK q \in Positions(N, r) : At(N.cols, q) = c /\ At(N.vals, q) = w
      BY <2>2 DEF Has
    <3> DEFINE g == IF q < p THEN q ELSE q + 1
    <3>2. /\ g \in Positions(M, r) /\ At(N.cols, q) = At(M.cols, g)
          /\ At(N.vals, q) = At(M.vals, g)
      BY <1>4
    <3>3. g # p
      <4>1. q \in Int
        BY DEF Positions
      <4> QED
        BY <1>1, <4>1
    <3> HIDE DEF g
    <3>4. Has(M, r, c, w)
      BY <3>1, <3>2 DEF Has
    <3> QED
      BY <2>1, <3>1, <3>2, <3>3, <3>4
  <2>3. ASSUME ~(r = i /\ c = j), Has(M, r, c, w) PROVE Has(N, r, c, w)
    <3>1. PICK q \in Positions(M, r) : At(M.cols, q) = c /\ At(M.vals, q) = w
      BY <2>3 DEF Has
    <3>2. CASE q < p /\ q \in Positions(N, r)
      BY <1>4, <3>1, <3>2 DEF Has
    <3>3. CASE q > p /\ q - 1 \in Positions(N, r)
      <4>1. PICK g \in Positions(N, r) : g = q - 1
        BY <3>3
      <4>2. q = g + 1 /\ ~(g < p)
        <5>1. q \in Int
          BY DEF Positions
        <5> QED
          BY <1>1, <3>3, <4>1, <5>1
      <4>3. At(N.cols, g) = At(M.cols, g + 1) /\ At(N.vals, g) = At(M.vals, g + 1)
        BY <1>4, <4>2
      <4> QED
        BY <3>1, <4>2, <4>3 DEF Has
    <3>4. CASE q = p /\ r = i
      BY <2>3, <3>1, <3>4
    <3> QED
      BY <1>4, <3>2, <3>3, <3>4
  <2> QED
    BY <2>2, <2>3
<1> QED
  BY <1>3, <1>9, <1>10 DEF N

(* An element that is there gets another value.                             *)
LEMMA Overwriting ==
  ASSUME NEW M, Crs(M), NEW i \in Rows(M), NEW j \in Cols(M),
         NEW p \in Positions(M, i), At(M.cols, p) = j, NEW val \in 1 .. Modulus - 1
  PROVE  LET N == [M EXCEPT !.vals[p + 1] = val]
         IN  /\ Crs(N) /\ N.base = M.base /\ N.m = M.m /\ N.n = M.n
             /\ \A r \in Rows(M), c \in Cols(M) : \A w :
                  Has(N, r, c, w) <=> IF r = i /\ c = j THEN w = val ELSE Has(M, r, c, w)
<1> DEFINE N == [M EXCEPT !.vals[p + 1] = val]
<1>1. /\ Stores(M) \in Nat
      /\ \A r \in Rows(M) : \A q \in Positions(M, r) : q \in 0 .. Stores(M) - 1
  <2>1. /\ Stores(M) \in Nat
        /\ \A r \in Rows(M) :
             /\ RowStart(M, r) \in Nat /\ RowEnd(M, r) \in Nat /\ RowEnd(M, r) <= Stores(M)
    BY CrsFacts
  <2> QED
    BY <2>1 DEF Positions
<1>2. /\ M.vals \in Seq(1 .. Modulus - 1) /\ Stores(M) = Len(M.vals)
      /\ M.cols \in Seq(Cols(M)) /\ Len(M.cols) = Len(M.vals)
      /\ M = [base |-> M.base, m |-> M.m, n |-> M.n,
              rows |-> M.rows, vals |-> M.vals, cols |-> M.cols]
  <2>1. M.vals # Null
    BY <1>1 DEF Stores
  <2> QED
    BY <2>1 DEF Crs, Stores
<1>3. /\ N.base = M.base /\ N.m = M.m /\ N.n = M.n /\ N.rows = M.rows
      /\ N.cols = M.cols /\ N.vals = [M.vals EXCEPT ![p + 1] = val]
      /\ N = [base |-> N.base, m |-> N.m, n |-> N.n,
              rows |-> N.rows, vals |-> N.vals, cols |-> N.cols]
  <2> DEFINE vals == [M.vals EXCEPT ![p + 1] = val]
  <2>1. N = [M EXCEPT !.vals = vals]
    OBVIOUS
  <2> HIDE DEF N, vals
  <2>2. N.vals = vals
    BY <1>2, <2>1
  <2>3. /\ N.base = M.base /\ N.m = M.m /\ N.n = M.n /\ N.rows = M.rows
        /\ N.cols = M.cols
        /\ N = [base |-> N.base, m |-> N.m, n |-> N.n,
                rows |-> N.rows, vals |-> N.vals, cols |-> N.cols]
    BY <1>2, <2>1
  <2> QED
    BY <2>2, <2>3 DEF vals
<1> HIDE DEF N
<1>4. /\ N.vals \in Seq(1 .. Modulus - 1) /\ Len(N.vals) = Len(M.vals)
      /\ \A q \in 0 .. Stores(M) - 1 :
           At(N.vals, q) = IF q = p THEN val ELSE At(M.vals, q)
  <2>1. p + 1 \in 1 .. Len(M.vals) /\ p \in Int
    BY <1>1, <1>2
  <2>2. N.vals \in Seq(1 .. Modulus - 1) /\ Len(N.vals) = Len(M.vals)
    BY <1>2, <1>3, <2>1, ExceptSeq
  <2>3. \A k \in 1 .. Len(M.vals) :
          N.vals[k] = IF k = p + 1 THEN val ELSE M.vals[k]
    BY <1>2, <1>3, <2>1, ExceptSeq
  <2>4. \A q \in 0 .. Stores(M) - 1 :
          q + 1 \in 1 .. Len(M.vals) /\ (q + 1 = p + 1 <=> q = p)
    BY <1>2, <2>1
  <2> QED
    BY <2>2, <2>3, <2>4, Zenon DEF At
<1>5. N.vals # Null
  <2>1. \A s : s \in Seq(1 .. Modulus - 1) => s \in Seq(Int)
    BY SizeFacts
  <2> QED
    BY <1>4, <2>1, SizeFacts
<1>6. /\ Rows(N) = Rows(M) /\ Cols(N) = Cols(M) /\ Stores(N) = Stores(M)
      /\ \A r : Positions(N, r) = Positions(M, r)
      /\ \A q : At(N.cols, q) = At(M.cols, q)
  BY <1>2, <1>3, <1>4, <1>5 DEF Rows, Cols, Stores, Positions, RowStart, RowEnd, At
<1>7. Crs(N)
  <2>1. /\ N.base \in {0, 1} /\ N.m \in Sizes /\ N.n \in Sizes
        /\ N.rows \in [1 .. N.m + 1 -> Int]
        /\ N.rows[1] = N.base /\ N.rows[N.m + 1] = N.base + Stores(N)
        /\ \A k, l \in 1 .. N.m + 1 : k <= l => N.rows[k] <= N.rows[l]
    BY <1>3, <1>6 DEF Crs
  <2>2. \A r \in Rows(N) : \A q, s \in Positions(N, r) :
          q < s => At(N.cols, q) < At(N.cols, s)
    <3>1. \A r \in Rows(M) : \A q, s \in Positions(M, r) :
            q < s => At(M.cols, q) < At(M.cols, s)
      BY DEF Crs
    <3> QED
      BY <1>6, <3>1
  <2>3. N.cols \in Seq(Cols(N)) /\ Len(N.cols) = Len(N.vals)
    BY <1>2, <1>3, <1>4, <1>6
  <2> QED
    BY <1>3, <1>4, <2>1, <2>2, <2>3, Zenon DEF Crs
<1>8. ASSUME NEW r \in Rows(M), NEW c \in Cols(M), NEW w
      PROVE  Has(N, r, c, w) <=> IF r = i /\ c = j THEN w = val ELSE Has(M, r, c, w)
  <2>1. \A q \in Positions(M, r) :
          At(N.vals, q) = IF q = p THEN val ELSE At(M.vals, q)
    BY <1>1, <1>4
  <2>2. \A q \in Positions(M, r) : q = p => r = i /\ At(M.cols, q) = j
    BY OneRow
  <2>3. \A q \in Positions(M, i) : At(M.cols, q) = j => q = p
    <3> SUFFICES ASSUME NEW q \in Positions(M, i), At(M.cols, q) = j, q # p PROVE FALSE
      OBVIOUS
    <3>1. j \in Int /\ (q < p \/ p < q)
      <4>1. q \in Int /\ p \in Int /\ j \in Int
        BY CrsFacts, <1>1 DEF Cols
      <4> QED
        BY <4>1
    <3>2. j < j
      BY <3>1 DEF Crs
    <3> QED
      BY <3>1, <3>2
  <2>4. Has(N, r, c, w) <=> \E q \in Positions(M, r) : At(M.cols, q) = c /\ At(N.vals, q) = w
    BY <1>6, Zenon DEF Has
  <2>5. CASE r = i /\ c = j
    BY <2>1, <2>3, <2>4, <2>5
  <2>6. CASE ~(r = i /\ c = j)
    <3>1. \A q \in Positions(M, r) : At(M.cols, q) = c => At(N.vals, q) = At(M.vals, q)
      BY <2>1, <2>2, <2>6
    <3> QED
      BY <2>4, <2>6, <3>1 DEF Has
  <2> QED
    BY <2>5, <2>6
<1> QED
  BY <1>3, <1>7, <1>8 DEF N

(* The search has seen col last exactly if it is stored.                    *)
LEMMA Seen ==
  ASSUME NEW M, Crs(M), NEW i \in Rows(M), NEW col \in Cols(M)
  PROVE  LastSeen(M, i, col) = col
           <=> Place(M, i, col) \in Positions(M, i) /\ At(M.cols, Place(M, i, col)) = col
<1> DEFINE p == Place(M, i, col)
<1>1. col \in Int /\ M.base \in Int /\ M.base <= col
  BY CrsFacts DEF Cols
<1>2. /\ p \in RowStart(M, i) .. RowEnd(M, i)
      /\ \A q \in Positions(M, i) :
           IF q < p THEN At(M.cols, q) < col ELSE At(M.cols, q) >= col
  BY <1>1, PlaceIs
<1>3. RowStart(M, i) \in Nat /\ RowEnd(M, i) \in Nat
  BY CrsFacts
<1>4. LastSeen(M, i, col) = IF p \in Positions(M, i) THEN At(M.cols, p)
                            ELSE IF Positions(M, i) = {} THEN M.base - 1
                            ELSE At(M.cols, p - 1)
  BY DEF LastSeen
<1> HIDE DEF p
<1>5. CASE p \in Positions(M, i)
  BY <1>4, <1>5 DEF p
<1>6. CASE p \notin Positions(M, i) /\ Positions(M, i) = {}
  BY <1>1, <1>4, <1>6 DEF p
<1>7. CASE p \notin Positions(M, i) /\ Positions(M, i) # {}
  <2>1. p = RowEnd(M, i) /\ RowStart(M, i) < RowEnd(M, i) /\ p \in Int
    BY <1>2, <1>3, <1>7 DEF Positions
  <2>2. PICK q \in Positions(M, i) : q = p - 1
    BY <1>3, <2>1 DEF Positions
  <2>3. q < p
    BY <2>1, <2>2
  <2>4. At(M.cols, q) < col /\ At(M.cols, q) \in Int
    <3>1. Stores(M) \in Nat /\ RowEnd(M, i) <= Stores(M) /\ M.base \in Int /\ M.n \in Int
      BY CrsFacts
    <3>2. q \in 0 .. Stores(M) - 1
      BY <1>3, <3>1 DEF Positions
    <3>3. At(M.cols, q) \in Cols(M)
      BY <3>2, CrsFacts
    <3> QED
      BY <1>2, <2>3, <3>1, <3>3 DEF Cols
  <2>5. LastSeen(M, i, col) = At(M.cols, q)
    BY <1>4, <1>7, <2>2, Zenon
  <2>6. At(M.cols, q) # col
    BY <1>1, <2>4
  <2> QED
    BY <1>7, <2>5, <2>6 DEF p
<1> QED
  BY <1>5, <1>6, <1>7

(* Only one value can be read at a place, if only one can be there.         *)
LEMMA Reads ==
  ASSUME NEW N, Crs(N), NEW r \in Rows(N), NEW c \in Cols(N), NEW v \in T,
         \A w \in 1 .. Modulus - 1 : Has(N, r, c, w) <=> w = v
  PROVE  Get(N, r, c) = v
<1>1. /\ Get(N, r, c) \in T
      /\ \A w \in 1 .. Modulus - 1 : Get(N, r, c) = w <=> Has(N, r, c, w)
  BY Lookup
<1>2. \A w \in T : w # 0 => w \in 1 .. Modulus - 1
  BY SizeFacts DEF T
<1> QED
  BY <1>1, <1>2

(* N is M with val at <<i, j>>.                                             *)
Gives(M, N, i, j, val) ==
  /\ Crs(N) /\ N.base = M.base /\ N.m = M.m /\ N.n = M.n
  /\ \A r \in Rows(M), c \in Cols(M) :
       Get(N, r, c) = IF r = i /\ c = j THEN val ELSE Get(M, r, c)

LEMMA HasGives ==
  ASSUME NEW M, Crs(M), NEW i \in Rows(M), NEW j \in Cols(M), NEW val \in T,
         NEW N, Crs(N), N.base = M.base, N.m = M.m, N.n = M.n,
         \A r \in Rows(M), c \in Cols(M), w \in 1 .. Modulus - 1 :
           Has(N, r, c, w) <=> IF r = i /\ c = j THEN w = val ELSE Has(M, r, c, w)
  PROVE  Gives(M, N, i, j, val)
<1>1. Rows(N) = Rows(M) /\ Cols(N) = Cols(M)
  BY DEF Rows, Cols
<1>2. ASSUME NEW r \in Rows(M), NEW c \in Cols(M)
      PROVE  Get(N, r, c) = IF r = i /\ c = j THEN val ELSE Get(M, r, c)
  <2> DEFINE v == IF r = i /\ c = j THEN val ELSE Get(M, r, c)
  <2>1. /\ Get(M, r, c) \in T
        /\ \A w \in 1 .. Modulus - 1 : Get(M, r, c) = w <=> Has(M, r, c, w)
    BY Lookup
  <2>2. v \in T
    BY <2>1
  <2>3. \A w \in 1 .. Modulus - 1 : Has(N, r, c, w) <=> w = v
    BY <2>1
  <2> HIDE DEF v
  <2>4. Get(N, r, c) = v
    BY <1>1, <2>2, <2>3, Reads
  <2> QED
    BY <2>4 DEF v
<1> QED
  BY <1>2 DEF Gives

(* set changes one element.                                                 *)
LEMMA StoredIs ==
  ASSUME NEW M, Crs(M), NEW i \in Rows(M), NEW j \in Cols(M), NEW val \in T
  PROVE  Gives(M, Stored(M, i, j, val), i, j, val)
<1> DEFINE p == Place(M, i, j)
           N == Stored(M, i, j, val)
<1>1. LastSeen(M, i, j) = j <=> p \in Positions(M, i) /\ At(M.cols, p) = j
  BY Seen
<1>2. val # 0 => val \in 1 .. Modulus - 1
  BY SizeFacts DEF T
<1>3. p \in 0 .. Stores(M)
  <2>1. /\ j \in Int /\ Stores(M) \in Nat /\ RowEnd(M, i) <= Stores(M)
        /\ RowStart(M, i) \in Nat /\ RowEnd(M, i) \in Nat
    BY CrsFacts DEF Cols
  <2>2. p \in RowStart(M, i) .. RowEnd(M, i)
    BY <2>1, PlaceIs
  <2> HIDE DEF p
  <2> QED
    BY <2>1, <2>2
<1>4. N = IF LastSeen(M, i, j) # j
          THEN IF val # 0 THEN Inserted(M, p, i, j, val) ELSE M
          ELSE IF val = 0 THEN Removed(M, p, i)
          ELSE [M EXCEPT !.vals[p + 1] = val]
  BY DEF Stored
<1>5. p = Place(M, i, j)
  OBVIOUS
<1> HIDE DEF p, N
<1>6. CASE LastSeen(M, i, j) # j /\ val # 0
  <2>1. N = Inserted(M, p, i, j, val)
    BY <1>4, <1>6
  <2>2. p \in Positions(M, i) => At(M.cols, p) # j
    BY <1>1, <1>6
  <2>3. /\ Crs(N) /\ N.base = M.base /\ N.m = M.m /\ N.n = M.n
        /\ \A r \in Rows(M), c \in Cols(M) : \A w :
             Has(N, r, c, w) <=> IF r = i /\ c = j THEN w = val ELSE Has(M, r, c, w)
    <3>1. val \in 1 .. Modulus - 1
      BY <1>2, <1>6
    <3> QED
      BY <1>3, <1>5, <2>1, <2>2, <3>1, Inserting
  <2>4. Gives(M, N, i, j, val)
    BY <2>3, HasGives
  <2> QED
    BY <2>4 DEF N
<1>7. CASE LastSeen(M, i, j) # j /\ val = 0
  <2>1. N = M
    BY <1>4, <1>7
  <2>2. Get(M, i, j) = 0
    BY <1>1, <1>5, <1>7, Zenon DEF Get
  <2> QED
    BY <1>7, <2>1, <2>2 DEF N, Gives
<1>8. CASE LastSeen(M, i, j) = j /\ val = 0
  <2>1. N = Removed(M, p, i)
    BY <1>4, <1>8
  <2>2. p \in Positions(M, i) /\ At(M.cols, p) = j
    BY <1>1, <1>8
  <2>3. /\ Crs(N) /\ N.base = M.base /\ N.m = M.m /\ N.n = M.n
        /\ \A r \in Rows(M), c \in Cols(M) : \A w :
             Has(N, r, c, w) <=> ~(r = i /\ c = j) /\ Has(M, r, c, w)
    BY <2>1, <2>2, Removing
  <2>4. \A w \in 1 .. Modulus - 1 : w # val
    BY <1>8, SizeFacts
  <2>5. \A r \in Rows(M), c \in Cols(M), w \in 1 .. Modulus - 1 :
          Has(N, r, c, w) <=> IF r = i /\ c = j THEN w = val ELSE Has(M, r, c, w)
    BY <2>3, <2>4, Zenon
  <2>6. Gives(M, N, i, j, val)
    BY <2>3, <2>5, HasGives
  <2> QED
    BY <2>6 DEF N
<1>9. CASE LastSeen(M, i, j) = j /\ val # 0
  <2>1. N = [M EXCEPT !.vals[p + 1] = val]
    BY <1>4, <1>9
  <2>2. p \in Positions(M, i) /\ At(M.cols, p) = j
    BY <1>1, <1>9
  <2>3. /\ Crs(N) /\ N.base = M.base /\ N.m = M.m /\ N.n = M.n
        /\ \A r \in Rows(M), c \in Cols(M) : \A w :
             Has(N, r, c, w) <=> IF r = i /\ c = j THEN w = val ELSE Has(M, r, c, w)
    <3>1. val \in 1 .. Modulus - 1
      BY <1>2, <1>9
    <3> QED
      BY <2>1, <2>2, <3>1, Overwriting
  <2>4. Gives(M, N, i, j, val)
    BY <2>3, HasGives
  <2> QED
    BY <2>4 DEF N
<1> QED
  BY <1>6, <1>7, <1>8, <1>9

(* A new matrix reads as zero everywhere.                                   *)
LEMMA ConstructedIs ==
  ASSUME NEW first \in {0, 1}, NEW m \in Sizes, NEW n \in Sizes
  PROVE  LET M == Constructed(first, m, n)
         IN  /\ Crs(M) /\ M.base = first /\ M.m = m /\ M.n = n
             /\ \A i \in Rows(M), j \in Cols(M) : Get(M, i, j) = 0
<1> DEFINE M == Constructed(first, m, n)
<1>1. /\ M.base = first /\ M.m = m /\ M.n = n
      /\ M.rows = [i \in 1 .. m + 1 |-> first] /\ M.vals = Null /\ M.cols = Null
      /\ M = [base |-> M.base, m |-> M.m, n |-> M.n,
              rows |-> M.rows, vals |-> M.vals, cols |-> M.cols]
  BY DEF Constructed
<1> HIDE DEF M
<1>2. m \in Nat /\ m > 0 /\ n \in Nat /\ n > 0 /\ first \in Int
  BY SizeFacts
<1>3. ASSUME NEW i \in Rows(M)
      PROVE  RowStart(M, i) = 0 /\ RowEnd(M, i) = 0 /\ Positions(M, i) = {}
  <2>1. i - first + 1 \in 1 .. m + 1 /\ i - first + 1 + 1 \in 1 .. m + 1
    BY <1>1, <1>2 DEF Rows
  <2>2. RowStart(M, i) = 0 /\ RowEnd(M, i) = 0
    BY <1>1, <1>2, <2>1 DEF RowStart, RowEnd, At
  <2> QED
    BY <2>2 DEF Positions
<1>4. Stores(M) = 0
  BY <1>1 DEF Stores
<1>5. Crs(M)
  <2>1. /\ M.rows \in [1 .. M.m + 1 -> Int]
        /\ \A k \in 1 .. M.m + 1 : M.rows[k] = first
        /\ 1 \in 1 .. M.m + 1 /\ M.m + 1 \in 1 .. M.m + 1
    BY <1>1, <1>2
  <2>2. /\ M.rows[1] = M.base /\ M.rows[M.m + 1] = M.base + Stores(M)
        /\ \A k, l \in 1 .. M.m + 1 : k <= l => M.rows[k] <= M.rows[l]
    BY <1>1, <1>2, <1>4, <2>1
  <2>3. \A i \in Rows(M) : \A p, q \in Positions(M, i) :
          p < q => At(M.cols, p) < At(M.cols, q)
    BY <1>3
  <2>4. M.base \in {0, 1} /\ M.m \in Sizes /\ M.n \in Sizes
    BY <1>1
  <2> QED
    BY <1>1, <2>1, <2>2, <2>3, <2>4, Zenon DEF Crs
<1>6. \A i \in Rows(M), j \in Cols(M) : Get(M, i, j) = 0
  BY <1>3, Zenon DEF Get
<1> QED
  BY <1>1, <1>5, <1>6 DEF M

-----------------------------------------------------------------------------
(* Filling a matrix element by element                                      *)

LEMMA Scaled ==
  ASSUME NEW a \in Int, NEW b \in Int, a <= b, NEW n \in Nat
  PROVE  a * n <= b * n
<1>1. PICK d \in Nat : b = a + d
  BY b - a \in Nat
<1>2. b * n = a * n + d * n /\ d * n \in Nat /\ a * n \in Int
  BY <1>1
<1> QED
  BY <1>2

(* The place of the element that is set in step k.                          *)
LEMMA PlaceOf ==
  ASSUME NEW m \in Nat, NEW n \in Nat, n > 0, NEW k \in Nat, k < m * n
  PROVE  /\ k \div n \in 0 .. m - 1 /\ k % n \in 0 .. n - 1
         /\ k = (k \div n) * n + (k % n)
<1> DEFINE q == k \div n
           r == k % n
<1>1. r \in 0 .. n - 1 /\ q \in Int /\ r = k - q * n
  BY DivMod
<1> HIDE DEF q, r
<1>2. q * n \in Int /\ m * n \in Int /\ k = q * n + r
  BY <1>1
<1>3. q < m
  <2> SUFFICES ASSUME m <= q PROVE FALSE
    BY <1>1
  <2>1. m * n <= q * n
    BY <1>1, Scaled
  <2> QED
    BY <1>1, <1>2, <2>1
<1>4. 0 <= q
  <2> SUFFICES ASSUME q <= -1 PROVE FALSE
    BY <1>1
  <2>1. q * n <= (-1) * n
    BY <1>1, Scaled
  <2>2. (-1) * n = -n
    OBVIOUS
  <2> QED
    BY <1>1, <1>2, <2>1, <2>2
<1>5. q \in 0 .. m - 1 /\ r \in 0 .. n - 1 /\ k = q * n + r
  BY <1>1, <1>2, <1>3, <1>4
<1> QED
  BY <1>5 DEF q, r

LEMMA OnePlace ==
  ASSUME NEW n \in Nat, NEW i \in Nat, NEW j \in 0 .. n - 1,
         NEW q \in Nat, NEW r \in 0 .. n - 1, i * n + j = q * n + r
  PROVE  i = q /\ j = r
<1>0. i * n \in Int /\ q * n \in Int /\ (i + 1) * n = i * n + n /\ (q + 1) * n = q * n + n
  OBVIOUS
<1>1. CASE i < q
  <2>1. (i + 1) * n <= q * n
    BY <1>1, Scaled
  <2> QED
    BY <1>0, <2>1
<1>2. CASE q < i
  <2>1. (q + 1) * n <= i * n
    BY <1>2, Scaled
  <2> QED
    BY <1>0, <2>1
<1>3. CASE i = q
  BY <1>0, <1>3
<1> QED
  BY <1>1, <1>2, <1>3

(* An element of a table, and a table of numbers.                           *)
ElementAt(value, i, j) == value[i, j]
Numbers(value, M) == \A i \in Rows(M), j \in Cols(M) : ElementAt(value, i, j) \in Int

(* What step k of the loop makes of M.                                      *)
Step(value, M, k) ==
  LET rw == M.base + (k \div M.n)
      cl == M.base + (k % M.n)
  IN  Stored(M, rw, cl, ElementAt(value, rw, cl) % Modulus)

(* The loop runs through as many matrices as there are elements.            *)
LEMMA FilledBy ==
  ASSUME NEW result, NEW value, NEW n \in Nat, n = result.m * result.n
  PROVE  \E s : /\ s[0] = result
                /\ \A k \in 0 .. n - 1 : s[k + 1] = Step(value, s[k], k)
                /\ Filled(result, value) = s[n]
<1> DEFINE Is(s, j) ==
      s = [k \in 0 .. j |-> IF k = 0 THEN result ELSE Step(value, s[k - 1], k - 1)]
           S == {j \in Nat : j <= n => \E s : Is(s, j)}
<1>1. 0 \in S
  <2> DEFINE s == [k \in 0 .. 0 |-> result]
  <2>1. \A k \in 0 .. 0 : s[k] = IF k = 0 THEN result ELSE Step(value, s[k - 1], k - 1)
    OBVIOUS
  <2>2. Is(s, 0)
    BY <2>1
  <2> QED
    BY <2>2
<1>2. ASSUME NEW j \in Nat, j \in S PROVE j + 1 \in S
  <2> SUFFICES ASSUME j + 1 <= n PROVE \E s : Is(s, j + 1)
    OBVIOUS
  <2>1. PICK s : Is(s, j)
    BY <1>2
  <2>2. \A k \in 0 .. j : s[k] = IF k = 0 THEN result ELSE Step(value, s[k - 1], k - 1)
    BY <2>1
  <2> DEFINE u == [k \in 0 .. j + 1 |->
                     IF k = j + 1 THEN Step(value, s[j], j) ELSE s[k]]
  <2>3. \A k \in 0 .. j + 1 : u[k] = IF k = 0 THEN result ELSE Step(value, u[k - 1], k - 1)
    BY <2>2
  <2>4. Is(u, j + 1)
    BY <2>3
  <2> QED
    BY <2>4
<1>3. n \in S
  <2> HIDE DEF S
  <2> QED
    BY <1>1, <1>2, Induction
<1>4. \E s : Is(s, n)
  BY <1>3
<1> DEFINE t == CHOOSE s : Is(s, n)
<1>5. Is(t, n)
  BY <1>4, Zenon
<1>6. Filled(result, value) = t[n]
  BY Zenon DEF Filled, Step, ElementAt
<1> HIDE DEF t
<1>7. \A k \in 0 .. n : t[k] = IF k = 0 THEN result ELSE Step(value, t[k - 1], k - 1)
  BY <1>5
<1>8. \A k \in 0 .. n - 1 : k + 1 \in 0 .. n /\ k + 1 # 0 /\ k + 1 - 1 = k
  OBVIOUS
<1>9. t[0] = result /\ \A k \in 0 .. n - 1 : t[k + 1] = Step(value, t[k], k)
  BY <1>7, <1>8
<1> QED
  BY <1>6, <1>9

(* M after k steps: the elements before the k-th have their values.         *)
FilledTo(value, R, M, k) ==
  /\ Crs(M) /\ M.base = R.base /\ M.m = R.m /\ M.n = R.n
  /\ \A i \in 0 .. R.m - 1, j \in 0 .. R.n - 1 :
       i * R.n + j < k =>
         Get(M, R.base + i, R.base + j) = ElementAt(value, R.base + i, R.base + j) % Modulus

LEMMA StepIs ==
  ASSUME NEW R, Crs(R), NEW value, Numbers(value, R),
         NEW k \in Nat, k < R.m * R.n, NEW M, FilledTo(value, R, M, k)
  PROVE  FilledTo(value, R, Step(value, M, k), k + 1)
<1>1. /\ R.base \in Int /\ R.m \in Nat /\ R.n \in Nat /\ R.n > 0
      /\ Crs(M) /\ M.base = R.base /\ M.m = R.m /\ M.n = R.n
  BY CrsFacts DEF FilledTo
<1>2. PICK q \in 0 .. R.m - 1, r \in 0 .. R.n - 1 :
        q = k \div R.n /\ r = k % R.n /\ k = q * R.n + r
  <2>1. /\ k \div R.n \in 0 .. R.m - 1 /\ k % R.n \in 0 .. R.n - 1
        /\ k = (k \div R.n) * R.n + (k % R.n)
    BY <1>1, PlaceOf
  <2> QED
    BY <2>1, Zenon
<1>3. PICK rw \in Rows(M), cl \in Cols(M) : rw = R.base + q /\ cl = R.base + r
  <2>1. /\ R.base + q \in R.base .. R.base + R.m - 1
        /\ R.base + r \in R.base .. R.base + R.n - 1
    <3>1. R.base \in Int /\ R.m \in Int /\ R.n \in Int
      BY <1>1
    <3> QED
      BY <3>1, OffsetIn, Zenon
  <2>2. R.base + q \in Rows(M) /\ R.base + r \in Cols(M)
    BY <1>1, <2>1, Zenon DEF Rows, Cols
  <2> QED
    BY <2>2, Zenon
<1>4. PICK val \in T : val = ElementAt(value, rw, cl) % Modulus
  <2>1. ElementAt(value, rw, cl) \in Int
    BY <1>1, <1>3 DEF Rows, Cols, Numbers
  <2>2. ElementAt(value, rw, cl) % Modulus \in 0 .. Modulus - 1
    BY <2>1, SizeFacts, DivMod
  <2> QED
    BY <2>2 DEF T
<1> DEFINE N == Stored(M, rw, cl, val)
<1>5. Step(value, M, k) = N
  BY <1>1, <1>2, <1>3, <1>4, Zenon DEF Step
<1>6. Gives(M, N, rw, cl, val)
  BY <1>1, StoredIs
<1> HIDE DEF N
<1>7. ASSUME NEW i \in 0 .. R.m - 1, NEW j \in 0 .. R.n - 1, i * R.n + j < k + 1
      PROVE  Get(N, R.base + i, R.base + j) = ElementAt(value, R.base + i, R.base + j) % Modulus
  <2>1. PICK a \in Rows(M), b \in Cols(M) : a = R.base + i /\ b = R.base + j
    BY <1>1 DEF Rows, Cols
  <2>2. Get(N, a, b) = IF a = rw /\ b = cl THEN val ELSE Get(M, a, b)
    BY <1>6 DEF Gives
  <2>3. CASE a = rw /\ b = cl
    BY <1>4, <2>1, <2>2, <2>3
  <2>4. CASE ~(a = rw /\ b = cl)
    <3>1. i * R.n + j # k
      <4> SUFFICES ASSUME i * R.n + j = q * R.n + r PROVE FALSE
        BY <1>2
      <4>1. i = q /\ j = r
        BY <1>1, OnePlace
      <4> QED
        BY <1>3, <2>1, <2>4, <4>1
    <3>2. i * R.n + j < k
      <4>1. i * R.n \in Int /\ j \in Int
        BY <1>1
      <4> QED
        BY <1>7, <3>1, <4>1
    <3>3. Get(M, R.base + i, R.base + j) = ElementAt(value, R.base + i, R.base + j) % Modulus
      BY <3>2 DEF FilledTo
    <3> QED
      BY <2>1, <2>2, <2>4, <3>3
  <2> QED
    BY <2>3, <2>4
<1>8. FilledTo(value, R, N, k + 1)
  BY <1>1, <1>6, <1>7, Zenon DEF FilledTo, Gives
<1> QED
  BY <1>5, <1>8

(* The result of an operation has the elements the loop computes.           *)
LEMMA FilledIs ==
  ASSUME NEW R, Crs(R), NEW value, Numbers(value, R)
  PROVE  LET M == Filled(R, value)
         IN  /\ Crs(M) /\ M.base = R.base /\ M.m = R.m /\ M.n = R.n
             /\ \A i \in Rows(R), j \in Cols(R) : Get(M, i, j) = ElementAt(value, i, j) % Modulus
<1>1. R.base \in Int /\ R.m \in Nat /\ R.n \in Nat /\ R.n > 0
  BY CrsFacts
<1>2. PICK n \in Nat : n = R.m * R.n
  BY <1>1
<1>3. PICK s : /\ s[0] = R
               /\ \A k \in 0 .. n - 1 : s[k + 1] = Step(value, s[k], k)
               /\ Filled(R, value) = s[n]
  BY <1>2, FilledBy
<1> DEFINE S == {k \in Nat : k <= n => FilledTo(value, R, s[k], k)}
<1>4. 0 \in S
  <2>1. \A i \in 0 .. R.m - 1, j \in 0 .. R.n - 1 : ~(i * R.n + j < 0)
    <3> SUFFICES ASSUME NEW i \in 0 .. R.m - 1, NEW j \in 0 .. R.n - 1
                 PROVE  ~(i * R.n + j < 0)
      OBVIOUS
    <3>1. i * R.n \in Nat /\ j \in Nat
      BY <1>1
    <3> QED
      BY <3>1
  <2>2. FilledTo(value, R, R, 0)
    BY <2>1, Zenon DEF FilledTo
  <2> QED
    BY <1>3, <2>2
<1>5. \A k \in Nat : k \in S => k + 1 \in S
  <2> SUFFICES ASSUME NEW k \in Nat, k \in S, k + 1 <= n
               PROVE  FilledTo(value, R, s[k + 1], k + 1)
    OBVIOUS
  <2>1. k \in 0 .. n - 1 /\ k < R.m * R.n /\ FilledTo(value, R, s[k], k)
    BY <1>2
  <2>2. FilledTo(value, R, Step(value, s[k], k), k + 1)
    BY <2>1, StepIs
  <2> QED
    BY <1>3, <2>1, <2>2
<1>6. FilledTo(value, R, s[n], n)
  <2>1. Nat \subseteq S
    <3> HIDE DEF S
    <3> QED
      BY <1>4, <1>5, Induction
  <2> QED
    BY <2>1
<1>7. PICK M : M = Filled(R, value)
  OBVIOUS
<1>8. FilledTo(value, R, M, n)
  BY <1>3, <1>6, <1>7
<1>9. ASSUME NEW i \in Rows(R), NEW j \in Cols(R)
      PROVE  Get(M, i, j) = ElementAt(value, i, j) % Modulus
  <2>1. PICK a \in 0 .. R.m - 1, b \in 0 .. R.n - 1 : i = R.base + a /\ j = R.base + b
    <3>1. /\ i - R.base \in 0 .. R.m - 1 /\ i = R.base + (i - R.base)
          /\ j - R.base \in 0 .. R.n - 1 /\ j = R.base + (j - R.base)
      BY <1>1 DEF Rows, Cols
    <3> QED
      BY <3>1, Zenon
  <2>2. a * R.n + b < n
    <3>1. (a + 1) * R.n <= R.m * R.n
      BY <1>1, Scaled
    <3>2. (a + 1) * R.n = a * R.n + R.n /\ a * R.n \in Int
      BY <1>1
    <3> QED
      BY <1>1, <1>2, <3>1, <3>2
  <2>3. Get(M, R.base + a, R.base + b) = ElementAt(value, R.base + a, R.base + b) % Modulus
    BY <1>8, <2>2 DEF FilledTo
  <2> QED
    BY <2>1, <2>3
<1> QED
  BY <1>7, <1>8, <1>9 DEF FilledTo

-----------------------------------------------------------------------------
(* The array a matrix stands for                                            *)

LEMMA ObjectIs ==
  ASSUME NEW M, Crs(M)
  PROVE  M \in Object /\ M # Null
<1>1. M.m \in Nat /\ M.base \in Int /\ M.n \in Int
  BY CrsFacts
<1>2. M.rows \in Seq(Int)
  <2>1. PICK n \in Nat : n = M.m + 1
    BY <1>1
  <2>2. M.rows \in [1 .. n -> Int]
    BY <2>1 DEF Crs
  <2>3. M.rows \in UNION {[1 .. k -> Int] : k \in Nat}
    BY <2>2, Zenon
  <2> QED
    BY <2>3, SeqDef
<1>3. \A s : s \in Seq(1 .. Modulus - 1) => s \in Seq(T)
  <2>1. 1 .. Modulus - 1 \subseteq T
    BY SizeFacts DEF T
  <2> DEFINE F == 1 .. Modulus - 1
  <2> HIDE DEF F
  <2>2. F \subseteq T
    BY <2>1 DEF F
  <2>3. \A s : s \in Seq(F) => s \in Seq(T)
    BY <2>2
  <2> QED
    BY <2>3 DEF F
<1>4. \A s : s \in Seq(Cols(M)) => s \in Seq(Int)
  BY <1>1 DEF Cols
<1>5. M.vals \in Seq(T) \cup {Null} /\ M.cols \in Seq(Int) \cup {Null}
  BY <1>3, <1>4 DEF Crs
<1>6. /\ M = [base |-> M.base, m |-> M.m, n |-> M.n,
              rows |-> M.rows, vals |-> M.vals, cols |-> M.cols]
      /\ M.base \in {0, 1} /\ M.m \in Sizes /\ M.n \in Sizes
  BY DEF Crs
<1>7. M \in Object
  BY <1>2, <1>5, <1>6 DEF Object
<1> QED
  BY <1>7, NullAssumption

LEMMA ElementOfPair ==
  ASSUME NEW f, NEW p, NEW i, NEW j, p = <<i, j>>
  PROVE  ElementAt(f, i, j) = f[p]
BY Zenon DEF ElementAt

(* Content is an array of the elements get finds.                           *)
LEMMA ContentIs ==
  ASSUME NEW M, Crs(M)
  PROVE  /\ Content(M) = [m |-> M.m, n |-> M.n, at |-> Content(M).at]
         /\ Content(M).at = [p \in Dense!Places(M.m, M.n) |->
                               Get(M, M.base + p[1], M.base + p[2])]
         /\ Content(M).at \in [Dense!Places(M.m, M.n) -> Dense!Element]
         /\ \A i \in 0 .. M.m - 1, j \in 0 .. M.n - 1 :
              ElementAt(Content(M).at, i, j) = Get(M, M.base + i, M.base + j)
         /\ Content(M) # Null
<1>1. M # Null /\ M.m \in Nat /\ M.n \in Nat /\ M.base \in Int
  BY ObjectIs, CrsFacts
<1> DEFINE at == [p \in Dense!Places(M.m, M.n) |-> Get(M, M.base + p[1], M.base + p[2])]
<1>2. Content(M) = [m |-> M.m, n |-> M.n, at |-> at]
  BY <1>1 DEF Content, Dense!Places
<1>3. ASSUME NEW i \in 0 .. M.m - 1, NEW j \in 0 .. M.n - 1
      PROVE  M.base + i \in Rows(M) /\ M.base + j \in Cols(M)
  BY <1>1 DEF Rows, Cols
<1>4. at \in [Dense!Places(M.m, M.n) -> Dense!Element]
  <2> SUFFICES ASSUME NEW p \in Dense!Places(M.m, M.n)
               PROVE  Get(M, M.base + p[1], M.base + p[2]) \in Dense!Element
    OBVIOUS
  <2>1. p[1] \in 0 .. M.m - 1 /\ p[2] \in 0 .. M.n - 1
    BY DEF Dense!Places
  <2>2. M.base + p[1] \in Rows(M) /\ M.base + p[2] \in Cols(M)
    BY <1>3, <2>1
  <2>3. Get(M, M.base + p[1], M.base + p[2]) \in T
    BY <2>2, Lookup
  <2> QED
    BY <2>3 DEF T, Dense!Element
<1>5. ASSUME NEW i \in 0 .. M.m - 1, NEW j \in 0 .. M.n - 1
      PROVE  ElementAt(at, i, j) = Get(M, M.base + i, M.base + j)
  <2>1. PICK p \in Dense!Places(M.m, M.n) : p = <<i, j>>
    BY DEF Dense!Places
  <2>2. at[p] = Get(M, M.base + i, M.base + j)
    BY <2>1
  <2> HIDE DEF at
  <2> QED
    BY <2>1, <2>2, ElementOfPair
<1> HIDE DEF at
<1>6. Content(M).at = at
  BY <1>2
<1>7. Content(M) # Null
  <2>1. M.m \in Sizes /\ M.n \in Sizes
    BY DEF Crs
  <2>2. Content(M) \in [m : {M.m}, n : {M.n}, at : [Dense!Places(M.m, M.n) -> Dense!Element]]
    BY <1>2, <1>4
  <2>3. Content(M) \in Dense!Array
    <3> DEFINE G(m, n) == [m : {m}, n : {n}, at : [Dense!Places(m, n) -> Dense!Element]]
    <3>1. Content(M) \in G(M.m, M.n)
      BY <2>2
    <3>2. Dense!Array = UNION {G(m, n) : m, n \in Sizes}
      BY DEF Dense!Array
    <3> HIDE DEF G
    <3> QED
      BY <2>1, <3>1, <3>2
  <2> QED
    BY <2>3, NullAssumption
<1> QED
  BY <1>2, <1>4, <1>5, <1>6, <1>7 DEF at

(* Which elements an array has decides which array it is.                   *)
LEMMA ArrayIs ==
  ASSUME NEW M, Crs(M), NEW f,
         f = [p \in Dense!Places(M.m, M.n) |-> f[p]],
         \A i \in 0 .. M.m - 1, j \in 0 .. M.n - 1 :
           Get(M, M.base + i, M.base + j) = ElementAt(f, i, j)
  PROVE  Content(M) = [m |-> M.m, n |-> M.n, at |-> f]
<1> DEFINE at == Content(M).at
<1>1. /\ Content(M) = [m |-> M.m, n |-> M.n, at |-> at]
      /\ at = [p \in Dense!Places(M.m, M.n) |-> Get(M, M.base + p[1], M.base + p[2])]
  BY ContentIs
<1> HIDE DEF at
<1>2. ASSUME NEW p \in Dense!Places(M.m, M.n) PROVE at[p] = f[p]
  <2>1. PICK i \in 0 .. M.m - 1, j \in 0 .. M.n - 1 : p = <<i, j>>
    BY DEF Dense!Places
  <2>2. at[p] = Get(M, M.base + i, M.base + j)
    BY <1>1, <2>1
  <2>3. ElementAt(f, i, j) = f[p]
    BY <2>1, ElementOfPair
  <2> QED
    BY <2>2, <2>3
<1>3. at = f
  <2>1. at = [p \in Dense!Places(M.m, M.n) |-> at[p]]
    BY <1>1
  <2> QED
    BY <1>2, <2>1
<1> QED
  BY <1>1, <1>3

LEMMA ZeroIs ==
  ASSUME NEW first \in {0, 1}, NEW m \in Sizes, NEW n \in Sizes
  PROVE  Content(Constructed(first, m, n)) = Dense!Zero(m, n)
<1> DEFINE M == Constructed(first, m, n)
<1>1. /\ Crs(M) /\ M.base = first /\ M.m = m /\ M.n = n
      /\ \A i \in Rows(M), j \in Cols(M) : Get(M, i, j) = 0
  BY ConstructedIs
<1> HIDE DEF M
<1>2. m \in Nat /\ n \in Nat /\ first \in Int
  BY SizeFacts
<1> DEFINE f == [p \in Dense!Places(m, n) |-> 0 % Modulus]
<1>3. Dense!Zero(m, n) = [m |-> m, n |-> n, at |-> f]
  BY Zenon DEF Dense!Zero, Dense!Matrix
<1>4. ASSUME NEW i \in 0 .. M.m - 1, NEW j \in 0 .. M.n - 1
      PROVE  Get(M, M.base + i, M.base + j) = ElementAt(f, i, j)
  <2>1. M.base + i \in Rows(M) /\ M.base + j \in Cols(M)
    BY <1>1, <1>2 DEF Rows, Cols
  <2>2. PICK p \in Dense!Places(m, n) : p = <<i, j>>
    BY <1>1 DEF Dense!Places
  <2>3. f[p] = 0
    BY SizeFacts
  <2> HIDE DEF f
  <2>4. ElementAt(f, i, j) = 0
    BY <2>2, <2>3, ElementOfPair
  <2> QED
    BY <1>1, <2>1, <2>4
<1>5. f = [p \in Dense!Places(M.m, M.n) |-> f[p]]
  BY <1>1
<1> HIDE DEF f
<1>6. Content(M) = [m |-> M.m, n |-> M.n, at |-> f]
  BY <1>1, <1>4, <1>5, ArrayIs
<1> QED
  BY <1>1, <1>3, <1>6 DEF M

LEMMA PutIs ==
  ASSUME NEW M, Crs(M), NEW i \in Rows(M), NEW j \in Cols(M), NEW val \in T
  PROVE  LET A == Content(M)
         IN  Content(Stored(M, i, j, val))
               \in {[A EXCEPT !.at[p] = v] : p \in DOMAIN A.at, v \in Dense!Element}
<1>1. PICK N : N = Stored(M, i, j, val)
  OBVIOUS
<1>2. Gives(M, N, i, j, val)
  BY <1>1, StoredIs
<1>3. /\ Crs(N) /\ N.base = M.base /\ N.m = M.m /\ N.n = M.n
      /\ \A r \in Rows(M), c \in Cols(M) :
           Get(N, r, c) = IF r = i /\ c = j THEN val ELSE Get(M, r, c)
      /\ M.base \in Int /\ M.m \in Nat /\ M.n \in Nat
  BY <1>2, CrsFacts DEF Gives
<1>4. PICK A : A = Content(M)
  OBVIOUS
<1>5. /\ A = [m |-> M.m, n |-> M.n, at |-> A.at]
      /\ A.at \in [Dense!Places(M.m, M.n) -> Dense!Element]
      /\ \A a \in 0 .. M.m - 1, b \in 0 .. M.n - 1 :
           ElementAt(A.at, a, b) = Get(M, M.base + a, M.base + b)
  BY <1>4, ContentIs
<1>6. PICK a \in 0 .. M.m - 1, b \in 0 .. M.n - 1 : i = M.base + a /\ j = M.base + b
  <2>1. /\ i - M.base \in 0 .. M.m - 1 /\ i = M.base + (i - M.base)
        /\ j - M.base \in 0 .. M.n - 1 /\ j = M.base + (j - M.base)
    BY <1>3 DEF Rows, Cols
  <2> QED
    BY <2>1, Zenon
<1>7. PICK p \in Dense!Places(M.m, M.n) : p = <<a, b>>
  BY DEF Dense!Places
<1> DEFINE f == [A.at EXCEPT ![p] = val]
<1>8. f = [q \in Dense!Places(M.m, M.n) |-> IF q = p THEN val ELSE A.at[q]]
  BY <1>5
<1>9. ASSUME NEW c \in 0 .. N.m - 1, NEW d \in 0 .. N.n - 1
      PROVE  Get(N, N.base + c, N.base + d) = ElementAt(f, c, d)
  <2>1. PICK q \in Dense!Places(M.m, M.n) : q = <<c, d>>
    BY <1>3 DEF Dense!Places
  <2>2. f[q] = IF q = p THEN val ELSE A.at[q]
    BY <1>8
  <2> HIDE DEF f
  <2>3. ElementAt(f, c, d) = f[q] /\ ElementAt(A.at, c, d) = A.at[q]
    BY <2>1, ElementOfPair
  <2>4. M.base + c \in Rows(M) /\ M.base + d \in Cols(M)
    BY <1>3 DEF Rows, Cols
  <2>5. q = p <=> M.base + c = i /\ M.base + d = j
    BY <1>3, <1>6, <1>7, <2>1
  <2>6. ElementAt(A.at, c, d) = Get(M, M.base + c, M.base + d)
    BY <1>3, <1>5
  <2> QED
    BY <1>3, <2>2, <2>3, <2>4, <2>5, <2>6
<1>10. f = [q \in Dense!Places(N.m, N.n) |-> f[q]]
  BY <1>3, <1>8
<1>11. [A EXCEPT !.at[p] = val] = [m |-> M.m, n |-> M.n, at |-> f]
  <2>1. [A EXCEPT !.at[p] = val] = [A EXCEPT !.at = f]
    OBVIOUS
  <2> HIDE DEF f
  <2> QED
    BY <1>5, <2>1
<1>12. Content(N) = [A EXCEPT !.at[p] = val]
  <2> HIDE DEF f
  <2> QED
    BY <1>3, <1>9, <1>10, <1>11, ArrayIs
<1>13. p \in DOMAIN A.at /\ val \in Dense!Element
  BY <1>5 DEF T, Dense!Element
<1> DEFINE G(q, v) == [A EXCEPT !.at[q] = v]
<1>14. Content(N) = G(p, val)
  BY <1>12
<1>15. Content(N) \in {G(q, v) : q \in DOMAIN A.at, v \in Dense!Element}
  <2> HIDE DEF G
  <2> QED
    BY <1>13, <1>14
<1> QED
  BY <1>1, <1>4, <1>15

(* f are the residues of value, whose places count from first.              *)
Tabulates(f, value, first, m, n) ==
  /\ f = [p \in Dense!Places(m, n) |-> f[p]]
  /\ \A i \in 0 .. m - 1, j \in 0 .. n - 1 :
       /\ ElementAt(value, first + i, first + j) \in Int
       /\ ElementAt(f, i, j) = ElementAt(value, first + i, first + j) % Modulus

(* A matrix that is filled element by element is the array of the elements. *)
LEMMA FilledArray ==
  ASSUME NEW first \in {0, 1}, NEW m \in Sizes, NEW n \in Sizes, NEW value, NEW f,
         Tabulates(f, value, first, m, n)
  PROVE  LET M == Filled(Constructed(first, m, n), value)
         IN  Crs(M) /\ M.base = first /\ Content(M) = [m |-> m, n |-> n, at |-> f]
<1>0. /\ f = [p \in Dense!Places(m, n) |-> f[p]]
      /\ \A i \in 0 .. m - 1, j \in 0 .. n - 1 :
           /\ ElementAt(value, first + i, first + j) \in Int
           /\ ElementAt(f, i, j) = ElementAt(value, first + i, first + j) % Modulus
  BY Zenon DEF Tabulates
<1>1. PICK R : R = Constructed(first, m, n)
  OBVIOUS
<1>2. Crs(R) /\ R.base = first /\ R.m = m /\ R.n = n
  BY <1>1, ConstructedIs
<1>3. m \in Nat /\ n \in Nat /\ first \in Int
  BY SizeFacts
<1>4. ASSUME NEW i \in Rows(R), NEW j \in Cols(R)
      PROVE  \E a \in 0 .. m - 1, b \in 0 .. n - 1 : i = first + a /\ j = first + b
  <2>1. /\ i - first \in 0 .. m - 1 /\ i = first + (i - first)
        /\ j - first \in 0 .. n - 1 /\ j = first + (j - first)
    BY <1>2, <1>3 DEF Rows, Cols
  <2> QED
    BY <2>1, Zenon
<1>5. Numbers(value, R)
  <2> SUFFICES ASSUME NEW i \in Rows(R), NEW j \in Cols(R)
               PROVE  ElementAt(value, i, j) \in Int
    BY Zenon DEF Numbers
  <2>1. PICK a \in 0 .. m - 1, b \in 0 .. n - 1 : i = first + a /\ j = first + b
    BY <1>4
  <2> QED
    BY <1>0, <2>1
<1>6. PICK M : M = Filled(R, value)
  OBVIOUS
<1>7. /\ Crs(M) /\ M.base = first /\ M.m = m /\ M.n = n
      /\ \A i \in Rows(R), j \in Cols(R) : Get(M, i, j) = ElementAt(value, i, j) % Modulus
  BY <1>2, <1>5, <1>6, FilledIs
<1>8. ASSUME NEW i \in 0 .. M.m - 1, NEW j \in 0 .. M.n - 1
      PROVE  Get(M, M.base + i, M.base + j) = ElementAt(f, i, j)
  <2>1. first + i \in Rows(R) /\ first + j \in Cols(R)
    BY <1>2, <1>3, <1>7 DEF Rows, Cols
  <2> QED
    BY <1>0, <1>7, <2>1
<1>9. Content(M) = [m |-> m, n |-> n, at |-> f]
  BY <1>0, <1>7, <1>8, ArrayIs
<1> QED
  BY <1>1, <1>6, <1>7, <1>9

(* The arithmetic operators are those of arrays.                            *)
LEMMA AddIs ==
  ASSUME NEW A, Crs(A), NEW B, Crs(B), A.base = B.base, A.m = B.m, A.n = B.n
  PROVE  LET M == Add(A, B)
         IN  /\ Crs(M) /\ M.base = A.base
             /\ Content(M) = Dense!Sum(Content(A), Content(B))
<1>1. /\ A.base \in {0, 1} /\ A.m \in Sizes /\ A.n \in Sizes
      /\ A.base \in Int /\ A.m \in Nat /\ A.n \in Nat
      /\ Rows(B) = Rows(A) /\ Cols(B) = Cols(A)
  BY CrsFacts DEF Crs, Rows, Cols
<1> DEFINE S == Rows(A) \X Cols(A)
           value == [p \in S |-> Get(A, p[1], p[2]) + Get(B, p[1], p[2])]
           a == Content(A)
           b == Content(B)
           P == Dense!Places(A.m, A.n)
           f == [p \in P |-> (ElementAt(a.at, p[1], p[2]) + ElementAt(b.at, p[1], p[2])) % Modulus]
<1>2. Add(A, B) = Filled(Constructed(A.base, A.m, A.n), value)
  BY Zenon DEF Add
<1>3. /\ a.m = A.m /\ a.n = A.n
      /\ \A i \in 0 .. A.m - 1, j \in 0 .. A.n - 1 :
           /\ ElementAt(a.at, i, j) = Get(A, A.base + i, A.base + j)
           /\ ElementAt(b.at, i, j) = Get(B, A.base + i, A.base + j)
  <2>1. /\ a = [m |-> A.m, n |-> A.n, at |-> a.at]
        /\ \A i \in 0 .. A.m - 1, j \in 0 .. A.n - 1 :
             ElementAt(a.at, i, j) = Get(A, A.base + i, A.base + j)
    BY ContentIs
  <2>2. \A i \in 0 .. B.m - 1, j \in 0 .. B.n - 1 :
          ElementAt(b.at, i, j) = Get(B, B.base + i, B.base + j)
    BY ContentIs
  <2> HIDE DEF a, b
  <2> QED
    BY <2>1, <2>2
<1>4. Dense!Sum(a, b) = [m |-> A.m, n |-> A.n, at |-> f]
  <2>1. Dense!Sum(a, b) =
          [m |-> a.m, n |-> a.n,
           at |-> [p \in Dense!Places(a.m, a.n) |->
                     (ElementAt(a.at, p[1], p[2]) + ElementAt(b.at, p[1], p[2])) % Modulus]]
    BY Zenon DEF Dense!Sum, Dense!Matrix, ElementAt
  <2> HIDE DEF a, b
  <2> QED
    BY <1>3, <2>1
<1> HIDE DEF a, b
<1>5. ASSUME NEW i \in 0 .. A.m - 1, NEW j \in 0 .. A.n - 1
      PROVE  /\ ElementAt(value, A.base + i, A.base + j) \in Int
             /\ ElementAt(f, i, j) = ElementAt(value, A.base + i, A.base + j) % Modulus
  <2>1. A.base + i \in Rows(A) /\ A.base + j \in Cols(A)
    BY <1>1 DEF Rows, Cols
  <2>2. PICK r \in Rows(A), c \in Cols(A) : r = A.base + i /\ c = A.base + j
    BY <2>1
  <2>3. Get(A, r, c) \in Int /\ Get(B, r, c) \in Int
    <3>1. Get(A, r, c) \in T /\ Get(B, r, c) \in T
      BY <1>1, Lookup
    <3> QED
      BY <3>1, SizeFacts DEF T
  <2>4. PICK q \in S : q = <<r, c>>
    OBVIOUS
  <2>5. value[q] = Get(A, r, c) + Get(B, r, c)
    BY <2>4
  <2>6. PICK p \in P : p = <<i, j>>
    BY DEF Dense!Places
  <2>7. f[p] = (Get(A, r, c) + Get(B, r, c)) % Modulus
    <3>1. f[p] = (ElementAt(a.at, i, j) + ElementAt(b.at, i, j)) % Modulus
      BY <2>6
    <3> HIDE DEF f
    <3> QED
      BY <1>3, <2>2, <3>1
  <2> HIDE DEF f, value
  <2>8. ElementAt(value, r, c) = value[q] /\ ElementAt(f, i, j) = f[p]
    BY <2>4, <2>6, ElementOfPair
  <2> QED
    BY <2>2, <2>3, <2>5, <2>7, <2>8
<1>6. f = [p \in Dense!Places(A.m, A.n) |-> f[p]]
  OBVIOUS
<1> HIDE DEF f, value
<1>7. LET M == Filled(Constructed(A.base, A.m, A.n), value)
      IN  Crs(M) /\ M.base = A.base /\ Content(M) = [m |-> A.m, n |-> A.n, at |-> f]
  <2>1. Tabulates(f, value, A.base, A.m, A.n)
    BY <1>5, <1>6, Zenon DEF Tabulates
  <2> QED
    BY <1>1, <2>1, FilledArray
<1> QED
  BY <1>2, <1>4, <1>7 DEF a, b

LEMMA SubtractIs ==
  ASSUME NEW A, Crs(A), NEW B, Crs(B), A.base = B.base, A.m = B.m, A.n = B.n
  PROVE  LET M == Subtract(A, B)
         IN  /\ Crs(M) /\ M.base = A.base
             /\ Content(M) = Dense!Difference(Content(A), Content(B))
<1>1. /\ A.base \in {0, 1} /\ A.m \in Sizes /\ A.n \in Sizes
      /\ A.base \in Int /\ A.m \in Nat /\ A.n \in Nat
      /\ Rows(B) = Rows(A) /\ Cols(B) = Cols(A)
  BY CrsFacts DEF Crs, Rows, Cols
<1> DEFINE S == Rows(A) \X Cols(A)
           value == [p \in S |-> Get(A, p[1], p[2]) - Get(B, p[1], p[2])]
           a == Content(A)
           b == Content(B)
           P == Dense!Places(A.m, A.n)
           f == [p \in P |-> (ElementAt(a.at, p[1], p[2]) - ElementAt(b.at, p[1], p[2])) % Modulus]
<1>2. Subtract(A, B) = Filled(Constructed(A.base, A.m, A.n), value)
  BY Zenon DEF Subtract
<1>3. /\ a.m = A.m /\ a.n = A.n
      /\ \A i \in 0 .. A.m - 1, j \in 0 .. A.n - 1 :
           /\ ElementAt(a.at, i, j) = Get(A, A.base + i, A.base + j)
           /\ ElementAt(b.at, i, j) = Get(B, A.base + i, A.base + j)
  <2>1. /\ a = [m |-> A.m, n |-> A.n, at |-> a.at]
        /\ \A i \in 0 .. A.m - 1, j \in 0 .. A.n - 1 :
             ElementAt(a.at, i, j) = Get(A, A.base + i, A.base + j)
    BY ContentIs
  <2>2. \A i \in 0 .. B.m - 1, j \in 0 .. B.n - 1 :
          ElementAt(b.at, i, j) = Get(B, B.base + i, B.base + j)
    BY ContentIs
  <2> HIDE DEF a, b
  <2> QED
    BY <2>1, <2>2
<1>4. Dense!Difference(a, b) = [m |-> A.m, n |-> A.n, at |-> f]
  <2>1. Dense!Difference(a, b) =
          [m |-> a.m, n |-> a.n,
           at |-> [p \in Dense!Places(a.m, a.n) |->
                     (ElementAt(a.at, p[1], p[2]) - ElementAt(b.at, p[1], p[2])) % Modulus]]
    BY Zenon DEF Dense!Difference, Dense!Matrix, ElementAt
  <2> HIDE DEF a, b
  <2> QED
    BY <1>3, <2>1
<1> HIDE DEF a, b
<1>5. ASSUME NEW i \in 0 .. A.m - 1, NEW j \in 0 .. A.n - 1
      PROVE  /\ ElementAt(value, A.base + i, A.base + j) \in Int
             /\ ElementAt(f, i, j) = ElementAt(value, A.base + i, A.base + j) % Modulus
  <2>1. A.base + i \in Rows(A) /\ A.base + j \in Cols(A)
    BY <1>1 DEF Rows, Cols
  <2>2. PICK r \in Rows(A), c \in Cols(A) : r = A.base + i /\ c = A.base + j
    BY <2>1
  <2>3. Get(A, r, c) \in Int /\ Get(B, r, c) \in Int
    <3>1. Get(A, r, c) \in T /\ Get(B, r, c) \in T
      BY <1>1, Lookup
    <3> QED
      BY <3>1, SizeFacts DEF T
  <2>4. PICK q \in S : q = <<r, c>>
    OBVIOUS
  <2>5. value[q] = Get(A, r, c) - Get(B, r, c)
    BY <2>4
  <2>6. PICK p \in P : p = <<i, j>>
    BY DEF Dense!Places
  <2>7. f[p] = (Get(A, r, c) - Get(B, r, c)) % Modulus
    <3>1. f[p] = (ElementAt(a.at, i, j) - ElementAt(b.at, i, j)) % Modulus
      BY <2>6
    <3> HIDE DEF f
    <3> QED
      BY <1>3, <2>2, <3>1
  <2> HIDE DEF f, value
  <2>8. ElementAt(value, r, c) = value[q] /\ ElementAt(f, i, j) = f[p]
    BY <2>4, <2>6, ElementOfPair
  <2> QED
    BY <2>2, <2>3, <2>5, <2>7, <2>8
<1>6. f = [p \in Dense!Places(A.m, A.n) |-> f[p]]
  OBVIOUS
<1> HIDE DEF f, value
<1>7. LET M == Filled(Constructed(A.base, A.m, A.n), value)
      IN  Crs(M) /\ M.base = A.base /\ Content(M) = [m |-> A.m, n |-> A.n, at |-> f]
  <2>1. Tabulates(f, value, A.base, A.m, A.n)
    BY <1>5, <1>6, Zenon DEF Tabulates
  <2> QED
    BY <1>1, <2>1, FilledArray
<1> QED
  BY <1>2, <1>4, <1>7 DEF a, b

(* The terms of an element of the product.                                  *)
Products(A, B, i, j) ==
  [k \in 0 .. A.n - 1 |-> Get(A, i, A.base + k) * Get(B, B.base + k, j)]

DenseProducts(a, b, i, j) ==
  [k \in 0 .. a.n - 1 |-> ElementAt(a.at, i, k) * ElementAt(b.at, k, j)]

LEMMA ProductsAre ==
  ASSUME NEW A, Crs(A), NEW B, Crs(B), A.base = B.base, A.n = B.m,
         NEW i \in 0 .. A.m - 1, NEW j \in 0 .. B.n - 1
  PROVE  LET f == Products(A, B, A.base + i, A.base + j)
         IN  /\ Total(f, A.n) \in Int
             /\ DenseProducts(Content(A), Content(B), i, j) = f
<1> DEFINE f == Products(A, B, A.base + i, A.base + j)
           a == Content(A)
           b == Content(B)
<1>1. /\ A.base \in Int /\ A.m \in Nat /\ A.n \in Nat /\ B.m \in Nat /\ B.n \in Nat
  BY CrsFacts
<1>2. /\ a.n = A.n
      /\ \A k \in 0 .. A.n - 1 :
           /\ ElementAt(a.at, i, k) = Get(A, A.base + i, A.base + k)
           /\ ElementAt(b.at, k, j) = Get(B, B.base + k, A.base + j)
  <2>1. /\ a = [m |-> A.m, n |-> A.n, at |-> a.at]
        /\ \A r \in 0 .. A.m - 1, c \in 0 .. A.n - 1 :
             ElementAt(a.at, r, c) = Get(A, A.base + r, A.base + c)
    BY ContentIs
  <2>2. \A r \in 0 .. B.m - 1, c \in 0 .. B.n - 1 :
          ElementAt(b.at, r, c) = Get(B, B.base + r, B.base + c)
    BY ContentIs
  <2> HIDE DEF a, b
  <2> QED
    BY <2>1, <2>2
<1> HIDE DEF a, b
<1>3. f = [k \in 0 .. A.n - 1 |-> Get(A, A.base + i, A.base + k) * Get(B, B.base + k, A.base + j)]
  BY DEF Products
<1> HIDE DEF f
<1>4. DenseProducts(a, b, i, j) = f
  <2>1. DenseProducts(a, b, i, j)
          = [k \in 0 .. A.n - 1 |-> ElementAt(a.at, i, k) * ElementAt(b.at, k, j)]
    BY <1>2 DEF DenseProducts
  <2> QED
    BY <1>2, <1>3, <2>1
<1>5. \A k \in 0 .. A.n - 1 : f[k] \in Int
  <2> SUFFICES ASSUME NEW k \in 0 .. A.n - 1 PROVE f[k] \in Int
    OBVIOUS
  <2>1. /\ A.base + i \in Rows(A) /\ A.base + k \in Cols(A)
        /\ B.base + k \in Rows(B) /\ A.base + j \in Cols(B)
    BY <1>1 DEF Rows, Cols
  <2>2. /\ Get(A, A.base + i, A.base + k) \in T
        /\ Get(B, B.base + k, A.base + j) \in T
    BY <2>1, Lookup
  <2>3. PICK v \in Int, w \in Int : v = Get(A, A.base + i, A.base + k)
                                      /\ w = Get(B, B.base + k, A.base + j)
    BY <2>2, SizeFacts DEF T
  <2>4. f[k] = v * w
    BY <1>3, <2>3
  <2> QED
    BY <2>4
<1>6. Total(f, A.n) \in Int
  <2>1. Terms(f, A.n)
    BY <1>5 DEF Terms
  <2>2. PICK s : Sums(s, f, A.n) /\ Total(f, A.n) = s[A.n]
    BY <1>1, <2>1, TotalIs
  <2>3. s \in [0 .. A.n -> Int] /\ A.n \in 0 .. A.n
    BY <1>1, <2>2 DEF Sums
  <2> QED
    BY <2>2, <2>3
<1> QED
  BY <1>4, <1>6 DEF f, a, b

LEMMA MultiplyIs ==
  ASSUME NEW A, Crs(A), NEW B, Crs(B), A.base = B.base, A.n = B.m
  PROVE  LET M == Multiply(A, B)
         IN  /\ Crs(M) /\ M.base = A.base
             /\ Content(M) = Dense!Product(Content(A), Content(B))
<1>1. /\ A.base \in {0, 1} /\ A.m \in Sizes /\ B.n \in Sizes
      /\ A.base \in Int /\ A.m \in Nat /\ A.n \in Nat /\ B.n \in Nat
  <2>1. A.base \in {0, 1} /\ A.m \in Sizes /\ B.n \in Sizes
    BY DEF Crs
  <2>2. A.m \in Nat /\ A.n \in Nat /\ B.n \in Nat
    BY CrsFacts
  <2> QED
    BY <2>1, <2>2
<1> DEFINE S == Rows(A) \X Cols(B)
           value == [p \in S |-> Total(Products(A, B, p[1], p[2]), A.n)]
           a == Content(A)
           b == Content(B)
           P == Dense!Places(A.m, B.n)
           f == [p \in P |-> Total(DenseProducts(a, b, p[1], p[2]), A.n) % Modulus]
<1>2. Multiply(A, B) = Filled(Constructed(A.base, A.m, B.n), value)
  BY Zenon DEF Multiply, Products
<1>3. a.m = A.m /\ a.n = A.n /\ b.n = B.n
  <2>1. a = [m |-> A.m, n |-> A.n, at |-> a.at] /\ b = [m |-> B.m, n |-> B.n, at |-> b.at]
    BY ContentIs
  <2> HIDE DEF a, b
  <2> QED
    BY <2>1
<1>4. Dense!Product(a, b) = [m |-> A.m, n |-> B.n, at |-> f]
  <2>1. Dense!Product(a, b) =
          [m |-> a.m, n |-> b.n,
           at |-> [p \in Dense!Places(a.m, b.n) |->
                     Total(DenseProducts(a, b, p[1], p[2]), a.n) % Modulus]]
    <3>1. Dense!Product(a, b) =
            [m |-> a.m, n |-> b.n,
             at |-> [p \in Dense!Places(a.m, b.n) |->
                       Total([k \in 0 .. a.n - 1 |->
                                ElementAt(a.at, p[1], k) * ElementAt(b.at, k, p[2])], a.n)
                         % Modulus]]
      <4> HIDE DEF a, b
      <4>1. Dense!Product(a, b) =
              [m |-> a.m, n |-> b.n,
               at |-> [p \in Dense!Places(a.m, b.n) |->
                         Total([k \in 0 .. a.n - 1 |-> a.at[p[1], k] * b.at[k, p[2]]], a.n)
                           % Modulus]]
        BY Zenon DEF Dense!Product, Dense!Matrix, Dense!Total, Total
      <4> QED
        BY <4>1, Zenon DEF ElementAt
    <3> QED
      BY <3>1, Zenon DEF DenseProducts
  <2> HIDE DEF a, b
  <2> QED
    BY <1>3, <2>1
<1>5. ASSUME NEW i \in 0 .. A.m - 1, NEW j \in 0 .. B.n - 1
      PROVE  /\ ElementAt(value, A.base + i, A.base + j) \in Int
             /\ ElementAt(f, i, j) = ElementAt(value, A.base + i, A.base + j) % Modulus
  <2>1. A.base + i \in Rows(A) /\ A.base + j \in Cols(B)
    BY <1>1 DEF Rows, Cols
  <2>2. PICK r \in Rows(A), c \in Cols(B) : r = A.base + i /\ c = A.base + j
    BY <2>1
  <2>3. /\ Total(Products(A, B, r, c), A.n) \in Int
        /\ DenseProducts(a, b, i, j) = Products(A, B, r, c)
    BY <2>2, ProductsAre
  <2> HIDE DEF a, b
  <2>4. PICK q \in S : q = <<r, c>>
    OBVIOUS
  <2>5. value[q] = Total(Products(A, B, r, c), A.n)
    BY <2>4
  <2>6. PICK p \in P : p = <<i, j>>
    BY DEF Dense!Places
  <2>7. f[p] = Total(DenseProducts(a, b, i, j), A.n) % Modulus
    BY <2>6
  <2> HIDE DEF f, value
  <2>8. ElementAt(value, r, c) = value[q] /\ ElementAt(f, i, j) = f[p]
    BY <2>4, <2>6, ElementOfPair
  <2> QED
    BY <2>2, <2>3, <2>5, <2>7, <2>8
<1> HIDE DEF a, b
<1>6. f = [p \in Dense!Places(A.m, B.n) |-> f[p]]
  OBVIOUS
<1> HIDE DEF f, value
<1>7. LET M == Filled(Constructed(A.base, A.m, B.n), value)
      IN  Crs(M) /\ M.base = A.base /\ Content(M) = [m |-> A.m, n |-> B.n, at |-> f]
  <2>1. Tabulates(f, value, A.base, A.m, B.n)
    BY <1>5, <1>6, Zenon DEF Tabulates
  <2> QED
    BY <1>1, <2>1, FilledArray
<1> QED
  BY <1>2, <1>4, <1>7 DEF a, b

-----------------------------------------------------------------------------
(* The matrices of a program                                                *)

MatricesInv ==
  /\ base \in {0, 1}
  /\ mat \in [Name -> Object \cup {Null}]
  /\ \A z \in Name : mat[z] # Null => Crs(mat[z]) /\ mat[z].base = base

LEMMA InitMatrices ==
  ASSUME Init
  PROVE  MatricesInv /\ Dense!Init
<1>1. MatricesInv
  BY DEF Init, MatricesInv
<1>2. \A z \in Name : Content(mat[z]) = Null
  BY DEF Init, Content
<1> QED
  BY <1>1, <1>2 DEF Dense!Init, array

(* A variable gets a well-formed object.                                    *)
LEMMA Assigned ==
  ASSUME MatricesInv, NEW w \in Name, NEW N, Crs(N), N.base = base,
         mat' = [mat EXCEPT ![w] = N], base' = base
  PROVE  /\ MatricesInv'
         /\ \A z \in Name : mat'[z] = IF z = w THEN N ELSE mat[z]
<1>1. \A z \in Name : mat'[z] = IF z = w THEN N ELSE mat[z]
  BY DEF MatricesInv
<1>2. mat' \in [Name -> Object \cup {Null}]
  BY ObjectIs DEF MatricesInv
<1>3. \A z \in Name : mat'[z] # Null => Crs(mat'[z]) /\ mat'[z].base = base'
  BY <1>1 DEF MatricesInv
<1> QED
  BY <1>1, <1>2, <1>3 DEF MatricesInv

LEMMA DeclareIs ==
  ASSUME MatricesInv, NEW w \in Name, Declare(w)
  PROVE  MatricesInv' /\ Dense!Declare(w)
<1>1. PICK m \in Sizes, n \in Sizes : mat' = [mat EXCEPT ![w] = Constructed(base, m, n)]
  BY DEF Declare
<1>2. PICK N : N = Constructed(base, m, n)
  OBVIOUS
<1>3. Crs(N) /\ N.base = base /\ Content(N) = Dense!Zero(m, n)
  <2>1. base \in {0, 1}
    BY DEF MatricesInv
  <2> QED
    BY <1>2, <2>1, ConstructedIs, ZeroIs
<1>4. mat' = [mat EXCEPT ![w] = N] /\ base' = base
  BY <1>1, <1>2 DEF Declare
<1>5. /\ MatricesInv'
      /\ \A z \in Name : mat'[z] = IF z = w THEN N ELSE mat[z]
  BY <1>3, <1>4, Assigned
<1>6. Dense!Declare(w)
  BY <1>3, <1>5 DEF Dense!Declare, Dense!Gets, array
<1> QED
  BY <1>5, <1>6

LEMMA SetIs ==
  ASSUME MatricesInv, NEW w \in Name, Set(w)
  PROVE  MatricesInv' /\ Dense!Put(w)
<1>1. PICK M : M = mat[w]
  OBVIOUS
<1>2. M # Null /\ Crs(M) /\ M.base = base
  BY <1>1 DEF Set, MatricesInv
<1>3. PICK i \in Rows(M), j \in Cols(M), val \in T :
        mat' = [mat EXCEPT ![w] = Stored(@, i, j, val)]
  BY <1>1 DEF Set
<1>4. PICK N : N = Stored(M, i, j, val)
  OBVIOUS
<1>5. Crs(N) /\ N.base = base
  BY <1>2, <1>4, StoredIs DEF Gives
<1>6. PICK A : A = Content(M)
  OBVIOUS
<1>7. Content(N) \in {[A EXCEPT !.at[p] = v] : p \in DOMAIN A.at, v \in Dense!Element}
  BY <1>2, <1>4, <1>6, PutIs
<1>8. mat' = [mat EXCEPT ![w] = N] /\ base' = base
  BY <1>1, <1>3, <1>4 DEF Set
<1>9. /\ MatricesInv'
      /\ \A z \in Name : mat'[z] = IF z = w THEN N ELSE mat[z]
  BY <1>5, <1>8, Assigned
<1>10. A # Null
  BY <1>2, <1>6, ContentIs
<1>11. Dense!Put(w)
  BY <1>1, <1>6, <1>7, <1>9, <1>10 DEF Dense!Put, Dense!Gets, array
<1> QED
  BY <1>9, <1>11

LEMMA CopyIs ==
  ASSUME MatricesInv, NEW w \in Name, NEW v \in Name, Copy(w, v)
  PROVE  MatricesInv' /\ Dense!Copy(w, v)
<1>1. PICK N : N = mat[v]
  OBVIOUS
<1>2. N # Null /\ Crs(N) /\ N.base = base /\ Content(N) # Null
  BY <1>1, ContentIs DEF Copy, MatricesInv
<1>3. mat' = [mat EXCEPT ![w] = N] /\ base' = base
  BY <1>1 DEF Copy
<1>4. /\ MatricesInv'
      /\ \A z \in Name : mat'[z] = IF z = w THEN N ELSE mat[z]
  BY <1>2, <1>3, Assigned
<1>5. Dense!Copy(w, v)
  BY <1>1, <1>2, <1>4 DEF Dense!Copy, Dense!Gets, array
<1> QED
  BY <1>4, <1>5

LEMMA ComputeIs ==
  ASSUME MatricesInv, NEW w \in Name, NEW v \in Name, NEW u \in Name, Compute(w, v, u)
  PROVE  MatricesInv' /\ Dense!Compute(w, v, u)
<1>1. PICK A : A = mat[v]
  OBVIOUS
<1>2. PICK B : B = mat[u]
  OBVIOUS
<1>3. /\ A # Null /\ Crs(A) /\ A.base = base
      /\ B # Null /\ Crs(B) /\ B.base = base
  BY <1>1, <1>2 DEF Compute, MatricesInv
<1>4. PICK a : a = Content(A)
  OBVIOUS
<1>5. PICK b : b = Content(B)
  OBVIOUS
<1>6. /\ a # Null /\ a.m = A.m /\ a.n = A.n
      /\ b # Null /\ b.m = B.m /\ b.n = B.n
  <2>1. /\ a = [m |-> A.m, n |-> A.n, at |-> a.at] /\ a # Null
        /\ b = [m |-> B.m, n |-> B.n, at |-> b.at] /\ b # Null
    BY <1>3, <1>4, <1>5, ContentIs
  <2> QED
    BY <2>1
<1>7. PICK N :
        /\ mat' = [mat EXCEPT ![w] = N] /\ base' = base
        /\ \/ A.m = B.m /\ A.n = B.n /\ (N = Add(A, B) \/ N = Subtract(A, B))
           \/ A.n = B.m /\ N = Multiply(A, B)
  BY <1>1, <1>2 DEF Compute
<1>8. CASE A.m = B.m /\ A.n = B.n /\ (N = Add(A, B) \/ N = Subtract(A, B))
  <2>1. /\ Crs(N) /\ N.base = base
        /\ Content(N) \in {Dense!Sum(a, b), Dense!Difference(a, b)}
    <3>1. A.base = B.base /\ A.base = base /\ Crs(A) /\ Crs(B)
      BY <1>3, Zenon
    <3>2. CASE N = Add(A, B)
      BY <1>4, <1>5, <1>8, <3>1, <3>2, AddIs, Zenon
    <3>3. CASE N = Subtract(A, B)
      BY <1>4, <1>5, <1>8, <3>1, <3>3, SubtractIs, Zenon
    <3> QED
      BY <1>8, <3>2, <3>3, Zenon
  <2>2. /\ MatricesInv'
        /\ \A z \in Name : mat'[z] = IF z = w THEN N ELSE mat[z]
    BY <1>7, <2>1, Assigned
  <2>3. Dense!Compute(w, v, u)
    BY <1>1, <1>2, <1>4, <1>5, <1>6, <1>8, <2>1, <2>2
    DEF Dense!Compute, Dense!Gets, Dense!SameShape, array
  <2> QED
    BY <2>2, <2>3
<1>9. CASE A.n = B.m /\ N = Multiply(A, B)
  <2>1. Crs(N) /\ N.base = base /\ Content(N) = Dense!Product(a, b)
    BY <1>3, <1>4, <1>5, <1>9, MultiplyIs
  <2>2. /\ MatricesInv'
        /\ \A z \in Name : mat'[z] = IF z = w THEN N ELSE mat[z]
    BY <1>7, <2>1, Assigned
  <2>3. Dense!Compute(w, v, u)
    BY <1>1, <1>2, <1>4, <1>5, <1>6, <1>9, <2>1, <2>2
    DEF Dense!Compute, Dense!Gets, array
  <2> QED
    BY <2>2, <2>3
<1> QED
  BY <1>7, <1>8, <1>9

LEMMA MatrixSteps ==
  ASSUME MatricesInv, NEW names \in SUBSET Name, MatrixStep(names)
  PROVE  MatricesInv' /\ Dense!Next
<1>1. PICK w \in names :
        \/ Declare(w)
        \/ Set(w)
        \/ \E v, u \in names : Compute(w, v, u)
        \/ \E v \in names : Copy(w, v)
  BY DEF MatrixStep
<1>2. CASE Declare(w)
  BY <1>2, DeclareIs DEF Dense!Next
<1>3. CASE Set(w)
  BY <1>3, SetIs DEF Dense!Next
<1>4. CASE \E v, u \in names : Compute(w, v, u)
  <2>1. PICK v \in Name, u \in Name : Compute(w, v, u)
    BY <1>4
  <2> QED
    BY <2>1, ComputeIs DEF Dense!Next
<1>5. CASE \E v \in names : Copy(w, v)
  <2>1. PICK v \in Name : Copy(w, v)
    BY <1>5
  <2> QED
    BY <2>1, CopyIs DEF Dense!Next
<1> QED
  BY <1>1, <1>2, <1>3, <1>4, <1>5

LEMMA NextMatrices ==
  ASSUME MatricesInv, [Next]_vars
  PROVE  MatricesInv' /\ [Dense!Next]_array
<1>1. CASE Fill
  <2>1. MatrixStep(IF base = 0 THEN {Shared} ELSE Name)
    BY <1>1 DEF Fill
  <2>2. PICK names \in SUBSET Name : names = IF base = 0 THEN {Shared} ELSE Name
    BY ProductAssumption
  <2>3. MatrixStep(names)
    BY <2>1, <2>2
  <2> QED
    BY <2>3, MatrixSteps
<1>2. CASE UNCHANGED <<base, mat>>
  BY <1>2 DEF MatricesInv, array
<1>3. CASE ~Fill
  <2>1. UNCHANGED <<base, mat>>
    BY <1>3 DEF Next, Prepare, Enqueue, GetResult, Leave, Destroy, Gone, Work, vars
  <2> QED
    BY <1>2, <2>1
<1> QED
  BY <1>1, <1>3

(* Every object of a program is at any time what Crs says of it: a finite   *)
(* list of the elements that are not zero, row after row.                   *)
THEOREM MatricesWellFormed == Spec => []MatricesInv
<1>1. Start => MatricesInv
  BY InitMatrices DEF Start
<1>2. MatricesInv /\ [Next]_vars => MatricesInv'
  BY NextMatrices
<1> QED
  BY <1>1, <1>2, PTL DEF Spec

(* Whatever a program declares, sets, overwrites with zero, adds,           *)
(* subtracts, multiplies and copies, in whatever order: its sparse          *)
(* matrices are the arrays a dense matrix class would have held.            *)
THEOREM MatricesAreArrays == Spec => ImplementsDense
<1>1. Start => Dense!Init
  BY InitMatrices DEF Start
<1>2. MatricesInv /\ [Next]_vars => [Dense!Next]_array
  BY NextMatrices
<1> QED
  BY <1>1, <1>2, MatricesWellFormed, PTL DEF Spec, ImplementsDense, Dense!Spec

-----------------------------------------------------------------------------
(* Products with a vector                                                   *)

(* Only one position shares out a row before and behind col.                *)
LEMMA OnePosition ==
  ASSUME NEW M, Crs(M), NEW i \in Rows(M), NEW col \in Int,
         NEW p \in RowStart(M, i) .. RowEnd(M, i),
         \A q \in Positions(M, i) :
           IF q < p THEN At(M.cols, q) < col ELSE At(M.cols, q) >= col
  PROVE  Place(M, i, col) = p
<1> DEFINE r == Place(M, i, col)
<1>1. /\ r \in RowStart(M, i) .. RowEnd(M, i)
      /\ \A q \in Positions(M, i) :
           IF q < r THEN At(M.cols, q) < col ELSE At(M.cols, q) >= col
  BY PlaceIs
<1> HIDE DEF r
<1>2. RowStart(M, i) \in Nat /\ RowEnd(M, i) \in Nat
  BY CrsFacts
<1>3. \A q \in Positions(M, i) : At(M.cols, q) \in Int
  <2>1. /\ Stores(M) \in Nat /\ RowEnd(M, i) <= Stores(M)
        /\ M.base \in Int /\ M.n \in Int
        /\ \A q \in 0 .. Stores(M) - 1 : At(M.cols, q) \in Cols(M)
    BY CrsFacts
  <2>2. ASSUME NEW q \in Positions(M, i) PROVE q \in 0 .. Stores(M) - 1
    BY <1>2, <2>1 DEF Positions
  <2> QED
    BY <2>1, <2>2 DEF Cols
<1>4. CASE r < p
  <2>1. r \in Positions(M, i) /\ ~(r < r)
    BY <1>1, <1>2, <1>4 DEF Positions
  <2>2. At(M.cols, r) < col /\ At(M.cols, r) >= col
    BY <1>1, <1>4, <2>1
  <2> QED
    BY <1>3, <2>1, <2>2
<1>5. CASE p < r
  <2>1. p \in Positions(M, i) /\ ~(p < p)
    BY <1>1, <1>2, <1>5 DEF Positions
  <2>2. At(M.cols, p) < col /\ At(M.cols, p) >= col
    BY <1>1, <1>5, <2>1
  <2> QED
    BY <1>3, <2>1, <2>2
<1>6. r < p \/ p < r \/ r = p
  BY <1>1, <1>2
<1> QED
  BY <1>4, <1>5, <1>6 DEF r

(* What the next column adds to the sum over a row: what is stored in it.   *)
LEMMA NextColumn ==
  ASSUME NEW M, Crs(M), NEW i \in Rows(M), NEW col \in Cols(M)
  PROVE  LET p == Place(M, i, col)
         IN  \/ /\ p \in Positions(M, i) /\ At(M.cols, p) = col
                /\ Get(M, i, col) = At(M.vals, p) /\ Place(M, i, col + 1) = p + 1
             \/ Get(M, i, col) = 0 /\ Place(M, i, col + 1) = p
<1> DEFINE p == Place(M, i, col)
<1>1. col \in Int /\ col + 1 \in Int
  BY CrsFacts DEF Cols
<1>2. /\ p \in RowStart(M, i) .. RowEnd(M, i)
      /\ \A q \in Positions(M, i) :
           IF q < p THEN At(M.cols, q) < col ELSE At(M.cols, q) >= col
  BY <1>1, PlaceIs
<1>3. Get(M, i, col) = IF p \in Positions(M, i) /\ At(M.cols, p) = col
                       THEN At(M.vals, p) ELSE 0
  BY Zenon DEF Get
<1> HIDE DEF p
<1>4. /\ RowStart(M, i) \in Nat /\ RowEnd(M, i) \in Nat
      /\ \A q \in Positions(M, i) : q \in Nat /\ At(M.cols, q) \in Int
      /\ \A q, r \in Positions(M, i) : q < r => At(M.cols, q) < At(M.cols, r)
  <2>1. /\ RowStart(M, i) \in Nat /\ RowEnd(M, i) \in Nat
        /\ RowEnd(M, i) <= Stores(M) /\ Stores(M) \in Nat
        /\ M.base \in Int /\ M.n \in Int
        /\ \A q \in 0 .. Stores(M) - 1 : At(M.cols, q) \in Cols(M)
    BY CrsFacts
  <2>2. \A q \in Positions(M, i) : q \in Nat /\ q \in 0 .. Stores(M) - 1
    BY <2>1 DEF Positions
  <2> QED
    BY <2>1, <2>2 DEF Cols, Crs
<1>5. PICK next \in Int : next = col + 1
  BY <1>1
<1>6. CASE p \in Positions(M, i) /\ At(M.cols, p) = col
  <2>1. PICK r \in RowStart(M, i) .. RowEnd(M, i) : r = p + 1
    BY <1>4, <1>6 DEF Positions
  <2>2. ASSUME NEW q \in Positions(M, i)
        PROVE  IF q < r THEN At(M.cols, q) < next ELSE At(M.cols, q) >= next
    <3>1. q \in Nat /\ p \in Nat /\ At(M.cols, q) \in Int
      BY <1>4, <1>6
    <3>2. CASE q < p
      <4>1. At(M.cols, q) < col /\ q < r
        BY <1>2, <2>1, <3>1, <3>2
      <4> QED
        BY <1>1, <1>5, <3>1, <4>1
    <3>3. CASE q = p
      BY <1>1, <1>5, <1>6, <2>1, <3>1, <3>3
    <3>4. CASE p < q
      <4>1. At(M.cols, p) < At(M.cols, q) /\ ~(q < r)
        BY <1>4, <1>6, <2>1, <3>1, <3>4
      <4> QED
        BY <1>1, <1>5, <1>6, <3>1, <4>1
    <3> QED
      BY <3>1, <3>2, <3>3, <3>4
  <2>3. Place(M, i, next) = r
    BY <2>2, OnePosition
  <2> QED
    BY <1>3, <1>5, <1>6, <2>1, <2>3 DEF p
<1>7. CASE ~(p \in Positions(M, i) /\ At(M.cols, p) = col)
  <2>1. ASSUME NEW q \in Positions(M, i)
        PROVE  IF q < p THEN At(M.cols, q) < next ELSE At(M.cols, q) >= next
    <3>1. q \in Nat /\ p \in Int /\ At(M.cols, q) \in Int
      BY <1>2, <1>4
    <3>2. CASE q < p
      <4>1. At(M.cols, q) < col
        BY <1>2, <3>2
      <4> QED
        BY <1>1, <1>5, <3>1, <3>2, <4>1
    <3>3. CASE ~(q < p)
      <4>1. At(M.cols, q) >= col
        BY <1>2, <3>3
      <4>2. At(M.cols, q) # col
        <5>1. CASE q = p
          BY <1>7, <5>1
        <5>2. CASE p < q
          <6>1. p \in Positions(M, i) /\ ~(p < p)
            BY <1>2, <1>4, <3>1, <5>2 DEF Positions
          <6>2. At(M.cols, p) >= col /\ At(M.cols, p) < At(M.cols, q)
            BY <1>2, <1>4, <5>2, <6>1
          <6> QED
            BY <1>1, <1>4, <3>1, <6>1, <6>2
        <5> QED
          BY <3>1, <3>3, <5>1, <5>2
      <4> QED
        BY <1>1, <1>5, <3>1, <3>3, <4>1, <4>2
    <3> QED
      BY <3>2, <3>3
  <2>2. Place(M, i, next) = p
    BY <1>2, <2>1, OnePosition
  <2> QED
    BY <1>3, <1>5, <1>7, <2>2 DEF p
<1> QED
  BY <1>6, <1>7

(* The bounds of a row are the places of its first column and of the one    *)
(* behind its last.                                                         *)
LEMMA RowBounds ==
  ASSUME NEW M, Crs(M), NEW i \in Rows(M)
  PROVE  /\ Place(M, i, M.base) = RowStart(M, i)
         /\ Place(M, i, M.base + M.n) = RowEnd(M, i)
<1>1. /\ RowStart(M, i) \in Nat /\ RowEnd(M, i) \in Nat
      /\ RowStart(M, i) <= RowEnd(M, i)
      /\ M.base \in Int /\ M.n \in Nat
  BY CrsFacts
<1>2. ASSUME NEW q \in Positions(M, i)
      PROVE  /\ q \in Int /\ ~(q < RowStart(M, i)) /\ q < RowEnd(M, i)
             /\ At(M.cols, q) \in M.base .. M.base + M.n - 1
  <2>1. /\ RowEnd(M, i) <= Stores(M) /\ Stores(M) \in Nat
        /\ \A p \in 0 .. Stores(M) - 1 : At(M.cols, p) \in Cols(M)
    BY CrsFacts
  <2>2. q \in Int /\ RowStart(M, i) <= q /\ q < RowEnd(M, i) /\ q \in 0 .. Stores(M) - 1
    BY <1>1, <2>1 DEF Positions
  <2>3. At(M.cols, q) \in Cols(M)
    BY <2>1, <2>2
  <2> QED
    BY <1>1, <2>2, <2>3 DEF Cols
<1>3. PICK first \in RowStart(M, i) .. RowEnd(M, i), last \in RowStart(M, i) .. RowEnd(M, i) :
        first = RowStart(M, i) /\ last = RowEnd(M, i)
  BY <1>1
<1>4. PICK left \in Int, right \in Int : left = M.base /\ right = M.base + M.n
  BY <1>1
<1>5. Place(M, i, left) = first
  <2>1. \A q \in Positions(M, i) :
          IF q < first THEN At(M.cols, q) < left ELSE At(M.cols, q) >= left
    BY <1>1, <1>2, <1>3, <1>4
  <2> QED
    BY <2>1, OnePosition
<1>6. Place(M, i, right) = last
  <2>1. \A q \in Positions(M, i) :
          IF q < last THEN At(M.cols, q) < right ELSE At(M.cols, q) >= right
    BY <1>1, <1>2, <1>3, <1>4
  <2> QED
    BY <2>1, OnePosition
<1> QED
  BY <1>3, <1>4, <1>5, <1>6

(* The terms of a row times a vector, of what is stored and of the array.   *)
RowTerms(M, i, v) ==
  [k \in 0 .. RowEnd(M, i) - RowStart(M, i) - 1 |->
     At(M.vals, RowStart(M, i) + k) * v[At(M.cols, RowStart(M, i) + k) - M.base]]

DenseTerms(M, i, v) == [k \in 0 .. M.n - 1 |-> Get(M, i, M.base + k) * v[k]]

LEMMA TermsAre ==
  ASSUME NEW M, Crs(M), NEW i \in Rows(M), NEW v \in [0 .. M.n - 1 -> T]
  PROVE  /\ Terms(RowTerms(M, i, v), RowEnd(M, i) - RowStart(M, i))
         /\ Terms(DenseTerms(M, i, v), M.n)
         /\ \A p \in Positions(M, i) :
              RowTerms(M, i, v)[p - RowStart(M, i)]
                = At(M.vals, p) * v[At(M.cols, p) - M.base]
<1>1. /\ RowStart(M, i) \in Nat /\ RowEnd(M, i) \in Nat
      /\ RowEnd(M, i) <= Stores(M) /\ Stores(M) \in Nat
      /\ M.base \in Int /\ M.n \in Nat
      /\ \A q \in 0 .. Stores(M) - 1 :
           At(M.cols, q) \in Cols(M) /\ At(M.vals, q) \in 1 .. Modulus - 1
  BY CrsFacts
<1>2. T \subseteq Int /\ 1 .. Modulus - 1 \subseteq Int
  BY SizeFacts DEF T
<1> DEFINE f == RowTerms(M, i, v)
           g == DenseTerms(M, i, v)
           first == RowStart(M, i)
           count == RowEnd(M, i) - RowStart(M, i)
<1>3. f = [k \in 0 .. count - 1 |-> At(M.vals, first + k) * v[At(M.cols, first + k) - M.base]]
  BY DEF RowTerms
<1>4. g = [k \in 0 .. M.n - 1 |-> Get(M, i, M.base + k) * v[k]]
  BY DEF DenseTerms
<1> HIDE DEF f, g
<1>5. \A k \in 0 .. count - 1 : f[k] \in Int
  <2> SUFFICES ASSUME NEW k \in 0 .. count - 1 PROVE f[k] \in Int
    OBVIOUS
  <2>1. PICK q \in 0 .. Stores(M) - 1 : q = first + k
    <3>1. first + k \in 0 .. Stores(M) - 1
      BY <1>1
    <3> QED
      BY <3>1, Zenon
  <2>2. At(M.cols, q) - M.base \in 0 .. M.n - 1 /\ At(M.vals, q) \in Int
    <3>1. At(M.cols, q) \in Cols(M) /\ At(M.vals, q) \in 1 .. Modulus - 1
      BY <1>1, Zenon
    <3>2. At(M.cols, q) \in M.base .. M.base + M.n - 1 /\ M.n \in Int
      BY <1>1, <3>1 DEF Cols
    <3>3. At(M.cols, q) - M.base \in 0 .. M.n - 1
      BY <1>1, <3>2, OffsetOut, Zenon
    <3> QED
      BY <1>2, <3>1, <3>3, Zenon
  <2>3. PICK a \in Int, b \in Int : a = At(M.vals, q) /\ b = v[At(M.cols, q) - M.base]
    BY <1>2, <2>2
  <2>4. f[k] = a * b
    BY <1>3, <2>1, <2>3
  <2> QED
    BY <2>4
<1>6. \A k \in 0 .. M.n - 1 : g[k] \in Int
  <2> SUFFICES ASSUME NEW k \in 0 .. M.n - 1 PROVE g[k] \in Int
    OBVIOUS
  <2>1. M.base + k \in Cols(M)
    BY <1>1 DEF Cols
  <2>2. Get(M, i, M.base + k) \in T
    BY <2>1, Lookup
  <2>3. PICK a \in Int, b \in Int : a = Get(M, i, M.base + k) /\ b = v[k]
    BY <1>2, <2>2
  <2>4. g[k] = a * b
    BY <1>4, <2>3
  <2> QED
    BY <2>4
<1>7. ASSUME NEW p \in Positions(M, i)
      PROVE  f[p - first] = At(M.vals, p) * v[At(M.cols, p) - M.base]
  <2>1. PICK k \in 0 .. count - 1 : k = p - first /\ first + k = p
    <3>1. p - first \in 0 .. count - 1 /\ first + (p - first) = p
      BY <1>1 DEF Positions
    <3> QED
      BY <3>1, Zenon
  <2> QED
    BY <1>3, <2>1
<1> QED
  BY <1>5, <1>6, <1>7 DEF Terms, f, g

(* The two sums grow together, column by column.                            *)
LEMMA SumsAgree ==
  ASSUME NEW M, Crs(M), NEW i \in Rows(M), NEW v \in [0 .. M.n - 1 -> T]
  PROVE  /\ Total(RowTerms(M, i, v), RowEnd(M, i) - RowStart(M, i))
              = Total(DenseTerms(M, i, v), M.n)
<1>1. /\ RowStart(M, i) \in Nat /\ RowEnd(M, i) \in Nat
      /\ RowStart(M, i) <= RowEnd(M, i)
      /\ M.base \in Int /\ M.n \in Nat
  BY CrsFacts
<1>2. PICK n \in Nat, count \in Nat, first \in Nat :
        n = M.n /\ count = RowEnd(M, i) - RowStart(M, i) /\ first = RowStart(M, i)
  BY <1>1
<1>3. PICK f : f = RowTerms(M, i, v)
  OBVIOUS
<1>4. PICK g : g = DenseTerms(M, i, v)
  OBVIOUS
<1>5. /\ Terms(f, count) /\ Terms(g, n)
      /\ \A p \in Positions(M, i) :
           f[p - first] = At(M.vals, p) * v[At(M.cols, p) - M.base]
  BY <1>2, <1>3, <1>4, TermsAre
<1>6. PICK s : Sums(s, f, count) /\ Total(f, count) = s[count]
  BY <1>5, TotalIs
<1>7. PICK u : Sums(u, g, n) /\ Total(g, n) = u[n]
  BY <1>5, TotalIs
<1>8. /\ \A k \in 0 .. count : s[k] \in Int
      /\ s[0] = 0 /\ \A k \in 0 .. count - 1 : s[k + 1] = s[k] + f[k]
  BY <1>6 DEF Sums
<1>9. /\ u[0] = 0 /\ \A k \in 0 .. n - 1 : u[k + 1] = u[k] + g[k]
  BY <1>7 DEF Sums
<1> DEFINE S == {k \in Nat : k <= n => u[k] = s[Place(M, i, M.base + k) - first]}
<1>10. 0 \in S
  <2>1. Place(M, i, M.base + 0) = RowStart(M, i) /\ first - first = 0
    BY <1>1, RowBounds
  <2> QED
    BY <1>2, <1>8, <1>9, <2>1
<1>11. \A k \in Nat : k \in S => k + 1 \in S
  <2> SUFFICES ASSUME NEW k \in Nat, k \in S, k + 1 <= n
               PROVE  u[k + 1] = s[Place(M, i, M.base + (k + 1)) - first]
    OBVIOUS
  <2>0. u[k] = s[Place(M, i, M.base + k) - first]
    OBVIOUS
  <2> HIDE DEF S
  <2>1. PICK col \in Cols(M) : col = M.base + k
    <3>1. k \in 0 .. M.n - 1 /\ M.base \in Int /\ M.n \in Int
      BY <1>1, <1>2
    <3>2. M.base + k \in M.base .. M.base + M.n - 1
      BY <3>1, OffsetIn, Zenon
    <3> QED
      BY <3>2, Zenon DEF Cols
  <2>2. PICK p : p = Place(M, i, col)
    OBVIOUS
  <2>3. \/ /\ p \in Positions(M, i) /\ At(M.cols, p) = col
           /\ Get(M, i, col) = At(M.vals, p) /\ Place(M, i, col + 1) = p + 1
        \/ Get(M, i, col) = 0 /\ Place(M, i, col + 1) = p
    BY <2>2, NextColumn
  <2>4. M.base + (k + 1) = col + 1 /\ col - M.base = k /\ k \in 0 .. n - 1
    BY <1>1, <2>1
  <2>5. u[k + 1] = u[k] + Get(M, i, col) * v[k]
    <3>1. g[k] = Get(M, i, col) * v[k]
      BY <1>2, <1>4, <2>1, <2>4 DEF DenseTerms
    <3> QED
      BY <1>9, <2>4, <3>1
  <2>6. u[k] = s[p - first]
    BY <2>0, <2>1, <2>2
  <2>7. p - first \in 0 .. count
    <3>1. col \in Int
      BY <1>1, <2>1
    <3>2. p \in RowStart(M, i) .. RowEnd(M, i)
      BY <2>2, <3>1, PlaceIs
    <3> QED
      BY <1>1, <1>2, <3>2
  <2>8. s[p - first] \in Int
    BY <1>8, <2>7
  <2>9. CASE /\ p \in Positions(M, i) /\ At(M.cols, p) = col
             /\ Get(M, i, col) = At(M.vals, p) /\ Place(M, i, col + 1) = p + 1
    <3>1. PICK d \in 0 .. count - 1 : d = p - first /\ d + 1 = (p + 1) - first
      <4>1. p - first \in 0 .. count - 1 /\ (p - first) + 1 = (p + 1) - first
        <5>1. p \in Int /\ first <= p /\ p <= first + count - 1
          BY <1>1, <1>2, <2>9 DEF Positions
        <5>2. \A a, b, c \in Int :
                a <= b /\ b <= a + c - 1 =>
                  b - a \in 0 .. c - 1 /\ (b - a) + 1 = (b + 1) - a
          OBVIOUS
        <5>3. p \in Int /\ first \in Int /\ count \in Int
          BY <1>2, <5>1
        <5> QED
          BY <5>1, <5>2, <5>3, Zenon
      <4> QED
        BY <4>1
    <3>2. f[d] = Get(M, i, col) * v[k]
      BY <1>5, <2>4, <2>9, <3>1
    <3>3. s[d + 1] = s[d] + f[d]
      BY <1>8
    <3>4. u[k + 1] = s[d + 1]
      BY <2>5, <2>6, <3>1, <3>2, <3>3
    <3>5. Place(M, i, M.base + (k + 1)) - first = d + 1
      BY <2>4, <2>9, <3>1, Zenon
    <3> QED
      BY <3>4, <3>5
  <2>10. CASE Get(M, i, col) = 0 /\ Place(M, i, col + 1) = p
    <3>1. 0 * v[k] = 0
      <4>1. v[k] \in Int
        BY <1>2, <2>4, SizeFacts DEF T
      <4> QED
        BY <4>1
    <3> QED
      BY <2>4, <2>5, <2>6, <2>8, <2>10, <3>1
  <2> QED
    BY <2>3, <2>9, <2>10
<1>12. u[n] = s[Place(M, i, M.base + n) - first]
  <2>1. Nat \subseteq S
    <3> HIDE DEF S
    <3> QED
      BY <1>10, <1>11, Induction
  <2> QED
    BY <2>1
<1>13. Place(M, i, M.base + n) - first = count
  BY <1>1, <1>2, RowBounds
<1> QED
  BY <1>2, <1>3, <1>4, <1>6, <1>7, <1>12, <1>13

(* A row of the stored elements times a vector is the row of the array.     *)
LEMMA RowProduct ==
  ASSUME NEW M, Crs(M), NEW i \in 0 .. M.m - 1, NEW v \in [0 .. M.n - 1 -> T]
  PROVE  MultiplyRow(M, M.base + i, v) = Dense!RowTimes(Content(M), i, v)
<1>1. M.base \in Int /\ M.m \in Nat /\ M.n \in Nat
  BY CrsFacts
<1>2. PICK rw \in Rows(M) : rw = M.base + i
  BY <1>1 DEF Rows
<1>3. PICK a : a = Content(M)
  OBVIOUS
<1>4. Dense!RowTimes(a, i, v) = Total(DenseTerms(M, rw, v), M.n) % Modulus
  <2>1. Dense!RowTimes(a, i, v)
          = Total([k \in 0 .. a.n - 1 |-> ElementAt(a.at, i, k) * v[k]], a.n) % Modulus
    BY Zenon DEF Dense!RowTimes, Dense!Total, Total, ElementAt
  <2>2. /\ a.n = M.n
        /\ \A k \in 0 .. M.n - 1 : ElementAt(a.at, i, k) = Get(M, rw, M.base + k)
    <3>1. /\ a = [m |-> M.m, n |-> M.n, at |-> a.at]
          /\ \A r \in 0 .. M.m - 1, c \in 0 .. M.n - 1 :
               ElementAt(a.at, r, c) = Get(M, M.base + r, M.base + c)
      BY <1>3, ContentIs
    <3> QED
      BY <1>2, <3>1
  <2>3. [k \in 0 .. a.n - 1 |-> ElementAt(a.at, i, k) * v[k]] = DenseTerms(M, rw, v)
    BY <2>2 DEF DenseTerms
  <2> QED
    BY <2>1, <2>2, <2>3
<1>5. Total(RowTerms(M, rw, v), RowEnd(M, rw) - RowStart(M, rw))
        = Total(DenseTerms(M, rw, v), M.n)
  BY SumsAgree
<1>6. CASE M.vals # Null
  <2>1. MultiplyRow(M, rw, v)
          = Total(RowTerms(M, rw, v), RowEnd(M, rw) - RowStart(M, rw)) % Modulus
    BY <1>6, Zenon DEF MultiplyRow, RowTerms
  <2> QED
    BY <1>2, <1>3, <1>4, <1>5, <2>1
<1>7. CASE M.vals = Null
  <2>1. MultiplyRow(M, rw, v) = 0
    BY <1>7, Zenon DEF MultiplyRow
  <2>2. RowEnd(M, rw) - RowStart(M, rw) = 0
    <3>1. /\ RowStart(M, rw) \in Nat /\ RowEnd(M, rw) \in Nat
          /\ RowStart(M, rw) <= RowEnd(M, rw) /\ RowEnd(M, rw) <= Stores(M)
      BY CrsFacts
    <3>2. Stores(M) = 0
      BY <1>7 DEF Stores
    <3> QED
      BY <3>1, <3>2
  <2>3. Total(RowTerms(M, rw, v), RowEnd(M, rw) - RowStart(M, rw)) = 0
    <3>1. Terms(RowTerms(M, rw, v), 0)
      BY DEF Terms
    <3>2. \E s : Sums(s, RowTerms(M, rw, v), 0) /\ Total(RowTerms(M, rw, v), 0) = s[0]
      BY <3>1, TotalIs
    <3> QED
      BY <2>2, <3>2 DEF Sums
  <2>4. 0 % Modulus = 0
    BY SizeFacts
  <2> QED
    BY <1>2, <1>3, <1>4, <1>5, <2>1, <2>3, <2>4
<1> QED
  BY <1>6, <1>7

(* A task waits once, and as what it is said to be; and a task that is      *)
(* pending waits.                                                           *)
Waits(t) == \E k \in 1 .. Len(pending) : pending[k] = t

QueueInv ==
  /\ pending \in Seq(Task)
  /\ \A k \in 1 .. Len(pending) : status[pending[k]] = "pending"
  /\ \A t \in Task : status[t] = "pending" => Waits(t)
  /\ \A k, l \in 1 .. Len(pending) : pending[k] = pending[l] => k = l

NoneLeft ==
  /\ pending = <<>>
  /\ \A t \in Task : status[t] \notin {"pending", "running"}

(* The product row by row in the pool: what the main thread has left to do, *)
(* that a task that is done has left its row's product in its future, and   *)
(* that no task is left when the pool is destroyed.                         *)
ProductInv ==
  /\ MatricesInv
  /\ pc \in {"fill", "enqueue", "get", "leave", "unread", "left", "gone"}
  /\ DOMAIN status = Task /\ DOMAIN y = Task
  /\ QueueInv
  /\ pc = "fill" => /\ row = 0 /\ pending = <<>>
                    /\ \A t \in Task : status[t] = "new"
  /\ pc # "fill" => /\ mat[Shared] # Null
                    /\ x \in [0 .. mat[Shared].n - 1 -> T]
                    /\ row \in 0 .. mat[Shared].m - 1
  /\ pc \in {"left", "gone"} => NoneLeft
  /\ \A t \in Task :
       status[t] = "done" =>
         y[t] = MultiplyRow(mat[Shared], mat[Shared].base + t, x)
  /\ \A t \in Got : t \in Task /\ status[t] = "done"

LEMMA GotIs ==
  /\ pc \notin {"get", "leave"} => Got = {}
  /\ pc = "get" => Got = 0 .. row - 1
  /\ pc = "leave" => Got = 0 .. mat[Shared].m - 1
BY DEF Got

LEMMA SharedIs ==
  ASSUME MatricesInv, mat[Shared] # Null
  PROVE  /\ Crs(mat[Shared]) /\ mat[Shared].m \in Nat /\ mat[Shared].m > 0
         /\ 0 .. mat[Shared].m - 1 \subseteq Task
<1>1. PICK M : M = mat[Shared]
  OBVIOUS
<1>2. Crs(M) /\ M.m \in Nat /\ M.m > 0
  BY <1>1, ProductAssumption, CrsFacts DEF MatricesInv
<1>3. M.m \in Sizes
  BY <1>2 DEF Crs
<1>4. 0 .. M.m - 1 \subseteq Task
  BY <1>3 DEF Task
<1> QED
  BY <1>1, <1>2, <1>4

LEMMA StartProduct == Start => ProductInv
<1> SUFFICES ASSUME Start PROVE ProductInv
  OBVIOUS
<1>1. MatricesInv
  BY InitMatrices DEF Start
<1>2. /\ pc = "fill" /\ row = 0 /\ pending = <<>>
      /\ DOMAIN status = Task /\ DOMAIN y = Task
      /\ \A t \in Task : status[t] = "new"
  BY DEF Start, Pool!Init
<1>3. QueueInv
  BY <1>2 DEF QueueInv
<1> QED
  BY <1>1, <1>2, <1>3, GotIs DEF ProductInv

LEMMA FillProduct ==
  ASSUME ProductInv, MatricesInv', Fill
  PROVE  ProductInv'
<1>1. pc = "fill" /\ UNCHANGED <<pc, row, x, y, pending, status, phase>>
  BY DEF Fill, poolVars
<1>2. \A t \in Task : status[t] # "done"
  BY <1>1 DEF ProductInv
<1>3. Got' = {}
  BY <1>1 DEF Got
<1>4. QueueInv'
  BY <1>1 DEF ProductInv, QueueInv, Waits
<1> QED
  BY <1>1, <1>2, <1>3, <1>4 DEF ProductInv

LEMMA PrepareProduct ==
  ASSUME ProductInv, MatricesInv', Prepare
  PROVE  ProductInv'
<1>1. /\ pc = "fill" /\ pc' = "enqueue" /\ mat[Shared] # Null
      /\ x' \in [0 .. mat[Shared].n - 1 -> T]
      /\ UNCHANGED <<base, mat, row, y, pending, status, phase>>
  BY DEF Prepare, poolVars
<1>2. /\ \A t \in Task : status[t] # "done"
      /\ row \in 0 .. mat[Shared].m - 1
  <2>1. row = 0 /\ \A t \in Task : status[t] = "new"
    BY <1>1 DEF ProductInv
  <2>2. mat[Shared].m \in Nat /\ mat[Shared].m > 0
    BY <1>1, SharedIs DEF ProductInv
  <2> QED
    BY <2>1, <2>2
<1>3. Got' = {}
  BY <1>1 DEF Got
<1>4. QueueInv'
  BY <1>1 DEF ProductInv, QueueInv, Waits
<1> QED
  BY <1>1, <1>2, <1>3, <1>4 DEF ProductInv

(* The main thread stays among the rows.                                    *)
LEMMA NextRowIs ==
  ASSUME ProductInv, pc # "fill", NEW then, NextRow(then), UNCHANGED mat
  PROVE  /\ row' \in 0 .. mat[Shared].m - 1
         /\ \/ row' = row + 1 /\ pc' = pc
            \/ row' = 0 /\ pc' = then /\ row = mat[Shared].m - 1
<1>1. row \in 0 .. mat[Shared].m - 1 /\ mat[Shared].m \in Nat /\ mat[Shared].m > 0
  BY SharedIs DEF ProductInv
<1> QED
  BY <1>1 DEF NextRow

LEMMA EnqueueProduct ==
  ASSUME ProductInv, MatricesInv', Enqueue
  PROVE  ProductInv'
<1>1. /\ pc = "enqueue" /\ (NextRow("get") \/ NextRow("unread"))
      /\ status' = [status EXCEPT ![row] = "pending"]
      /\ UNCHANGED <<base, mat, x, y>>
  BY DEF Enqueue, Pool!Accept
<1>2. /\ row' \in 0 .. mat[Shared].m - 1
      /\ pc' \in {"enqueue", "get", "unread"} /\ (pc' = "get" => row' = 0)
  <2>1. /\ row' \in 0 .. mat[Shared].m - 1
        /\ \/ row' = row + 1 /\ pc' = pc
           \/ row' = 0 /\ pc' \in {"get", "unread"}
    BY <1>1, NextRowIs
  <2> QED
    BY <1>1, <2>1
<1>3. \A t \in Task : status'[t] = "done" => status[t] = "done"
  BY <1>1 DEF ProductInv
<1>4. Got' = {}
  BY <1>2 DEF Got
<1>5. mat[Shared] # Null /\ x \in [0 .. mat[Shared].n - 1 -> T] /\ DOMAIN status' = Task
  BY <1>1 DEF ProductInv
<1>6. QueueInv'
  <2>1. /\ pending \in Seq(Task) /\ row \in Task /\ status[row] = "new"
        /\ pending' = Append(pending, row)
        /\ \A k \in 1 .. Len(pending) : status[pending[k]] = "pending"
        /\ \A t \in Task : status[t] = "pending" => Waits(t)
        /\ \A k, l \in 1 .. Len(pending) : pending[k] = pending[l] => k = l
        /\ DOMAIN status = Task
    <3>1. MatricesInv /\ mat[Shared] # Null /\ row \in 0 .. mat[Shared].m - 1
      BY <1>1 DEF ProductInv
    <3>2. row \in Task
      BY <3>1, SharedIs
    <3> QED
      BY <3>2 DEF Enqueue, Pool!Accept, ProductInv, QueueInv
  <2>2. /\ pending' \in Seq(Task) /\ Len(pending') = Len(pending) + 1
        /\ Len(pending) \in Nat
        /\ \A k \in 1 .. Len(pending) : pending'[k] = pending[k] /\ pending[k] \in Task
        /\ pending'[Len(pending) + 1] = row
    BY <2>1
  <2>3. ASSUME NEW k \in 1 .. Len(pending')
        PROVE  \/ k \in 1 .. Len(pending) /\ pending'[k] = pending[k] /\ pending[k] # row
               \/ k = Len(pending) + 1 /\ pending'[k] = row
    BY <2>1, <2>2
  <2>4. \A k \in 1 .. Len(pending') : status'[pending'[k]] = "pending"
    BY <1>1, <2>1, <2>2, <2>3
  <2>5. \A k, l \in 1 .. Len(pending') : pending'[k] = pending'[l] => k = l
    BY <2>1, <2>3
  <2>6. ASSUME NEW t \in Task, status'[t] = "pending"
        PROVE  \E k \in 1 .. Len(pending') : pending'[k] = t
    <3>1. CASE t = row
      BY <2>2, <3>1
    <3>2. CASE t # row
      <4>1. status[t] = "pending"
        BY <1>1, <2>1, <2>6, <3>2
      <4>2. PICK k \in 1 .. Len(pending) : pending[k] = t
        BY <2>1, <4>1 DEF Waits
      <4> QED
        BY <2>2, <4>2
    <3> QED
      BY <3>1, <3>2
  <2> QED
    BY <2>2, <2>4, <2>5, <2>6 DEF QueueInv, Waits
<1> QED
  BY <1>1, <1>2, <1>3, <1>4, <1>5, <1>6 DEF ProductInv

LEMMA GetProduct ==
  ASSUME ProductInv, MatricesInv', GetResult
  PROVE  ProductInv'
<1>1. /\ pc = "get" /\ status[row] = "done" /\ NextRow("leave")
      /\ UNCHANGED <<base, mat, x, y, pending, status, phase>>
  BY DEF GetResult, poolVars
<1>2. /\ mat[Shared] # Null /\ x \in [0 .. mat[Shared].n - 1 -> T]
      /\ row \in 0 .. mat[Shared].m - 1 /\ Got = 0 .. row - 1
      /\ mat[Shared].m \in Nat /\ 0 .. mat[Shared].m - 1 \subseteq Task
  <2>1. /\ mat[Shared] # Null /\ x \in [0 .. mat[Shared].n - 1 -> T]
        /\ row \in 0 .. mat[Shared].m - 1 /\ MatricesInv
    BY <1>1 DEF ProductInv
  <2> QED
    BY <1>1, <2>1, GotIs, SharedIs
<1>3. /\ row' \in 0 .. mat[Shared].m - 1
      /\ \/ row' = row + 1 /\ pc' = "get"
         \/ row' = 0 /\ pc' = "leave" /\ row = mat[Shared].m - 1
  BY <1>1, NextRowIs
<1>4. Got' = Got \cup {row}
  <2>1. CASE row' = row + 1 /\ pc' = "get"
    <3>1. Got' = 0 .. row' - 1
      BY <2>1 DEF Got
    <3> QED
      BY <1>2, <2>1, <3>1
  <2>2. CASE row' = 0 /\ pc' = "leave" /\ row = mat[Shared].m - 1
    <3>1. Got' = 0 .. mat[Shared].m - 1
      BY <1>1, <2>2 DEF Got
    <3> QED
      BY <1>2, <2>2, <3>1
  <2> QED
    BY <1>3, <2>1, <2>2
<1>5. \A t \in Got' : t \in Task /\ status[t] = "done"
  BY <1>1, <1>2, <1>4 DEF ProductInv
<1>6. pc' \in {"get", "leave"}
  BY <1>3
<1>7. QueueInv'
  BY <1>1 DEF ProductInv, QueueInv, Waits
<1> QED
  BY <1>1, <1>2, <1>3, <1>5, <1>6, <1>7 DEF ProductInv

LEMMA LeaveProduct ==
  ASSUME ProductInv, MatricesInv', Leave
  PROVE  ProductInv'
<1>1. /\ pc \in {"leave", "unread"} /\ pc' \in {pc, "left"}
      /\ UNCHANGED <<base, mat, row, x, y, pending, status>>
  BY DEF Leave, Pool!Close, Pool!Closed
<1>2. Got' \in {Got, {}}
  BY <1>1 DEF Got
<1>3. QueueInv'
  BY <1>1 DEF ProductInv, QueueInv, Waits
<1>4. pc' = "left" => NoneLeft'
  <2> SUFFICES ASSUME pc' = "left" PROVE NoneLeft'
    OBVIOUS
  <2>1. pending = <<>> /\ Pool!Running = {}
    BY <1>1 DEF Leave, Pool!Closed
  <2>2. \A t \in Task : status[t] # "running"
    BY <2>1 DEF Pool!Running
  <2>3. \A t \in Task : status[t] # "pending"
    BY <2>1 DEF ProductInv, QueueInv, Waits
  <2> QED
    BY <1>1, <2>1, <2>2, <2>3 DEF NoneLeft
<1> QED
  BY <1>1, <1>2, <1>3, <1>4 DEF ProductInv

LEMMA DestroyProduct ==
  ASSUME ProductInv, MatricesInv', Destroy
  PROVE  ProductInv'
<1>1. /\ pc = "left" /\ pc' = "gone"
      /\ UNCHANGED <<base, mat, row, x, y, pending, status>>
  BY DEF Destroy, poolVars
<1>2. Got' = {}
  BY <1>1 DEF Got
<1>3. QueueInv' /\ NoneLeft'
  BY <1>1 DEF ProductInv, QueueInv, Waits, NoneLeft
<1> QED
  BY <1>1, <1>2, <1>3 DEF ProductInv

LEMMA WorkProduct ==
  ASSUME ProductInv, MatricesInv', NEW t \in Task, Work(t)
  PROVE  ProductInv'
<1>1. UNCHANGED <<base, mat, pc, row, x>>
  BY DEF Work
<1>2. Got' = Got
  BY <1>1 DEF Got
<1>3. pc \notin {"fill", "left", "gone"}
  <2>1. pending # <<>> \/ status[t] = "running"
    BY DEF Work, Pool!Start, Pool!Finish
  <2> QED
    BY <2>1 DEF ProductInv, NoneLeft
<1>4. CASE Pool!Start(t) /\ UNCHANGED y
  <2>1. status' = [status EXCEPT ![t] = "running"]
    BY <1>4 DEF Pool!Start
  <2>2. /\ pending # <<>> /\ pending' = Tail(pending) /\ t = pending[1]
        /\ pending \in Seq(Task) /\ DOMAIN status = Task
        /\ \A k \in 1 .. Len(pending) : status[pending[k]] = "pending"
        /\ \A u \in Task : status[u] = "pending" => Waits(u)
        /\ \A k, l \in 1 .. Len(pending) : pending[k] = pending[l] => k = l
    BY <1>4 DEF Pool!Start, ProductInv, QueueInv
  <2>3. /\ Len(pending) \in Nat /\ 1 \in 1 .. Len(pending)
        /\ pending' \in Seq(Task) /\ Len(pending') = Len(pending) - 1
        /\ \A k \in 1 .. Len(pending) - 1 :
             /\ k + 1 \in 1 .. Len(pending) /\ pending'[k] = pending[k + 1]
             /\ pending[k + 1] \in Task
    BY <2>2
  <2>4. t \notin Got
    BY <2>2, <2>3 DEF ProductInv
  <2>5. QueueInv'
    <3>1. \A k \in 1 .. Len(pending') : status'[pending'[k]] = "pending"
      <4> SUFFICES ASSUME NEW k \in 1 .. Len(pending') PROVE status'[pending'[k]] = "pending"
        OBVIOUS
      <4>1. pending'[k] = pending[k + 1] /\ k + 1 \in 1 .. Len(pending) /\ k + 1 # 1
        BY <2>3
      <4>2. pending[k + 1] # t /\ status[pending[k + 1]] = "pending" /\ pending[k + 1] \in Task
        BY <2>2, <2>3, <4>1
      <4> QED
        BY <2>1, <2>2, <4>1, <4>2
    <3>2. \A k, l \in 1 .. Len(pending') : pending'[k] = pending'[l] => k = l
      <4> SUFFICES ASSUME NEW k \in 1 .. Len(pending'), NEW l \in 1 .. Len(pending'),
                          pending'[k] = pending'[l]
                   PROVE  k = l
        OBVIOUS
      <4>1. pending[k + 1] = pending[l + 1]
        BY <2>3
      <4>2. k + 1 = l + 1
        BY <2>2, <2>3, <4>1
      <4> QED
        BY <2>3, <4>2
    <3>3. ASSUME NEW u \in Task, status'[u] = "pending"
          PROVE  \E k \in 1 .. Len(pending') : pending'[k] = u
      <4>1. u # t /\ status[u] = "pending"
        BY <2>1, <2>2, <3>3
      <4>2. PICK k \in 1 .. Len(pending) : pending[k] = u
        BY <2>2, <4>1 DEF Waits
      <4>3. k \in Nat /\ k # 1 /\ k <= Len(pending) /\ k >= 1
        BY <2>2, <2>3, <4>1, <4>2
      <4>4. k - 1 \in 1 .. Len(pending) - 1 /\ (k - 1) + 1 = k
        BY <2>3, <4>3
      <4>5. pending'[k - 1] = u
        BY <2>3, <4>2, <4>4
      <4> QED
        BY <2>3, <4>4, <4>5
    <3> QED
      BY <2>3, <3>1, <3>2, <3>3 DEF QueueInv, Waits
  <2> QED
    BY <1>1, <1>2, <1>3, <1>4, <2>1, <2>4, <2>5 DEF ProductInv
<1>5. CASE Pool!Finish(t) /\ y' = [y EXCEPT ![t] = MultiplyRow(mat[Shared], mat[Shared].base + t, x)]
  <2>1. status' = [status EXCEPT ![t] = "done"]
    BY <1>5 DEF Pool!Finish
  <2>2. /\ DOMAIN status' = Task /\ DOMAIN y' = Task
        /\ \A u \in Task :
             status'[u] = "done" =>
               y'[u] = MultiplyRow(mat[Shared], mat[Shared].base + u, x)
    BY <1>5, <2>1 DEF ProductInv
  <2>3. \A u \in Got : u \in Task /\ status'[u] = "done"
    BY <2>1 DEF ProductInv
  <2>4. QueueInv'
    <3>1. status[t] = "running" /\ pending' = pending
      BY <1>5 DEF Pool!Finish
    <3>2. \A k \in 1 .. Len(pending) : pending[k] # t /\ status'[pending[k]] = "pending"
      BY <2>1, <3>1 DEF ProductInv, QueueInv
    <3>3. \A u \in Task : status'[u] = "pending" => status[u] = "pending"
      BY <2>1 DEF ProductInv
    <3> QED
      BY <3>1, <3>2, <3>3 DEF ProductInv, QueueInv, Waits
  <2> QED
    BY <1>1, <1>2, <1>3, <2>2, <2>3, <2>4 DEF ProductInv
<1> QED
  BY <1>4, <1>5 DEF Work

LEMMA NextProduct == ProductInv /\ [Next]_vars => ProductInv'
<1> SUFFICES ASSUME ProductInv, [Next]_vars PROVE ProductInv'
  OBVIOUS
<1>1. MatricesInv'
  BY NextMatrices DEF ProductInv
<1>2. CASE Fill
  BY <1>1, <1>2, FillProduct
<1>3. CASE Prepare
  BY <1>1, <1>3, PrepareProduct
<1>4. CASE Enqueue
  BY <1>1, <1>4, EnqueueProduct
<1>5. CASE GetResult
  BY <1>1, <1>5, GetProduct
<1>6. CASE Leave
  BY <1>1, <1>6, LeaveProduct
<1>7. CASE \E t \in Task : Work(t)
  BY <1>1, <1>7, WorkProduct
<1>8. CASE Destroy
  BY <1>1, <1>8, DestroyProduct
<1>9. CASE UNCHANGED vars
  <2>1. UNCHANGED <<base, mat, pc, row, x, y, pending, status, phase>>
    BY <1>9 DEF vars, poolVars
  <2>2. Got' = Got
    BY <2>1 DEF Got
  <2> QED
    BY <1>1, <2>1, <2>2 DEF ProductInv, QueueInv, Waits, NoneLeft
<1> QED
  BY <1>2, <1>3, <1>4, <1>5, <1>6, <1>7, <1>8, <1>9 DEF Next, Gone

LEMMA ProductCorrect == ProductInv => ProductsRight
<1> SUFFICES ASSUME ProductInv PROVE ProductsRight
  OBVIOUS
<1>1. ASSUME NEW z \in Name, mat[z] # Null, NEW v \in [0 .. mat[z].n - 1 -> T]
      PROVE  MultiplyVector(mat[z], v)
               = [i \in 0 .. mat[z].m - 1 |-> Dense!RowTimes(Content(mat[z]), i, v)]
  <2>1. PICK M : M = mat[z]
    OBVIOUS
  <2>2. Crs(M) /\ v \in [0 .. M.n - 1 -> T]
    BY <1>1, <2>1 DEF ProductInv, MatricesInv
  <2>3. \A i \in 0 .. M.m - 1 : MultiplyRow(M, M.base + i, v) = Dense!RowTimes(Content(M), i, v)
    BY <2>2, RowProduct
  <2>4. MultiplyVector(M, v) = [i \in 0 .. M.m - 1 |-> Dense!RowTimes(Content(M), i, v)]
    BY <2>3 DEF MultiplyVector
  <2> QED
    BY <2>1, <2>4
<1>2. ASSUME NEW t \in Got
      PROVE  y[t] = Dense!RowTimes(Content(mat[Shared]), t, x)
  <2>1. /\ pc \in {"get", "leave"} /\ mat[Shared] # Null
        /\ row \in 0 .. mat[Shared].m - 1 /\ x \in [0 .. mat[Shared].n - 1 -> T]
        /\ y[t] = MultiplyRow(mat[Shared], mat[Shared].base + t, x)
    <3>1. pc \in {"get", "leave"}
      BY <1>2, GotIs
    <3> QED
      BY <1>2, <3>1 DEF ProductInv
  <2>2. PICK M : M = mat[Shared]
    OBVIOUS
  <2>3. Crs(M) /\ M.m \in Nat
    BY <2>1, <2>2, SharedIs DEF ProductInv
  <2>4. t \in 0 .. M.m - 1
    BY <2>1, <2>2, <2>3, GotIs
  <2>5. MultiplyRow(M, M.base + t, x) = Dense!RowTimes(Content(M), t, x)
    BY <2>1, <2>2, <2>3, <2>4, RowProduct
  <2> QED
    BY <2>1, <2>2, <2>5
<1>3. pc = "gone" => \A t \in Task : status[t] \notin {"pending", "running"}
  BY DEF ProductInv, NoneLeft
<1> QED
  BY <1>1, <1>2, <1>3 DEF ProductsRight

(* A product with a vector, in one go or row by row by however many workers *)
(* in whatever order, is the product of the array: no task reads a matrix   *)
(* that still changes, no future is read before its task is done, and no    *)
(* task is left when the matrix is destroyed.                               *)
THEOREM RowProductsRight == Spec => []ProductsRight
<1>1. Start => ProductInv
  BY StartProduct
<1>2. ProductInv /\ [Next]_vars => ProductInv'
  BY NextProduct
<1> QED
  BY <1>1, <1>2, ProductCorrect, PTL DEF Spec

-----------------------------------------------------------------------------
(* One array, one representation                                            *)

Alike(A, B) ==
  /\ Crs(A) /\ Crs(B) /\ A.base = B.base /\ A.m = B.m /\ A.n = B.n
  /\ \A i \in Rows(A), j \in Cols(A) : Get(A, i, j) = Get(B, i, j)

LEMMA NextColumnIs ==
  ASSUME NEW M, Crs(M), NEW i \in Rows(M), NEW col \in Cols(M)
  PROVE  Place(M, i, col + 1)
           = IF Get(M, i, col) = 0 THEN Place(M, i, col) ELSE Place(M, i, col) + 1
<1> DEFINE p == Place(M, i, col)
<1>1. \/ /\ p \in Positions(M, i) /\ At(M.cols, p) = col
         /\ Get(M, i, col) = At(M.vals, p) /\ Place(M, i, col + 1) = p + 1
      \/ Get(M, i, col) = 0 /\ Place(M, i, col + 1) = p
  BY NextColumn
<1> HIDE DEF p
<1>2. p \in Positions(M, i) => At(M.vals, p) # 0
  <2>1. /\ RowStart(M, i) \in Nat /\ RowEnd(M, i) \in Nat
        /\ RowEnd(M, i) <= Stores(M) /\ Stores(M) \in Nat
        /\ \A q \in 0 .. Stores(M) - 1 : At(M.vals, q) \in 1 .. Modulus - 1
    BY CrsFacts
  <2>2. p \in Positions(M, i) => p \in 0 .. Stores(M) - 1
    BY <2>1 DEF Positions
  <2> QED
    BY <2>1, <2>2, SizeFacts
<1> QED
  BY <1>1, <1>2 DEF p

(* Rows that begin alike and read alike have their elements in the same     *)
(* places.                                                                  *)
LEMMA SamePlaces ==
  ASSUME NEW A, NEW B, Alike(A, B), NEW i \in Rows(A), RowStart(A, i) = RowStart(B, i)
  PROVE  \A k \in 0 .. A.n : Place(A, i, A.base + k) = Place(B, i, A.base + k)
<1>1. /\ Crs(A) /\ Crs(B) /\ A.base \in Int /\ A.n \in Nat
      /\ A.base = B.base /\ Rows(B) = Rows(A) /\ Cols(B) = Cols(A)
  <2>1. Crs(A) /\ Crs(B) /\ A.base = B.base /\ A.m = B.m /\ A.n = B.n
    BY DEF Alike
  <2>2. A.base \in Int /\ A.n \in Nat
    BY <2>1, CrsFacts
  <2> QED
    BY <2>1, <2>2 DEF Rows, Cols
<1> DEFINE S == {k \in Nat : k <= A.n => Place(A, i, A.base + k) = Place(B, i, A.base + k)}
<1>2. 0 \in S
  <2>1. Place(A, i, A.base) = Place(B, i, A.base)
    BY <1>1, RowBounds
  <2>2. A.base + 0 = A.base
    BY <1>1
  <2> QED
    BY <2>1, <2>2
<1>3. \A k \in Nat : k \in S => k + 1 \in S
  <2> SUFFICES ASSUME NEW k \in Nat, k \in S, k + 1 <= A.n
               PROVE  Place(A, i, A.base + (k + 1)) = Place(B, i, A.base + (k + 1))
    OBVIOUS
  <2>1. Place(A, i, A.base + k) = Place(B, i, A.base + k)
    BY <1>1
  <2> HIDE DEF S
  <2>2. PICK col \in Cols(A) : col = A.base + k
    <3>1. A.base + k \in Cols(A)
      BY <1>1 DEF Cols
    <3> QED
      BY <3>1
  <2>3. A.base + (k + 1) = col + 1
    BY <1>1, <2>2
  <2>4. Get(A, i, col) = Get(B, i, col)
    BY DEF Alike
  <2>5. /\ Place(A, i, col + 1)
            = IF Get(A, i, col) = 0 THEN Place(A, i, col) ELSE Place(A, i, col) + 1
        /\ Place(B, i, col + 1)
            = IF Get(B, i, col) = 0 THEN Place(B, i, col) ELSE Place(B, i, col) + 1
    BY <1>1, NextColumnIs
  <2>6. Place(A, i, col + 1) = Place(B, i, col + 1)
    BY <2>1, <2>2, <2>4, <2>5
  <2> QED
    BY <2>3, <2>6, Zenon
<1>4. Nat \subseteq S
  <2> HIDE DEF S
  <2> QED
    BY <1>2, <1>3, Induction
<1> QED
  BY <1>1, <1>4

LEMMA SameEnd ==
  ASSUME NEW A, NEW B, Alike(A, B), NEW i \in Rows(A), RowStart(A, i) = RowStart(B, i)
  PROVE  RowEnd(A, i) = RowEnd(B, i)
<1>1. /\ Crs(A) /\ Crs(B) /\ A.n \in Nat /\ A.base = B.base /\ A.n = B.n
      /\ Rows(B) = Rows(A)
  <2>1. Crs(A) /\ Crs(B) /\ A.base = B.base /\ A.m = B.m /\ A.n = B.n
    BY DEF Alike
  <2>2. A.n \in Nat
    BY <2>1, CrsFacts
  <2> QED
    BY <2>1, <2>2 DEF Rows
<1>2. Place(A, i, A.base + A.n) = RowEnd(A, i) /\ Place(B, i, B.base + B.n) = RowEnd(B, i)
  BY <1>1, RowBounds
<1>3. Place(A, i, A.base + A.n) = Place(B, i, A.base + A.n)
  <2>1. A.n \in 0 .. A.n
    BY <1>1
  <2> QED
    BY <2>1, SamePlaces
<1> QED
  BY <1>1, <1>2, <1>3

LEMMA SameRows ==
  ASSUME NEW A, NEW B, Alike(A, B)
  PROVE  A.rows = B.rows /\ Stores(A) = Stores(B)
<1>1. /\ Crs(A) /\ Crs(B) /\ A.base \in Int /\ A.m \in Nat
      /\ A.base = B.base /\ A.m = B.m /\ A.n = B.n
  <2>1. Crs(A) /\ Crs(B) /\ A.base = B.base /\ A.m = B.m /\ A.n = B.n
    BY DEF Alike
  <2>2. A.base \in Int /\ A.m \in Nat
    BY <2>1, CrsFacts
  <2> QED
    BY <2>1, <2>2
<1>2. /\ A.rows \in [1 .. A.m + 1 -> Int] /\ B.rows \in [1 .. A.m + 1 -> Int]
      /\ A.rows[1] = A.base /\ B.rows[1] = A.base
      /\ A.rows[A.m + 1] = A.base + Stores(A) /\ B.rows[A.m + 1] = A.base + Stores(B)
      /\ Stores(A) \in Nat /\ Stores(B) \in Nat
  <2>1. Stores(A) \in Nat /\ Stores(B) \in Nat
    BY <1>1, CrsFacts
  <2>2. /\ A.rows \in [1 .. A.m + 1 -> Int] /\ A.rows[1] = A.base
        /\ A.rows[A.m + 1] = A.base + Stores(A)
    BY <1>1 DEF Crs
  <2>3. /\ B.rows \in [1 .. B.m + 1 -> Int] /\ B.rows[1] = B.base
        /\ B.rows[B.m + 1] = B.base + Stores(B)
    BY <1>1 DEF Crs
  <2> QED
    BY <1>1, <2>1, <2>2, <2>3
<1> DEFINE S == {k \in Nat : k <= A.m => A.rows[k + 1] = B.rows[k + 1]}
<1>3. 0 \in S
  BY <1>2
<1>4. \A k \in Nat : k \in S => k + 1 \in S
  <2> SUFFICES ASSUME NEW k \in Nat, k \in S, k + 1 <= A.m
               PROVE  A.rows[(k + 1) + 1] = B.rows[(k + 1) + 1]
    OBVIOUS
  <2>1. A.rows[k + 1] = B.rows[k + 1]
    BY <1>1
  <2> HIDE DEF S
  <2>2. PICK i \in Rows(A) : i = A.base + k
    <3>1. A.base + k \in Rows(A)
      BY <1>1 DEF Rows
    <3> QED
      BY <3>1
  <2>3. i - A.base = k
    BY <1>1, <2>2
  <2>4. /\ RowStart(A, i) = A.rows[k + 1] - A.base
        /\ RowStart(B, i) = B.rows[k + 1] - A.base
        /\ RowEnd(A, i) = A.rows[(k + 1) + 1] - A.base
        /\ RowEnd(B, i) = B.rows[(k + 1) + 1] - A.base
    BY <1>1, <2>3, Zenon DEF RowStart, RowEnd, At
  <2>5. RowEnd(A, i) = RowEnd(B, i)
    BY <2>1, <2>4, SameEnd
  <2>6. (k + 1) + 1 \in 1 .. A.m + 1
    BY <1>1
  <2>7. A.rows[(k + 1) + 1] \in Int /\ B.rows[(k + 1) + 1] \in Int
    BY <1>2, <2>6
  <2> QED
    BY <1>1, <2>4, <2>5, <2>7
<1>5. \A k \in 0 .. A.m : A.rows[k + 1] = B.rows[k + 1]
  <2>1. Nat \subseteq S
    <3> HIDE DEF S
    <3> QED
      BY <1>3, <1>4, Induction
  <2> QED
    BY <1>1, <2>1
<1>6. \A l \in 1 .. A.m + 1 : A.rows[l] = B.rows[l]
  <2> SUFFICES ASSUME NEW l \in 1 .. A.m + 1 PROVE A.rows[l] = B.rows[l]
    OBVIOUS
  <2>1. PICK k \in 0 .. A.m : k + 1 = l
    <3>1. l - 1 \in 0 .. A.m /\ (l - 1) + 1 = l
      BY <1>1
    <3> QED
      BY <3>1, Zenon
  <2> QED
    BY <1>5, <2>1
<1>7. A.rows = B.rows
  <2>1. /\ A.rows = [l \in 1 .. A.m + 1 |-> A.rows[l]]
        /\ B.rows = [l \in 1 .. A.m + 1 |-> B.rows[l]]
    BY <1>2
  <2> QED
    BY <1>6, <2>1
<1> QED
  BY <1>1, <1>2, <1>7

(* Every position belongs to a row.                                         *)
LEMMA SomeRow ==
  ASSUME NEW M, Crs(M), NEW p \in 0 .. Stores(M) - 1
  PROVE  \E i \in Rows(M) : p \in Positions(M, i)
<1>1. M.base \in Int /\ M.base >= 0 /\ M.m \in Nat /\ Stores(M) \in Nat
  BY CrsFacts
<1>2. /\ \A k \in 1 .. M.m + 1 : M.rows[k] \in Int
      /\ M.rows[1] = M.base /\ M.rows[M.m + 1] = M.base + Stores(M)
  BY DEF Crs
<1> DEFINE S == {k \in 1 .. M.m + 1 : M.rows[k] > M.base + p}
<1>3. S \in SUBSET Nat /\ S # {}
  <2>1. M.m + 1 \in 1 .. M.m + 1 /\ M.rows[M.m + 1] > M.base + p
    BY <1>1, <1>2
  <2> QED
    BY <1>1, <2>1
<1>4. PICK k \in S : \A l \in S : k <= l
  <2> HIDE DEF S
  <2>1. Min(S) \in S /\ \A l \in S : Min(S) <= l
    BY <1>3, Least
  <2> QED
    BY <2>1
<1>5. /\ k \in 1 .. M.m + 1 /\ M.rows[k] > M.base + p /\ k # 1
      /\ \A l \in 1 .. M.m + 1 : l < k => ~(M.rows[l] > M.base + p)
  <2>1. k \in 1 .. M.m + 1 /\ M.rows[k] > M.base + p
    OBVIOUS
  <2>2. k # 1
    BY <1>1, <1>2, <2>1
  <2>3. ASSUME NEW l \in 1 .. M.m + 1, l < k, M.rows[l] > M.base + p PROVE FALSE
    <3>1. l \in S
      BY <2>3
    <3>2. k <= l
      BY <1>4, <3>1
    <3> QED
      BY <1>1, <2>1, <2>3, <3>2
  <2> QED
    BY <2>1, <2>2, <2>3
<1> HIDE DEF S
<1>6. PICK l \in 1 .. M.m + 1 : k = l + 1
  <2>1. k - 1 \in 1 .. M.m + 1 /\ k = (k - 1) + 1
    BY <1>1, <1>5
  <2> QED
    BY <2>1
<1>7. ~(M.rows[l] > M.base + p) /\ M.rows[l] \in Int /\ M.rows[k] \in Int
  BY <1>1, <1>2, <1>5, <1>6
<1>8. PICK i \in Rows(M) : i = (M.base + l) - 1
  <2>1. (M.base + l) - 1 \in Rows(M)
    BY <1>1, <1>5, <1>6 DEF Rows
  <2> QED
    BY <2>1
<1>9. (i - M.base) + 1 = l /\ ((i - M.base) + 1) + 1 = k
  BY <1>1, <1>6, <1>8
<1>10. RowStart(M, i) = M.rows[l] - M.base /\ RowEnd(M, i) = M.rows[k] - M.base
  BY <1>9, Zenon DEF RowStart, RowEnd, At
<1>11. p \in Positions(M, i)
  BY <1>1, <1>5, <1>7, <1>10 DEF Positions
<1> QED
  BY <1>11

LEMMA SameElements ==
  ASSUME NEW A, NEW B, Alike(A, B), NEW p \in 0 .. Stores(A) - 1
  PROVE  At(A.cols, p) = At(B.cols, p) /\ At(A.vals, p) = At(B.vals, p)
<1>1. /\ Crs(A) /\ Crs(B) /\ A.base = B.base /\ A.m = B.m /\ A.n = B.n
      /\ A.rows = B.rows /\ Stores(A) = Stores(B)
      /\ Rows(B) = Rows(A) /\ Cols(B) = Cols(A)
      /\ \A i : RowStart(A, i) = RowStart(B, i) /\ RowEnd(A, i) = RowEnd(B, i)
  <2>1. /\ Crs(A) /\ Crs(B) /\ A.base = B.base /\ A.m = B.m /\ A.n = B.n
    BY DEF Alike
  <2>2. A.rows = B.rows /\ Stores(A) = Stores(B)
    BY SameRows
  <2> QED
    BY <2>1, <2>2 DEF Rows, Cols, RowStart, RowEnd
<1>2. PICK i \in Rows(A) : p \in Positions(A, i)
  BY <1>1, SomeRow
<1>3. PICK col \in Cols(A) : col = At(A.cols, p)
  BY <1>1, CrsFacts
<1>4. /\ RowStart(A, i) \in Nat /\ RowEnd(A, i) \in Nat
      /\ A.base \in Int /\ A.n \in Nat /\ Stores(A) \in Nat /\ RowEnd(A, i) <= Stores(A)
      /\ \A q \in 0 .. Stores(A) - 1 :
           At(A.cols, q) \in Cols(A) /\ At(A.vals, q) \in 1 .. Modulus - 1
  BY <1>1, CrsFacts
<1>5. Place(A, i, col) = p
  <2>1. p \in RowStart(A, i) .. RowEnd(A, i)
    BY <1>2, <1>4 DEF Positions
  <2>2. ASSUME NEW q \in Positions(A, i)
        PROVE  IF q < p THEN At(A.cols, q) < col ELSE At(A.cols, q) >= col
    <3>1. q \in Int /\ p \in Int /\ q \in 0 .. Stores(A) - 1
      BY <1>4 DEF Positions
    <3>2. At(A.cols, q) \in Int /\ col \in Int
      BY <1>4, <3>1 DEF Cols
    <3>3. /\ q < p => At(A.cols, q) < At(A.cols, p)
          /\ p < q => At(A.cols, p) < At(A.cols, q)
      BY <1>1, <1>2 DEF Crs
    <3> QED
      BY <1>3, <3>1, <3>2, <3>3
  <2>3. col \in Int
    BY <1>4 DEF Cols
  <2> QED
    BY <1>1, <2>1, <2>2, <2>3, OnePosition
<1>6. Get(A, i, col) = At(A.vals, p) /\ At(A.vals, p) # 0
  <2>1. Get(A, i, col) = At(A.vals, p)
    BY <1>2, <1>3, <1>5 DEF Get
  <2> QED
    BY <1>4, <2>1, SizeFacts
<1>7. Place(B, i, col) = p
  <2>1. PICK k \in 0 .. A.n : col = A.base + k
    <3>1. col - A.base \in 0 .. A.n /\ col = A.base + (col - A.base)
      BY <1>4 DEF Cols
    <3> QED
      BY <3>1, Zenon
  <2>2. Place(A, i, A.base + k) = Place(B, i, A.base + k)
    BY <1>1, SamePlaces
  <2> QED
    BY <1>5, <2>1, <2>2
<1>8. Get(B, i, col) = At(A.vals, p)
  BY <1>6 DEF Alike
<1>9. \/ /\ At(B.cols, p) = col /\ Get(B, i, col) = At(B.vals, p)
      \/ Get(B, i, col) = 0
  BY <1>1, <1>7, NextColumn
<1> QED
  BY <1>3, <1>6, <1>8, <1>9

(* What is stored is determined by what is read.                            *)
LEMMA SameStored ==
  ASSUME NEW A, NEW B, Alike(A, B), A.vals = Null <=> B.vals = Null
  PROVE  Equal(A, B)
<1>1. Crs(A) /\ Crs(B) /\ A.rows = B.rows /\ Stores(A) = Stores(B)
  BY SameRows DEF Alike
<1>2. \A p \in 0 .. Stores(A) - 1 :
        At(A.cols, p) = At(B.cols, p) /\ At(A.vals, p) = At(B.vals, p)
  BY SameElements
<1>3. \A M : Crs(M) /\ M.vals = Null => M.cols = Null
  <2>1. \A s : s \in Seq(1 .. Modulus - 1) => s \in Seq(Int)
    BY SizeFacts
  <2> QED
    BY <2>1, SizeFacts DEF Crs
<1>4. CASE A.vals = Null
  BY <1>1, <1>3, <1>4 DEF Equal
<1>5. CASE A.vals # Null
  <2>1. Cols(B) = Cols(A)
    BY DEF Alike, Cols
  <2>2. /\ A.vals \in Seq(1 .. Modulus - 1) /\ B.vals \in Seq(1 .. Modulus - 1)
        /\ A.cols \in Seq(Cols(A)) /\ B.cols \in Seq(Cols(A))
        /\ Len(A.vals) = Stores(A) /\ Len(B.vals) = Stores(A)
        /\ Len(A.cols) = Stores(A) /\ Len(B.cols) = Stores(A) /\ Stores(A) \in Nat
    <3>1. /\ A.vals \in Seq(1 .. Modulus - 1) /\ A.cols \in Seq(Cols(A))
          /\ Len(A.cols) = Len(A.vals) /\ Len(A.vals) = Stores(A)
      BY <1>1, <1>5 DEF Crs, Stores
    <3>2. /\ B.vals \in Seq(1 .. Modulus - 1) /\ B.cols \in Seq(Cols(A))
          /\ Len(B.cols) = Len(B.vals) /\ Len(B.vals) = Stores(B)
      BY <1>1, <1>5, <2>1 DEF Crs, Stores
    <3> QED
      BY <1>1, <3>1, <3>2, CrsFacts
  <2>3. \A k \in 1 .. Stores(A) : A.vals[k] = B.vals[k] /\ A.cols[k] = B.cols[k]
    <3> SUFFICES ASSUME NEW k \in 1 .. Stores(A)
                 PROVE  A.vals[k] = B.vals[k] /\ A.cols[k] = B.cols[k]
      OBVIOUS
    <3>1. PICK p \in 0 .. Stores(A) - 1 : p + 1 = k
      <4>1. k - 1 \in 0 .. Stores(A) - 1 /\ (k - 1) + 1 = k
        BY <2>2
      <4> QED
        BY <4>1, Zenon
    <3>2. At(A.cols, p) = At(B.cols, p) /\ At(A.vals, p) = At(B.vals, p)
      BY <1>2
    <3> QED
      BY <3>1, <3>2 DEF At
  <2>4. A.vals = B.vals
    <3> DEFINE F == 1 .. Modulus - 1
    <3>1. A.vals \in Seq(F) /\ B.vals \in Seq(F)
      BY <2>2
    <3> HIDE DEF F
    <3> QED
      BY <2>2, <2>3, <3>1, SeqEqual
  <2>5. A.cols = B.cols
    BY <2>2, <2>3, SeqEqual
  <2> QED
    BY <1>1, <2>4, <2>5 DEF Equal
<1> QED
  BY <1>4, <1>5

LEMMA EqualIffSame ==
  ASSUME NEW A, NEW B, Crs(A), Crs(B), A.base = B.base, A.m = B.m, A.n = B.n,
         A.vals = Null <=> B.vals = Null
  PROVE  Equal(A, B) <=> Content(A) = Content(B)
<1>1. ASSUME Equal(A, B) PROVE Content(A) = Content(B)
  <2>1. /\ A = [base |-> A.base, m |-> A.m, n |-> A.n,
                rows |-> A.rows, vals |-> A.vals, cols |-> A.cols]
        /\ B = [base |-> B.base, m |-> B.m, n |-> B.n,
                rows |-> B.rows, vals |-> B.vals, cols |-> B.cols]
    BY DEF Crs
  <2>2. A = B
    BY <1>1, <2>1 DEF Equal
  <2> QED
    BY <2>2
<1>2. ASSUME Content(A) = Content(B) PROVE Equal(A, B)
  <2>1. ASSUME NEW r \in Rows(A), NEW c \in Cols(A) PROVE Get(A, r, c) = Get(B, r, c)
    <3>1. A.base \in Int /\ A.m \in Nat /\ A.n \in Nat
      BY CrsFacts
    <3>2. PICK i \in 0 .. A.m - 1, j \in 0 .. A.n - 1 : r = A.base + i /\ c = A.base + j
      <4>1. /\ r - A.base \in 0 .. A.m - 1 /\ r = A.base + (r - A.base)
            /\ c - A.base \in 0 .. A.n - 1 /\ c = A.base + (c - A.base)
        BY <3>1 DEF Rows, Cols
      <4> QED
        BY <4>1, Zenon
    <3>3. ElementAt(Content(A).at, i, j) = Get(A, A.base + i, A.base + j)
      BY ContentIs
    <3>4. ElementAt(Content(B).at, i, j) = Get(B, A.base + i, A.base + j)
      <4>1. \A a \in 0 .. B.m - 1, b \in 0 .. B.n - 1 :
              ElementAt(Content(B).at, a, b) = Get(B, B.base + a, B.base + b)
        BY ContentIs
      <4> QED
        BY <4>1
    <3> QED
      BY <1>2, <3>2, <3>3, <3>4
  <2>2. Alike(A, B)
    BY <2>1 DEF Alike
  <2> QED
    BY <2>2, SameStored
<1> QED
  BY <1>1, <1>2

(* Matrices of the same shape compare equal exactly if they have the same   *)
(* elements, however they were built: what is stored is in no way a matter  *)
(* of history, but for whether anything has been.                           *)
THEOREM EqualityIsThatOfArrays == Spec => []EqualMeansSame
<1>1. ASSUME MatricesInv PROVE EqualMeansSame
  <2> SUFFICES ASSUME NEW v \in Name, NEW w \in Name, mat[v] # Null, mat[w] # Null,
                      mat[v].m = mat[w].m, mat[v].n = mat[w].n,
                      mat[v].vals = Null <=> mat[w].vals = Null
               PROVE  Equal(mat[v], mat[w]) <=> Content(mat[v]) = Content(mat[w])
    BY DEF EqualMeansSame
  <2>1. PICK A : A = mat[v]
    OBVIOUS
  <2>2. PICK B : B = mat[w]
    OBVIOUS
  <2>3. Crs(A) /\ Crs(B) /\ A.base = B.base
    <3>1. Crs(mat[v]) /\ mat[v].base = base /\ Crs(mat[w]) /\ mat[w].base = base
      BY <1>1 DEF MatricesInv
    <3> QED
      BY <2>1, <2>2, <3>1
  <2>4. A.m = B.m /\ A.n = B.n /\ (A.vals = Null <=> B.vals = Null)
    BY <2>1, <2>2
  <2>5. Equal(A, B) <=> Content(A) = Content(B)
    BY <2>3, <2>4, EqualIffSame
  <2> QED
    BY <2>1, <2>2, <2>5
<1> QED
  BY <1>1, MatricesWellFormed, PTL DEF Spec
=============================================================================
