----------------------------- MODULE FilesProofs -----------------------------
(***************************************************************************)
(* Proofs about the components of MCFiles, for any size of the buffer, any *)
(* number of bytes, failures and interruptions, of threads, blocks and     *)
(* values.                                                                 *)
(***************************************************************************)
EXTENDS MCFiles, Integers, SequenceTheorems, TLAPS

-----------------------------------------------------------------------------
(* Sequences of bytes: their first n bytes, what is behind these, and the   *)
(* bytes that follow byte m.                                                *)

LEMMA FirstFacts ==
  ASSUME NEW S, NEW s \in Seq(S), NEW n \in 0 .. Len(s)
  PROVE  /\ First(s, n) \in Seq(S) /\ Len(First(s, n)) = n
         /\ \A i \in 1 .. n : First(s, n)[i] = s[i]
<1>1. Len(s) \in Nat /\ n \in Int /\ 1 \in Int
  BY LenProperties
<1>2. \A i \in 1 .. n : s[i] \in S
  BY <1>1, ElementOfSeq
<1>3. /\ SubSeq(s, 1, n) \in Seq(S)
      /\ Len(SubSeq(s, 1, n)) = IF 1 <= n THEN n - 1 + 1 ELSE 0
      /\ \A i \in 1 .. n - 1 + 1 : SubSeq(s, 1, n)[i] = s[1 + i - 1]
  BY <1>1, <1>2, SubSeqProperties
<1> QED
  BY <1>1, <1>3 DEF First

LEMMA FromFacts ==
  ASSUME NEW S, NEW s \in Seq(S), NEW n \in 0 .. Len(s)
  PROVE  /\ From(s, n) \in Seq(S) /\ Len(From(s, n)) = Len(s) - n
         /\ First(s, n) \o From(s, n) = s
<1>1. Len(s) \in Nat /\ n \in Int /\ n + 1 \in Int
  BY LenProperties
<1>2. \A i \in n + 1 .. Len(s) : s[i] \in S
  BY <1>1, ElementOfSeq
<1>3. /\ SubSeq(s, n + 1, Len(s)) \in Seq(S)
      /\ Len(SubSeq(s, n + 1, Len(s))) =
           IF n + 1 <= Len(s) THEN Len(s) - (n + 1) + 1 ELSE 0
  BY <1>1, <1>2, SubSeqProperties
<1>4. /\ 1 \in 1 .. Len(s) + 1 /\ n \in 1 - 1 .. Len(s) /\ Len(s) \in n .. Len(s)
  BY <1>1
<1>5. SubSeq(s, 1, n) \o SubSeq(s, n + 1, Len(s)) = SubSeq(s, 1, Len(s))
  BY <1>4, ConcatAdjacentSubSeq
<1>6. SubSeq(s, 1, Len(s)) = s
  BY SubSeqFull
<1>7. (IF n + 1 <= Len(s) THEN Len(s) - (n + 1) + 1 ELSE 0) = Len(s) - n
  BY <1>1
<1>8. From(s, n) = SubSeq(s, n + 1, Len(s)) /\ First(s, n) = SubSeq(s, 1, n)
  BY DEF First, From
<1>9. From(s, n) \in Seq(S) /\ Len(From(s, n)) = Len(s) - n
  BY <1>3, <1>7, <1>8, Zenon
<1>10. First(s, n) \o From(s, n) = s
  BY <1>5, <1>6, <1>8, Zenon
<1> QED
  BY <1>9, <1>10, Zenon

LEMMA FirstOfConcat ==
  ASSUME NEW S, NEW s \in Seq(S), NEW t \in Seq(S), NEW n \in 0 .. Len(s)
  PROVE  First(s \o t, n) = First(s, n)
<1>1. Len(s) \in Nat /\ Len(t) \in Nat
  BY LenProperties
<1>2. /\ s \o t \in Seq(S) /\ Len(s \o t) = Len(s) + Len(t)
      /\ \A i \in 1 .. Len(s) + Len(t) :
           (s \o t)[i] = IF i <= Len(s) THEN s[i] ELSE t[i - Len(s)]
  BY ConcatProperties
<1>3. n \in 0 .. Len(s \o t)
  BY <1>1, <1>2
<1>4. /\ First(s \o t, n) \in Seq(S) /\ Len(First(s \o t, n)) = n
      /\ \A i \in 1 .. n : First(s \o t, n)[i] = (s \o t)[i]
  BY <1>2, <1>3, FirstFacts
<1>5. \A i \in 1 .. n : (s \o t)[i] = s[i]
  BY <1>1, <1>2
<1>6. /\ First(s, n) \in Seq(S) /\ Len(First(s, n)) = n
      /\ \A i \in 1 .. n : First(s, n)[i] = s[i]
  BY FirstFacts
<1> QED
  BY <1>4, <1>5, <1>6, SeqEqual

LEMMA BytesFacts ==
  ASSUME NEW m \in Nat, NEW n \in Nat, NEW max \in Nat, m + n <= max
  PROVE  /\ Bytes(m, n) \in Seq(1 .. max) /\ Len(Bytes(m, n)) = n
         /\ \A i \in 1 .. n : Bytes(m, n)[i] = m + i
<1>1. Bytes(m, n) \in [1 .. n -> 1 .. max]
  BY DEF Bytes
<1>2. Bytes(m, n) \in Seq(1 .. max)
  BY <1>1, SeqDef
<1>3. DOMAIN Bytes(m, n) = 1 .. n
  BY DEF Bytes
<1>4. Len(Bytes(m, n)) = n
  BY <1>2, <1>3, LenProperties
<1> QED
  BY <1>2, <1>4 DEF Bytes

LEMMA BytesConcat ==
  ASSUME NEW m \in Nat, NEW n \in Nat
  PROVE  Bytes(0, m) \o Bytes(m, n) = Bytes(0, m + n)
<1>0. 0 \in Nat /\ m + n \in Nat /\ 0 + m <= m + n /\ m + n <= m + n
      /\ 0 + (m + n) <= m + n
  OBVIOUS
<1>1. /\ Bytes(0, m) \in Seq(1 .. m + n) /\ Len(Bytes(0, m)) = m
      /\ \A i \in 1 .. m : Bytes(0, m)[i] = 0 + i
  BY <1>0, BytesFacts
<1>2. /\ Bytes(m, n) \in Seq(1 .. m + n) /\ Len(Bytes(m, n)) = n
      /\ \A i \in 1 .. n : Bytes(m, n)[i] = m + i
  BY <1>0, BytesFacts
<1>3. /\ Bytes(0, m + n) \in Seq(1 .. m + n) /\ Len(Bytes(0, m + n)) = m + n
      /\ \A i \in 1 .. m + n : Bytes(0, m + n)[i] = 0 + i
  BY <1>0, BytesFacts
<1> DEFINE s == Bytes(0, m) \o Bytes(m, n)
<1>4. /\ s \in Seq(1 .. m + n) /\ Len(s) = m + n
      /\ \A i \in 1 .. m + n :
           s[i] = IF i <= m THEN Bytes(0, m)[i] ELSE Bytes(m, n)[i - m]
  <2>1. /\ s \in Seq(1 .. m + n) /\ Len(s) = Len(Bytes(0, m)) + Len(Bytes(m, n))
        /\ \A i \in 1 .. Len(Bytes(0, m)) + Len(Bytes(m, n)) :
             s[i] = IF i <= Len(Bytes(0, m)) THEN Bytes(0, m)[i]
                    ELSE Bytes(m, n)[i - Len(Bytes(0, m))]
    BY <1>1, <1>2, ConcatProperties
  <2> QED
    BY <1>1, <1>2, <2>1
<1> HIDE DEF s
<1>5. ASSUME NEW i \in 1 .. m + n PROVE s[i] = i
  <2>1. CASE i <= m
    <3>1. i \in 1 .. m /\ 0 + i = i
      BY <2>1
    <3> QED
      BY <1>1, <1>4, <2>1, <3>1
  <2>2. CASE ~ i <= m
    <3>1. i - m \in 1 .. n /\ m + (i - m) = i
      BY <2>2
    <3> QED
      BY <1>2, <1>4, <2>2, <3>1
  <2> QED
    BY <2>1, <2>2
<1>6. \A i \in 1 .. m + n : 0 + i = i
  OBVIOUS
<1>7. s = Bytes(0, m + n)
  BY <1>3, <1>4, <1>5, <1>6, SeqEqual
<1> QED
  BY <1>7 DEF s

LEMMA BytesFirst ==
  ASSUME NEW m \in Nat, NEW n \in 0 .. m
  PROVE  First(Bytes(0, m), n) = Bytes(0, n)
<1>0. 0 \in Nat /\ m \in Nat /\ n \in Nat /\ 0 + m <= m /\ 0 + n <= m
  OBVIOUS
<1>1. /\ Bytes(0, m) \in Seq(1 .. m) /\ Len(Bytes(0, m)) = m
      /\ \A i \in 1 .. m : Bytes(0, m)[i] = 0 + i
  BY <1>0, BytesFacts
<1>2. /\ Bytes(0, n) \in Seq(1 .. m) /\ Len(Bytes(0, n)) = n
      /\ \A i \in 1 .. n : Bytes(0, n)[i] = 0 + i
  BY <1>0, BytesFacts
<1>3. /\ First(Bytes(0, m), n) \in Seq(1 .. m)
      /\ Len(First(Bytes(0, m), n)) = n
      /\ \A i \in 1 .. n : First(Bytes(0, m), n)[i] = Bytes(0, m)[i]
  BY <1>1, FirstFacts
<1>4. 1 .. n \subseteq 1 .. m
  OBVIOUS
<1> QED
  BY <1>1, <1>2, <1>3, <1>4, SeqEqual

-----------------------------------------------------------------------------
(* Sequences of ascending bytes, none of them above n.                      *)
Ascending(s, n) ==
  /\ Len(s) <= n
  /\ \A i \in 1 .. Len(s) : s[i] <= n
  /\ \A i, j \in 1 .. Len(s) : i < j => s[i] < s[j]

LEMMA AscendingFirst ==
  ASSUME NEW s \in Seq(Nat), NEW n \in Nat, Ascending(s, n), NEW k \in 0 .. Len(s)
  PROVE  Ascending(First(s, k), n)
<1>1. Len(s) \in Nat
  BY LenProperties
<1>2. /\ Len(First(s, k)) = k
      /\ \A i \in 1 .. k : First(s, k)[i] = s[i]
  BY FirstFacts
<1>3. 1 .. k \subseteq 1 .. Len(s) /\ k <= Len(s) /\ k \in Nat
  BY <1>1
<1> DEFINE f == First(s, k)
<1>4. Len(f) = k /\ \A i \in 1 .. k : f[i] = s[i]
  BY <1>2
<1> HIDE DEF f
<1>5. Len(f) <= n
  BY <1>1, <1>3, <1>4 DEF Ascending
<1>6. \A i \in 1 .. Len(f) : f[i] <= n
  BY <1>3, <1>4 DEF Ascending
<1>7. \A i, j \in 1 .. Len(f) : i < j => f[i] < f[j]
  BY <1>3, <1>4 DEF Ascending
<1>8. Ascending(f, n)
  BY <1>5, <1>6, <1>7 DEF Ascending
<1> QED
  BY <1>8 DEF f

LEMMA AscendingBytes ==
  ASSUME NEW s \in Seq(Nat), NEW m \in Nat, Ascending(s, m), NEW n \in Nat
  PROVE  Ascending(s \o Bytes(m, n), m + n)
<1>1. Len(s) \in Nat /\ \A i \in 1 .. Len(s) : s[i] \in Nat
  BY LenProperties, ElementOfSeq
<1>0. m + n \in Nat /\ m + n <= m + n
  OBVIOUS
<1>2. /\ Bytes(m, n) \in Seq(1 .. m + n) /\ Len(Bytes(m, n)) = n
      /\ \A i \in 1 .. n : Bytes(m, n)[i] = m + i
  BY <1>0, BytesFacts
<1>3. Bytes(m, n) \in Seq(Nat)
  BY <1>2, SeqMonotonic
<1> DEFINE t == s \o Bytes(m, n)
           l == Len(s)
<1>4. /\ Len(t) = l + n
      /\ \A i \in 1 .. l + n :
           t[i] = IF i <= l THEN s[i] ELSE Bytes(m, n)[i - l]
  BY <1>2, <1>3, ConcatProperties
<1>5. l \in Nat /\ l <= m
  BY <1>1 DEF Ascending
<1> HIDE DEF t
<1>6. ASSUME NEW i \in 1 .. l + n, i > l
      PROVE  t[i] = m + (i - l)
  <2>1. i - l \in 1 .. n
    BY <1>5, <1>6
  <2> QED
    BY <1>2, <1>4, <1>5, <1>6, <2>1
<1>7. ASSUME NEW i \in 1 .. l + n, i <= l
      PROVE  t[i] = s[i] /\ t[i] <= m /\ t[i] \in Nat /\ i \in 1 .. l
  <2>1. i \in 1 .. l
    BY <1>5, <1>7
  <2> QED
    BY <1>1, <1>4, <1>7, <2>1 DEF Ascending
<1> HIDE DEF l
<1>8. \A i \in 1 .. l + n : t[i] <= m + n
  BY <1>5, <1>6, <1>7
<1>9. ASSUME NEW i \in 1 .. l + n, NEW j \in 1 .. l + n, i < j
      PROVE  t[i] < t[j]
  <2>1. CASE j <= l
    <3>1. i <= l
      BY <1>5, <1>9, <2>1
    <3> QED
      BY <1>7, <1>9, <2>1, <3>1 DEF Ascending, l
  <2>2. CASE i <= l /\ j > l
    BY <1>5, <1>6, <1>7, <2>2
  <2>3. CASE i > l
    <3>1. j > l
      BY <1>5, <1>9, <2>3
    <3> QED
      BY <1>5, <1>6, <1>9, <2>3, <3>1
  <2> QED
    BY <1>5, <2>1, <2>2, <2>3
<1> QED
  BY <1>4, <1>5, <1>8, <1>9 DEF Ascending, t

-----------------------------------------------------------------------------
(* PosixWritableFile: the invariant                                         *)
ByteSeq == Seq(1 .. MaxBytes)

(* Every byte that is in the file or will get there.                        *)
All == IF Alive THEN file \o Pending ELSE file

(* What a call leaves empty: the buffer is empty as soon as it is written,  *)
(* and only Append has a rest.                                              *)
CallHolds ==
  /\ pc = "idle" => rest = <<>>
  /\ pc = "write" /\ (op # "Append" \/ direct) => rest = <<>>
  /\ pc \in {"fsync", "close"} => buf = <<>>
  /\ failing => pc \in {"close", "gone", "crashed"}

FileInv ==
  /\ TypeOK
  /\ CallHolds
  /\ Ascending(All, appended)
  /\ NothingLost
  /\ durable <= Len(file) /\ synced <= durable
  /\ First(file, synced) = Bytes(0, synced)

LEMMA FileTypes ==
  ASSUME TypeOK
  PROVE  /\ buf \in ByteSeq /\ out \in ByteSeq /\ rest \in ByteSeq
         /\ file \in ByteSeq /\ Pending \in ByteSeq
         /\ file \o Pending \in ByteSeq /\ All \in ByteSeq
         /\ <<>> \in ByteSeq
<1>1. /\ buf \in ByteSeq /\ out \in ByteSeq /\ rest \in ByteSeq
      /\ file \in ByteSeq
  BY DEF TypeOK, ByteSeq
<1>2. out \o rest \in ByteSeq /\ <<>> \in ByteSeq
  BY <1>1, ConcatProperties, EmptySeq DEF ByteSeq
<1>3. Pending \in ByteSeq
  BY <1>1, <1>2 DEF Pending
<1>4. file \o Pending \in ByteSeq
  BY <1>1, <1>3, ConcatProperties DEF ByteSeq
<1> QED
  BY <1>1, <1>2, <1>3, <1>4 DEF All

LEMMA BytesAreNumbers == ByteSeq \subseteq Seq(Nat)
<1> SUFFICES ASSUME NEW s \in ByteSeq PROVE s \in Seq(Nat)
  OBVIOUS
<1>1. 1 .. MaxBytes \subseteq Nat
  BY FileAssumption
<1> QED
  BY <1>1, SeqMonotonic DEF ByteSeq

LEMMA BytesAssociative ==
  \A s, t, u \in ByteSeq : (s \o t) \o u = s \o (t \o u)
BY ConcatAssociative DEF ByteSeq

(* The bytes that stay in the file when a part of what follows goes.        *)
LEMMA FileIsFirst ==
  ASSUME NEW S, NEW s \in Seq(S), NEW t \in Seq(S)
  PROVE  Len(s) \in 0 .. Len(s \o t) /\ s = First(s \o t, Len(s))
<1>1. Len(s) \in Nat /\ Len(t) \in Nat /\ Len(s \o t) = Len(s) + Len(t)
  BY LenProperties, ConcatProperties
<1>2. Len(s) \in 0 .. Len(s) /\ Len(s) \in 0 .. Len(s \o t)
  BY <1>1
<1>3. First(s \o t, Len(s)) = First(s, Len(s))
  BY <1>2, FirstOfConcat
<1> QED
  BY <1>2, <1>3, SubSeqFull DEF First

(* A step that keeps everything, one that appends bytes, and one that cuts  *)
(* bytes off keep the order.                                                *)
LEMMA OrderKept ==
  ASSUME NEW s \in Seq(Nat), NEW u, NEW m \in Nat, NEW m2, Ascending(s, m),
         \/ u = s /\ m2 = m
         \/ m2 = m /\ \E k \in 0 .. Len(s) : u = First(s, k)
         \/ \E n \in Nat : u = s \o Bytes(m, n) /\ m2 = m + n
  PROVE  Ascending(u, m2)
<1>1. CASE u = s /\ m2 = m
  BY <1>1
<1>2. CASE m2 = m /\ \E k \in 0 .. Len(s) : u = First(s, k)
  BY <1>2, AscendingFirst
<1>3. CASE \E n \in Nat : u = s \o Bytes(m, n) /\ m2 = m + n
  BY <1>3, AscendingBytes
<1> QED
  BY <1>1, <1>2, <1>3

(* Likewise for the bytes that have been synced.                            *)
LEMMA SyncCut ==
  ASSUME NEW s \in Seq(Nat), NEW n \in Nat, NEW k \in n .. Len(s)
  PROVE  Len(First(s, k)) = k /\ First(First(s, k), n) = First(s, n)
<1>1. Len(s) \in Nat
  BY LenProperties
<1>2. k \in 0 .. Len(s) /\ n \in 0 .. k
  BY <1>1
<1>3. First(s, k) \in Seq(Nat) /\ Len(First(s, k)) = k
  BY <1>2, FirstFacts
<1>4. From(s, k) \in Seq(Nat) /\ First(s, k) \o From(s, k) = s
  BY <1>2, FromFacts
<1>5. n \in 0 .. Len(First(s, k))
  BY <1>2, <1>3
<1>6. First(First(s, k) \o From(s, k), n) = First(First(s, k), n)
  BY <1>3, <1>4, <1>5, FirstOfConcat
<1> QED
  BY <1>3, <1>4, <1>6

LEMMA SyncAppend ==
  ASSUME NEW s \in Seq(Nat), NEW t \in Seq(Nat), NEW n \in 0 .. Len(s)
  PROVE  Len(s) <= Len(s \o t) /\ First(s \o t, n) = First(s, n)
<1>1. First(s \o t, n) = First(s, n)
  BY FirstOfConcat
<1>2. Len(s \o t) = Len(s) + Len(t) /\ Len(s) \in Nat /\ Len(t) \in Nat
  BY ConcatProperties, LenProperties
<1> QED
  BY <1>1, <1>2

(* What most steps leave to show.                                           *)
LEMMA FileInvKept ==
  ASSUME FileInv, TypeOK', CallHolds', NothingLost',
         \/ All' = All /\ appended' = appended
         \/ appended' = appended /\ \E k \in 0 .. Len(All) : All' = First(All, k)
         \/ \E n \in Nat : All' = All \o Bytes(appended, n) /\ appended' = appended + n,
         \/ file' = file
         \/ \E k \in durable .. Len(file) : file' = First(file, k)
         \/ \E t \in ByteSeq : file' = file \o t,
         durable' = durable, synced' = synced
  PROVE  FileInv'
<1>1. /\ TypeOK /\ Ascending(All, appended)
      /\ durable <= Len(file) /\ synced <= durable
      /\ First(file, synced) = Bytes(0, synced)
  BY DEF FileInv
<1>2. appended \in Nat /\ durable \in Nat /\ synced \in Nat
  BY <1>1, FileAssumption DEF TypeOK
<1>3. All \in Seq(Nat) /\ file \in Seq(Nat)
  BY <1>1, FileTypes, BytesAreNumbers
<1>4. Ascending(All', appended')
  BY <1>1, <1>2, <1>3, OrderKept
<1>5. \/ file' = file
      \/ \E k \in durable .. Len(file) : file' = First(file, k)
      \/ \E t \in Seq(Nat) : file' = file \o t
  BY BytesAreNumbers
<1>6. durable <= Len(file') /\ First(file', synced) = Bytes(0, synced)
  <2>1. Len(file) \in Nat
    BY <1>3, LenProperties
  <2>2. CASE file' = file
    BY <1>1, <2>2
  <2>3. ASSUME NEW k \in durable .. Len(file), file' = First(file, k)
        PROVE  durable <= Len(file') /\ First(file', synced) = Bytes(0, synced)
    <3>1. k \in synced .. Len(file) /\ durable <= k
      BY <1>1, <1>2, <2>1
    <3> QED
      BY <1>1, <1>2, <1>3, <2>3, <3>1, SyncCut
  <2>4. ASSUME NEW t \in Seq(Nat), file' = file \o t
        PROVE  durable <= Len(file') /\ First(file', synced) = Bytes(0, synced)
    <3>1. synced \in 0 .. Len(file)
      BY <1>1, <1>2, <2>1
    <3>2. Len(file) <= Len(file') /\ First(file', synced) = First(file, synced)
      BY <1>3, <2>4, <3>1, SyncAppend
    <3>3. Len(file') \in Nat
      BY <1>3, <2>4, ConcatProperties, LenProperties
    <3> QED
      BY <1>1, <1>2, <2>1, <3>2, <3>3
  <2> QED
    BY <1>5, <2>2, <2>3, <2>4
<1> QED
  BY <1>1, <1>4, <1>6 DEF FileInv

LEMMA FileInit == Init => FileInv
<1> SUFFICES ASSUME Init PROVE FileInv
  OBVIOUS
<1>1. <<>> \in ByteSeq /\ Len(<<>>) = 0 /\ <<>> \o <<>> = <<>>
  BY EmptySeq, ConcatEmptySeq DEF ByteSeq
<1>2. TypeOK
  <2>1. /\ \A s \in {buf, out, rest, file} : s \in Seq(1 .. MaxBytes)
        /\ Len(buf) <= BUFFER_SIZE
    BY <1>1, FileAssumption DEF Init, ByteSeq
  <2> QED
    <3>1. /\ MaxBytes \in Nat /\ MaxInterrupts \in Nat /\ MaxErrors \in Nat
      BY FileAssumption
    <3>2. /\ pc = "idle" /\ op = Null /\ failing = FALSE /\ failed = FALSE
          /\ direct = FALSE /\ fd = "open" /\ durable = 0 /\ appended = 0
          /\ synced = 0 /\ interrupts = 0 /\ errors = 0
      BY DEF Init
    <3>3. direct \in BOOLEAN /\ failing \in BOOLEAN /\ failed \in BOOLEAN
      BY <3>2
    <3>4. /\ durable \in 0 .. MaxBytes /\ appended \in 0 .. MaxBytes
          /\ synced \in 0 .. MaxBytes /\ interrupts \in 0 .. MaxInterrupts
          /\ errors \in 0 .. MaxErrors
      BY <3>1, <3>2
    <3> QED
      BY <2>1, <3>2, <3>3, <3>4, Zenon DEF TypeOK
<1>3. CallHolds
  BY DEF Init, CallHolds
<1>4. All = <<>> /\ file \o Pending = <<>>
  BY <1>1 DEF Init, All, Alive, Pending
<1>5. Ascending(All, appended)
  BY <1>1, <1>4 DEF Init, Ascending
<1>6. Bytes(0, 0) = <<>> /\ First(<<>>, 0) = <<>>
  <2>1. Bytes(0, 0) \in Seq(1 .. 0) /\ Len(Bytes(0, 0)) = 0
    BY BytesFacts
  <2>2. Bytes(0, 0) = <<>>
    BY <2>1, EmptySeq
  <2>3. First(<<>>, 0) = <<>>
    BY SubSeqEmpty DEF First
  <2> QED
    BY <2>2, <2>3
<1>7. NothingLost
  BY <1>4, <1>6 DEF Init, NothingLost
<1> QED
  BY <1>1, <1>2, <1>3, <1>5, <1>6, <1>7 DEF Init, FileInv

(* The calls.                                                               *)
LEMMA CallKeeps == FileInv /\ Call => FileInv'
<1> SUFFICES ASSUME FileInv, Call PROVE FileInv'
  OBVIOUS
<1>a. TypeOK /\ CallHolds /\ NothingLost
  BY DEF FileInv
<1>b. /\ buf \in ByteSeq /\ out \in ByteSeq /\ rest \in ByteSeq
      /\ file \in ByteSeq /\ Pending \in ByteSeq
      /\ file \o Pending \in ByteSeq /\ All \in ByteSeq
      /\ <<>> \in ByteSeq
  BY <1>a, FileTypes
<1>c. /\ BUFFER_SIZE \in Nat /\ MaxBytes \in Nat
      /\ Len(buf) \in Nat /\ Len(buf) <= BUFFER_SIZE /\ appended \in Nat
  BY <1>a, <1>b, FileAssumption, LenProperties DEF TypeOK, ByteSeq
<1>1. ASSUME NEW n \in 0 .. MaxBytes, AppendData(n) PROVE FileInv'
  <2> DEFINE new == Bytes(appended, n)
             copy == Lesser(n, BUFFER_SIZE - Len(buf))
  <2>1. /\ pc = "idle" /\ appended + n <= MaxBytes /\ appended' = appended + n
        /\ buf' = buf \o First(new, copy)
        /\ UNCHANGED <<diskVars, fd, synced, interrupts, errors>>
        /\ \/ copy = n /\ Answer(TRUE)
           \/ /\ copy < n /\ Enter("Append")
              /\ rest' = From(new, copy)
              /\ FlushBuffer(buf')
    BY <1>1 DEF AppendData
  <2>2. /\ n \in Nat /\ copy \in 0 .. n /\ copy <= BUFFER_SIZE - Len(buf)
    BY <1>c DEF Lesser
  <2>3. new \in ByteSeq /\ Len(new) = n
    BY <1>c, <2>1, <2>2, BytesFacts DEF ByteSeq
  <2> HIDE DEF new, copy
  <2>4. /\ First(new, copy) \in ByteSeq /\ Len(First(new, copy)) = copy
        /\ From(new, copy) \in ByteSeq
        /\ First(new, copy) \o From(new, copy) = new
    BY <2>2, <2>3, FirstFacts, FromFacts DEF ByteSeq
  <2>5. buf' \in ByteSeq /\ Len(buf') <= BUFFER_SIZE
    <3>1. buf' \in ByteSeq /\ Len(buf') = Len(buf) + copy
      BY <1>b, <2>1, <2>4, ConcatProperties DEF ByteSeq
    <3> QED
      BY <1>c, <2>2, <3>1
  <2>6. /\ pc' \in {"idle", "write"} /\ op' \in {"Append", Null}
        /\ out' \in {<<>>, buf'} /\ rest' \in {<<>>, From(new, copy)}
        /\ direct' = FALSE /\ failing' = FALSE /\ failed' = failed
        /\ pc' = "idle" => rest' = <<>>
        /\ pc' = "write" => op' = "Append"
    BY <1>a, <2>1 DEF Answer, Enter, FlushBuffer, CallHolds, TypeOK
  <2>7. TypeOK'
    <3>1. \A s2 \in {buf, out, rest, file}' : s2 \in Seq(1 .. MaxBytes)
      BY <1>b, <2>1, <2>4, <2>5, <2>6 DEF ByteSeq, diskVars
    <3>2. appended' \in 0 .. MaxBytes
      BY <1>c, <2>1, <2>2
    <3> QED
      BY <1>a, <2>1, <2>5, <2>6, <3>1, <3>2 DEF TypeOK, diskVars
  <2>8. CallHolds'
    BY <2>6 DEF CallHolds
  <2>9. Pending' = buf \o new
    <3>1. buf \o (First(new, copy) \o From(new, copy)) =
            (buf \o First(new, copy)) \o From(new, copy)
      <4>1. buf \in ByteSeq /\ First(new, copy) \in ByteSeq /\ From(new, copy) \in ByteSeq
        BY <1>b, <2>4
      <4>2. (buf \o First(new, copy)) \o From(new, copy) =
              buf \o (First(new, copy) \o From(new, copy))
        BY <4>1, BytesAssociative
      <4> QED
        BY <4>2
    <3>2. CASE copy = n
      <4>1. First(new, copy) = new
        BY <2>3, <3>2, SubSeqFull DEF First, ByteSeq
      <4> QED
        BY <2>1, <2>2, <3>2, <4>1 DEF Answer, Pending
    <3>3. CASE copy < n
      <4>1. pc' = "write" /\ out' = buf' /\ rest' = From(new, copy)
        <5>1. ~ copy = n
          BY <2>2, <3>3
        <5> QED
          BY <2>1, <5>1 DEF FlushBuffer
      <4> QED
        BY <2>1, <2>4, <3>1, <4>1 DEF Pending
    <3> QED
      BY <2>2, <3>2, <3>3
  <2>10. /\ Alive /\ Alive' /\ file' = file
         /\ (file \o Pending)' = (file \o Pending) \o new
    <3>1. Alive /\ Alive' /\ file' = file /\ Pending = buf
      BY <2>1, <2>6 DEF Alive, Pending, diskVars
    <3>2. file \o (buf \o new) = (file \o buf) \o new
      <4>1. file \in ByteSeq /\ buf \in ByteSeq /\ new \in ByteSeq
        BY <1>b, <2>3
      <4>2. (file \o buf) \o new = file \o (buf \o new)
        BY <4>1, BytesAssociative
      <4> QED
        BY <4>2
    <3> QED
      BY <2>9, <3>1, <3>2
  <2>11. NothingLost'
    <3>1. (~failed' /\ ~failing') => file \o Pending = Bytes(0, appended)
      BY <1>a, <2>1, <2>6, <2>10 DEF NothingLost, CallHolds
    <3>2. Bytes(0, appended) \o new = Bytes(0, appended')
      BY <1>c, <2>1, <2>2, BytesConcat DEF new
    <3> QED
      BY <2>10, <3>1, <3>2 DEF NothingLost
  <2>12. All' = All \o Bytes(appended, n)
    BY <2>10 DEF All, new
  <2> QED
    BY <2>1, <2>2, <2>7, <2>8, <2>11, <2>12, FileInvKept DEF diskVars
<1>2. ASSUME NEW name \in {"Flush", "Sync", "Close", "Destroy"}, Begin(name)
      PROVE  FileInv'
  <2>1. /\ pc = "idle" /\ pc' = "write" /\ op' = name /\ out' = buf /\ direct' = FALSE
        /\ UNCHANGED <<failing, failed, buf, rest, file, durable, fd, appended,
                       synced, interrupts, errors>>
    BY <1>2 DEF Begin, Enter, FlushBuffer, diskVars
  <2>2. rest = <<>> /\ failing = FALSE
    BY <1>a, <2>1 DEF CallHolds, TypeOK
  <2>3. TypeOK' /\ CallHolds'
    BY <1>a, <2>1, <2>2 DEF TypeOK, CallHolds
  <2>4. Pending' = Pending /\ Alive /\ Alive'
    BY <1>b, <2>1, <2>2, ConcatEmptySeq DEF Pending, ByteSeq, Alive
  <2>5. All' = All /\ NothingLost'
    BY <1>a, <2>1, <2>4 DEF All, NothingLost
  <2> QED
    BY <2>1, <2>3, <2>5, FileInvKept
<1>3. ASSUME DestroyClosed PROVE FileInv'
  <2>1. /\ pc = "idle" /\ pc' = "gone"
        /\ UNCHANGED <<op, out, direct, rest, buf, file, durable, fd, appended,
                       failing, failed, synced, interrupts, errors>>
    BY <1>3 DEF DestroyClosed, callVars, diskVars
  <2>2. TypeOK' /\ CallHolds' /\ NothingLost'
    BY <1>a, <2>1 DEF TypeOK, CallHolds, NothingLost, Alive
  <2>3. All' = file /\ All = file \o Pending
    BY <2>1 DEF All, Alive
  <2>4. \E k \in 0 .. Len(All) : All' = First(All, k)
    BY <1>b, <2>3, FileIsFirst DEF ByteSeq
  <2> QED
    BY <2>1, <2>2, <2>4, FileInvKept
<1> QED
  BY <1>1, <1>2, <1>3 DEF Call, Destroy

(* The system calls.                                                        *)
LEMMA ContinueKeeps == FileInv /\ (Continue \/ Crash) => FileInv'
<1> SUFFICES ASSUME FileInv, Continue \/ Crash PROVE FileInv'
  OBVIOUS
<1>a. TypeOK /\ CallHolds /\ NothingLost /\ Ascending(All, appended)
  BY DEF FileInv
<1>b. /\ buf \in ByteSeq /\ out \in ByteSeq /\ rest \in ByteSeq
      /\ file \in ByteSeq /\ Pending \in ByteSeq /\ <<>> \in ByteSeq
  BY <1>a, FileTypes
<1>c. /\ BUFFER_SIZE \in Nat \ {0} /\ MaxBytes \in Nat
      /\ MaxInterrupts \in Nat /\ MaxErrors \in Nat
  BY FileAssumption
<1>d. Len(<<>>) = 0 /\ \A s \in ByteSeq : s \o <<>> = s /\ <<>> \o s = s
  BY EmptySeq, ConcatEmptySeq DEF ByteSeq
<1>e. errors' \in 0 .. MaxErrors /\ fd \in {"open", "closed"}
  <2>1. errors' = errors \/ (errors < MaxErrors /\ errors' = errors + 1)
    BY DEF Continue, Crash, Write, WriteInterrupted, WriteFailed, Written,
           Fsync, FsyncFailed, CloseFd, Fails
  <2> QED
    BY <1>a, <1>c, <2>1 DEF TypeOK
(* A step that leaves file and what is pending alone.                       *)
<1>f. ASSUME TypeOK', CallHolds', Alive, Alive', Pending' = Pending, file' = file,
             UNCHANGED <<appended, durable, synced>>,
             ~failed' /\ ~failing' => ~failed /\ ~failing
      PROVE  FileInv'
  <2>1. All' = All
    BY <1>f DEF All
  <2>2. NothingLost'
    BY <1>a, <1>f DEF NothingLost
  <2> QED
    BY <1>f, <2>1, <2>2, FileInvKept
(* A step after which nothing is pending that may have been.                *)
<1>g. ASSUME TypeOK', CallHolds', NothingLost', Alive, All' = file, file' = file,
             UNCHANGED <<appended, durable, synced>>
      PROVE  FileInv'
  <2>1. \E k \in 0 .. Len(All) : All' = First(All, k)
    BY <1>b, <1>g, FileIsFirst DEF ByteSeq, All
  <2> QED
    BY <1>g, <2>1, FileInvKept
<1>1. ASSUME Write PROVE FileInv'
  <2>1. PICK k \in 1 .. Len(out) : /\ file' = file \o First(out, k)
                                   /\ out' = From(out, k)
    BY <1>1 DEF Write
  <2>2. /\ pc = "write"
        /\ UNCHANGED <<pc, op, direct, rest, buf, durable, fd, appended, failing,
                       failed, synced, interrupts, errors>>
    BY <1>1 DEF Write
  <2>3. k \in 0 .. Len(out)
    BY <1>b, <2>1, LenProperties DEF ByteSeq
  <2>4. /\ First(out, k) \in ByteSeq /\ From(out, k) \in ByteSeq
        /\ First(out, k) \o From(out, k) = out
    BY <1>b, <2>3, FirstFacts, FromFacts DEF ByteSeq
  <2>5. file' \in ByteSeq /\ out' \in ByteSeq
    BY <1>b, <2>1, <2>4, ConcatProperties DEF ByteSeq
  <2>6. TypeOK' /\ CallHolds'
    BY <1>a, <1>b, <2>2, <2>5 DEF TypeOK, CallHolds, ByteSeq
  <2>7. (file \o Pending)' = file \o Pending /\ Alive /\ Alive'
    <3>1. First(out, k) \o (From(out, k) \o rest) = out \o rest
      <4>1. /\ First(out, k) \in ByteSeq /\ From(out, k) \in ByteSeq
            /\ rest \in ByteSeq
        BY <1>b, <2>4
      <4>2. (First(out, k) \o From(out, k)) \o rest =
              First(out, k) \o (From(out, k) \o rest)
        BY <4>1, BytesAssociative
      <4> QED
        BY <2>4, <4>2
    <3>2. (file \o First(out, k)) \o (From(out, k) \o rest) =
            file \o (First(out, k) \o (From(out, k) \o rest))
      <4>1. From(out, k) \o rest \in ByteSeq
        BY <1>b, <2>4, ConcatProperties DEF ByteSeq
      <4>2. file \in ByteSeq /\ First(out, k) \in ByteSeq
        BY <1>b, <2>4
      <4> QED
        BY <4>1, <4>2, BytesAssociative
    <3>3. Pending = out \o rest /\ Pending' = From(out, k) \o rest
      BY <2>1, <2>2 DEF Pending
    <3> QED
      BY <2>1, <2>2, <3>1, <3>2, <3>3 DEF Alive
  <2>8. All' = All /\ NothingLost'
    BY <1>a, <2>2, <2>7 DEF All, NothingLost
  <2> QED
    BY <2>1, <2>2, <2>4, <2>6, <2>8, FileInvKept
<1>2. ASSUME WriteInterrupted PROVE FileInv'
  <2>1. /\ pc = "write" /\ interrupts < MaxInterrupts /\ interrupts' = interrupts + 1
        /\ UNCHANGED <<pc, op, out, direct, rest, buf, file, durable, fd, appended,
                       failing, failed, synced, errors>>
    BY <1>2 DEF WriteInterrupted, callVars, diskVars
  <2>2. interrupts' \in 0 .. MaxInterrupts
    BY <1>a, <1>c, <2>1 DEF TypeOK
  <2>3. TypeOK' /\ CallHolds' /\ Alive /\ Alive' /\ Pending' = Pending
    BY <1>a, <2>1, <2>2 DEF TypeOK, CallHolds, Alive, Pending
  <2> QED
    BY <1>f, <2>1, <2>3
<1>3. ASSUME WriteFailed PROVE FileInv'
  <2>1. /\ pc = "write" /\ buf' = <<>>
        /\ UNCHANGED <<file, durable, fd, appended, synced, interrupts>>
        /\ \/ Answer(FALSE)
           \/ Close(FALSE)
    BY <1>3 DEF WriteFailed, diskVars
  <2>2. /\ pc' \in {"idle", "close"} /\ op' \in {op, Null}
        /\ out' \in {out, <<>>} /\ rest' \in {rest, <<>>} /\ direct' \in {direct, FALSE}
        /\ failing' \in BOOLEAN /\ failed' \in BOOLEAN
        /\ failed' \/ failing'
        /\ pc' = "idle" => rest' = <<>> /\ failing' = FALSE
    BY <1>a, <2>1 DEF Answer, Close, callVars, TypeOK
  <2>3. TypeOK'
    <3>1. \A s \in {buf, out, rest, file}' : s \in Seq(1 .. MaxBytes)
      BY <1>b, <2>1, <2>2 DEF ByteSeq
    <3>2. Len(buf') <= BUFFER_SIZE
      BY <1>c, <1>d, <2>1
    <3> QED
      BY <1>a, <1>e, <2>1, <2>2, <3>1, <3>2 DEF TypeOK
  <2>4. CallHolds' /\ NothingLost'
    BY <2>1, <2>2 DEF CallHolds, NothingLost
  <2>5. Alive /\ All' = file
    BY <1>b, <1>d, <2>1, <2>2 DEF Alive, All, Pending
  <2> QED
    BY <1>g, <2>1, <2>3, <2>4, <2>5
<1>4. ASSUME Written PROVE FileInv'
  <2>1. /\ pc = "write" /\ out = <<>> /\ failing = FALSE
        /\ UNCHANGED <<file, durable, fd, appended, synced, interrupts, errors>>
    BY <1>4, <1>a DEF Written, diskVars, CallHolds, TypeOK
  <2>2. Pending = rest
    BY <1>b, <1>d, <2>1 DEF Pending
  <2>3. \/ /\ op # "Append" \/ direct
           /\ buf' = <<>> /\ Answer(TRUE)
        \/ buf' = rest /\ Len(rest) < BUFFER_SIZE /\ Answer(TRUE)
        \/ /\ buf' = <<>> /\ out' = rest /\ rest' = <<>> /\ direct' = TRUE
           /\ UNCHANGED <<pc, op, failing, failed>>
        \/ /\ op # "Append" /\ buf' = <<>> /\ pc' \in {"fsync", "close"}
           /\ failing' = FALSE /\ UNCHANGED <<callVars, failed>>
    BY <1>4, <2>1 DEF Written, Close
  <2>4. /\ pc' \in {"idle", "write", "fsync", "close"} /\ op' \in {op, Null}
        /\ out' \in {<<>>, rest} /\ rest' \in {<<>>, rest} /\ direct' \in BOOLEAN
        /\ failing' = FALSE /\ failed' = failed
        /\ buf' \in {<<>>, rest} /\ Len(buf') <= BUFFER_SIZE
    <3>1. Len(rest) \in Nat
      BY <1>b, LenProperties DEF ByteSeq
    <3>2. buf' \in {<<>>, rest} /\ Len(buf') <= BUFFER_SIZE
      <4>1. Len(<<>>) <= BUFFER_SIZE
        BY <1>c, <1>d
      <4>2. buf' = <<>> \/ (buf' = rest /\ Len(rest) < BUFFER_SIZE)
        BY <2>3
      <4>3. Len(rest) < BUFFER_SIZE => Len(rest) <= BUFFER_SIZE
        BY <1>c, <3>1
      <4> QED
        BY <4>1, <4>2, <4>3
    <3>3. failed \in BOOLEAN /\ direct \in BOOLEAN
      BY <1>a DEF TypeOK
    <3>4. CASE Answer(TRUE)
      <4>1. /\ pc' = "idle" /\ op' = Null /\ out' = <<>> /\ rest' = <<>>
            /\ direct' = FALSE /\ failing' = FALSE /\ failed' = failed
        BY <3>3, <3>4 DEF Answer
      <4> QED
        BY <3>2, <4>1
    <3>5. CASE out' = rest /\ rest' = <<>> /\ direct' = TRUE
               /\ UNCHANGED <<pc, op, failing, failed>>
      BY <2>1, <3>2, <3>5
    <3>6. CASE pc' \in {"fsync", "close"} /\ failing' = FALSE
               /\ UNCHANGED <<callVars, failed>>
      BY <2>1, <3>2, <3>3, <3>6 DEF callVars
    <3> QED
      BY <2>3, <3>4, <3>5, <3>6
  <2>5. TypeOK'
    BY <1>a, <1>b, <2>1, <2>4 DEF TypeOK, ByteSeq
  <2>6. op # "Append" \/ direct => rest = <<>>
    BY <1>a, <2>1 DEF CallHolds
  <2>7. CallHolds'
    BY <2>1, <2>3, <2>4, <2>6 DEF CallHolds, Answer, callVars
  <2>8. Pending' = Pending
    BY <1>b, <1>d, <2>1, <2>2, <2>3, <2>6 DEF Pending, Answer
  <2>9. Alive /\ Alive'
    BY <2>1, <2>4 DEF Alive
  <2> QED
    BY <1>f, <2>1, <2>4, <2>5, <2>7, <2>8, <2>9
<1>5. ASSUME Fsync PROVE FileInv'
  <2>1. /\ pc = "fsync" /\ durable' = Len(file)
        /\ synced' = IF failed THEN synced ELSE appended
        /\ pc' = "idle" /\ op' = Null /\ out' = <<>> /\ rest' = <<>>
        /\ direct' = FALSE /\ failing' = FALSE /\ failed' = failed
        /\ UNCHANGED <<buf, file, fd, appended, interrupts, errors>>
    BY <1>5, <1>a DEF Fsync, Answer, TypeOK
  <2>2. /\ buf = <<>> /\ failing = FALSE /\ Pending = <<>> /\ Pending' = <<>>
        /\ Alive /\ Alive'
    BY <1>a, <2>1 DEF CallHolds, Pending, TypeOK, Alive
  <2>3. file \o Pending = file /\ All = file /\ All' = All
    BY <1>b, <1>d, <2>1, <2>2 DEF All
  <2>4. Len(file) \in Nat /\ Len(file) <= appended /\ appended \in 0 .. MaxBytes
    BY <1>a, <1>b, <2>3, LenProperties DEF Ascending, TypeOK, ByteSeq
  <2>5. TypeOK'
    <3>1. durable' \in 0 .. MaxBytes
      BY <1>c, <2>1, <2>4
    <3>2. \A s \in {buf, out, rest, file}' : s \in Seq(1 .. MaxBytes)
      BY <1>b, <2>1 DEF ByteSeq
    <3>3. synced' \in 0 .. MaxBytes
      BY <1>a, <2>1, <2>4 DEF TypeOK
    <3> QED
      BY <1>a, <2>1, <3>1, <3>2, <3>3 DEF TypeOK
  <2>6. CallHolds' /\ NothingLost' /\ Ascending(All', appended')
    BY <1>a, <2>1, <2>2, <2>3 DEF CallHolds, NothingLost
  <2>7. synced' <= durable' /\ First(file', synced') = Bytes(0, synced')
    <3>1. CASE failed
      BY <1>a, <2>1, <2>4, <3>1 DEF FileInv, TypeOK
    <3>2. CASE ~failed
      <4>1. file = Bytes(0, appended)
        BY <1>a, <2>2, <2>3, <3>2 DEF NothingLost
      <4>2. Len(file) = appended
        BY <2>4, <4>1, BytesFacts
      <4>3. First(file, appended) = file
        BY <1>b, <4>2, SubSeqFull DEF First, ByteSeq
      <4> QED
        BY <2>1, <2>4, <3>2, <4>1, <4>2, <4>3
    <3> QED
      BY <3>1, <3>2
  <2>8. durable' <= Len(file')
    BY <2>1, <2>4
  <2> QED
    BY <2>5, <2>6, <2>7, <2>8 DEF FileInv
<1>6. ASSUME FsyncFailed PROVE FileInv'
  <2>1. /\ pc = "fsync" /\ pc' = "idle" /\ op' = Null /\ out' = <<>> /\ rest' = <<>>
        /\ direct' = FALSE /\ failing' = FALSE /\ failed' = TRUE
        /\ UNCHANGED <<buf, file, durable, fd, appended, synced, interrupts>>
    BY <1>6, <1>a DEF FsyncFailed, Answer, TypeOK, diskVars
  <2>2. TypeOK'
    BY <1>a, <1>b, <1>e, <2>1 DEF TypeOK, ByteSeq
  <2>3. CallHolds' /\ Alive /\ Alive' /\ Pending' = Pending
    BY <2>1 DEF CallHolds, Alive, Pending
  <2> QED
    BY <1>f, <2>1, <2>2, <2>3
<1>7. ASSUME CloseFd PROVE FileInv'
  <2>1. /\ pc = "close" /\ fd' = "closed" /\ buf = <<>>
        /\ UNCHANGED <<buf, file, durable, appended, synced, interrupts>>
    BY <1>7, <1>a DEF CloseFd, diskVars, CallHolds
  <2>2. CASE \E ok \in BOOLEAN : Answer(ok) /\ (ok => ~failing)
    <3>1. /\ pc' = "idle" /\ op' = Null /\ out' = <<>> /\ rest' = <<>>
          /\ direct' = FALSE /\ failing' = FALSE /\ failed' \in BOOLEAN
          /\ ~failed' => ~failed /\ ~failing
      BY <1>a, <2>2 DEF Answer, TypeOK
    <3>2. TypeOK'
      BY <1>a, <1>b, <1>e, <2>1, <3>1 DEF TypeOK, ByteSeq
    <3>3. CallHolds' /\ Alive /\ Alive' /\ Pending' = Pending
      BY <2>1, <3>1 DEF CallHolds, Alive, Pending
    <3> QED
      BY <1>f, <2>1, <3>1, <3>2, <3>3
  <2>3. CASE pc' = "gone" /\ UNCHANGED <<callVars, failing, failed, errors>>
    <3>1. TypeOK'
      BY <1>a, <2>1, <2>3 DEF TypeOK, callVars
    <3>2. CallHolds' /\ NothingLost' /\ Alive /\ All' = file
      BY <2>1, <2>3 DEF CallHolds, NothingLost, Alive, All
    <3> QED
      BY <1>g, <2>1, <3>1, <3>2
  <2>4. \/ \E ok \in BOOLEAN : Answer(ok) /\ (ok => ~failing)
        \/ pc' = "gone" /\ UNCHANGED <<callVars, failing, failed, errors>>
    <3>1. failing \in BOOLEAN
      BY <1>a DEF TypeOK
    <3>2. \/ Answer(~failing) \/ Answer(FALSE)
          \/ pc' = "gone" /\ UNCHANGED <<callVars, failing, failed, errors>>
      BY <1>7 DEF CloseFd
    <3> QED
      BY <3>1, <3>2
  <2> QED
    BY <2>2, <2>3, <2>4
<1>8. ASSUME Crash PROVE FileInv'
  <2>1. PICK n \in durable .. Len(file) : file' = First(file, n)
    BY <1>8 DEF Crash
  <2>2. /\ pc' = "crashed"
        /\ UNCHANGED <<op, out, direct, rest, buf, durable, fd, appended, failing,
                       failed, synced, interrupts, errors>>
    BY <1>8 DEF Crash, callVars
  <2>3. n \in 0 .. Len(file) /\ Len(file) \in Nat
    BY <1>a, <1>b, LenProperties DEF TypeOK, ByteSeq
  <2>4. file' \in ByteSeq
    BY <1>b, <2>1, <2>3, FirstFacts DEF ByteSeq
  <2>5. TypeOK' /\ CallHolds' /\ NothingLost'
    BY <1>a, <1>b, <2>2, <2>4 DEF TypeOK, CallHolds, NothingLost, Alive, ByteSeq
  <2>6. All' = First(file, n)
    BY <2>1, <2>2 DEF All, Alive
  <2>7. \E k \in 0 .. Len(All) : All' = First(All, k)
    <3>1. CASE All = file
      BY <2>3, <2>6, <3>1
    <3>2. CASE All = file \o Pending
      <4>1. Len(All) = Len(file) + Len(Pending) /\ Len(Pending) \in Nat
        BY <1>b, <3>2, ConcatProperties, LenProperties DEF ByteSeq
      <4>2. First(All, n) = First(file, n)
        BY <1>b, <2>3, <3>2, FirstOfConcat DEF ByteSeq
      <4>3. n \in 0 .. Len(All)
        BY <2>3, <4>1
      <4> QED
        BY <2>6, <4>2, <4>3
    <3> QED
      BY <3>1, <3>2 DEF All
  <2> QED
    BY <2>1, <2>2, <2>5, <2>7, FileInvKept
<1> QED
  BY <1>1, <1>2, <1>3, <1>4, <1>5, <1>6, <1>7, <1>8 DEF Continue

LEMMA FileNext == FileInv /\ [Next]_vars => FileInv'
<1>1. ASSUME FileInv, UNCHANGED vars PROVE FileInv'
  BY <1>1 DEF vars, callVars, diskVars, FileInv, TypeOK, CallHolds, NothingLost,
              All, Alive, Pending
<1> QED
  BY <1>1, CallKeeps, ContinueKeeps DEF Next, Stopped

LEMMA FileInvHolds == MCSpec => []FileInv
<1>1. MCInit => FileInv
  BY FileInit DEF MCInit
<1>2. FileInv /\ [MCNext]_mcVars => FileInv'
  BY FileNext DEF MCNext, mcVars, Run
<1> QED
  BY <1>1, <1>2, PTL DEF MCSpec

(* However writes are cut short, interrupted or fail, no byte gets into the *)
(* file twice or before an earlier one, and none is written behind buf_.    *)
THEOREM BytesStayInOrder == MCSpec => []InOrder
<1>1. FileInv => InOrder
  BY DEF FileInv, InOrder, Ascending, All
<1> QED
  BY <1>1, FileInvHolds, PTL

(* While no call has answered an error every byte is in the file, in the    *)
(* write in progress or in the buffer.                                      *)
THEOREM NoByteLost == MCSpec => []NothingLost
<1>1. FileInv => NothingLost
  BY DEF FileInv
<1> QED
  BY <1>1, FileInvHolds, PTL

(* What a successful Sync has covered is in the file after any crash.       *)
THEOREM SyncedIsDurable == MCSpec => []SyncedSurvives
<1>1. FileInv => SyncedSurvives
  <2> SUFFICES ASSUME FileInv PROVE SyncedSurvives
    OBVIOUS
  <2>1. /\ synced <= durable /\ durable <= Len(file)
        /\ First(file, synced) = Bytes(0, synced)
        /\ synced \in Nat /\ durable \in Nat /\ Len(file) \in Nat
    BY FileTypes, LenProperties, FileAssumption DEF FileInv, TypeOK, ByteSeq
  <2> QED
    BY <2>1 DEF SyncedSurvives
<1> QED
  BY <1>1, FileInvHolds, PTL

-----------------------------------------------------------------------------
(* UringWrite: the invariant.  The two requests of the current block are    *)
(* with the kernel, completed, or waited for already: none is left over     *)
(* when the program goes on to the next block.                              *)
WriteReq == [kind |-> "write", block |-> offset]
FsyncReq == [kind |-> "fsync", block |-> offset]
Pends(r) == IF r \in requests THEN 1 ELSE 0

OnDisk(b) == b \in uDurable \cup uFailed

(* An fsync that has been executed has dealt with all blocks but the last.  *)
UringHolds ==
  /\ uPc = "write" => requests = {} /\ cqes = 0 /\ seen = 0
  /\ uPc = "fsync" =>
       /\ requests \subseteq {WriteReq} /\ seen = 0
       /\ Pends(WriteReq) + cqes = 1
       /\ WriteReq \notin requests => offset \in cached \cup uFailed
  /\ uPc = "wait" =>
       /\ requests \subseteq {WriteReq, FsyncReq}
       /\ Pends(WriteReq) + Pends(FsyncReq) + cqes + seen = 2
       /\ WriteReq \notin requests => offset \in cached \cup uFailed
       /\ FsyncReq \notin requests => \A b \in 0 .. offset - 1 : OnDisk(b)

SyncHolds ==
  /\ requests = {} /\ uFailed = {} /\ uPc \in {"write", "fsync", "done", "error"}
  /\ uPc = "fsync" => offset \in cached

UringInv ==
  /\ api \in {"uring", "sync"}
  /\ offset \in Nat /\ cqes \in Nat /\ seen \in {0, 1}
  /\ \A b \in 0 .. offset - 1 : b \in cached \cup uFailed
  /\ \A b \in 0 .. offset - 1 : (b = offset - 1 /\ api = "uring") \/ OnDisk(b)
  /\ api = "uring" => UringHolds
  /\ api = "sync" => SyncHolds

LEMMA UringInit == Uring!Init => UringInv
BY DEF Uring!Init, UringInv, UringHolds, SyncHolds

(* Nothing that is cached, durable or failed ceases to be.                  *)
LEMMA UringMonotonic ==
  Uring!Next => /\ cached \subseteq cached' /\ uDurable \subseteq uDurable'
                /\ uFailed \subseteq uFailed' /\ api' = api
BY DEF Uring!Next, Uring!SubmitWrite, Uring!SubmitFsync, Uring!Submit, Uring!WaitCqe,
       Uring!WaitError, Uring!Execute, Uring!WriteBack, Uring!SyncWrite,
       Uring!SyncFsync, Uring!Returned, Uring!writeVars

(* A step that stays at the block.                                          *)
LEMMA UringStays ==
  ASSUME UringInv, Uring!Next, offset' = offset, cqes' \in Nat, seen' \in {0, 1},
         api = "uring" => UringHolds',
         api = "sync" => SyncHolds'
  PROVE  UringInv'
<1>1. /\ cached \subseteq cached' /\ uDurable \subseteq uDurable'
      /\ uFailed \subseteq uFailed' /\ api' = api
  BY UringMonotonic
<1>2. \A b \in 0 .. offset - 1 : b \in cached' \cup uFailed'
  BY <1>1 DEF UringInv
<1>3. \A b \in 0 .. offset - 1 : (b = offset - 1 /\ api = "uring") \/ OnDisk(b)'
  BY <1>1 DEF UringInv, OnDisk
<1>4. /\ api \in {"uring", "sync"} /\ offset \in Nat
  BY DEF UringInv
<1> QED
  BY <1>1, <1>2, <1>3, <1>4 DEF UringInv

(* A step to the next block.                                                *)
LEMMA UringAdvances ==
  ASSUME UringInv, Uring!Next, Uring!Advance, cqes' \in Nat, seen' \in {0, 1},
         offset \in cached \cup uFailed,
         \A b \in 0 .. offset - 1 : OnDisk(b)',
         api = "sync" => offset \in uDurable' \cup uFailed',
         api = "uring" => UringHolds',
         api = "sync" => SyncHolds'
  PROVE  UringInv'
<1>1. /\ cached \subseteq cached' /\ uFailed \subseteq uFailed' /\ api' = api
      /\ offset' = offset + 1 /\ offset \in Nat /\ api \in {"uring", "sync"}
  BY UringMonotonic DEF Uring!Advance, UringInv
<1>2. \A b \in 0 .. offset' - 1 : b \in 0 .. offset - 1 \/ b = offset
  BY <1>1
<1>3. offset' - 1 = offset
  BY <1>1
<1>4. \A b \in 0 .. offset' - 1 : b \in cached' \cup uFailed'
  BY <1>1, <1>2 DEF UringInv
<1>5. \A b \in 0 .. offset' - 1 :
        (b = offset' - 1 /\ api' = "uring") \/ OnDisk(b)'
  BY <1>1, <1>2, <1>3 DEF OnDisk
<1> QED
  BY <1>1, <1>4, <1>5 DEF UringInv

LEMMA UringNext == UringInv /\ [Uring!Next]_(Uring!writeVars) => UringInv'
<1> SUFFICES ASSUME UringInv, [Uring!Next]_(Uring!writeVars) PROVE UringInv'
  OBVIOUS
<1>a. /\ api \in {"uring", "sync"} /\ offset \in Nat /\ cqes \in Nat
      /\ seen \in {0, 1}
      /\ \A b \in 0 .. offset - 1 : b \in cached \cup uFailed
      /\ \A b \in 0 .. offset - 1 : (b = offset - 1 /\ api = "uring") \/ OnDisk(b)
      /\ api = "uring" => UringHolds
      /\ api = "sync" => SyncHolds
  BY DEF UringInv
<1>b. WriteReq # FsyncReq
  BY DEF WriteReq, FsyncReq
<1>1. ASSUME Uring!SubmitWrite PROVE UringInv'
  <2>1. /\ api = "uring" /\ uPc = "write" /\ uPc' = "fsync"
        /\ requests' = requests \cup {WriteReq}
        /\ UNCHANGED <<offset, seen, cqes, cached, uDurable, uFailed>>
    BY <1>1 DEF Uring!SubmitWrite, Uring!Submit, WriteReq
  <2>2. requests = {} /\ cqes = 0 /\ seen = 0
    BY <1>a, <2>1 DEF UringHolds
  <2>3. WriteReq' = WriteReq
    BY <2>1 DEF WriteReq
  <2>4. UringHolds'
    BY <2>1, <2>2, <2>3 DEF UringHolds, Pends
  <2> QED
    BY <1>1, <1>a, <2>1, <2>4, UringStays DEF Uring!Next
<1>2. ASSUME Uring!SubmitFsync PROVE UringInv'
  <2>1. /\ api = "uring" /\ uPc = "fsync" /\ uPc' = "wait"
        /\ requests' = requests \cup {FsyncReq}
        /\ UNCHANGED <<offset, seen, cqes, cached, uDurable, uFailed>>
    BY <1>2 DEF Uring!SubmitFsync, Uring!Submit, FsyncReq
  <2>2. /\ requests \subseteq {WriteReq} /\ seen = 0
        /\ Pends(WriteReq) + cqes = 1
        /\ WriteReq \notin requests => offset \in cached \cup uFailed
    BY <1>a, <2>1 DEF UringHolds
  <2>3. WriteReq' = WriteReq /\ FsyncReq' = FsyncReq
    BY <2>1 DEF WriteReq, FsyncReq
  <2>4. Pends(WriteReq)' = Pends(WriteReq) /\ Pends(FsyncReq)' = 1
    BY <1>b, <2>1, <2>3 DEF Pends
  <2>5. Pends(WriteReq)' + Pends(FsyncReq)' + cqes' + seen' = 2
    BY <1>a, <2>1, <2>2, <2>4 DEF Pends
  <2>6. UringHolds'
    BY <1>b, <2>1, <2>2, <2>3, <2>5 DEF UringHolds
  <2> QED
    BY <1>2, <1>a, <2>1, <2>6, UringStays DEF Uring!Next
<1>3. ASSUME Uring!WaitCqe PROVE UringInv'
  <2>1. /\ uPc = "wait" /\ cqes > 0 /\ cqes' = cqes - 1 /\ cqes' \in Nat
        /\ UNCHANGED <<requests, cached, uDurable, uFailed>>
        /\ api' = api
    BY <1>3, <1>a DEF Uring!WaitCqe
  <2>2. api = "uring"
    BY <1>a, <2>1 DEF SyncHolds
  <2>3. /\ requests \subseteq {WriteReq, FsyncReq}
        /\ Pends(WriteReq) + Pends(FsyncReq) + cqes + seen = 2
        /\ WriteReq \notin requests => offset \in cached \cup uFailed
        /\ FsyncReq \notin requests => \A b \in 0 .. offset - 1 : OnDisk(b)
    BY <1>a, <2>1, <2>2 DEF UringHolds
  <2>4. CASE seen = 0 /\ seen' = 1 /\ UNCHANGED <<uPc, offset>>
    <3>1. WriteReq' = WriteReq /\ FsyncReq' = FsyncReq
      BY <2>4 DEF WriteReq, FsyncReq
    <3>2. Pends(WriteReq)' = Pends(WriteReq) /\ Pends(FsyncReq)' = Pends(FsyncReq)
      BY <2>1, <3>1 DEF Pends
    <3>3. Pends(WriteReq)' + Pends(FsyncReq)' + cqes' + seen' = 2
      BY <1>a, <2>1, <2>3, <2>4, <3>2 DEF Pends
    <3>4. \A b : OnDisk(b)' <=> OnDisk(b)
      BY <2>1 DEF OnDisk
    <3>5. UringHolds'
      BY <2>1, <2>3, <2>4, <3>1, <3>3, <3>4 DEF UringHolds
    <3> QED
      BY <1>3, <1>a, <2>1, <2>2, <2>4, <3>5, UringStays DEF Uring!Next
  <2>5. CASE seen = 1 /\ seen' = 0 /\ Uring!Advance
    <3>1. Pends(WriteReq) = 0 /\ Pends(FsyncReq) = 0 /\ cqes = 1
      BY <1>a, <2>1, <2>3, <2>5 DEF Pends
    <3>2. requests = {} /\ cqes' = 0
      BY <2>1, <2>3, <3>1 DEF Pends
    <3>3. uPc' \in {"write", "done"}
      BY <2>5 DEF Uring!Advance
    <3>4. UringHolds'
      BY <2>1, <2>5, <3>2, <3>3 DEF UringHolds
    <3>5. /\ offset \in cached \cup uFailed
          /\ \A b \in 0 .. offset - 1 : OnDisk(b)'
      BY <2>1, <2>3, <3>2 DEF OnDisk
    <3> QED
      BY <1>3, <2>1, <2>2, <2>5, <3>4, <3>5, UringAdvances DEF Uring!Next
  <2> QED
    BY <1>3, <2>4, <2>5 DEF Uring!WaitCqe
<1>4. ASSUME Uring!WaitError PROVE UringInv'
  <2>1. /\ uPc = "wait" /\ uPc' = "error" /\ api = "uring"
        /\ UNCHANGED <<offset, seen, cqes>>
    BY <1>4, <1>a DEF Uring!WaitError, SyncHolds
  <2>2. UringHolds'
    BY <2>1 DEF UringHolds
  <2> QED
    BY <1>4, <1>a, <2>1, <2>2, UringStays DEF Uring!Next
<1>5. ASSUME NEW r \in requests, Uring!Execute(r) PROVE UringInv'
  <2>1. /\ api = "uring" /\ requests' = requests \ {r} /\ cqes' = cqes + 1
        /\ UNCHANGED <<uPc, offset, seen>>
    BY <1>5, <1>a DEF Uring!Execute, SyncHolds
  <2>2. /\ cached \subseteq cached' /\ uDurable \subseteq uDurable'
        /\ uFailed \subseteq uFailed'
    BY <1>5, UringMonotonic DEF Uring!Next
  <2>3. WriteReq' = WriteReq /\ FsyncReq' = FsyncReq
    BY <2>1 DEF WriteReq, FsyncReq
  <2>4. r = WriteReq => offset \in cached' \cup uFailed'
    BY <1>5 DEF Uring!Execute, WriteReq
  <2>5. r = FsyncReq => \A b \in 0 .. offset - 1 : OnDisk(b)'
    BY <1>5, <1>a, <2>2 DEF Uring!Execute, FsyncReq, OnDisk
  <2>6. \A b : OnDisk(b) => OnDisk(b)'
    BY <2>2 DEF OnDisk
  <2>7. \A x : Pends(x)' = IF x = r THEN 0 ELSE Pends(x)
    BY <2>1 DEF Pends
  <2>8. Pends(r) = 1
    BY DEF Pends
  <2>9. UringHolds'
    <3>1. CASE uPc = "fsync"
      <4>1. r = WriteReq /\ seen = 0 /\ requests \subseteq {WriteReq}
            /\ Pends(WriteReq) + cqes = 1
        BY <1>a, <2>1, <3>1 DEF UringHolds
      <4>2. Pends(WriteReq)' = 0 /\ cqes' = 1
        BY <1>a, <2>1, <2>3, <2>7, <2>8, <4>1
      <4> QED
        BY <2>1, <2>3, <2>4, <3>1, <4>1, <4>2 DEF UringHolds
    <3>2. CASE uPc = "wait"
      <4>1. /\ requests \subseteq {WriteReq, FsyncReq}
            /\ Pends(WriteReq) + Pends(FsyncReq) + cqes + seen = 2
            /\ WriteReq \notin requests => offset \in cached \cup uFailed
            /\ FsyncReq \notin requests => \A b \in 0 .. offset - 1 : OnDisk(b)
        BY <1>a, <2>1, <3>2 DEF UringHolds
      <4>2. \/ /\ r = WriteReq /\ Pends(WriteReq) = 1
               /\ Pends(WriteReq)' = 0 /\ Pends(FsyncReq)' = Pends(FsyncReq)
            \/ /\ r = FsyncReq /\ Pends(FsyncReq) = 1
               /\ Pends(FsyncReq)' = 0 /\ Pends(WriteReq)' = Pends(WriteReq)
        BY <1>b, <2>3, <2>7, <2>8, <4>1
      <4>3. Pends(WriteReq) \in {0, 1} /\ Pends(FsyncReq) \in {0, 1}
        BY DEF Pends
      <4>4. Pends(WriteReq)' + Pends(FsyncReq)' + cqes' + seen' = 2
        BY <1>a, <2>1, <4>1, <4>2, <4>3
      <4>5. WriteReq \notin requests' => offset \in cached' \cup uFailed'
        BY <2>1, <2>2, <2>4, <4>1
      <4>6. FsyncReq \notin requests' => \A b \in 0 .. offset - 1 : OnDisk(b)'
        BY <2>1, <2>5, <2>6, <4>1
      <4> QED
        BY <2>1, <2>3, <3>2, <4>1, <4>4, <4>5, <4>6 DEF UringHolds
    <3>3. CASE uPc \notin {"fsync", "wait"}
      BY <1>a, <2>1, <3>3 DEF UringHolds
    <3> QED
      BY <3>1, <3>2, <3>3
  <2> QED
    BY <1>5, <1>a, <2>1, <2>9, UringStays DEF Uring!Next
<1>6. ASSUME NEW b \in cached \ uDurable, Uring!WriteBack(b) PROVE UringInv'
  <2>1. /\ uDurable \subseteq uDurable'
        /\ UNCHANGED <<api, uPc, offset, seen, requests, cqes, cached, uFailed>>
    BY <1>6 DEF Uring!WriteBack
  <2>2. api = "uring" => UringHolds'
    <3>1. WriteReq' = WriteReq /\ FsyncReq' = FsyncReq
      BY <2>1 DEF WriteReq, FsyncReq
    <3>2. \A x : Pends(x)' = Pends(x)
      BY <2>1 DEF Pends
    <3>3. \A x : OnDisk(x) => OnDisk(x)'
      BY <2>1 DEF OnDisk
    <3> QED
      BY <1>a, <2>1, <3>1, <3>2, <3>3 DEF UringHolds
  <2>3. api = "sync" => SyncHolds'
    BY <1>a, <2>1 DEF SyncHolds
  <2> QED
    BY <1>6, <1>a, <2>1, <2>2, <2>3, UringStays DEF Uring!Next
<1>7. ASSUME Uring!SyncWrite PROVE UringInv'
  <2>1. /\ api = "sync"
        /\ UNCHANGED <<offset, seen, requests, cqes, uFailed>>
        /\ \/ cached' = cached \cup {offset} /\ uPc' = "fsync"
           \/ uPc' = "error"
    BY <1>7 DEF Uring!SyncWrite
  <2>2. SyncHolds'
    BY <1>a, <2>1 DEF SyncHolds
  <2> QED
    BY <1>7, <1>a, <2>1, <2>2, UringStays DEF Uring!Next
<1>8. ASSUME Uring!SyncFsync PROVE UringInv'
  <2>1. /\ api = "sync" /\ uPc = "fsync"
        /\ UNCHANGED <<seen, requests, cqes, cached, uFailed>>
    BY <1>8 DEF Uring!SyncFsync
  <2>2. CASE uDurable' = uDurable \cup cached /\ Uring!Advance
    <3>1. SyncHolds'
      BY <1>a, <2>1, <2>2 DEF SyncHolds, Uring!Advance
    <3>2. /\ offset \in cached /\ offset \in uDurable' \cup uFailed'
          /\ \A b \in 0 .. offset - 1 : OnDisk(b)'
      BY <1>a, <2>1, <2>2 DEF SyncHolds, OnDisk
    <3> QED
      BY <1>8, <1>a, <2>1, <2>2, <3>1, <3>2, UringAdvances DEF Uring!Next
  <2>3. CASE uPc' = "error" /\ offset' = offset
    <3>1. SyncHolds'
      BY <1>a, <2>1, <2>3 DEF SyncHolds
    <3> QED
      BY <1>8, <1>a, <2>1, <2>3, <3>1, UringStays DEF Uring!Next
  <2> QED
    BY <1>8, <2>2, <2>3 DEF Uring!SyncFsync
<1>9. ASSUME UNCHANGED Uring!writeVars PROVE UringInv'
  BY <1>9 DEF Uring!writeVars, UringInv, UringHolds, SyncHolds, OnDisk, Pends,
              WriteReq, FsyncReq
<1> QED
  BY <1>1, <1>2, <1>3, <1>4, <1>5, <1>6, <1>7, <1>8, <1>9
  DEF Uring!Next, Uring!Returned

(* Whatever order the kernel executes write and fsync in, a power failure   *)
(* costs at most the block being written and the one before it, apart from  *)
(* blocks the kernel has failed to write; without io_uring none of these.   *)
THEOREM OldBlocksAreSafe == MCSpec => []OnlyNewestAtRisk
<1>1. MCInit => UringInv
  BY UringInit DEF MCInit
<1>2. UringInv /\ [MCNext]_mcVars => UringInv'
  BY UringNext DEF MCNext, mcVars, uringVars, Run, Uring!writeVars
<1>3. UringInv => OnlyNewestAtRisk
  BY DEF UringInv, SyncHolds, OnDisk, OnlyNewestAtRisk, Uring!OnlyNewestAtRisk
<1> QED
  BY <1>1, <1>2, <1>3, PTL DEF MCSpec

-----------------------------------------------------------------------------
(* BlockMemory: blocks and their halves.                                    *)
Id == Memory!Id
Filling == Value \cup {Zero}
Block == Filling \X Filling
Buffer == (Filling \cup {Null}) \X (Filling \cup {Null})

LEMMA MemoryFacts ==
  /\ MaxBlock \in Nat /\ Zero \notin Value
  /\ Null \notin Value /\ Null \notin Thread /\ Null # Zero /\ Null \notin Block
BY MemoryConstants DEF Memory!MemoryAssumption, Block, Filling

LEMMA WholeFacts ==
  ASSUME NEW x, NEW y
  PROVE  /\ Memory!Whole(x) = Memory!Whole(y) <=> x = y
         /\ Memory!Whole(x)[1] = x /\ Memory!Whole(x)[2] = x
BY DEF Memory!Whole

-----------------------------------------------------------------------------
(* BlockMemory: the invariant                                               *)
HasTable == {"lookup", "page"}
Copying == {"first", "second"}

MemType ==
  /\ memPc \in [Thread -> {"idle", "table", "done"} \cup HasTable \cup Copying]
  /\ memOp \in [Thread -> {"read", "write", Null}]
  /\ memId \in [Thread -> Id]
  /\ memBuffer \in [Thread -> Buffer]
  /\ memData \in Seq(Block \cup {Null})
  /\ memMutex \in Thread \cup {Null}
  /\ memReaders \in [Id -> SUBSET Thread]
  /\ memWriter \in [Id -> Thread \cup {Null}]

(* What a read has copied so far is the block, which is not a new one.      *)
Reads(t) ==
  LET i == memId[t]
  IN  /\ memPc[t] \in {"table"} \cup HasTable => memBuffer[t] = Memory!Whole(Null)
      /\ memPc[t] \in Copying =>
           t \in memReaders[i] /\ Memory!Entry(i) # Memory!Whole(Zero)
      /\ memPc[t] = "second" => memBuffer[t][1] = Memory!Entry(i)[1]
      /\ memPc[t] = "done" => memBuffer[t][1] = memBuffer[t][2]

Writes(t) ==
  LET i == memId[t]
  IN  /\ \E v \in Value : memBuffer[t] = Memory!Whole(v)
      /\ memPc[t] \in Copying => memWriter[i] = t
      /\ memPc[t] = "second" => Memory!Entry(i)[1] = memBuffer[t][1]

MemCall(t) ==
  /\ memPc[t] \in HasTable <=> memMutex = t
  /\ memPc[t] = "idle" => memBuffer[t] = Memory!Whole(Null)
  /\ memPc[t] # "idle" => memOp[t] \in {"read", "write"}
  /\ memPc[t] \in {"page"} \cup Copying => Memory!Exists(memId[t])
  /\ memPc[t] # "idle" /\ memOp[t] = "read" => Reads(t)
  /\ memPc[t] # "idle" /\ memOp[t] = "write" => Writes(t)

(* Who writes a block is alone there; a block nobody writes is whole; and   *)
(* one that is still full of zeros is about to be written by the thread     *)
(* that holds the table.                                                    *)
MemBlock(i) ==
  /\ memWriter[i] # Null =>
       /\ memReaders[i] = {}
       /\ memPc[memWriter[i]] \in Copying /\ memOp[memWriter[i]] = "write"
       /\ memId[memWriter[i]] = i
  /\ Memory!Exists(i) /\ memWriter[i] = Null =>
       /\ \E x \in Filling : Memory!Entry(i) = Memory!Whole(x)
       /\ Memory!Entry(i) = Memory!Whole(Zero) =>
            /\ memMutex # Null /\ memPc[memMutex] = "page"
            /\ memOp[memMutex] = "write" /\ memId[memMutex] = i

MemInv ==
  /\ MemType
  /\ \A t \in Thread : MemCall(t)
  /\ \A i \in Id : MemBlock(i)

LEMMA MemInit == Memory!Init => MemInv
<1> SUFFICES ASSUME Memory!Init PROVE MemInv
  OBVIOUS
<1>1. Memory!Whole(Null) \in Buffer
  BY DEF Memory!Whole, Buffer
<1>2. MemType
  BY <1>1, MemoryFacts DEF Memory!Init, MemType, Id, Memory!Id
<1>3. \A i \in Id : ~Memory!Exists(i)
  BY MemoryFacts DEF Memory!Init, Memory!Exists, Id, Memory!Id
<1>4. \A i \in Id : MemBlock(i)
  BY <1>3 DEF Memory!Init, MemBlock, Id
<1>5. \A t \in Thread : MemCall(t)
  BY MemoryFacts DEF Memory!Init, MemCall, HasTable, Copying
<1> QED
  BY <1>2, <1>4, <1>5 DEF MemInv

(* Entries, as far as there are any.                                        *)
LEMMA EntryFacts ==
  ASSUME MemType, NEW i \in Id
  PROVE  /\ i \in Nat /\ i + 1 \in Nat
         /\ Memory!Exists(i) => /\ i + 1 \in 1 .. Len(memData)
                                /\ memData[i + 1] \in Block
                                /\ Memory!Entry(i) = memData[i + 1]
         /\ ~Memory!Exists(i) => ~(i + 1 \in 1 .. Len(memData))
                                 \/ memData[i + 1] = Null
<1>1. i \in Nat
  BY MemoryFacts DEF Id, Memory!Id
<1>2. Len(memData) \in Nat /\ \A n \in 1 .. Len(memData) : memData[n] \in Block \cup {Null}
  BY ElementOfSeq, LenProperties DEF MemType
<1>3. i < Len(memData) <=> i + 1 \in 1 .. Len(memData)
  BY <1>1, <1>2
<1> QED
  BY <1>1, <1>2, <1>3 DEF Memory!Exists, Memory!Entry

(* WriteBlock makes its block, if there is none.                            *)
LEMMA GrowFacts ==
  ASSUME MemType, NEW t \in Thread, Memory!Grow(t)
  PROVE  /\ memData' \in Seq(Block \cup {Null})
         /\ Memory!Exists(memId[t])'
         /\ \A i \in Id :
              /\ i # memId[t] => (Memory!Exists(i)' <=> Memory!Exists(i))
              /\ Memory!Exists(i) => Memory!Exists(i)' /\ Memory!Entry(i)' = Memory!Entry(i)
         /\ ~Memory!Exists(memId[t]) => memData'[memId[t] + 1] = Memory!Whole(Zero)
         /\ memData'[memId[t] + 1] # Null
<1>1. PICK k \in Id : k = memId[t]
  BY DEF MemType
<1> DEFINE size == IF k < Len(memData) THEN Len(memData) ELSE k + 1
           new(n) == IF n = k + 1 /\ ~Memory!Exists(k) THEN Memory!Whole(Zero)
                     ELSE IF n <= Len(memData) THEN memData[n] ELSE Null
<1>2. memData' = [n \in 1 .. size |-> new(n)]
  BY <1>1 DEF Memory!Grow
<1>3. /\ Len(memData) \in Nat
      /\ \A n \in 1 .. Len(memData) : memData[n] \in Block \cup {Null}
  BY ElementOfSeq, LenProperties DEF MemType
<1>4. k \in Nat /\ size \in Nat /\ Len(memData) <= size /\ k + 1 \in 1 .. size
  BY <1>3, EntryFacts
<1>5. Memory!Whole(Zero) \in Block /\ Null \notin Block
  BY MemoryFacts DEF Memory!Whole, Block, Filling
<1>6. ASSUME NEW n \in 1 .. size PROVE new(n) \in Block \cup {Null}
  <2>1. CASE n = k + 1 /\ ~Memory!Exists(k)
    BY <1>5, <2>1
  <2>2. CASE ~(n = k + 1 /\ ~Memory!Exists(k)) /\ n <= Len(memData)
    <3>1. n \in 1 .. Len(memData)
      BY <1>3, <1>4, <2>2
    <3> QED
      BY <1>3, <2>2, <3>1
  <2>3. CASE ~(n = k + 1 /\ ~Memory!Exists(k)) /\ ~(n <= Len(memData))
    BY <2>3
  <2> QED
    BY <2>1, <2>2, <2>3
<1>7. memData' \in [1 .. size -> Block \cup {Null}]
  BY <1>2, <1>6
<1>8. memData' \in Seq(Block \cup {Null}) /\ Len(memData') = size
  <2>1. memData' \in Seq(Block \cup {Null}) /\ DOMAIN memData' = 1 .. size
    BY <1>4, <1>7, SeqDef
  <2> QED
    BY <1>4, <2>1, LenProperties
<1>9. \A n \in 1 .. size : memData'[n] = new(n)
  BY <1>2
<1> HIDE DEF size
<1>10. ~Memory!Exists(k) => memData'[k + 1] = Memory!Whole(Zero)
  BY <1>4, <1>9
<1>11. ASSUME NEW i \in Id, Memory!Exists(i)
       PROVE  /\ i + 1 \in 1 .. size /\ memData'[i + 1] = memData[i + 1]
              /\ memData[i + 1] \in Block
  <2>1. /\ i + 1 \in 1 .. Len(memData) /\ memData[i + 1] \in Block /\ i \in Nat
    BY <1>11, EntryFacts
  <2>2. i + 1 \in 1 .. size /\ i + 1 <= Len(memData)
    BY <1>3, <1>4, <2>1
  <2>3. i + 1 = k + 1 => i = k
    BY <1>4, <2>1
  <2> QED
    BY <1>9, <1>11, <2>1, <2>2, <2>3
<1>12. memData'[k + 1] # Null
  <2>1. CASE Memory!Exists(k)
    BY <1>5, <1>11, <2>1
  <2>2. CASE ~Memory!Exists(k)
    BY <1>5, <1>10, <2>2
  <2> QED
    BY <2>1, <2>2
<1>13. \A i \in Id : i < Len(memData') <=> i + 1 \in 1 .. size
  <2>1. \A i \in Id : i \in Nat
    BY EntryFacts
  <2> QED
    BY <1>4, <1>8, <2>1
<1>14. ASSUME NEW i \in Id, i # k, ~Memory!Exists(i), i + 1 \in 1 .. size
       PROVE  memData'[i + 1] = Null
  <2>1. i \in Nat /\ i + 1 # k + 1
    BY <1>4, <1>14, EntryFacts
  <2>2. memData'[i + 1] = IF i + 1 <= Len(memData) THEN memData[i + 1] ELSE Null
    BY <1>9, <1>14, <2>1
  <2>3. i + 1 <= Len(memData) => i + 1 \in 1 .. Len(memData)
    BY <1>3, <2>1
  <2> QED
    BY <1>14, <2>2, <2>3, EntryFacts
<1>15. ASSUME NEW i \in Id
       PROVE  /\ Memory!Exists(i)' <=> (i + 1 \in 1 .. size /\ memData'[i + 1] # Null)
              /\ Memory!Entry(i)' = memData'[i + 1]
              /\ Memory!Entry(i) = memData[i + 1]
  BY <1>13 DEF Memory!Exists, Memory!Entry
<1>16. Memory!Exists(memId[t])'
  <2>1. memId'[t] = k
    BY <1>1 DEF Memory!Grow, Memory!callVars
  <2>2. Memory!Exists(k)'
    BY <1>4, <1>12, <1>15
  <2> QED
    BY <2>1, <2>2 DEF Memory!Exists, Memory!Entry
<1> QED
  BY <1>1, <1>5, <1>8, <1>10, <1>11, <1>12, <1>14, <1>15, <1>16

(* One half of a block is written.                                          *)
LEMMA PutFacts ==
  ASSUME MemType, NEW k \in Id, Memory!Exists(k), NEW x \in Filling,
         NEW h \in {1, 2}, memData' = [memData EXCEPT ![k + 1][h] = x]
  PROVE  /\ memData' \in Seq(Block \cup {Null})
         /\ \A i \in Id : /\ Memory!Exists(i)' <=> Memory!Exists(i)
                          /\ i # k => Memory!Entry(i)' = Memory!Entry(i)
         /\ h = 1 => Memory!Entry(k)' = <<x, Memory!Entry(k)[2]>>
         /\ h = 2 => Memory!Entry(k)' = <<Memory!Entry(k)[1], x>>
<1>1. /\ k + 1 \in 1 .. Len(memData) /\ memData[k + 1] \in Block /\ k \in Nat
      /\ Memory!Entry(k) = memData[k + 1]
  BY EntryFacts
<1>2. memData \in Seq(Block \cup {Null}) /\ DOMAIN memData = 1 .. Len(memData)
  BY LenProperties DEF MemType
<1> DEFINE y == IF h = 1 THEN <<x, memData[k + 1][2]>> ELSE <<memData[k + 1][1], x>>
<1>3. memData' = [memData EXCEPT ![k + 1] = y]
  <2>1. PICK n \in DOMAIN memData : n = k + 1
    BY <1>1, <1>2
  <2>2. memData[n] \in Filling \X Filling
    BY <1>1, <2>1 DEF Block
  <2>3. /\ [memData EXCEPT ![n][1] = x] = [memData EXCEPT ![n] = <<x, memData[n][2]>>]
        /\ [memData EXCEPT ![n][2] = x] = [memData EXCEPT ![n] = <<memData[n][1], x>>]
    <3>1. /\ [memData[n] EXCEPT ![1] = x] = <<x, memData[n][2]>>
          /\ [memData[n] EXCEPT ![2] = x] = <<memData[n][1], x>>
      BY <2>2
    <3> QED
      BY <3>1
  <2>4. CASE h = 1
    BY <2>1, <2>3, <2>4
  <2>5. CASE h = 2
    BY <2>1, <2>3, <2>5
  <2> QED
    BY <2>4, <2>5
<1>4. y \in Block
  BY <1>1 DEF Block
<1>5. y = IF h = 1 THEN <<x, memData[k + 1][2]>> ELSE <<memData[k + 1][1], x>>
  OBVIOUS
<1> HIDE DEF y
<1>6. /\ memData' \in Seq(Block \cup {Null}) /\ Len(memData') = Len(memData)
      /\ \A j \in 1 .. Len(memData) : memData'[j] = IF j = k + 1 THEN y ELSE memData[j]
  BY <1>1, <1>2, <1>3, <1>4, ExceptSeq
<1>7. ASSUME NEW i \in Id
      PROVE  /\ Memory!Exists(i)' <=> Memory!Exists(i)
             /\ i # k => Memory!Entry(i)' = Memory!Entry(i)
  <2>1. i \in Nat /\ (i + 1 = k + 1 => i = k)
    BY <1>1, EntryFacts
  <2>2. memData'[i + 1] = IF i + 1 = k + 1 THEN y ELSE memData[i + 1]
    BY <1>3, <1>2, <1>1
  <2>3. y # Null /\ memData[k + 1] # Null
    BY <1>1, <1>4, MemoryFacts
  <2> QED
    BY <1>6, <2>1, <2>2, <2>3 DEF Memory!Exists, Memory!Entry
<1>8. Memory!Entry(k)' = y
  BY <1>1, <1>6 DEF Memory!Entry
<1> QED
  BY <1>1, <1>5, <1>6, <1>7, <1>8

(* What a call means for the abstract table.                                *)
LEMMA MemoryCalls ==
  ASSUME NEW t \in Thread
  PROVE  /\ memPc[t] = "idle" =>
              Memory!CallOf(t) = [st |-> "idle", key |-> Null, val |-> Null]
         /\ memPc[t] \in {"table"} \cup HasTable =>
              Memory!CallOf(t) =
                IF memOp[t] = "read"
                THEN [st |-> "get", key |-> memId[t], val |-> Null]
                ELSE [st |-> "set", key |-> memId[t], val |-> memBuffer[t][1]]
         /\ memPc[t] \in Copying \cup {"done"} =>
              Memory!CallOf(t) =
                [st |-> "ret", key |-> memId[t],
                 val |-> IF memOp[t] = "write" THEN memBuffer[t][1]
                         ELSE IF memPc[t] # "done" THEN Memory!Entry(memId[t])[1]
                         ELSE IF memBuffer[t][1] = memBuffer[t][2]
                         THEN memBuffer[t][1] ELSE Zero]
<1>1. ASSUME memPc[t] = "idle"
      PROVE  Memory!CallOf(t) = [st |-> "idle", key |-> Null, val |-> Null]
  BY <1>1 DEF Memory!CallOf
<1>2. ASSUME memPc[t] \in {"table"} \cup HasTable
      PROVE  Memory!CallOf(t) =
               IF memOp[t] = "read"
               THEN [st |-> "get", key |-> memId[t], val |-> Null]
               ELSE [st |-> "set", key |-> memId[t], val |-> memBuffer[t][1]]
  <2>1. /\ memPc[t] # "idle"
        /\ ~(memPc[t] \in {"first", "second", "done"})
    BY <1>2 DEF HasTable
  <2> QED
    BY <1>2, <2>1 DEF HasTable, Memory!CallOf
<1>3. ASSUME memPc[t] \in Copying \cup {"done"}
      PROVE  Memory!CallOf(t) =
               [st |-> "ret", key |-> memId[t],
                val |-> IF memOp[t] = "write" THEN memBuffer[t][1]
                        ELSE IF memPc[t] # "done" THEN Memory!Entry(memId[t])[1]
                        ELSE IF memBuffer[t][1] = memBuffer[t][2]
                        THEN memBuffer[t][1] ELSE Zero]
  <2>1. CASE memPc[t] = "first"
    BY <2>1 DEF Memory!CallOf
  <2>2. CASE memPc[t] = "second"
    BY <2>2 DEF Memory!CallOf
  <2>3. CASE memPc[t] = "done"
    BY <2>3 DEF Memory!CallOf
  <2> QED
    BY <1>3, <2>1, <2>2, <2>3 DEF Copying
<1> QED
  BY <1>1, <1>2, <1>3

(* What the steps of others leave to a thread.                              *)
LEMMA MemFrame ==
  ASSUME MemInv, NEW u \in Thread,
         memPc'[u] = memPc[u], memOp'[u] = memOp[u], memId'[u] = memId[u],
         memBuffer'[u] = memBuffer[u],
         memMutex' = u <=> memMutex = u,
         \A i \in Id :
           /\ Memory!Exists(i) => Memory!Exists(i)'
           /\ u \in memReaders[i] => u \in memReaders'[i]
           /\ memWriter[i] = u => memWriter'[i] = u
           /\ i = memId[u] /\ memPc[u] \in Copying =>
                Memory!Entry(i)' = Memory!Entry(i)
  PROVE  MemCall(u)' /\ Memory!CallOf(u)' = Memory!CallOf(u)
<1>1. MemCall(u) /\ MemType
  BY DEF MemInv
<1>2. PICK k \in Id : k = memId[u]
  BY <1>1 DEF MemType
<1>3. Memory!Exists(k) => Memory!Exists(k)'
  OBVIOUS
<1>4. memPc[u] \in Copying => Memory!Entry(k)' = Memory!Entry(k)
  BY <1>2
<1>5. /\ Memory!Exists(memId[u]) <=> Memory!Exists(k)
      /\ Memory!Exists(memId[u])' <=> Memory!Exists(k)'
      /\ Memory!Entry(memId[u]) = Memory!Entry(k)
      /\ Memory!Entry(memId[u])' = Memory!Entry(k)'
  BY <1>2 DEF Memory!Exists, Memory!Entry
<1>6. Reads(u) => Reads(u)'
  BY <1>2, <1>4, <1>5 DEF Reads, Copying
<1>7. Writes(u) => Writes(u)'
  BY <1>2, <1>4, <1>5 DEF Writes, Copying
<1>8. MemCall(u)'
  BY <1>1, <1>3, <1>5, <1>6, <1>7 DEF MemCall
<1>9. Memory!CallOf(u)' = Memory!CallOf(u)
  BY <1>4, <1>5 DEF Memory!CallOf, Copying
<1> QED
  BY <1>8, <1>9

(* What a step of t leaves of a block.                                      *)
LEMMA BlockFrame ==
  ASSUME MemInv, NEW t \in Thread, NEW i \in Id,
         memWriter'[i] = memWriter[i], memReaders'[i] \subseteq memReaders[i]
                                       \/ memWriter[i] = Null,
         Memory!Exists(i)' <=> Memory!Exists(i),
         memWriter[i] = Null /\ Memory!Exists(i) =>
           Memory!Entry(i)' = Memory!Entry(i),
         \A u \in Thread \ {t} :
           memPc'[u] = memPc[u] /\ memOp'[u] = memOp[u] /\ memId'[u] = memId[u],
         memWriter[i] = t =>
           memPc'[t] \in Copying /\ memOp'[t] = memOp[t] /\ memId'[t] = memId[t],
         memMutex' = memMutex \/ memMutex \in {t, Null},
         memPc[t] = "page" /\ memOp[t] = "write" => memId[t] # i
  PROVE  MemBlock(i)'
<1>1. MemBlock(i) /\ MemType
  BY DEF MemInv
<1>2. memWriter[i] \in Thread \cup {Null} /\ memMutex \in Thread \cup {Null}
  BY <1>1 DEF MemType
<1>3. ASSUME memWriter'[i] # Null
      PROVE  /\ memReaders'[i] = {}
             /\ memPc'[memWriter'[i]] \in Copying /\ memOp'[memWriter'[i]] = "write"
             /\ memId'[memWriter'[i]] = i
  BY <1>1, <1>2, <1>3 DEF MemBlock
<1>4. ASSUME Memory!Exists(i)', memWriter'[i] = Null
      PROVE  /\ \E x \in Filling : Memory!Entry(i)' = Memory!Whole(x)
             /\ Memory!Entry(i)' = Memory!Whole(Zero) =>
                  /\ memMutex' # Null /\ memPc'[memMutex'] = "page"
                  /\ memOp'[memMutex'] = "write" /\ memId'[memMutex'] = i
  <2>1. Memory!Exists(i) /\ memWriter[i] = Null /\ Memory!Entry(i)' = Memory!Entry(i)
    BY <1>4
  <2>2. \E x \in Filling : Memory!Entry(i)' = Memory!Whole(x)
    BY <1>1, <2>1 DEF MemBlock
  <2>3. ASSUME Memory!Entry(i)' = Memory!Whole(Zero)
        PROVE  /\ memMutex' # Null /\ memPc'[memMutex'] = "page"
               /\ memOp'[memMutex'] = "write" /\ memId'[memMutex'] = i
    <3>1. /\ memMutex # Null /\ memPc[memMutex] = "page"
          /\ memOp[memMutex] = "write" /\ memId[memMutex] = i
      BY <1>1, <2>1, <2>3 DEF MemBlock
    <3>2. memMutex # t
      BY <3>1
    <3> QED
      BY <1>2, <3>1, <3>2
  <2> QED
    BY <2>2, <2>3
<1> QED
  BY <1>3, <1>4 DEF MemBlock, Memory!Whole

-----------------------------------------------------------------------------
(* BlockMemory implements the atomic table.                                 *)
Content(i) ==
  IF ~Memory!Exists(i) THEN Null
  ELSE IF memWriter[i] # Null THEN memBuffer[memWriter[i]][1]
  ELSE IF Memory!Entry(i) = Memory!Whole(Zero) THEN Null
  ELSE Memory!Entry(i)[1]

MemCalls == [t \in Thread |-> Memory!CallOf(t)]

LEMMA MemContents ==
  /\ Memory!Contents = [i \in Id |-> Content(i)]
  /\ Memory!Contents' = [i \in Id |-> Content(i)']
BY DEF Memory!Contents, Content, Id

LEMMA MemMove ==
  ASSUME NEW t \in Thread, NEW x, Memory!CallOf(t)' = x,
         \A u \in Thread \ {t} : Memory!CallOf(u)' = Memory!CallOf(u)
  PROVE  Memory!LM!Move(t, x)
<1>1. MemCalls' = [MemCalls EXCEPT ![t] = x]
  BY DEF MemCalls
<1> QED
  BY <1>1 DEF MemCalls, Memory!LM!Move

LEMMA ContentFrame ==
  ASSUME NEW i \in Id, memWriter'[i] = memWriter[i],
         Memory!Exists(i)' <=> Memory!Exists(i),
         memWriter[i] = Null /\ Memory!Exists(i) =>
           Memory!Entry(i)' = Memory!Entry(i),
         memWriter[i] # Null =>
           memBuffer'[memWriter[i]][1] = memBuffer[memWriter[i]][1]
  PROVE  Content(i)' = Content(i)
BY DEF Content, Memory!Whole

LEMMA DataStays ==
  ASSUME memData' = memData, NEW i
  PROVE  (Memory!Exists(i)' <=> Memory!Exists(i)) /\ Memory!Entry(i)' = Memory!Entry(i)
BY DEF Memory!Exists, Memory!Entry

LEMMA MemHolds ==
  ASSUME MemInv
  PROVE  /\ MemType
         /\ \A t \in Thread : MemCall(t)
         /\ \A i \in Id : MemBlock(i)
BY DEF MemInv

(* Steps of a call that leave blocks and their locks alone.                 *)
LEMMA CallMoves ==
  ASSUME MemInv, NEW t \in Thread, MemType', MemCall(t)',
         UNCHANGED <<memData, memReaders, memWriter>>,
         \A u \in Thread \ {t} :
           /\ memPc'[u] = memPc[u] /\ memOp'[u] = memOp[u]
           /\ memId'[u] = memId[u] /\ memBuffer'[u] = memBuffer[u]
           /\ memMutex' = u <=> memMutex = u,
         memMutex' = memMutex \/ memMutex \in {t, Null},
         memPc[t] \notin {"page"} \cup Copying
  PROVE  /\ MemInv'
         /\ \A u \in Thread \ {t} : Memory!CallOf(u)' = Memory!CallOf(u)
         /\ \A i \in Id : Content(i)' = Content(i)
<1>1. \A u \in Thread \ {t} : MemCall(u)' /\ Memory!CallOf(u)' = Memory!CallOf(u)
  <2>1. SUFFICES ASSUME NEW u \in Thread \ {t}
                 PROVE  MemCall(u)' /\ Memory!CallOf(u)' = Memory!CallOf(u)
    OBVIOUS
  <2>2. \A i \in Id :
           /\ Memory!Exists(i) => Memory!Exists(i)'
           /\ u \in memReaders[i] => u \in memReaders'[i]
           /\ memWriter[i] = u => memWriter'[i] = u
           /\ i = memId[u] /\ memPc[u] \in Copying =>
                Memory!Entry(i)' = Memory!Entry(i)
    BY DataStays
  <2>3. u \in Thread
    OBVIOUS
  <2> QED
    BY <2>2, <2>3, MemFrame
<1>2. ASSUME NEW i \in Id PROVE memWriter[i] # t /\ memWriter[i] \in Thread \cup {Null}
  <2>1. MemBlock(i) /\ MemType /\ Null # t
    BY MemHolds, MemoryFacts
  <2> QED
    BY <2>1 DEF MemBlock, MemType
<1>3. ASSUME NEW i \in Id PROVE MemBlock(i)' /\ Content(i)' = Content(i)
  <2>1. (Memory!Exists(i)' <=> Memory!Exists(i)) /\ Memory!Entry(i)' = Memory!Entry(i)
    BY DataStays
  <2>2. memWriter'[i] = memWriter[i] /\ memReaders'[i] \subseteq memReaders[i]
    OBVIOUS
  <2>3. /\ memWriter[i] = t => memPc'[t] \in Copying /\ memOp'[t] = memOp[t]
                                /\ memId'[t] = memId[t]
        /\ memPc[t] = "page" /\ memOp[t] = "write" => memId[t] # i
    BY <1>2
  <2>4. MemBlock(i)'
    BY <2>1, <2>2, <2>3, BlockFrame
  <2>5. memWriter[i] # Null => memBuffer'[memWriter[i]][1] = memBuffer[memWriter[i]][1]
    BY <1>2
  <2>6. Content(i)' = Content(i)
    BY <2>1, <2>2, <2>5, ContentFrame
  <2> QED
    BY <2>4, <2>6
<1>4. MemInv'
  BY <1>1, <1>3 DEF MemInv
<1> QED
  BY <1>1, <1>3, <1>4

(* A step that changes no call but t's, and no content.                     *)
LEMMA MemQuiet ==
  ASSUME NEW t \in Thread, Memory!CallOf(t)' = Memory!CallOf(t),
         \A u \in Thread \ {t} : Memory!CallOf(u)' = Memory!CallOf(u),
         \A i \in Id : Content(i)' = Content(i)
  PROVE  UNCHANGED Memory!LM!vars
<1>1. MemCalls' = MemCalls
  BY DEF MemCalls
<1>2. Memory!Contents' = Memory!Contents
  BY MemContents
<1> QED
  BY <1>1, <1>2 DEF Memory!LM!vars, MemCalls

LEMMA MapStays ==
  ASSUME \A i \in Id : Content(i)' = Content(i)
  PROVE  Memory!Contents' = Memory!Contents
BY MemContents

LEMMA MemBegin ==
  ASSUME MemInv, NEW t \in Thread, Memory!Begin(t)
  PROVE  MemInv' /\ Memory!LM!Invoke(t)
<1>1. MemType /\ MemCall(t) /\ t # Null /\ Null \notin Value
  BY MemHolds, MemoryFacts
<1>2. /\ memPc[t] = "idle" /\ memPc' = [memPc EXCEPT ![t] = "table"]
      /\ UNCHANGED <<memData, memMutex, memReaders, memWriter>>
  BY DEF Memory!Begin, Memory!Goto, Memory!lockVars
<1>3. PICK k \in Id : memId' = [memId EXCEPT ![t] = k]
  BY DEF Memory!Begin, Id
<1>4. memBuffer[t] = Memory!Whole(Null) /\ memMutex # t
  BY <1>1, <1>2 DEF MemCall, HasTable
<1>5. /\ memPc'[t] = "table" /\ memId'[t] = k
      /\ \A u \in Thread \ {t} : memPc'[u] = memPc[u] /\ memId'[u] = memId[u]
  BY <1>1, <1>2, <1>3 DEF MemType
<1>6. CASE memOp' = [memOp EXCEPT ![t] = "read"] /\ UNCHANGED memBuffer
  <2>1. MemType'
    BY <1>1, <1>2, <1>3, <1>6 DEF MemType
  <2>2. /\ memOp'[t] = "read" /\ memBuffer'[t] = Memory!Whole(Null)
        /\ \A u \in Thread \ {t} : memOp'[u] = memOp[u] /\ memBuffer'[u] = memBuffer[u]
    BY <1>1, <1>4, <1>6 DEF MemType
  <2>3. MemCall(t)'
    <3>1. Reads(t)'
      BY <1>5, <2>2 DEF Reads, Copying, Memory!Whole
    <3> QED
      BY <1>2, <1>4, <1>5, <2>2, <3>1 DEF MemCall, HasTable, Copying
  <2>4. /\ MemInv'
        /\ \A u \in Thread \ {t} : Memory!CallOf(u)' = Memory!CallOf(u)
        /\ \A i \in Id : Content(i)' = Content(i)
    <3>1. memPc[t] \notin {"page"} \cup Copying
      BY <1>2 DEF Copying
    <3> QED
      BY <1>2, <1>5, <2>1, <2>2, <2>3, <3>1, CallMoves
  <2>5. Memory!CallOf(t)' = [st |-> "get", key |-> k, val |-> Null]
    BY <1>5, <2>2 DEF Memory!CallOf
  <2>6. Memory!CallOf(t) = [st |-> "idle", key |-> Null, val |-> Null]
    BY <1>2 DEF Memory!CallOf
  <2>7. Memory!LM!Move(t, [st |-> "get", key |-> k, val |-> Null])
    BY <2>4, <2>5, MemMove
  <2> QED
    BY <2>4, <2>6, <2>7, MapStays
    DEF Memory!LM!Invoke, Memory!LM!Call, Memory!LM!Idle, Id
<1>7. ASSUME NEW v \in Value, memOp' = [memOp EXCEPT ![t] = "write"],
             memBuffer' = [memBuffer EXCEPT ![t] = Memory!Whole(v)]
      PROVE  MemInv' /\ Memory!LM!Invoke(t)
  <2>0. Memory!Whole(v) \in Buffer
    BY DEF Memory!Whole, Buffer, Filling
  <2>1. MemType'
    BY <1>1, <1>2, <1>3, <1>7, <2>0 DEF MemType
  <2>2. /\ memOp'[t] = "write" /\ memBuffer'[t] = Memory!Whole(v)
        /\ \A u \in Thread \ {t} : memOp'[u] = memOp[u] /\ memBuffer'[u] = memBuffer[u]
    BY <1>1, <1>7 DEF MemType
  <2>3. MemCall(t)'
    <3>1. Writes(t)'
      BY <1>5, <2>2 DEF Writes, Copying, Memory!Whole
    <3> QED
      BY <1>2, <1>4, <1>5, <2>2, <3>1 DEF MemCall, HasTable, Copying
  <2>4. /\ MemInv'
        /\ \A u \in Thread \ {t} : Memory!CallOf(u)' = Memory!CallOf(u)
        /\ \A i \in Id : Content(i)' = Content(i)
    <3>1. memPc[t] \notin {"page"} \cup Copying
      BY <1>2 DEF Copying
    <3> QED
      BY <1>2, <1>5, <2>1, <2>2, <2>3, <3>1, CallMoves
  <2>5. Memory!CallOf(t)' = [st |-> "set", key |-> k, val |-> v]
    BY <1>5, <2>2 DEF Memory!CallOf, Memory!Whole
  <2>6. Memory!CallOf(t) = [st |-> "idle", key |-> Null, val |-> Null]
    BY <1>2 DEF Memory!CallOf
  <2>7. Memory!LM!Move(t, [st |-> "set", key |-> k, val |-> v])
    BY <2>4, <2>5, MemMove
  <2> QED
    BY <2>4, <2>6, <2>7, MapStays
    DEF Memory!LM!Invoke, Memory!LM!Call, Memory!LM!Idle, Id
<1> QED
  BY <1>6, <1>7 DEF Memory!Begin

LEMMA MemReturn ==
  ASSUME MemInv, NEW t \in Thread, Memory!Return(t)
  PROVE  MemInv' /\ Memory!LM!Return(t)
<1>1. MemType /\ MemCall(t) /\ t # Null /\ MaxBlock \in Nat
  BY MemHolds, MemoryFacts
<1>2. /\ memPc[t] = "done" /\ memPc' = [memPc EXCEPT ![t] = "idle"]
      /\ memOp' = [memOp EXCEPT ![t] = Null] /\ memId' = [memId EXCEPT ![t] = 0]
      /\ memBuffer' = [memBuffer EXCEPT ![t] = Memory!Whole(Null)]
      /\ UNCHANGED <<memData, memMutex, memReaders, memWriter>>
  BY DEF Memory!Return, Memory!Goto, Memory!lockVars
<1>3. /\ memPc'[t] = "idle" /\ memBuffer'[t] = Memory!Whole(Null)
      /\ \A u \in Thread \ {t} :
           /\ memPc'[u] = memPc[u] /\ memOp'[u] = memOp[u]
           /\ memId'[u] = memId[u] /\ memBuffer'[u] = memBuffer[u]
  BY <1>1, <1>2 DEF MemType
<1>4. MemType'
  <2>1. Memory!Whole(Null) \in Buffer /\ 0 \in Id
    BY <1>1 DEF Memory!Whole, Buffer, Id, Memory!Id
  <2> QED
    BY <1>1, <1>2, <2>1 DEF MemType
<1>5. MemCall(t)'
  BY <1>1, <1>2, <1>3 DEF MemCall, HasTable, Copying
<1>6. /\ MemInv'
      /\ \A u \in Thread \ {t} : Memory!CallOf(u)' = Memory!CallOf(u)
      /\ \A i \in Id : Content(i)' = Content(i)
  <2>1. memPc[t] \notin {"page"} \cup Copying
    BY <1>2 DEF Copying
  <2> QED
    BY <1>2, <1>3, <1>4, <1>5, <2>1, CallMoves
<1>7. Memory!CallOf(t).st = "ret"
  BY <1>2, MemoryCalls
<1>8. Memory!CallOf(t)' = [st |-> "idle", key |-> Null, val |-> Null]
  BY <1>3 DEF Memory!CallOf
<1>9. Memory!LM!Move(t, [st |-> "idle", key |-> Null, val |-> Null])
  BY <1>6, <1>8, MemMove
<1> QED
  BY <1>6, <1>7, <1>9, MapStays
  DEF Memory!LM!Return, Memory!LM!Call, Memory!LM!Idle

LEMMA MemLockTable ==
  ASSUME MemInv, NEW t \in Thread, Memory!LockTable(t)
  PROVE  MemInv' /\ UNCHANGED Memory!LM!vars
<1>1. MemType /\ MemCall(t) /\ Null \notin Thread
  BY MemHolds, MemoryFacts
<1>2. /\ memPc[t] = "table" /\ memPc' = [memPc EXCEPT ![t] = "lookup"]
      /\ memMutex = Null /\ memMutex' = t
      /\ UNCHANGED <<memOp, memId, memBuffer, memData, memReaders, memWriter>>
  BY DEF Memory!LockTable, Memory!Goto, Memory!callVars
<1>3. memPc'[t] = "lookup" /\ \A u \in Thread \ {t} : memPc'[u] = memPc[u]
  BY <1>1, <1>2 DEF MemType
<1>4. MemType'
  BY <1>1, <1>2 DEF MemType, HasTable
<1>5. MemCall(t)'
  <2>1. memOp[t] = "read" => Reads(t)'
    BY <1>1, <1>2, <1>3 DEF MemCall, Reads, Copying, Memory!Whole
  <2>2. memOp[t] = "write" => Writes(t)'
    BY <1>1, <1>2, <1>3 DEF MemCall, Writes, Copying, Memory!Whole
  <2> QED
    BY <1>1, <1>2, <1>3, <2>1, <2>2 DEF MemCall, HasTable, Copying
<1>6. /\ MemInv'
      /\ \A u \in Thread \ {t} : Memory!CallOf(u)' = Memory!CallOf(u)
      /\ \A i \in Id : Content(i)' = Content(i)
  <2>1. memPc[t] \notin {"page"} \cup Copying
    BY <1>2 DEF Copying
  <2>2. \A u \in Thread \ {t} : memMutex' = u <=> memMutex = u
    BY <1>1, <1>2
  <2> QED
    BY <1>2, <1>3, <1>4, <1>5, <2>1, <2>2, CallMoves
<1>7. Memory!CallOf(t)' = Memory!CallOf(t)
  BY <1>2, <1>3 DEF Memory!CallOf
<1> QED
  BY <1>6, <1>7, MemQuiet

LEMMA MemLookup ==
  ASSUME MemInv, NEW t \in Thread, Memory!Lookup(t)
  PROVE  MemInv' /\ UNCHANGED Memory!LM!vars
<1>1. MemType /\ MemCall(t)
  BY MemHolds
<1>2. /\ memPc[t] = "lookup" /\ memPc' = [memPc EXCEPT ![t] = "page"]
      /\ memOp[t] = "read" /\ Memory!Exists(memId[t])
      /\ UNCHANGED <<memOp, memId, memBuffer, memData>>
      /\ UNCHANGED <<memMutex, memReaders, memWriter>>
  BY DEF Memory!Lookup, Memory!Goto, Memory!callVars, Memory!lockVars
<1>3. memPc'[t] = "page" /\ \A u \in Thread \ {t} : memPc'[u] = memPc[u]
  BY <1>1, <1>2 DEF MemType
<1>4. MemType'
  BY <1>1, <1>2 DEF MemType, HasTable
<1>5. MemCall(t)'
  <2>1. Reads(t)'
    BY <1>1, <1>2, <1>3 DEF MemCall, Reads, Copying, HasTable, Memory!Whole
  <2>2. Memory!Exists(memId[t])'
    BY <1>2 DEF Memory!Exists, Memory!Entry
  <2>3. memPc'[t] \in HasTable <=> memMutex' = t
    BY <1>1, <1>2, <1>3 DEF MemCall, HasTable
  <2> QED
    BY <1>2, <1>3, <2>1, <2>2, <2>3 DEF MemCall
<1>6. /\ MemInv'
      /\ \A u \in Thread \ {t} : Memory!CallOf(u)' = Memory!CallOf(u)
      /\ \A i \in Id : Content(i)' = Content(i)
  <2>1. memPc[t] \notin {"page"} \cup Copying
    BY <1>2 DEF Copying
  <2> QED
    BY <1>2, <1>3, <1>4, <1>5, <2>1, CallMoves
<1>7. Memory!CallOf(t)' = Memory!CallOf(t)
  BY <1>2, <1>3 DEF Memory!CallOf
<1> QED
  BY <1>6, <1>7, MemQuiet

(* There is no block: the read answers so.                                  *)
LEMMA MemNotExist ==
  ASSUME MemInv, NEW t \in Thread, Memory!NotExist(t)
  PROVE  MemInv' /\ Memory!LM!Get(t)
<1>1. MemType /\ MemCall(t) /\ Null \notin Thread
  BY MemHolds, MemoryFacts
<1>2. /\ memPc[t] = "lookup" /\ memPc' = [memPc EXCEPT ![t] = "done"]
      /\ memOp[t] = "read" /\ ~Memory!Exists(memId[t]) /\ memMutex' = Null
      /\ UNCHANGED <<memOp, memId, memBuffer, memData, memReaders, memWriter>>
  BY DEF Memory!NotExist, Memory!Goto, Memory!callVars
<1>3. memPc'[t] = "done" /\ \A u \in Thread \ {t} : memPc'[u] = memPc[u]
  BY <1>1, <1>2 DEF MemType
<1>4. MemType'
  BY <1>1, <1>2 DEF MemType, HasTable
<1>5. memBuffer[t] = Memory!Whole(Null) /\ memMutex = t
  BY <1>1, <1>2 DEF MemCall, Reads, HasTable
<1>6. MemCall(t)'
  <2>1. Reads(t)'
    BY <1>2, <1>3, <1>5, WholeFacts DEF Reads, Copying, HasTable
  <2> QED
    BY <1>1, <1>2, <1>3, <2>1 DEF MemCall, HasTable, Copying
<1>7. /\ MemInv'
      /\ \A u \in Thread \ {t} : Memory!CallOf(u)' = Memory!CallOf(u)
      /\ \A i \in Id : Content(i)' = Content(i)
  <2>1. memPc[t] \notin {"page"} \cup Copying
    BY <1>2 DEF Copying
  <2>2. \A u \in Thread \ {t} : memMutex' = u <=> memMutex = u
    BY <1>1, <1>2, <1>5
  <2>3. memMutex \in {t, Null}
    BY <1>5
  <2> QED
    BY <1>2, <1>3, <1>4, <1>6, <2>1, <2>2, <2>3, CallMoves
<1>8. PICK k \in Id : k = memId[t]
  BY <1>1 DEF MemType
<1>9. Memory!CallOf(t) = [st |-> "get", key |-> k, val |-> Null]
  BY <1>2, <1>8 DEF Memory!CallOf
<1>10. Memory!CallOf(t)' = [st |-> "ret", key |-> k, val |-> Null]
  BY <1>2, <1>3, <1>5, <1>8 DEF Memory!CallOf, Memory!Whole
<1>11. Memory!Contents[k] = Null
  BY <1>2, <1>8, MemContents DEF Content
<1>12. Memory!LM!Move(t, [st |-> "ret", key |-> k, val |-> Null])
  BY <1>7, <1>10, MemMove
<1> QED
  BY <1>7, <1>9, <1>11, <1>12, MapStays DEF Memory!LM!Get, Memory!LM!Call

(* Who copies a block knows that nobody else writes it.                     *)
LEMMA Copiers ==
  ASSUME MemInv, NEW t \in Thread, memPc[t] \in Copying
  PROVE  /\ memOp[t] = "read" => /\ t \in memReaders[memId[t]]
                                 /\ memWriter[memId[t]] = Null
         /\ memOp[t] = "write" =>
              /\ memWriter[memId[t]] = t /\ memReaders[memId[t]] = {}
              /\ \A u \in Thread \ {t} : memPc[u] \in Copying => memId[u] # memId[t]
<1>1. \A u \in Thread : MemCall(u) /\ memId[u] \in Id
  BY MemHolds DEF MemType
<1>2. \A u \in Thread : memPc[u] \in Copying =>
        /\ memOp[u] = "read" => u \in memReaders[memId[u]]
        /\ memOp[u] = "write" => memWriter[memId[u]] = u
        /\ memOp[u] \in {"read", "write"}
  BY <1>1 DEF MemCall, Reads, Writes, Copying
<1>3. \A i \in Id : memWriter[i] # Null => memReaders[i] = {}
  BY MemHolds DEF MemBlock
<1>4. t # Null
  BY MemoryFacts
<1> QED
  BY <1>1, <1>2, <1>3, <1>4

(* The writer of a block that is not there does not exist.                  *)
LEMMA NoBlockNoWriter ==
  ASSUME MemInv, NEW i \in Id, ~Memory!Exists(i)
  PROVE  memWriter[i] = Null
<1>1. SUFFICES ASSUME memWriter[i] # Null PROVE FALSE
  OBVIOUS
<1>2. PICK u \in Thread : u = memWriter[i]
  BY <1>1, MemHolds DEF MemType
<1>3. memPc[u] \in Copying /\ memId[u] = i
  BY <1>1, <1>2, MemHolds DEF MemBlock
<1>4. Memory!Exists(memId[u])
  BY <1>3, MemHolds DEF MemCall
<1> QED
  BY <1>3, <1>4

LEMMA MemGrow ==
  ASSUME MemInv, NEW t \in Thread, Memory!Grow(t)
  PROVE  MemInv' /\ UNCHANGED Memory!LM!vars
<1>1. MemType /\ MemCall(t) /\ Null \notin Thread
  BY MemHolds, MemoryFacts
<1>2. /\ memPc[t] = "lookup" /\ memPc' = [memPc EXCEPT ![t] = "page"]
      /\ memOp[t] = "write"
      /\ UNCHANGED <<memOp, memId, memBuffer, memMutex, memReaders, memWriter>>
  BY DEF Memory!Grow, Memory!Goto, Memory!callVars, Memory!lockVars
<1>3. memPc'[t] = "page" /\ \A u \in Thread \ {t} : memPc'[u] = memPc[u]
  BY <1>1, <1>2 DEF MemType
<1>4. PICK k \in Id : k = memId[t]
  BY <1>1 DEF MemType
<1>5. /\ memData' \in Seq(Block \cup {Null})
      /\ Memory!Exists(memId[t])'
      /\ \A i \in Id :
           /\ i # k => (Memory!Exists(i)' <=> Memory!Exists(i))
           /\ Memory!Exists(i) => Memory!Exists(i)' /\ Memory!Entry(i)' = Memory!Entry(i)
      /\ ~Memory!Exists(k) => memData'[k + 1] = Memory!Whole(Zero)
  BY <1>1, <1>4, GrowFacts
<1>6. MemType'
  BY <1>1, <1>2, <1>5 DEF MemType, HasTable
<1>7. MemCall(t)'
  <2>1. Writes(t)'
    BY <1>1, <1>2, <1>3 DEF MemCall, Writes, Copying, Memory!Whole
  <2>2. memPc'[t] \in HasTable <=> memMutex' = t
    BY <1>1, <1>2, <1>3 DEF MemCall, HasTable
  <2> QED
    BY <1>2, <1>3, <1>5, <2>1, <2>2 DEF MemCall
<1>8. ASSUME NEW u \in Thread \ {t}
      PROVE  MemCall(u)' /\ Memory!CallOf(u)' = Memory!CallOf(u)
  <2>1. memPc[u] \in Copying => Memory!Exists(memId[u])
    BY MemHolds DEF MemCall
  <2>2. \A i \in Id :
           /\ Memory!Exists(i) => Memory!Exists(i)'
           /\ u \in memReaders[i] => u \in memReaders'[i]
           /\ memWriter[i] = u => memWriter'[i] = u
           /\ i = memId[u] /\ memPc[u] \in Copying =>
                Memory!Entry(i)' = Memory!Entry(i)
    BY <1>2, <1>5, <2>1
  <2>3. /\ memPc'[u] = memPc[u] /\ memOp'[u] = memOp[u]
        /\ memId'[u] = memId[u] /\ memBuffer'[u] = memBuffer[u] /\ u \in Thread
    BY <1>2, <1>3
  <2>4. memMutex' = u <=> memMutex = u
    BY <1>2
  <2> QED
    BY <2>2, <2>3, <2>4, MemFrame
<1>9. ASSUME NEW i \in Id, i # k \/ Memory!Exists(i)
      PROVE  MemBlock(i)' /\ Content(i)' = Content(i)
  <2>1. /\ Memory!Exists(i)' <=> Memory!Exists(i)
        /\ Memory!Exists(i) => Memory!Entry(i)' = Memory!Entry(i)
    BY <1>5, <1>9
  <2>2. memWriter'[i] = memWriter[i] /\ memReaders'[i] = memReaders[i]
    BY <1>2
  <2>3. memWriter[i] # t
    BY <1>1, <1>2, MemHolds DEF MemBlock, Copying
  <2>4. MemBlock(i)'
    BY <1>2, <1>3, <2>1, <2>2, <2>3, BlockFrame
  <2>5. Content(i)' = Content(i)
    BY <1>2, <2>1, <2>2, ContentFrame
  <2> QED
    BY <2>4, <2>5
<1>10. ASSUME ~Memory!Exists(k) PROVE MemBlock(k)' /\ Content(k)' = Content(k)
  <2>1. memWriter'[k] = Null
    BY <1>2, <1>10, NoBlockNoWriter
  <2>2. Memory!Entry(k)' = Memory!Whole(Zero) /\ Memory!Exists(k)'
    BY <1>2, <1>4, <1>5, <1>10 DEF Memory!Entry, Memory!Exists
  <2>3. memMutex' = t /\ memOp'[t] = "write" /\ memId'[t] = k
    BY <1>1, <1>2, <1>4 DEF MemCall, HasTable
  <2>4. MemBlock(k)'
    <3>1. Zero \in Filling /\ t # Null
      BY <1>1 DEF Filling
    <3>2. \E x \in Filling : Memory!Entry(k)' = Memory!Whole(x)
      BY <2>2, <3>1
    <3> QED
      BY <1>3, <2>1, <2>3, <3>1, <3>2 DEF MemBlock, Memory!Whole
  <2>5. Content(k)' = Null /\ Content(k) = Null
    BY <1>10, <2>1, <2>2 DEF Content, Memory!Whole
  <2> QED
    BY <2>4, <2>5
<1>11. MemInv'
  BY <1>6, <1>7, <1>8, <1>9, <1>10 DEF MemInv
<1>12. Memory!CallOf(t)' = Memory!CallOf(t)
  BY <1>2, <1>3 DEF Memory!CallOf
<1> QED
  BY <1>8, <1>9, <1>10, <1>11, <1>12, MemQuiet

(* The block is locked to be read: the read takes effect.                   *)
LEMMA MemLockToRead ==
  ASSUME MemInv, NEW t \in Thread, Memory!LockPage(t), memOp[t] = "read"
  PROVE  MemInv' /\ Memory!LM!Get(t)
<1>1. MemType /\ MemCall(t) /\ Null \notin Thread
  BY MemHolds, MemoryFacts
<1>2. PICK k \in Id : k = memId[t]
  BY <1>1 DEF MemType
<1>3. /\ memPc[t] = "page" /\ memPc' = [memPc EXCEPT ![t] = "first"]
      /\ memMutex' = Null /\ memWriter[k] = Null
      /\ memReaders' = [memReaders EXCEPT ![k] = @ \cup {t}]
      /\ UNCHANGED <<memOp, memId, memBuffer, memData, memWriter>>
  BY <1>2 DEF Memory!LockPage, Memory!TakePage, Memory!Goto, Memory!callVars
<1>4. memPc'[t] = "first" /\ \A u \in Thread \ {t} : memPc'[u] = memPc[u]
  BY <1>1, <1>3 DEF MemType
<1>5. memReaders[k] \in SUBSET Thread
  BY <1>1 DEF MemType
<1>6. /\ t \in memReaders'[k]
      /\ \A i \in Id : /\ i # k => memReaders'[i] = memReaders[i]
                       /\ \A u \in memReaders[i] : u \in memReaders'[i]
  BY <1>1, <1>3 DEF MemType
<1>7. MemType'
  BY <1>1, <1>3, <1>5 DEF MemType, Copying
<1>8. memMutex = t /\ Memory!Exists(k) /\ memBuffer[t] = Memory!Whole(Null)
  BY <1>1, <1>2, <1>3 DEF MemCall, Reads, HasTable
<1>9. Memory!Entry(k) # Memory!Whole(Zero)
  <2>1. MemBlock(k)
    BY MemHolds
  <2> QED
    BY <1>3, <1>8, <2>1 DEF MemBlock
<1>10. MemCall(t)'
  <2>1. Memory!Exists(memId[t])' /\ Memory!Entry(memId[t])' # Memory!Whole(Zero)
    BY <1>2, <1>3, <1>8, <1>9 DEF Memory!Exists, Memory!Entry
  <2>2. Reads(t)'
    BY <1>2, <1>3, <1>4, <1>6, <2>1 DEF Reads, HasTable, Memory!Whole
  <2>3. ~(memPc'[t] \in HasTable) /\ memMutex' # t
    BY <1>1, <1>3, <1>4 DEF HasTable
  <2> QED
    BY <1>3, <1>4, <2>1, <2>2, <2>3 DEF MemCall
<1>11. ASSUME NEW u \in Thread \ {t}
       PROVE  MemCall(u)' /\ Memory!CallOf(u)' = Memory!CallOf(u)
  <2>1. \A i \in Id :
           /\ Memory!Exists(i) => Memory!Exists(i)'
           /\ u \in memReaders[i] => u \in memReaders'[i]
           /\ memWriter[i] = u => memWriter'[i] = u
           /\ i = memId[u] /\ memPc[u] \in Copying =>
                Memory!Entry(i)' = Memory!Entry(i)
    BY <1>3, <1>6, DataStays
  <2>2. /\ memPc'[u] = memPc[u] /\ memOp'[u] = memOp[u]
        /\ memId'[u] = memId[u] /\ memBuffer'[u] = memBuffer[u] /\ u \in Thread
    BY <1>3, <1>4
  <2>3. memMutex' = u <=> memMutex = u
    BY <1>1, <1>3, <1>8
  <2> QED
    BY <2>1, <2>2, <2>3, MemFrame
<1>12. ASSUME NEW i \in Id PROVE MemBlock(i)' /\ Content(i)' = Content(i)
  <2>1. (Memory!Exists(i)' <=> Memory!Exists(i)) /\ Memory!Entry(i)' = Memory!Entry(i)
    BY <1>3, DataStays
  <2>2. memWriter'[i] = memWriter[i]
    BY <1>3
  <2>3. memReaders'[i] \subseteq memReaders[i] \/ memWriter[i] = Null
    BY <1>3, <1>6
  <2>4. memWriter[i] # t
    BY <1>1, <1>3, MemHolds DEF MemBlock, Copying
  <2>5. memMutex' = memMutex \/ memMutex \in {t, Null}
    BY <1>8
  <2>6. memPc[t] = "page" /\ memOp[t] = "write" => memId[t] # i
    OBVIOUS
  <2>7. MemBlock(i)'
    BY <1>3, <1>4, <2>1, <2>2, <2>3, <2>4, <2>5, <2>6, BlockFrame
  <2>8. Content(i)' = Content(i)
    BY <1>3, <2>1, <2>2, ContentFrame
  <2> QED
    BY <2>7, <2>8
<1>13. MemInv'
  BY <1>7, <1>10, <1>11, <1>12 DEF MemInv
<1>14. Memory!CallOf(t) = [st |-> "get", key |-> k, val |-> Null]
  BY <1>2, <1>3 DEF Memory!CallOf
<1>15. Memory!CallOf(t)' = [st |-> "ret", key |-> k, val |-> Memory!Entry(k)[1]]
  BY <1>2, <1>3, <1>4 DEF Memory!CallOf, Memory!Entry
<1>16. Memory!Contents[k] = Memory!Entry(k)[1]
  BY <1>3, <1>8, <1>9, MemContents DEF Content
<1>17. Memory!LM!Move(t, [st |-> "ret", key |-> k, val |-> Memory!Entry(k)[1]])
  BY <1>11, <1>15, MemMove
<1> QED
  BY <1>12, <1>13, <1>14, <1>16, <1>17, MapStays DEF Memory!LM!Get, Memory!LM!Call

(* The block is locked to be written: the write takes effect.               *)
LEMMA MemLockToWrite ==
  ASSUME MemInv, NEW t \in Thread, Memory!LockPage(t), memOp[t] = "write"
  PROVE  MemInv' /\ Memory!LM!Set(t)
<1>1. MemType /\ MemCall(t) /\ Null \notin Thread
  BY MemHolds, MemoryFacts
<1>2. PICK k \in Id : k = memId[t]
  BY <1>1 DEF MemType
<1>3. /\ memPc[t] = "page" /\ memPc' = [memPc EXCEPT ![t] = "first"]
      /\ memMutex' = Null /\ memWriter[k] = Null /\ memReaders[k] = {}
      /\ memWriter' = [memWriter EXCEPT ![k] = t]
      /\ UNCHANGED <<memOp, memId, memBuffer, memData, memReaders>>
  BY <1>2 DEF Memory!LockPage, Memory!TakePage, Memory!Goto, Memory!callVars
<1>4. memPc'[t] = "first" /\ \A u \in Thread \ {t} : memPc'[u] = memPc[u]
  BY <1>1, <1>3 DEF MemType
<1>5. memWriter'[k] = t /\ \A i \in Id : i # k => memWriter'[i] = memWriter[i]
  BY <1>1, <1>3 DEF MemType
<1>6. MemType'
  BY <1>1, <1>3 DEF MemType, Copying
<1>7. memMutex = t /\ Memory!Exists(k)
  BY <1>1, <1>2, <1>3 DEF MemCall, HasTable
<1>8. MemCall(t)'
  <2>1. Memory!Exists(memId[t])'
    BY <1>2, <1>3, <1>7 DEF Memory!Exists, Memory!Entry
  <2>2. Writes(t)'
    <3>1. Writes(t)
      BY <1>1, <1>3 DEF MemCall
    <3> QED
      BY <1>2, <1>3, <1>4, <1>5, <3>1 DEF Writes, Memory!Whole
  <2>3. ~(memPc'[t] \in HasTable) /\ memMutex' # t
    BY <1>1, <1>3, <1>4 DEF HasTable
  <2> QED
    BY <1>3, <1>4, <2>1, <2>2, <2>3 DEF MemCall
<1>9. ASSUME NEW u \in Thread \ {t}
      PROVE  MemCall(u)' /\ Memory!CallOf(u)' = Memory!CallOf(u)
  <2>1. \A i \in Id :
           /\ Memory!Exists(i) => Memory!Exists(i)'
           /\ u \in memReaders[i] => u \in memReaders'[i]
           /\ memWriter[i] = u => memWriter'[i] = u
           /\ i = memId[u] /\ memPc[u] \in Copying =>
                Memory!Entry(i)' = Memory!Entry(i)
    BY <1>1, <1>3, <1>5, DataStays
  <2>2. /\ memPc'[u] = memPc[u] /\ memOp'[u] = memOp[u]
        /\ memId'[u] = memId[u] /\ memBuffer'[u] = memBuffer[u] /\ u \in Thread
    BY <1>3, <1>4
  <2>3. memMutex' = u <=> memMutex = u
    BY <1>1, <1>3, <1>7
  <2> QED
    BY <2>1, <2>2, <2>3, MemFrame
<1>10. ASSUME NEW i \in Id, i # k PROVE MemBlock(i)' /\ Content(i)' = Content(i)
  <2>1. (Memory!Exists(i)' <=> Memory!Exists(i)) /\ Memory!Entry(i)' = Memory!Entry(i)
    BY <1>3, DataStays
  <2>2. memWriter'[i] = memWriter[i] /\ memReaders'[i] = memReaders[i]
    BY <1>3, <1>5, <1>10
  <2>3. memWriter[i] # t
    BY <1>1, <1>3, MemHolds DEF MemBlock, Copying
  <2>4. memMutex' = memMutex \/ memMutex \in {t, Null}
    BY <1>7
  <2>5. memPc[t] = "page" /\ memOp[t] = "write" => memId[t] # i
    BY <1>2, <1>10
  <2>6. MemBlock(i)'
    BY <1>3, <1>4, <2>1, <2>2, <2>3, <2>4, <2>5, BlockFrame
  <2>7. Content(i)' = Content(i)
    BY <1>3, <2>1, <2>2, ContentFrame
  <2> QED
    BY <2>6, <2>7
<1>11. MemBlock(k)'
  BY <1>1, <1>2, <1>3, <1>4, <1>5 DEF MemBlock, Copying
<1>12. Content(k)' = memBuffer[t][1]
  <2>1. Memory!Exists(k)'
    BY <1>3, <1>7 DEF Memory!Exists, Memory!Entry
  <2> QED
    BY <1>1, <1>3, <1>5, <2>1 DEF Content
<1>13. MemInv'
  BY <1>6, <1>8, <1>9, <1>10, <1>11 DEF MemInv
<1>14. Memory!CallOf(t) = [st |-> "set", key |-> k, val |-> memBuffer[t][1]]
  BY <1>2, <1>3 DEF Memory!CallOf
<1>15. Memory!CallOf(t)' = [st |-> "ret", key |-> k, val |-> memBuffer[t][1]]
  BY <1>2, <1>3, <1>4 DEF Memory!CallOf
<1>16. Memory!Contents' = [Memory!Contents EXCEPT ![k] = memBuffer[t][1]]
  BY <1>10, <1>12, MemContents
<1>17. Memory!LM!Move(t, [st |-> "ret", key |-> k, val |-> memBuffer[t][1]])
  BY <1>9, <1>15, MemMove
<1>18. /\ Memory!CallOf(t).st = "set" /\ Memory!CallOf(t).key = k
       /\ Memory!CallOf(t).val = memBuffer[t][1]
  BY <1>14
<1> QED
  BY <1>13, <1>16, <1>17, <1>18 DEF Memory!LM!Set, Memory!LM!Call

(* One half of a block is read.                                             *)
LEMMA ReadHalf ==
  ASSUME MemType, NEW t \in Thread, NEW k \in Id, Memory!Exists(k),
         NEW h \in {1, 2},
         memBuffer' = [memBuffer EXCEPT ![t][h] = Memory!Entry(k)[h]]
  PROVE  /\ memBuffer' \in [Thread -> Buffer]
         /\ memBuffer'[t][h] = Memory!Entry(k)[h]
         /\ h = 2 => memBuffer'[t][1] = memBuffer[t][1]
         /\ \A u \in Thread \ {t} : memBuffer'[u] = memBuffer[u]
<1>1. memBuffer \in [Thread -> Buffer] /\ memBuffer[t] \in Buffer
  BY DEF MemType
<1>2. Memory!Entry(k) \in Block
  BY EntryFacts
<1>3. PICK x \in Filling \cup {Null} : x = Memory!Entry(k)[h]
  BY <1>2 DEF Block
<1>4. PICK b \in Buffer : b = memBuffer[t]
  BY <1>1
<1>5. [b EXCEPT ![h] = x] = IF h = 1 THEN <<x, b[2]>> ELSE <<b[1], x>>
  <2>1. CASE h = 1
    BY <2>1 DEF Buffer
  <2>2. CASE h = 2
    BY <2>2 DEF Buffer
  <2> QED
    BY <2>1, <2>2
<1>6. PICK y \in Buffer : y = IF h = 1 THEN <<x, b[2]>> ELSE <<b[1], x>>
  <2>1. b[1] \in Filling \cup {Null} /\ b[2] \in Filling \cup {Null}
    BY DEF Buffer
  <2>2. <<x, b[2]>> \in Buffer /\ <<b[1], x>> \in Buffer
    BY <2>1 DEF Buffer
  <2> QED
    BY <2>2
<1>7. memBuffer' = [memBuffer EXCEPT ![t] = y]
  BY <1>3, <1>4, <1>5, <1>6
<1>8. /\ memBuffer' \in [Thread -> Buffer] /\ memBuffer'[t] = y
      /\ \A u \in Thread \ {t} : memBuffer'[u] = memBuffer[u]
  BY <1>1, <1>7
<1>9. y[h] = x /\ (h = 2 => y[1] = b[1])
  BY <1>6
<1> QED
  BY <1>3, <1>4, <1>8, <1>9

LEMMA MemReadFirst ==
  ASSUME MemInv, NEW t \in Thread, Memory!CopyFirst(t), memOp[t] = "read"
  PROVE  MemInv' /\ UNCHANGED Memory!LM!vars
<1>1. MemType /\ MemCall(t) /\ Null \notin Thread
  BY MemHolds, MemoryFacts
<1>2. PICK k \in Id : k = memId[t]
  BY <1>1 DEF MemType
<1>3. /\ memPc[t] = "first" /\ memPc' = [memPc EXCEPT ![t] = "second"]
      /\ memBuffer' = [memBuffer EXCEPT ![t][1] = Memory!Entry(k)[1]]
      /\ UNCHANGED <<memOp, memId, memData, memMutex, memReaders, memWriter>>
  BY <1>2 DEF Memory!CopyFirst, Memory!CopyHalf, Memory!Goto, Memory!lockVars
<1>4. memPc'[t] = "second" /\ \A u \in Thread \ {t} : memPc'[u] = memPc[u]
  BY <1>1, <1>3 DEF MemType
<1>5. Memory!Exists(k) /\ Reads(t)
  BY <1>1, <1>2, <1>3 DEF MemCall, Copying
<1>6. /\ memBuffer' \in [Thread -> Buffer]
      /\ memBuffer'[t][1] = Memory!Entry(k)[1]
      /\ \A u \in Thread \ {t} : memBuffer'[u] = memBuffer[u]
  BY <1>1, <1>3, <1>5, ReadHalf
<1>7. MemType'
  BY <1>1, <1>3, <1>6 DEF MemType, Copying
<1>8. Memory!Entry(memId[t])' = Memory!Entry(k) /\ Memory!Exists(memId[t])'
  BY <1>2, <1>3, <1>5 DEF Memory!Entry, Memory!Exists
<1>9. MemCall(t)'
  <2>1. Reads(t)'
    BY <1>2, <1>3, <1>4, <1>5, <1>6, <1>8
    DEF Reads, HasTable, Copying, Memory!Whole
  <2>2. ~(memPc'[t] \in HasTable) /\ memMutex' # t
    BY <1>1, <1>3, <1>4 DEF MemCall, HasTable
  <2> QED
    BY <1>3, <1>4, <1>8, <2>1, <2>2 DEF MemCall
<1>10. ASSUME NEW u \in Thread \ {t}
       PROVE  MemCall(u)' /\ Memory!CallOf(u)' = Memory!CallOf(u)
  <2>1. \A i \in Id :
           /\ Memory!Exists(i) => Memory!Exists(i)'
           /\ u \in memReaders[i] => u \in memReaders'[i]
           /\ memWriter[i] = u => memWriter'[i] = u
           /\ i = memId[u] /\ memPc[u] \in Copying =>
                Memory!Entry(i)' = Memory!Entry(i)
    BY <1>3, DataStays
  <2>2. /\ memPc'[u] = memPc[u] /\ memOp'[u] = memOp[u]
        /\ memId'[u] = memId[u] /\ memBuffer'[u] = memBuffer[u] /\ u \in Thread
    BY <1>3, <1>4, <1>6
  <2>3. memMutex' = u <=> memMutex = u
    BY <1>3
  <2> QED
    BY <2>1, <2>2, <2>3, MemFrame
<1>11. ASSUME NEW i \in Id PROVE MemBlock(i)' /\ Content(i)' = Content(i)
  <2>1. (Memory!Exists(i)' <=> Memory!Exists(i)) /\ Memory!Entry(i)' = Memory!Entry(i)
    BY <1>3, DataStays
  <2>2. memWriter'[i] = memWriter[i] /\ memReaders'[i] = memReaders[i]
    BY <1>3
  <2>3. memWriter[i] # t /\ memWriter[i] \in Thread \cup {Null}
    BY <1>1, MemHolds DEF MemBlock, MemType
  <2>4. memPc[t] = "page" /\ memOp[t] = "write" => memId[t] # i
    BY <1>3
  <2>5. MemBlock(i)'
    BY <1>3, <1>4, <2>1, <2>2, <2>3, <2>4, BlockFrame
  <2>6. memWriter[i] # Null => memBuffer'[memWriter[i]][1] = memBuffer[memWriter[i]][1]
    BY <1>6, <2>3
  <2>7. Content(i)' = Content(i)
    BY <2>1, <2>2, <2>6, ContentFrame
  <2> QED
    BY <2>5, <2>7
<1>12. MemInv'
  BY <1>7, <1>9, <1>10, <1>11 DEF MemInv
<1>13. Memory!CallOf(t)' = Memory!CallOf(t)
  BY <1>2, <1>3, <1>4, <1>8 DEF Memory!CallOf
<1> QED
  BY <1>10, <1>11, <1>12, <1>13, MemQuiet

(* The second half is read: the two belong together.                        *)
LEMMA MemReadSecond ==
  ASSUME MemInv, NEW t \in Thread, Memory!CopySecond(t), memOp[t] = "read"
  PROVE  MemInv' /\ UNCHANGED Memory!LM!vars
<1>1. MemType /\ MemCall(t) /\ Null \notin Thread
  BY MemHolds, MemoryFacts
<1>2. PICK k \in Id : k = memId[t]
  BY <1>1 DEF MemType
<1>3. /\ memPc[t] = "second" /\ memPc' = [memPc EXCEPT ![t] = "done"]
      /\ memBuffer' = [memBuffer EXCEPT ![t][2] = Memory!Entry(k)[2]]
      /\ memReaders' = [memReaders EXCEPT ![k] = @ \ {t}]
      /\ memWriter' = [memWriter EXCEPT ![k] = IF @ = t THEN Null ELSE @]
      /\ UNCHANGED <<memOp, memId, memData, memMutex>>
  BY <1>2 DEF Memory!CopySecond, Memory!CopyHalf, Memory!Goto
<1>4. memPc'[t] = "done" /\ \A u \in Thread \ {t} : memPc'[u] = memPc[u]
  BY <1>1, <1>3 DEF MemType
<1>5. Memory!Exists(k) /\ Reads(t)
  BY <1>1, <1>2, <1>3 DEF MemCall, Copying
<1>6. /\ memBuffer' \in [Thread -> Buffer]
      /\ memBuffer'[t][2] = Memory!Entry(k)[2]
      /\ memBuffer'[t][1] = memBuffer[t][1]
      /\ \A u \in Thread \ {t} : memBuffer'[u] = memBuffer[u]
  BY <1>1, <1>3, <1>5, ReadHalf
<1>7. memWriter[k] = Null
  <2>1. memPc[t] \in Copying
    BY <1>3 DEF Copying
  <2> QED
    BY <1>2, <2>1, Copiers
<1>8. /\ memReaders' \in [Id -> SUBSET Thread]
      /\ memReaders'[k] = memReaders[k] \ {t}
      /\ \A i \in Id \ {k} : memReaders'[i] = memReaders[i]
  <2>1. memReaders \in [Id -> SUBSET Thread] /\ memReaders[k] \ {t} \in SUBSET Thread
    BY <1>1 DEF MemType
  <2> QED
    BY <1>3, <2>1
<1>9. memWriter' = memWriter
  <2>1. memWriter \in [Id -> Thread \cup {Null}] /\ t # Null
    BY <1>1 DEF MemType
  <2>2. memWriter' = [memWriter EXCEPT ![k] = memWriter[k]]
    BY <1>3, <1>7, <2>1
  <2> QED
    BY <2>1, <2>2
<1>10. MemType'
  BY <1>1, <1>3, <1>6, <1>8, <1>9 DEF MemType, Copying
<1>11. memBuffer[t][1] = Memory!Entry(k)[1] /\ Memory!Entry(k)[1] = Memory!Entry(k)[2]
  <2>1. MemBlock(k)
    BY MemHolds
  <2>2. PICK x \in Filling : Memory!Entry(k) = Memory!Whole(x)
    BY <1>5, <1>7, <2>1 DEF MemBlock
  <2> QED
    BY <1>2, <1>3, <1>5, <2>2, WholeFacts DEF Reads
<1>12. MemCall(t)'
  <2>1. Reads(t)'
    BY <1>4, <1>6, <1>11 DEF Reads, HasTable, Copying
  <2>2. ~(memPc'[t] \in HasTable) /\ memMutex' # t
    BY <1>1, <1>3, <1>4 DEF MemCall, HasTable
  <2> QED
    BY <1>3, <1>4, <2>1, <2>2 DEF MemCall, Copying
<1>13. ASSUME NEW u \in Thread \ {t}
       PROVE  MemCall(u)' /\ Memory!CallOf(u)' = Memory!CallOf(u)
  <2>1. \A i \in Id :
           /\ Memory!Exists(i) => Memory!Exists(i)'
           /\ u \in memReaders[i] => u \in memReaders'[i]
           /\ memWriter[i] = u => memWriter'[i] = u
           /\ i = memId[u] /\ memPc[u] \in Copying =>
                Memory!Entry(i)' = Memory!Entry(i)
    BY <1>3, <1>8, <1>9, DataStays
  <2>2. /\ memPc'[u] = memPc[u] /\ memOp'[u] = memOp[u]
        /\ memId'[u] = memId[u] /\ memBuffer'[u] = memBuffer[u] /\ u \in Thread
    BY <1>3, <1>4, <1>6
  <2>3. memMutex' = u <=> memMutex = u
    BY <1>3
  <2> QED
    BY <2>1, <2>2, <2>3, MemFrame
<1>14. ASSUME NEW i \in Id PROVE MemBlock(i)' /\ Content(i)' = Content(i)
  <2>1. (Memory!Exists(i)' <=> Memory!Exists(i)) /\ Memory!Entry(i)' = Memory!Entry(i)
    BY <1>3, DataStays
  <2>2. memWriter'[i] = memWriter[i] /\ memReaders'[i] \subseteq memReaders[i]
    BY <1>8, <1>9
  <2>3. memWriter[i] # t /\ memWriter[i] \in Thread \cup {Null}
    BY <1>1, MemHolds DEF MemBlock, MemType
  <2>4. memPc[t] = "page" /\ memOp[t] = "write" => memId[t] # i
    BY <1>3
  <2>5. MemBlock(i)'
    BY <1>3, <1>4, <2>1, <2>2, <2>3, <2>4, BlockFrame
  <2>6. memWriter[i] # Null => memBuffer'[memWriter[i]][1] = memBuffer[memWriter[i]][1]
    BY <1>6, <2>3
  <2>7. Content(i)' = Content(i)
    BY <2>1, <2>2, <2>6, ContentFrame
  <2> QED
    BY <2>5, <2>7
<1>15. MemInv'
  BY <1>10, <1>12, <1>13, <1>14 DEF MemInv
<1>16. Memory!CallOf(t)' = Memory!CallOf(t)
  <2>1. Memory!CallOf(t) = [st |-> "ret", key |-> k, val |-> Memory!Entry(k)[1]]
    BY <1>2, <1>3 DEF Memory!CallOf, Memory!Entry
  <2>2. Memory!CallOf(t)' = [st |-> "ret", key |-> k, val |-> memBuffer'[t][1]]
    BY <1>2, <1>3, <1>4, <1>6, <1>11 DEF Memory!CallOf
  <2> QED
    BY <1>6, <1>11, <2>1, <2>2
<1> QED
  BY <1>13, <1>14, <1>15, <1>16, MemQuiet

(* The writer's block, first and last, is out of everybody's sight.         *)
LEMMA WriterAlone ==
  ASSUME MemInv, NEW t \in Thread, memPc[t] \in Copying, memOp[t] = "write",
         NEW k \in Id, k = memId[t],
         \A i \in Id : /\ Memory!Exists(i)' <=> Memory!Exists(i)
                       /\ i # k => Memory!Entry(i)' = Memory!Entry(i),
         \A i \in Id \ {k} : memReaders'[i] = memReaders[i] /\ memWriter'[i] = memWriter[i],
         memMutex' = memMutex,
         \A u \in Thread \ {t} :
           /\ memPc'[u] = memPc[u] /\ memOp'[u] = memOp[u]
           /\ memId'[u] = memId[u] /\ memBuffer'[u] = memBuffer[u]
  PROVE  /\ \A u \in Thread \ {t} :
              MemCall(u)' /\ Memory!CallOf(u)' = Memory!CallOf(u)
         /\ \A i \in Id \ {k} : MemBlock(i)' /\ Content(i)' = Content(i)
<1>1. /\ memWriter[k] = t /\ memReaders[k] = {}
      /\ \A u \in Thread \ {t} : memPc[u] \in Copying => memId[u] # k
  BY Copiers
<1>2. MemType /\ t # Null
  BY MemHolds, MemoryFacts
<1>3. ASSUME NEW u \in Thread \ {t}
      PROVE  MemCall(u)' /\ Memory!CallOf(u)' = Memory!CallOf(u)
  <2>1. \A i \in Id :
           /\ Memory!Exists(i) => Memory!Exists(i)'
           /\ u \in memReaders[i] => u \in memReaders'[i]
           /\ memWriter[i] = u => memWriter'[i] = u
           /\ i = memId[u] /\ memPc[u] \in Copying =>
                Memory!Entry(i)' = Memory!Entry(i)
    BY <1>1
  <2>2. /\ memPc'[u] = memPc[u] /\ memOp'[u] = memOp[u]
        /\ memId'[u] = memId[u] /\ memBuffer'[u] = memBuffer[u] /\ u \in Thread
    OBVIOUS
  <2>3. memMutex' = u <=> memMutex = u
    OBVIOUS
  <2> QED
    BY <2>1, <2>2, <2>3, MemFrame
<1>4. ASSUME NEW i \in Id \ {k} PROVE MemBlock(i)' /\ Content(i)' = Content(i)
  <2>1. /\ Memory!Exists(i)' <=> Memory!Exists(i)
        /\ Memory!Entry(i)' = Memory!Entry(i) /\ i \in Id
    OBVIOUS
  <2>2. memWriter'[i] = memWriter[i] /\ memReaders'[i] = memReaders[i]
    OBVIOUS
  <2>3. memWriter[i] # t /\ memWriter[i] \in Thread \cup {Null}
    BY <1>2, MemHolds DEF MemBlock, MemType
  <2>4. memPc[t] = "page" /\ memOp[t] = "write" => memId[t] # i
    OBVIOUS
  <2>5. MemBlock(i)'
    BY <2>1, <2>2, <2>3, <2>4, BlockFrame
  <2>6. memWriter[i] # Null => memBuffer'[memWriter[i]][1] = memBuffer[memWriter[i]][1]
    BY <2>3
  <2>7. Content(i)' = Content(i)
    BY <2>1, <2>2, <2>6, ContentFrame
  <2> QED
    BY <2>5, <2>7
<1> QED
  BY <1>3, <1>4

LEMMA MemWriteFirst ==
  ASSUME MemInv, NEW t \in Thread, Memory!CopyFirst(t), memOp[t] = "write"
  PROVE  MemInv' /\ UNCHANGED Memory!LM!vars
<1>1. MemType /\ MemCall(t) /\ Null \notin Thread /\ Null \notin Value
  BY MemHolds, MemoryFacts
<1>2. PICK k \in Id : k = memId[t]
  BY <1>1 DEF MemType
<1>3. /\ memPc[t] = "first" /\ memPc' = [memPc EXCEPT ![t] = "second"]
      /\ memData' = [memData EXCEPT ![k + 1][1] = memBuffer[t][1]]
      /\ UNCHANGED <<memOp, memId, memBuffer, memMutex, memReaders, memWriter>>
  BY <1>2 DEF Memory!CopyFirst, Memory!CopyHalf, Memory!Goto, Memory!lockVars
<1>4. memPc'[t] = "second" /\ \A u \in Thread \ {t} : memPc'[u] = memPc[u]
  BY <1>1, <1>3 DEF MemType
<1>5. Memory!Exists(k) /\ Writes(t)
  BY <1>1, <1>2, <1>3 DEF MemCall, Copying
<1>6. PICK v \in Value : memBuffer[t] = Memory!Whole(v)
  BY <1>5 DEF Writes
<1>7. memBuffer[t][1] = v /\ v \in Filling
  BY <1>6, WholeFacts DEF Filling
<1>8. /\ memData' \in Seq(Block \cup {Null})
      /\ \A i \in Id : /\ Memory!Exists(i)' <=> Memory!Exists(i)
                       /\ i # k => Memory!Entry(i)' = Memory!Entry(i)
      /\ Memory!Entry(k)' = <<v, Memory!Entry(k)[2]>>
  <2>1. memData' = [memData EXCEPT ![k + 1][1] = v]
    BY <1>3, <1>7
  <2> QED
    BY <1>1, <1>5, <1>7, <2>1, PutFacts
<1>9. MemType'
  BY <1>1, <1>3, <1>8 DEF MemType, Copying
<1>10. memWriter[k] = t /\ memPc[t] \in Copying
  BY <1>2, <1>3, Copiers DEF Copying
<1>11. Memory!Exists(memId[t])' /\ Memory!Entry(memId[t])'[1] = v
  <2>1. Memory!Exists(k)' /\ Memory!Entry(k)'[1] = v
    BY <1>5, <1>8
  <2> QED
    BY <1>2, <1>3, <2>1 DEF Memory!Exists, Memory!Entry
<1>12. MemCall(t)'
  <2>1. Writes(t)'
    BY <1>2, <1>3, <1>4, <1>6, <1>7, <1>10, <1>11
    DEF Writes, Memory!Whole
  <2>2. ~(memPc'[t] \in HasTable) /\ memMutex' # t
    BY <1>1, <1>3, <1>4 DEF MemCall, HasTable
  <2> QED
    BY <1>3, <1>4, <1>11, <2>1, <2>2 DEF MemCall
<1>13. /\ \A u \in Thread \ {t} :
             MemCall(u)' /\ Memory!CallOf(u)' = Memory!CallOf(u)
       /\ \A i \in Id \ {k} : MemBlock(i)' /\ Content(i)' = Content(i)
  BY <1>2, <1>3, <1>4, <1>8, <1>10, WriterAlone
<1>14. MemBlock(k)' /\ Content(k)' = Content(k)
  <2>1. (Memory!Exists(k)' <=> Memory!Exists(k)) /\ memWriter'[k] = memWriter[k]
    BY <1>3, <1>8
  <2>2. memWriter[k] # Null
    BY <1>1, <1>10
  <2>3. memReaders'[k] \subseteq memReaders[k]
    BY <1>3
  <2>4. MemBlock(k)'
    <3>1. memPc'[t] \in Copying
      BY <1>4 DEF Copying
    <3>2. memPc[t] = "page" /\ memOp[t] = "write" => memId[t] # k
      BY <1>3
    <3> QED
      BY <1>3, <1>4, <2>1, <2>2, <2>3, <3>1, <3>2, BlockFrame
  <2>5. Content(k)' = Content(k)
    BY <1>3, <2>1, <2>2, ContentFrame
  <2> QED
    BY <2>4, <2>5
<1>15. MemInv'
  BY <1>9, <1>12, <1>13, <1>14 DEF MemInv
<1>16. Memory!CallOf(t)' = Memory!CallOf(t)
  BY <1>2, <1>3, <1>4 DEF Memory!CallOf
<1> QED
  BY <1>13, <1>14, <1>15, <1>16, MemQuiet

LEMMA MemWriteSecond ==
  ASSUME MemInv, NEW t \in Thread, Memory!CopySecond(t), memOp[t] = "write"
  PROVE  MemInv' /\ UNCHANGED Memory!LM!vars
<1>1. MemType /\ MemCall(t) /\ Null \notin Thread /\ Zero \notin Value
  BY MemHolds, MemoryFacts
<1>2. PICK k \in Id : k = memId[t]
  BY <1>1 DEF MemType
<1>3. /\ memPc[t] = "second" /\ memPc' = [memPc EXCEPT ![t] = "done"]
      /\ memData' = [memData EXCEPT ![k + 1][2] = memBuffer[t][2]]
      /\ memReaders' = [memReaders EXCEPT ![k] = @ \ {t}]
      /\ memWriter' = [memWriter EXCEPT ![k] = IF @ = t THEN Null ELSE @]
      /\ UNCHANGED <<memOp, memId, memBuffer, memMutex>>
  BY <1>2 DEF Memory!CopySecond, Memory!CopyHalf, Memory!Goto
<1>4. memPc'[t] = "done" /\ \A u \in Thread \ {t} : memPc'[u] = memPc[u]
  BY <1>1, <1>3 DEF MemType
<1>5. Memory!Exists(k) /\ Writes(t)
  BY <1>1, <1>2, <1>3 DEF MemCall, Copying
<1>6. PICK v \in Value : memBuffer[t] = Memory!Whole(v)
  BY <1>5 DEF Writes
<1>7. memBuffer[t][1] = v /\ memBuffer[t][2] = v /\ v \in Filling
  BY <1>6, WholeFacts DEF Filling
<1>8. /\ memData' \in Seq(Block \cup {Null})
      /\ \A i \in Id : /\ Memory!Exists(i)' <=> Memory!Exists(i)
                       /\ i # k => Memory!Entry(i)' = Memory!Entry(i)
      /\ Memory!Entry(k)' = <<Memory!Entry(k)[1], v>>
  <2>1. memData' = [memData EXCEPT ![k + 1][2] = v]
    BY <1>3, <1>7
  <2> QED
    BY <1>1, <1>5, <1>7, <2>1, PutFacts
<1>9. memWriter[k] = t /\ memReaders[k] = {} /\ memPc[t] \in Copying
  BY <1>2, <1>3, Copiers DEF Copying
<1>10. /\ memReaders' \in [Id -> SUBSET Thread]
       /\ memReaders'[k] = {}
       /\ \A i \in Id \ {k} : memReaders'[i] = memReaders[i]
  <2>1. memReaders \in [Id -> SUBSET Thread] /\ memReaders[k] \ {t} = {}
    BY <1>1, <1>9 DEF MemType
  <2> QED
    BY <1>3, <2>1
<1>11. /\ memWriter' \in [Id -> Thread \cup {Null}]
       /\ memWriter'[k] = Null
       /\ \A i \in Id \ {k} : memWriter'[i] = memWriter[i]
  <2>1. memWriter \in [Id -> Thread \cup {Null}]
    BY <1>1 DEF MemType
  <2>2. memWriter' = [memWriter EXCEPT ![k] = Null]
    BY <1>3, <1>9, <2>1
  <2> QED
    BY <2>1, <2>2
<1>12. MemType'
  BY <1>1, <1>3, <1>8, <1>10, <1>11 DEF MemType, Copying
<1>13. MemCall(t)'
  <2>1. Writes(t)'
    BY <1>3, <1>4, <1>6 DEF Writes, Copying, Memory!Whole
  <2>2. ~(memPc'[t] \in HasTable) /\ memMutex' # t
    BY <1>1, <1>3, <1>4 DEF MemCall, HasTable
  <2> QED
    BY <1>3, <1>4, <2>1, <2>2 DEF MemCall, Copying
<1>14. /\ \A u \in Thread \ {t} :
             MemCall(u)' /\ Memory!CallOf(u)' = Memory!CallOf(u)
       /\ \A i \in Id \ {k} : MemBlock(i)' /\ Content(i)' = Content(i)
  BY <1>2, <1>3, <1>4, <1>8, <1>9, <1>10, <1>11, WriterAlone
<1>15. Memory!Entry(k)' = Memory!Whole(v) /\ Memory!Exists(k)'
  <2>1. Memory!Entry(k)[1] = v
    BY <1>2, <1>3, <1>5, <1>7 DEF Writes
  <2> QED
    BY <1>5, <1>8, <2>1 DEF Memory!Whole
<1>16. Memory!Whole(v) # Memory!Whole(Zero)
  BY <1>1, WholeFacts
<1>17. MemBlock(k)'
  <2>1. \E x \in Filling : Memory!Entry(k)' = Memory!Whole(x)
    BY <1>7, <1>15
  <2> QED
    BY <1>11, <1>15, <1>16, <2>1 DEF MemBlock, Memory!Whole
<1>18. Content(k)' = Content(k)
  <2>1. Content(k) = v
    BY <1>1, <1>5, <1>7, <1>9 DEF Content
  <2>2. Content(k)' = v
    BY <1>11, <1>15, <1>16, WholeFacts DEF Content, Memory!Whole
  <2> QED
    BY <2>1, <2>2
<1>19. MemInv'
  BY <1>12, <1>13, <1>14, <1>17 DEF MemInv
<1>20. Memory!CallOf(t)' = Memory!CallOf(t)
  BY <1>2, <1>3, <1>4 DEF Memory!CallOf
<1> QED
  BY <1>14, <1>18, <1>19, <1>20, MemQuiet

-----------------------------------------------------------------------------
LEMMA MemNext ==
  MemInv /\ [Memory!Next]_(Memory!vars) =>
    MemInv' /\ [Memory!LM!Next]_(Memory!LM!vars)
<1> SUFFICES ASSUME MemInv, [Memory!Next]_(Memory!vars)
             PROVE  MemInv' /\ [Memory!LM!Next]_(Memory!LM!vars)
  OBVIOUS
<1>1. CASE UNCHANGED Memory!vars
  <2>1. UNCHANGED <<memPc, memOp, memId, memBuffer, memData, memMutex,
                    memReaders, memWriter>>
    BY <1>1 DEF Memory!vars, Memory!callVars, Memory!lockVars
  <2>2. MemInv'
    BY <2>1 DEF MemInv, MemType, MemCall, MemBlock, Reads, Writes,
                Memory!Exists, Memory!Entry, Memory!Whole, Id
  <2>3. \A t \in Thread : Memory!CallOf(t)' = Memory!CallOf(t)
    BY <2>1 DEF Memory!CallOf, Memory!Entry
  <2>4. \A i \in Id : Content(i)' = Content(i)
    BY <2>1 DEF Content, Memory!Exists, Memory!Entry, Memory!Whole
  <2>5. MemCalls' = MemCalls /\ Memory!Contents' = Memory!Contents
    BY <2>3, <2>4, MapStays DEF MemCalls
  <2> QED
    BY <2>2, <2>5 DEF Memory!LM!vars, MemCalls
<1>2. ASSUME NEW t \in Thread, Memory!Begin(t) \/ Memory!Step(t)
      PROVE  MemInv' /\ [Memory!LM!Next]_(Memory!LM!vars)
  <2>1. CASE Memory!Begin(t)
    BY <2>1, MemBegin DEF Memory!LM!Next
  <2>2. CASE Memory!LockTable(t)
    BY <2>2, MemLockTable
  <2>3. CASE Memory!Grow(t)
    BY <2>3, MemGrow
  <2>4. CASE Memory!Lookup(t)
    BY <2>4, MemLookup
  <2>5. CASE Memory!NotExist(t)
    BY <2>5, MemNotExist DEF Memory!LM!Next
  <2>6. CASE Memory!LockPage(t)
    <3>1. memOp[t] \in {"read", "write"}
      BY <2>6 DEF Memory!LockPage, Memory!TakePage
    <3> QED
      BY <2>6, <3>1, MemLockToRead, MemLockToWrite DEF Memory!LM!Next
  <2>7. CASE Memory!CopyFirst(t)
    <3>1. memOp[t] \in {"read", "write"}
      BY <2>7 DEF Memory!CopyFirst, Memory!CopyHalf
    <3> QED
      BY <2>7, <3>1, MemReadFirst, MemWriteFirst
  <2>8. CASE Memory!CopySecond(t)
    <3>1. memOp[t] \in {"read", "write"}
      BY <2>8 DEF Memory!CopySecond, Memory!CopyHalf
    <3> QED
      BY <2>8, <3>1, MemReadSecond, MemWriteSecond
  <2>9. CASE Memory!Return(t)
    BY <2>9, MemReturn DEF Memory!LM!Next
  <2> QED
    BY <1>2, <2>1, <2>2, <2>3, <2>4, <2>5, <2>6, <2>7, <2>8, <2>9
    DEF Memory!Step
<1> QED
  BY <1>1, <1>2 DEF Memory!Next

(* The blocks of DiskManagerUnlimitedMemory, each under a lock of its own,  *)
(* are to their callers a table whose reads and writes are atomic: no read  *)
(* is torn, and no read sees the zeros of a block that is being made.       *)
THEOREM MemoryIsLinearizable == MCSpec => ImplementsLinMap
<1>1. MCInit => MemInv /\ Memory!LM!Init
  <2> SUFFICES ASSUME MCInit PROVE MemInv /\ Memory!LM!Init
    OBVIOUS
  <2>1. Memory!Init
    BY DEF MCInit
  <2>2. \A t \in Thread : Memory!CallOf(t) = Memory!LM!Idle
    BY <2>1 DEF Memory!Init, Memory!CallOf, Memory!LM!Idle, Memory!LM!Call
  <2>3. \A i \in Id : ~Memory!Exists(i)
    BY <2>1, MemoryFacts DEF Memory!Init, Memory!Exists, Id, Memory!Id
  <2>4. \A i \in Id : Content(i) = Null
    BY <2>3 DEF Content
  <2> QED
    BY <2>1, <2>2, <2>4, MemInit, MemContents DEF Memory!LM!Init, Id
<1>2. MemInv /\ [MCNext]_mcVars => MemInv' /\ [Memory!LM!Next]_(Memory!LM!vars)
  <2>1. [MCNext]_mcVars => [Memory!Next]_(Memory!vars)
    BY DEF MCNext, mcVars, memVars, Run, Memory!vars, Memory!callVars, Memory!lockVars
  <2> QED
    BY <2>1, MemNext
<1>3. MCSpec => Memory!LM!Init /\ [][Memory!LM!Next]_(Memory!LM!vars)
  BY <1>1, <1>2, PTL DEF MCSpec
<1> QED
  BY <1>3 DEF ImplementsLinMap, Memory!ImplementsLinMap, Memory!LM!Spec
=============================================================================
