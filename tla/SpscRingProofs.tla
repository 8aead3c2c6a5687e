--------------------------- MODULE SpscRingProofs ---------------------------
(***************************************************************************)
(* The SPSC ring is free of data races and handles its objects' lifetimes  *)
(* correctly for every number of slots, whatever the staleness of loads.   *)
(*                                                                         *)
(* The argument: what the producer still believes occupied (its lag behind *)
(* head, plus the elements really there) never exceeds Cap - 1, and leaves *)
(* one slot free once the test for a full ring has been passed; likewise   *)
(* the consumer's lag behind tail never exceeds Size.                      *)
(***************************************************************************)
EXTENDS SpscRing, TLAPS

ProducerView ==
  /\ headLag + Size <= Cap - 1
  /\ headNews + Size <= Cap - 1
  /\ ppc \in {"construct", "store_tail"} =>
       headLag + Size < Cap - 1 /\ headNews + Size < Cap - 1 /\ val # Null
  /\ ppc = "load_head" => val # Null

ConsumerView ==
  /\ tailLag <= Size
  /\ tailNews <= Size
  /\ cpc \in {"take", "store_head"} => tailLag < Size /\ tailNews < Size

Inv == TypeOK /\ ProducerView /\ ConsumerView /\ ObjectLifetimes

-----------------------------------------------------------------------------
(* Arithmetic modulo Cap                                                    *)

LEMMA AfterIs ==
  ASSUME NEW i \in Index
  PROVE  /\ After(i) \in Index
         /\ After(i) = IF i = Cap - 1 THEN 0 ELSE i + 1
<1>1. CASE i = Cap - 1
  <2>1. i + 1 = Cap
    BY <1>1, RingAssumption DEF Index
  <2>2. (i + 1) % Cap = 0
    BY <2>1, RingAssumption
  <2> QED
    BY <1>1, <2>2, RingAssumption DEF Index, After
<1>2. CASE i # Cap - 1
  BY <1>2, RingAssumption DEF Index, After
<1> QED
  BY <1>1, <1>2

LEMMA BeforeIs ==
  ASSUME NEW i \in Index, NEW n \in Index
  PROVE  /\ Before(i, n) \in Index
         /\ Before(i, n) = IF n <= i THEN i - n ELSE i + Cap - n
  BY RingAssumption DEF Index, Before

LEMMA SizeIs ==
  ASSUME head \in Index, tail \in Index
  PROVE  /\ Size \in Index
         /\ Size = IF head <= tail THEN tail - head ELSE tail + Cap - head
  BY RingAssumption DEF Index, Size

LEMMA OffsetIs ==
  ASSUME NEW h \in Index, NEW n \in Index
  PROVE  /\ (h + n) % Cap \in Index
         /\ (h + n) % Cap = IF h + n < Cap THEN h + n ELSE h + n - Cap
  BY RingAssumption DEF Index

(* What the full and the empty test mean for a thread that lags behind.     *)
LEMMA FullTest ==
  ASSUME TypeOK, NEW lag \in Index, lag + Size <= Cap - 1
  PROVE  (After(tail) = Before(head, lag)) <=> (lag + Size = Cap - 1)
<1>1. head \in Index /\ tail \in Index
  BY DEF TypeOK
<1>2. Size = IF head <= tail THEN tail - head ELSE tail + Cap - head
  BY <1>1, SizeIs
<1>3. After(tail) = IF tail = Cap - 1 THEN 0 ELSE tail + 1
  BY <1>1, AfterIs
<1>4. Before(head, lag) = IF lag <= head THEN head - lag ELSE head + Cap - lag
  BY <1>1, BeforeIs
<1> QED
  BY <1>1, <1>2, <1>3, <1>4, RingAssumption DEF Index

LEMMA EmptyTest ==
  ASSUME TypeOK, NEW lag \in Index, lag <= Size
  PROVE  (head = Before(tail, lag)) <=> (lag = Size)
<1>1. head \in Index /\ tail \in Index
  BY DEF TypeOK
<1>2. Size = IF head <= tail THEN tail - head ELSE tail + Cap - head
  BY <1>1, SizeIs
<1>3. Before(tail, lag) = IF lag <= tail THEN tail - lag ELSE tail + Cap - lag
  BY <1>1, BeforeIs
<1> QED
  BY <1>1, <1>2, <1>3, RingAssumption DEF Index

(* A store to tail makes the ring one element longer, one to head shorter.  *)
LEMMA Longer ==
  ASSUME TypeOK, tail' = After(tail), head' = head, Size < Cap - 1
  PROVE  Size' = Size + 1
<1>1. head \in Index /\ tail \in Index /\ After(tail) \in Index
  BY AfterIs DEF TypeOK
<1>2. Size' = (After(tail) + Cap - head) % Cap
  BY DEF Size
<1>3. (After(tail) + Cap - head) % Cap
        = IF head <= After(tail) THEN After(tail) - head
                                 ELSE After(tail) + Cap - head
  BY <1>1, RingAssumption DEF Index
<1> QED
  BY <1>1, <1>2, <1>3, SizeIs, AfterIs, RingAssumption DEF Index

LEMMA Shorter ==
  ASSUME TypeOK, head' = After(head), tail' = tail, Size > 0
  PROVE  Size' = Size - 1
<1>1. head \in Index /\ tail \in Index /\ After(head) \in Index
  BY AfterIs DEF TypeOK
<1>2. Size' = (tail + Cap - After(head)) % Cap
  BY DEF Size
<1>3. (tail + Cap - After(head)) % Cap
        = IF After(head) <= tail THEN tail - After(head)
                                 ELSE tail + Cap - After(head)
  BY <1>1, RingAssumption DEF Index
<1> QED
  BY <1>1, <1>2, <1>3, SizeIs, AfterIs, RingAssumption DEF Index

(* tail is the slot at distance Size from head.                             *)
LEMMA TailOffset ==
  ASSUME TypeOK
  PROVE  /\ tail = (head + Size) % Cap
         /\ \A n \in Index : (head + n) % Cap = tail => n = Size
         /\ \A n \in Index : (head + n) % Cap = head => n = 0
         /\ head = (head + 0) % Cap
<1>1. head \in Index /\ tail \in Index /\ Size \in Index /\ 0 \in Index
  BY SizeIs, RingAssumption DEF TypeOK, Index
<1>2. Size = IF head <= tail THEN tail - head ELSE tail + Cap - head
  BY <1>1, SizeIs
<1>3. \A n \in Index :
        (head + n) % Cap = IF head + n < Cap THEN head + n ELSE head + n - Cap
  BY <1>1, OffsetIs
<1>4. tail = (head + Size) % Cap /\ head = (head + 0) % Cap
  BY <1>1, <1>2, <1>3, RingAssumption DEF Index
<1>5. \A n \in Index : (head + n) % Cap = tail => n = Size
  BY <1>1, <1>2, <1>3, RingAssumption DEF Index
<1>6. \A n \in Index : (head + n) % Cap = head => n = 0
  BY <1>1, <1>3, RingAssumption DEF Index
<1> QED
  BY <1>4, <1>5, <1>6

-----------------------------------------------------------------------------
(* Whether the slot n places after head holds an object.                    *)
Live(n) == \/ n < Size /\ ~(n = 0 /\ cpc = "store_head")
           \/ n = Size /\ ppc = "store_tail"

LEMMA LifetimesByOffset ==
  ObjectLifetimes <=> \A n \in Index : (slots[(head + n) % Cap] # Null) <=> Live(n)
  BY DEF ObjectLifetimes, Live

(* A step that changes neither slots nor indices, nor which slots are being *)
(* worked on, keeps all objects where they are.                             *)
LEMMA LifetimesUnchanged ==
  ASSUME ObjectLifetimes, UNCHANGED <<slots, head, tail>>,
         (ppc = "store_tail") <=> (ppc' = "store_tail"),
         (cpc = "store_head") <=> (cpc' = "store_head")
  PROVE  ObjectLifetimes'
<1>1. Size' = Size
  BY DEF Size
<1>2. \A n \in Index : Live(n)' <=> Live(n)
  BY <1>1 DEF Live
<1>3. \A n \in Index : (slots'[(head' + n) % Cap] # Null) <=> Live(n)
  BY LifetimesByOffset
<1> QED
  BY <1>2, <1>3, LifetimesByOffset DEF ObjectLifetimes, Live

LEMMA InitInv == Init => Inv
<1> SUFFICES ASSUME Init PROVE Inv
  OBVIOUS
<1> USE RingAssumption DEF Init
<1>1. TypeOK
  BY DEF TypeOK, Index
<1>2. Size = 0
  BY <1>1, SizeIs DEF TypeOK
<1>3. ProducerView /\ ConsumerView
  BY <1>2 DEF ProducerView, ConsumerView
<1>4. ObjectLifetimes
  <2>1. \A n \in Index : (head + n) % Cap \in Index /\ ~Live(n)
    BY <1>1, <1>2, OffsetIs DEF TypeOK, Live, Index
  <2> QED
    BY <2>1, LifetimesByOffset
<1> QED
  BY <1>1, <1>3, <1>4 DEF Inv

LEMMA InvNext == Inv /\ [Next]_vars => Inv'
<1> SUFFICES ASSUME Inv, [Next]_vars PROVE Inv'
  OBVIOUS
<1> USE RingAssumption DEF prodVars, consVars
<1>a. TypeOK /\ ProducerView /\ ConsumerView /\ ObjectLifetimes
  BY DEF Inv
<1>b. Size \in Index /\ head \in Index /\ tail \in Index
  BY <1>a, SizeIs DEF TypeOK
<1>1. CASE EmplaceBegin
  <2> USE <1>1, <1>a DEF EmplaceBegin
  <2>1. TypeOK' /\ Size' = Size
    BY DEF TypeOK, Size
  <2>2. ProducerView' /\ ConsumerView'
    BY <2>1 DEF ProducerView, ConsumerView
  <2>3. ObjectLifetimes'
    BY LifetimesUnchanged
  <2> QED
    BY <2>1, <2>2, <2>3 DEF Inv
<1>2. CASE LoadHead
  <2> USE <1>2, <1>a DEF LoadHead
  <2>1. PICK lag \in Missed(headLag) :
          /\ headLag' = lag
          /\ headNews' = lag
          /\ ppc' = IF After(tail) = Before(head, lag) THEN "full" ELSE "construct"
    OBVIOUS
  <2>2. lag \in Index /\ lag <= headLag /\ lag + Size <= Cap - 1
    BY <1>b, <2>1 DEF Missed, TypeOK, Index, ProducerView
  <2>3. TypeOK' /\ Size' = Size
    BY <2>1, <2>2 DEF TypeOK, Size
  <2>4. ppc' = "construct" => lag + Size < Cap - 1
    BY <1>b, <2>1, <2>2, FullTest DEF Index
  <2>5. ProducerView' /\ ConsumerView'
    BY <2>1, <2>2, <2>3, <2>4 DEF ProducerView, ConsumerView
  <2>6. ObjectLifetimes'
    BY <2>1, LifetimesUnchanged
  <2> QED
    BY <2>3, <2>5, <2>6 DEF Inv
<1>3. CASE Construct
  <2> USE <1>3, <1>a DEF Construct
  <2>1. TypeOK' /\ Size' = Size
    BY DEF TypeOK, Size
  <2>2. ProducerView' /\ ConsumerView'
    BY <2>1 DEF ProducerView, ConsumerView
  <2>3. \A n \in Index : Live(n)' <=> (Live(n) \/ n = Size)
    BY <2>1, <1>b DEF Live, Index
  <2>4. \A n \in Index : slots'[(head + n) % Cap]
                           = IF n = Size THEN val ELSE slots[(head + n) % Cap]
    BY <1>b, TailOffset, OffsetIs DEF TypeOK
  <2>5. ObjectLifetimes'
    <3>1. \A n \in Index : (slots'[(head' + n) % Cap] # Null) <=> Live(n)'
      BY <2>3, <2>4, LifetimesByOffset DEF ProducerView
    <3> QED
      BY <3>1 DEF ObjectLifetimes, Live
  <2> QED
    BY <2>1, <2>2, <2>5 DEF Inv
<1>4. CASE StoreTail
  <2> USE <1>4, <1>a DEF StoreTail
  <2>1. Size < Cap - 1 /\ Size' = Size + 1
    BY <1>b, Longer DEF ProducerView, TypeOK, Index
  <2>2. After(tail) \in Index
    BY <1>b, AfterIs
  <2>3. tailLag + 1 \in Index /\ tailNews + 1 \in Index
    BY <1>b, <2>1 DEF ConsumerView, TypeOK, Index
  <2>4. TypeOK'
    BY <2>2, <2>3 DEF TypeOK
  <2>5. ProducerView' /\ ConsumerView'
    BY <1>b, <2>1 DEF ProducerView, ConsumerView, TypeOK, Index
  <2>6. \A n \in Index : Live(n)' <=> Live(n)
    BY <1>b, <2>1 DEF Live, Index, ConsumerView, TypeOK
  <2>7. ObjectLifetimes'
    <3>1. \A n \in Index : (slots'[(head' + n) % Cap] # Null) <=> Live(n)'
      BY <2>6, LifetimesByOffset
    <3> QED
      BY <3>1 DEF ObjectLifetimes, Live
  <2> QED
    BY <2>4, <2>5, <2>7 DEF Inv
<1>5. CASE EmplaceReturn
  <2> USE <1>5, <1>a DEF EmplaceReturn
  <2>1. TypeOK' /\ Size' = Size
    BY DEF TypeOK, Size
  <2>2. ProducerView' /\ ConsumerView'
    BY <2>1 DEF ProducerView, ConsumerView
  <2>3. ObjectLifetimes'
    BY LifetimesUnchanged
  <2> QED
    BY <2>1, <2>2, <2>3 DEF Inv
<1>6. CASE PopBegin
  <2> USE <1>6, <1>a DEF PopBegin
  <2>1. TypeOK' /\ Size' = Size
    BY DEF TypeOK, Size
  <2>2. ProducerView' /\ ConsumerView'
    BY <2>1 DEF ProducerView, ConsumerView
  <2>3. ObjectLifetimes'
    BY LifetimesUnchanged
  <2> QED
    BY <2>1, <2>2, <2>3 DEF Inv
<1>7. CASE LoadTail
  <2> USE <1>7, <1>a DEF LoadTail
  <2>1. PICK lag \in Missed(tailLag) :
          /\ tailLag' = lag
          /\ tailNews' = lag
          /\ cpc' = IF head = Before(tail, lag) THEN "empty" ELSE "take"
    OBVIOUS
  <2>2. lag \in Index /\ lag <= Size
    BY <1>b, <2>1 DEF Missed, TypeOK, Index, ConsumerView
  <2>3. TypeOK' /\ Size' = Size
    BY <2>1, <2>2 DEF TypeOK, Size
  <2>4. cpc' = "take" => lag < Size
    BY <1>b, <2>1, <2>2, EmptyTest DEF Index
  <2>5. ProducerView' /\ ConsumerView'
    BY <2>1, <2>2, <2>3, <2>4 DEF ProducerView, ConsumerView
  <2>6. ObjectLifetimes'
    BY <2>1, LifetimesUnchanged
  <2> QED
    BY <2>3, <2>5, <2>6 DEF Inv
<1>8. CASE TakeOut
  <2> USE <1>8, <1>a DEF TakeOut
  <2>1. TypeOK' /\ Size' = Size
    BY DEF TypeOK, Size
  <2>2. ProducerView' /\ ConsumerView'
    BY <2>1 DEF ProducerView, ConsumerView
  <2>3. Size > 0
    BY <1>b DEF ConsumerView, TypeOK, Index
  <2>4. \A n \in Index : Live(n)' <=> (Live(n) /\ n # 0)
    BY <2>1, <2>3, <1>b DEF Live, Index
  <2>5. \A n \in Index : slots'[(head + n) % Cap]
                           = IF n = 0 THEN Null ELSE slots[(head + n) % Cap]
    BY <1>b, TailOffset, OffsetIs DEF TypeOK
  <2>6. ObjectLifetimes'
    <3>1. \A n \in Index : (slots'[(head' + n) % Cap] # Null) <=> Live(n)'
      BY <2>4, <2>5, LifetimesByOffset
    <3> QED
      BY <3>1 DEF ObjectLifetimes, Live
  <2> QED
    BY <2>1, <2>2, <2>6 DEF Inv
<1>9. CASE StoreHead
  <2> USE <1>9, <1>a DEF StoreHead
  <2>1. Size > 0 /\ Size' = Size - 1
    BY <1>b, Shorter DEF ConsumerView, TypeOK, Index
  <2>2. After(head) \in Index
    BY <1>b, AfterIs
  <2>3. headLag + 1 \in Index /\ headNews + 1 \in Index
    BY <1>b, <2>1 DEF ProducerView, TypeOK, Index
  <2>4. TypeOK'
    BY <2>2, <2>3 DEF TypeOK
  <2>5. ProducerView' /\ ConsumerView'
    BY <1>b, <2>1 DEF ProducerView, ConsumerView, TypeOK, Index
  <2>6. \A n \in Index : n # Cap - 1 =>
          /\ (After(head) + n) % Cap = (head + (n + 1)) % Cap
          /\ n + 1 \in Index
          /\ Live(n)' <=> Live(n + 1)
    <3> SUFFICES ASSUME NEW n \in Index, n # Cap - 1
                 PROVE  /\ (After(head) + n) % Cap = (head + (n + 1)) % Cap
                        /\ n + 1 \in Index
                        /\ Live(n)' <=> Live(n + 1)
      OBVIOUS
    <3>1. n + 1 \in Index
      BY DEF Index
    <3>2. (After(head) + n) % Cap = (head + (n + 1)) % Cap
      <4>1. After(head) = IF head = Cap - 1 THEN 0 ELSE head + 1
        BY <1>b, AfterIs
      <4>2. (After(head) + n) % Cap = IF After(head) + n < Cap THEN After(head) + n
                                      ELSE After(head) + n - Cap
        BY <2>2, OffsetIs
      <4>3. (head + (n + 1)) % Cap = IF head + (n + 1) < Cap THEN head + (n + 1)
                                     ELSE head + (n + 1) - Cap
        BY <1>b, <3>1, OffsetIs
      <4> QED
        BY <1>b, <4>1, <4>2, <4>3 DEF Index
    <3>3. Live(n)' <=> Live(n + 1)
      BY <1>b, <2>1 DEF Live, Index
    <3> QED
      BY <3>1, <3>2, <3>3
  <2>7. (After(head) + (Cap - 1)) % Cap = head
    <3>1. Cap - 1 \in Index
      BY DEF Index
    <3>2. After(head) = IF head = Cap - 1 THEN 0 ELSE head + 1
      BY <1>b, AfterIs
    <3>3. (After(head) + (Cap - 1)) % Cap
            = IF After(head) + (Cap - 1) < Cap THEN After(head) + (Cap - 1)
              ELSE After(head) + (Cap - 1) - Cap
      BY <2>2, <3>1, OffsetIs
    <3> QED
      BY <1>b, <3>2, <3>3 DEF Index
  <2>8. slots[head] = Null
    <3>1. 0 \in Index /\ ~Live(0)
      BY <2>1, <1>b DEF Index, Live
    <3> QED
      BY <3>1, TailOffset, LifetimesByOffset
  <2>9. \A n \in Index : n = Cap - 1 => ~Live(n)'
    BY <1>b, <2>1 DEF Live, Index
  <2>10. ObjectLifetimes'
    <3>1. \A n \in Index : (slots[(After(head) + n) % Cap] # Null) <=> Live(n)'
      BY <2>6, <2>7, <2>8, <2>9, LifetimesByOffset
    <3> QED
      BY <3>1 DEF ObjectLifetimes, Live
  <2> QED
    BY <2>4, <2>5, <2>10 DEF Inv
<1>10. CASE PopReturn
  <2> USE <1>10, <1>a DEF PopReturn
  <2>1. TypeOK' /\ Size' = Size
    BY DEF TypeOK, Size
  <2>2. ProducerView' /\ ConsumerView'
    BY <2>1 DEF ProducerView, ConsumerView
  <2>3. ObjectLifetimes'
    BY LifetimesUnchanged
  <2> QED
    BY <2>1, <2>2, <2>3 DEF Inv
<1>11. CASE UNCHANGED vars
  <2> USE <1>11, <1>a DEF vars
  <2>1. TypeOK' /\ Size' = Size
    BY DEF TypeOK, Size
  <2>2. ProducerView' /\ ConsumerView'
    BY <2>1 DEF ProducerView, ConsumerView
  <2>3. ObjectLifetimes'
    BY LifetimesUnchanged
  <2> QED
    BY <2>1, <2>2, <2>3 DEF Inv
<1> QED
  BY <1>1, <1>2, <1>3, <1>4, <1>5, <1>6, <1>7, <1>8, <1>9, <1>10, <1>11 DEF Next

-----------------------------------------------------------------------------
(* The ring implements the bounded queue.  In addition to Inv this needs    *)
(* that the object constructed at tail is the one the producer brings.      *)
Constructed == ppc = "store_tail" => slots[tail] = val

RInv == Inv /\ Constructed

LEMMA RInvNext == RInv /\ [Next]_vars => RInv'
<1> SUFFICES ASSUME RInv, [Next]_vars PROVE RInv'
  OBVIOUS
<1>1. Inv' /\ TypeOK /\ Constructed /\ ConsumerView /\ ProducerView
  BY InvNext DEF RInv, Inv
<1>2. Constructed'
  <2> USE <1>1 DEF Constructed, prodVars, consVars
  <2>1. CASE Construct
    BY <2>1 DEF Construct, TypeOK
  <2>2. CASE TakeOut
    <3>1. Size > 0
      BY <2>2, SizeIs DEF TakeOut, ConsumerView, TypeOK, Index
    <3>2. head # tail
      BY <3>1, SizeIs DEF TypeOK, Index
    <3> QED
      BY <2>2, <3>2 DEF TakeOut, TypeOK
  <2>3. CASE EmplaceBegin \/ LoadHead \/ StoreTail \/ EmplaceReturn
    BY <2>3 DEF EmplaceBegin, LoadHead, StoreTail, EmplaceReturn
  <2>4. CASE PopBegin \/ LoadTail \/ StoreHead \/ PopReturn \/ UNCHANGED vars
    BY <2>4 DEF PopBegin, LoadTail, StoreHead, PopReturn, vars
  <2> QED
    BY <2>1, <2>2, <2>3, <2>4 DEF Next
<1> QED
  BY <1>1, <1>2 DEF RInv

Slot == Value \cup {Null}

(* The n-th element of the queue, counted from the oldest.                  *)
Element(n) == IF n = 1 /\ cpc = "store_head" THEN out
              ELSE slots[(head + n - 1) % Cap]

LEMMA ElementIs ==
  ASSUME TypeOK, NEW n \in 1 .. Size
  PROVE  /\ n - 1 \in Index /\ n - 1 < Size
         /\ (head + n - 1) % Cap = (head + (n - 1)) % Cap
         /\ (head + (n - 1)) % Cap \in Index
         /\ Element(n) \in Slot
<1>1. Size \in Index /\ head \in Index
  BY SizeIs DEF TypeOK
<1>2. n - 1 \in Index /\ n - 1 < Size /\ head + n - 1 = head + (n - 1)
  BY <1>1, RingAssumption DEF Index
<1>3. (head + (n - 1)) % Cap \in Index
  BY <1>1, <1>2, OffsetIs
<1> QED
  BY <1>2, <1>3 DEF Element, Slot, TypeOK

LEMMA ContentsFacts ==
  ASSUME TypeOK
  PROVE  /\ Contents \in [1 .. Size -> Slot]
         /\ Contents \in Seq(Slot)
         /\ Size \in Nat
         /\ Len(Contents) = Size
         /\ \A n \in 1 .. Size : Contents[n] = Element(n)
<1>1. Contents = [n \in 1 .. Size |-> Element(n)]
  BY DEF Contents, Element
<1>2. \A n \in 1 .. Size : Element(n) \in Slot
  BY ElementIs
<1>3. Contents \in [1 .. Size -> Slot]
  BY <1>1, <1>2
<1>4. Size \in Nat
  BY SizeIs, RingAssumption DEF TypeOK, Index
<1> QED
  BY <1>1, <1>3, <1>4

(* The same, after a step.                                                  *)
LEMMA NextContents ==
  ASSUME TypeOK', \A n \in 1 .. Size' : Element(n)' \in Slot
  PROVE  /\ Contents' \in [1 .. Size' -> Slot]
         /\ \A n \in 1 .. Size' : Contents'[n] = Element(n)'
<1>1. Contents' = [n \in 1 .. Size' |-> Element(n)']
  BY DEF Contents, Element
<1> QED
  BY <1>1

LEMMA SameContents ==
  ASSUME TypeOK, TypeOK', UNCHANGED <<head, tail>>,
         \A n \in 1 .. Size : Element(n)' = Element(n)
  PROVE  Contents' = Contents
<1>1. Size' = Size
  BY DEF Size
<1>2. /\ Contents' \in [1 .. Size -> Slot]
      /\ \A n \in 1 .. Size : Contents'[n] = Element(n)
  BY <1>1, ElementIs, NextContents
<1> QED
  BY <1>2, ContentsFacts

LEMMA SequenceIsFunction ==
  ASSUME NEW S, NEW s \in Seq(S)
  PROVE  Len(s) \in Nat /\ s \in [1 .. Len(s) -> S]
  OBVIOUS

(* A sequence with the elements of Append(s, x), of Tail(s), is that one.   *)
LEMMA AppendIs ==
  ASSUME NEW S, NEW s \in Seq(S), NEW x \in S,
         NEW r \in [1 .. Len(s) + 1 -> S],
         \A i \in 1 .. Len(s) : r[i] = s[i], r[Len(s) + 1] = x
  PROVE  r = Append(s, x)
<1>1. /\ Append(s, x) \in Seq(S) /\ Len(Append(s, x)) = Len(s) + 1
      /\ Len(s) \in Nat
  OBVIOUS
<1>2. Append(s, x) \in [1 .. Len(s) + 1 -> S]
  BY <1>1, SequenceIsFunction
<1>3. \A i \in 1 .. Len(s) + 1 : r[i] = Append(s, x)[i]
  OBVIOUS
<1> QED
  BY <1>2, <1>3

LEMMA TailIs ==
  ASSUME NEW S, NEW s \in Seq(S), s # <<>>,
         NEW r \in [1 .. Len(s) - 1 -> S],
         \A i \in 1 .. Len(s) - 1 : r[i] = s[i + 1]
  PROVE  r = Tail(s)
<1>1. Tail(s) \in Seq(S) /\ Len(Tail(s)) = Len(s) - 1 /\ Len(s) \in Nat
  OBVIOUS
<1>2. Tail(s) \in [1 .. Len(s) - 1 -> S]
  BY <1>1, SequenceIsFunction
<1>3. \A i \in 1 .. Len(s) - 1 : r[i] = Tail(s)[i]
  OBVIOUS
<1> QED
  BY <1>2, <1>3

LEMMA NonEmpty ==
  ASSUME NEW S, NEW s \in Seq(S)
  PROVE  /\ s = <<>> <=> Len(s) = 0
         /\ s # <<>> => Head(s) = s[1]
  OBVIOUS

-----------------------------------------------------------------------------
Calls == [t \in {"producer", "consumer"} |->
            IF t = "producer" THEN ProducerCall ELSE ConsumerCall]

LEMMA ProducerMoves ==
  ASSUME UNCHANGED <<cpc, out>>
  PROVE  Calls' = [Calls EXCEPT !["producer"] = ProducerCall']
  BY DEF Calls, ConsumerCall

LEMMA ConsumerMoves ==
  ASSUME UNCHANGED <<ppc, val>>
  PROVE  Calls' = [Calls EXCEPT !["consumer"] = ConsumerCall']
  BY DEF Calls, ProducerCall

LEMMA InitImplements == Init => LQ!Init
<1> SUFFICES ASSUME Init PROVE LQ!Init
  OBVIOUS
<1>1. TypeOK /\ Size = 0
  BY InitInv, SizeIs DEF Inv, Init, TypeOK
<1>2. Contents = <<>>
  BY <1>1, ContentsFacts, NonEmpty
<1>3. ProducerCall = LQ!Idle /\ ConsumerCall = LQ!Idle
  BY DEF Init, ProducerCall, ConsumerCall, Call, LQ!Idle, LQ!Call
<1> QED
  BY <1>2, <1>3 DEF LQ!Init

LEMMA NextImplements == RInv /\ RInv' /\ [Next]_vars => [LQ!Next]_LQ!vars
<1> SUFFICES ASSUME RInv, RInv', [Next]_vars PROVE [LQ!Next]_LQ!vars
  OBVIOUS
<1> USE RingAssumption DEF prodVars, consVars
<1>a. TypeOK /\ TypeOK' /\ ProducerView /\ ConsumerView /\ Constructed
  BY DEF RInv, Inv
<1>b. /\ Size \in Index /\ head \in Index /\ tail \in Index
      /\ Contents \in Seq(Slot) /\ Size \in Nat /\ Len(Contents) = Size
      /\ \A n \in 1 .. Size : Contents[n] = Element(n)
  BY <1>a, SizeIs, ContentsFacts DEF TypeOK
<1>c. ASSUME UNCHANGED <<head, tail, slots, out>>,
             (cpc = "store_head") <=> (cpc' = "store_head")
      PROVE  Contents' = Contents
  <2>1. \A n \in 1 .. Size : Element(n)' = Element(n)
    BY <1>c DEF Element
  <2> QED
    BY <1>a, <1>c, <2>1, SameContents
<1>d. ASSUME NEW t \in {"producer", "consumer"},
             \/ LQ!Invoke(t) \/ LQ!Push(t) \/ LQ!PushFull(t) \/ LQ!Pop(t)
             \/ LQ!PopEmpty(t) \/ LQ!Return(t)
      PROVE  [LQ!Next]_LQ!vars
  BY <1>d DEF LQ!Next
<1>1. CASE EmplaceBegin
  <2> USE <1>1 DEF EmplaceBegin
  <2>1. Contents' = Contents
    BY <1>c
  <2>2. ProducerCall = LQ!Idle /\ ProducerCall' = LQ!Call("push", val') /\ val' \in Value
    BY DEF ProducerCall, Call, LQ!Idle, LQ!Call
  <2>3. LQ!Invoke("producer")
    BY <2>1, <2>2, ProducerMoves DEF Calls, LQ!Invoke, LQ!Move
  <2> QED
    BY <2>3, <1>d
<1>2. CASE LoadHead
  <2> USE <1>2 DEF LoadHead
  <2>1. PICK lag \in Missed(headLag) :
          ppc' = IF After(tail) = Before(head, lag) THEN "full" ELSE "construct"
    OBVIOUS
  <2>2. Contents' = Contents
    BY <1>c
  <2>3. CASE ppc' = "construct"
    <3>1. ProducerCall' = ProducerCall /\ Calls' = Calls
      BY <2>3, ProducerMoves DEF Calls, ProducerCall, ConsumerCall
    <3> QED
      BY <2>2, <3>1 DEF LQ!vars, Calls
  <2>4. CASE ppc' = "full"
    <3>1. After(tail) = Before(head, lag)
      BY <2>1, <2>4
    <3>2. lag \in Index /\ lag + Size <= Cap - 1
      BY <1>a, <1>b DEF Missed, TypeOK, Index, ProducerView
    <3>3. ~Stale => Size = Cap - 1
      BY <1>a, <1>b, <3>1, <3>2, FullTest DEF Missed, Index
    <3>4. ~Stale => ~LQ!HasRoom
      BY <1>b, <3>3 DEF LQ!HasRoom
    <3>5. ProducerCall.st = "push" /\ ProducerCall' = LQ!Call("ret", Null)
      BY <2>4 DEF ProducerCall, Call, LQ!Call
    <3>6. LQ!PushFull("producer")
      BY <2>2, <3>4, <3>5, ProducerMoves DEF Calls, LQ!PushFull, LQ!Move
    <3> QED
      BY <3>6, <1>d
  <2> QED
    BY <2>1, <2>3, <2>4
<1>3. CASE Construct
  <2> USE <1>3 DEF Construct
  <2>1. ASSUME NEW n \in 1 .. Size PROVE Element(n)' = Element(n)
    <3>1. /\ n - 1 \in Index /\ n - 1 < Size
          /\ (head + n - 1) % Cap = (head + (n - 1)) % Cap
          /\ (head + (n - 1)) % Cap \in Index
      BY <1>a, ElementIs
    <3>2. (head + (n - 1)) % Cap # tail
      <4>1. n - 1 # Size
        BY <1>b, <3>1 DEF Index
      <4> QED
        BY <1>a, <3>1, <4>1, TailOffset
    <3> QED
      BY <1>a, <3>1, <3>2 DEF Element, TypeOK
  <2>2. Contents' = Contents
    BY <1>a, <2>1, SameContents
  <2>3. Calls' = Calls
    BY DEF Calls, ProducerCall, ConsumerCall
  <2> QED
    BY <2>2, <2>3 DEF LQ!vars, Calls
<1>4. CASE StoreTail
  <2> USE <1>4 DEF StoreTail
  <2>1. Size < Cap - 1 /\ Size' = Size + 1
    BY <1>a, <1>b, Longer DEF ProducerView, TypeOK, Index
  <2>2. \A n \in 1 .. Size : Element(n)' = Element(n)
    BY DEF Element
  <2>3. ASSUME NEW n \in Nat, n = Size + 1 PROVE Element(n)' = val
    <3>1. (head + Size) % Cap = tail
      BY <1>a, TailOffset
    <3>2. head + n - 1 = head + Size
      BY <1>b, <2>3 DEF Index
    <3>3. ~(n = 1 /\ cpc = "store_head")
      BY <1>a, <1>b, <2>3 DEF ConsumerView, TypeOK, Index
    <3>4. Element(n)' = slots'[(head' + n - 1) % Cap]
      BY <3>3 DEF Element
    <3> QED
      BY <1>a, <3>1, <3>2, <3>4 DEF Constructed
  <2>4. val \in Slot
    BY <1>a DEF TypeOK, Slot
  <2>5. \A n \in 1 .. Size' : n \in 1 .. Size \/ (n = Size + 1 /\ n \in Nat)
    BY <1>b, <2>1
  <2>6. \A n \in 1 .. Size' : Element(n)' \in Slot
    BY <1>a, <2>2, <2>3, <2>4, <2>5, ElementIs
  <2>7. Contents' = Append(Contents, val)
    <3>1. /\ Contents' \in [1 .. Size' -> Slot]
          /\ \A n \in 1 .. Size' : Contents'[n] = Element(n)'
      BY <1>a, <2>6, NextContents
    <3>2. Contents' \in [1 .. Len(Contents) + 1 -> Slot]
      BY <1>b, <2>1, <3>1
    <3>3. 1 .. Size \subseteq 1 .. Size' /\ Size + 1 \in 1 .. Size' /\ Size + 1 \in Nat
      BY <1>b, <2>1
    <3>4. \A i \in 1 .. Len(Contents) : Contents'[i] = Contents[i]
      BY <1>b, <2>2, <3>1, <3>3
    <3>5. Contents'[Len(Contents) + 1] = val
      BY <1>b, <2>3, <3>1, <3>3
    <3> QED
      BY <1>b, <2>4, <3>2, <3>4, <3>5, AppendIs
  <2>8. LQ!HasRoom
    BY <1>b, <2>1 DEF LQ!HasRoom
  <2>9. ProducerCall = LQ!Call("push", val) /\ ProducerCall' = LQ!Call("ret", val)
    BY DEF ProducerCall, Call, LQ!Call
  <2>10. LQ!Push("producer")
    BY <2>7, <2>8, <2>9, ProducerMoves DEF Calls, LQ!Push, LQ!Move, LQ!Call
  <2> QED
    BY <2>10, <1>d
<1>5. CASE EmplaceReturn
  <2> USE <1>5 DEF EmplaceReturn
  <2>1. Contents' = Contents
    BY <1>c
  <2>2. ProducerCall.st = "ret" /\ ProducerCall' = LQ!Idle
    BY DEF ProducerCall, Call, LQ!Idle, LQ!Call
  <2>3. LQ!Return("producer")
    BY <2>1, <2>2, ProducerMoves DEF Calls, LQ!Return, LQ!Move
  <2> QED
    BY <2>3, <1>d
<1>6. CASE PopBegin
  <2> USE <1>6 DEF PopBegin
  <2>1. Contents' = Contents
    BY <1>c
  <2>2. ConsumerCall = LQ!Idle /\ ConsumerCall' = LQ!Call("try", Null)
    BY DEF ConsumerCall, Call, LQ!Idle, LQ!Call
  <2>3. LQ!Invoke("consumer")
    BY <2>1, <2>2, ConsumerMoves DEF Calls, LQ!Invoke, LQ!Move
  <2> QED
    BY <2>3, <1>d
<1>7. CASE LoadTail
  <2> USE <1>7 DEF LoadTail
  <2>1. PICK lag \in Missed(tailLag) :
          cpc' = IF head = Before(tail, lag) THEN "empty" ELSE "take"
    OBVIOUS
  <2>2. Contents' = Contents
    BY <2>1, <1>c
  <2>3. CASE cpc' = "take"
    <3>1. ConsumerCall' = ConsumerCall /\ Calls' = Calls
      BY <2>3, ConsumerMoves DEF Calls, ProducerCall, ConsumerCall
    <3> QED
      BY <2>2, <3>1 DEF LQ!vars, Calls
  <2>4. CASE cpc' = "empty"
    <3>1. head = Before(tail, lag)
      BY <2>1, <2>4
    <3>2. lag \in Index /\ lag <= Size
      BY <1>a, <1>b DEF Missed, TypeOK, Index, ConsumerView
    <3>3. ~Stale => Size = 0
      BY <1>a, <1>b, <3>1, <3>2, EmptyTest DEF Missed, Index
    <3>4. ~Stale => Contents = <<>>
      BY <1>b, <3>3, NonEmpty
    <3>5. ConsumerCall.st = "try" /\ ConsumerCall' = LQ!Call("ret", Null)
      BY <2>4 DEF ConsumerCall, Call, LQ!Call
    <3>6. LQ!PopEmpty("consumer")
      BY <2>2, <3>4, <3>5, ConsumerMoves DEF Calls, LQ!PopEmpty, LQ!Move
    <3> QED
      BY <3>6, <1>d
  <2> QED
    BY <2>1, <2>3, <2>4
<1>8. CASE TakeOut
  <2> USE <1>8 DEF TakeOut
  <2>1. ASSUME NEW n \in 1 .. Size PROVE Element(n)' = Element(n)
    <3>1. /\ n - 1 \in Index
          /\ (head + n - 1) % Cap = (head + (n - 1)) % Cap
          /\ (head + (n - 1)) % Cap \in Index
      BY <1>a, ElementIs
    <3>2. CASE n = 1
      <4>1. (head + (n - 1)) % Cap = head
        BY <1>a, <3>2, TailOffset
      <4>2. Element(n) = slots[head]
        BY <3>1, <4>1 DEF Element
      <4>3. Element(n)' = out'
        BY <3>2 DEF Element
      <4> QED
        BY <4>2, <4>3
    <3>3. CASE n # 1
      <4>1. (head + (n - 1)) % Cap # head
        BY <1>a, <3>1, <3>3, TailOffset DEF Index
      <4>2. Element(n) = slots[(head + (n - 1)) % Cap]
        BY <3>1, <3>3 DEF Element
      <4>3. Element(n)' = slots'[(head + (n - 1)) % Cap]
        BY <3>1, <3>3 DEF Element
      <4> QED
        BY <1>a, <3>1, <4>1, <4>2, <4>3 DEF TypeOK
    <3> QED
      BY <3>2, <3>3
  <2>2. Contents' = Contents
    BY <1>a, <2>1, SameContents
  <2>3. Calls' = Calls
    BY DEF Calls, ProducerCall, ConsumerCall
  <2> QED
    BY <2>2, <2>3 DEF LQ!vars, Calls
<1>9. CASE StoreHead
  <2> USE <1>9 DEF StoreHead
  <2>1. Size > 0 /\ Size' = Size - 1
    BY <1>a, <1>b, Shorter DEF ConsumerView, TypeOK, Index
  <2>2. Contents # <<>> /\ Head(Contents) = out
    BY <1>b, <2>1, NonEmpty DEF Element
  <2>3. ASSUME NEW n \in 1 .. Size' PROVE Element(n)' = Contents[n + 1]
    <3>1. n + 1 \in 1 .. Size /\ n \in Index /\ n - 1 \in Index /\ n \in Nat
      BY <1>b, <2>1 DEF Index
    <3>2. Contents[n + 1] = slots[(head + n) % Cap]
      <4>1. head + (n + 1) - 1 = head + n /\ n + 1 # 1
        BY <1>b, <3>1 DEF Index
      <4> QED
        BY <1>b, <3>1, <4>1 DEF Element
    <3>3. Element(n)' = slots[(After(head) + (n - 1)) % Cap]
      <4>1. After(head) + n - 1 = After(head) + (n - 1)
        BY <1>b, <3>1, AfterIs DEF Index
      <4> QED
        BY <4>1 DEF Element
    <3>4. (After(head) + (n - 1)) % Cap = (head + n) % Cap
      <4>1. After(head) \in Index /\ After(head) = IF head = Cap - 1 THEN 0 ELSE head + 1
        BY <1>b, AfterIs
      <4>2. (After(head) + (n - 1)) % Cap
              = IF After(head) + (n - 1) < Cap THEN After(head) + (n - 1)
                ELSE After(head) + (n - 1) - Cap
        BY <3>1, <4>1, OffsetIs
      <4>3. (head + n) % Cap = IF head + n < Cap THEN head + n ELSE head + n - Cap
        BY <1>b, <3>1, OffsetIs
      <4> QED
        BY <1>b, <3>1, <4>1, <4>2, <4>3 DEF Index
    <3> QED
      BY <3>2, <3>3, <3>4
  <2>4. \A n \in 1 .. Size' : n + 1 \in 1 .. Size /\ Contents[n + 1] \in Slot
    BY <1>a, <1>b, <2>1, ContentsFacts
  <2>5. /\ Contents' \in [1 .. Size' -> Slot]
        /\ \A n \in 1 .. Size' : Contents'[n] = Contents[n + 1]
    BY <1>a, <2>3, <2>4, NextContents
  <2>6. Contents' = Tail(Contents)
    BY <1>b, <2>1, <2>2, <2>5, TailIs
  <2>7. ConsumerCall.st = "try" /\ ConsumerCall' = LQ!Call("ret", Head(Contents))
    BY <2>2 DEF ConsumerCall, Call, LQ!Call
  <2>8. LQ!Pop("consumer")
    BY <2>2, <2>6, <2>7, ConsumerMoves DEF Calls, LQ!Pop, LQ!Move
  <2> QED
    BY <2>8, <1>d
<1>10. CASE PopReturn
  <2> USE <1>10 DEF PopReturn
  <2>1. Contents' = Contents
    <3>1. \A n \in 1 .. Size : Element(n)' = Element(n)
      BY DEF Element
    <3> QED
      BY <1>a, <3>1, SameContents
  <2>2. ConsumerCall.st = "ret" /\ ConsumerCall' = LQ!Idle
    BY DEF ConsumerCall, Call, LQ!Idle, LQ!Call
  <2>3. LQ!Return("consumer")
    BY <2>1, <2>2, ConsumerMoves DEF Calls, LQ!Return, LQ!Move
  <2> QED
    BY <2>3, <1>d
<1>11. CASE UNCHANGED vars
  <2>1. Contents' = Contents
    BY <1>11, <1>c DEF vars
  <2>2. Calls' = Calls
    BY <1>11 DEF vars, Calls, ProducerCall, ConsumerCall
  <2> QED
    BY <2>1, <2>2 DEF LQ!vars, Calls
<1> QED
  BY <1>1, <1>2, <1>3, <1>4, <1>5, <1>6, <1>7, <1>8, <1>9, <1>10, <1>11 DEF Next

-----------------------------------------------------------------------------
(* Inv holds in every reachable state.                                      *)
THEOREM InvHolds == Spec => []Inv
  BY InitInv, InvNext, PTL DEF Spec

(* Indices and lags stay below Cap, so that a stale index is never taken    *)
(* for a newer one that has wrapped around to the same number.              *)
THEOREM TypeCorrect == Spec => []TypeOK
<1>1. Inv => TypeOK
  BY DEF Inv
<1> QED
  BY <1>1, InvHolds, PTL

(* No access to a slot by one thread races with one by the other.           *)
THEOREM RaceFree == Spec => []NoDataRace
<1>1. Inv => NoDataRace
  BY RingAssumption, SizeIs DEF Inv, TypeOK, ProducerView, ConsumerView, NoDataRace, Index
<1> QED
  BY <1>1, InvHolds, PTL

(* Every object is constructed in a raw slot and destroyed once.            *)
THEOREM LifetimesCorrect == Spec => []ObjectLifetimes
<1>1. Inv => ObjectLifetimes
  BY DEF Inv
<1> QED
  BY <1>1, InvHolds, PTL
(* Whatever the number of slots and however stale the loads, the ring is a  *)
(* queue with room for Cap - 1 elements: they come out in the order they    *)
(* went in, each once, and with fresh loads no call is refused wrongly.     *)
THEOREM RingImplementsLinQueue == Spec => ImplementsLinQueue
<1>1. Init => RInv
  BY InitInv DEF RInv, Init, Constructed
<1>2. Spec => LQ!Init /\ [][LQ!Next]_LQ!vars
  BY <1>1, RInvNext, InitImplements, NextImplements, PTL DEF Spec
<1> QED
  BY <1>2 DEF ImplementsLinQueue, LQ!Spec
=============================================================================
