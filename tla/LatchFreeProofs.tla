---------------------------- MODULE LatchFreeProofs ----------------------------
(***************************************************************************)
(* The lock free queue between one producer and one consumer, and the lock *)
(* free stack between any threads, for any nodes and values: both keep     *)
(* their lists intact, touch no freed node, and are linearizable.  (The    *)
(* ring's proofs are in SpscRingProofs.)                                   *)
(***************************************************************************)
EXTENDS MCLatchFree, TLAPS

-----------------------------------------------------------------------------
(* Sequences                                                                *)

LEMMA SequenceIsFunction ==
  ASSUME NEW S, NEW s \in Seq(S)
  PROVE  /\ Len(s) \in Nat
         /\ s \in [1 .. Len(s) -> S]
         /\ s = <<>> <=> Len(s) = 0
         /\ s # <<>> => Head(s) = s[1]
  OBVIOUS

LEMMA FunctionIsSequence ==
  ASSUME NEW S, NEW n \in Nat, NEW f \in [1 .. n -> S]
  PROVE  f \in Seq(S) /\ Len(f) = n
  OBVIOUS

LEMMA AppendFacts ==
  ASSUME NEW S, NEW s \in Seq(S), NEW x \in S
  PROVE  /\ Append(s, x) \in Seq(S)
         /\ Len(Append(s, x)) = Len(s) + 1
         /\ Append(s, x)[Len(s) + 1] = x
         /\ \A i \in 1 .. Len(s) : Append(s, x)[i] = s[i]
  OBVIOUS

LEMMA TailFacts ==
  ASSUME NEW S, NEW s \in Seq(S), s # <<>>
  PROVE  /\ Tail(s) \in Seq(S)
         /\ Len(Tail(s)) = Len(s) - 1
         /\ \A i \in 1 .. Len(s) - 1 : Tail(s)[i] = s[i + 1]
  OBVIOUS

LEMMA ConsFacts ==
  ASSUME NEW S, NEW s \in Seq(S), NEW x \in S
  PROVE  /\ <<x>> \o s \in Seq(S)
         /\ Len(<<x>> \o s) = Len(s) + 1
         /\ (<<x>> \o s)[1] = x
         /\ \A i \in 1 .. Len(s) : (<<x>> \o s)[i + 1] = s[i]
  OBVIOUS

LEMMA SequencesEqual ==
  ASSUME NEW S, NEW s \in Seq(S), NEW t \in Seq(S), Len(s) = Len(t),
         \A i \in 1 .. Len(s) : s[i] = t[i]
  PROVE  s = t
  BY SequenceIsFunction

-----------------------------------------------------------------------------
(* LockFreeQueue                                                            *)

Linked == {qChain[i] : i \in 1 .. Len(qChain)}

Pushing == {"load_tail", "swap_data", "set_next", "store_tail"}
Filling == {"swap_data", "set_next", "store_tail"}

(* One thread pushes, the other pops.                                       *)
Roles ==
  /\ qPc[p] \in {"idle", "pushed"} \cup Pushing
  /\ qPc[c] \in {"idle", "load_head", "load_end", "store_head", "take_data",
                 "popped", "empty"}

(* The list from head to tail: linked once each, allocated, and every node  *)
(* but the last, the dummy, carries a value.                                *)
QueueList ==
  /\ Len(qChain) > 0
  /\ qHead = qChain[1]
  /\ qTail = qChain[Len(qChain)]
  /\ \A i, j \in 1 .. Len(qChain) : qChain[i] = qChain[j] => i = j
  /\ \A i \in 1 .. Len(qChain) : qChain[i] \in qLive
  /\ \A i \in 1 .. Len(qChain) - 1 :
       qNext[qChain[i]] = qChain[i + 1] /\ qData[qChain[i]] \in Value

(* What the producer has in hand: a new node nobody else knows, and the     *)
(* dummy at tail, which it alone fills.                                     *)
ProducerHolds ==
  /\ qPc[p] \in Pushing => qNew[p] \in qLive \ Linked
  /\ qPc[p] \in {"load_tail", "swap_data"} => qVal[p] \in Value
  /\ qPc[p] \in Filling => qOld[p] = qTail
  /\ qPc[p] \in {"set_next", "store_tail"} => qData[qOld[p]] \in Value
  /\ qPc[p] = "store_tail" => qNext[qOld[p]] = qNew[p]
  /\ qPc[p] = "pushed" => qOld[p] \in QueueNode

(* What the consumer has in hand: head, then a node taken out of the list   *)
(* that the producer does not know.                                         *)
ConsumerHolds ==
  /\ qPc[c] \in {"load_end", "store_head"} => qOld[c] = qHead
  /\ qPc[c] = "store_head" => qHead # qTail
  /\ qPc[c] = "take_data" =>
       /\ qOld[c] \in qLive \ Linked
       /\ qPc[p] \in Pushing => qOld[c] # qNew[p]

QueueInv ==
  ListQueue!TypeOK /\ Roles /\ QueueList /\ ProducerHolds /\ ConsumerHolds

LEMMA QueueThreads ==
  /\ p # c
  /\ ListQueue!Thread = {p, c}
  /\ Null \notin QueueNode \cup Value
  /\ Default \notin Value
  BY QueueConstants DEF ListQueue!LockFreeAssumption, ListQueue!Thread

LEMMA LinkedFacts ==
  ASSUME ListQueue!TypeOK, QueueList
  PROVE  /\ Len(qChain) \in Nat /\ Len(qChain) >= 1
         /\ \A i \in 1 .. Len(qChain) : qChain[i] \in Linked
         /\ qHead \in Linked /\ qTail \in Linked
         /\ Linked \subseteq qLive /\ Linked \subseteq QueueNode
         /\ 1 \in 1 .. Len(qChain) /\ Len(qChain) \in 1 .. Len(qChain)
<1>1. Len(qChain) \in Nat /\ \A i \in 1 .. Len(qChain) : qChain[i] \in QueueNode
  BY DEF ListQueue!TypeOK
<1> QED
  BY <1>1 DEF QueueList, Linked

LEMMA QueueInit == ListQueue!Init => QueueInv
<1> SUFFICES ASSUME ListQueue!Init PROVE QueueInv
  OBVIOUS
<1>1. PICK n \in QueueNode :
        /\ qHead = n /\ qTail = n /\ qChain = <<n>> /\ qLive = {n}
        /\ qPc = [t \in {p, c} |-> "idle"]
        /\ qData = [m \in QueueNode |-> Default]
        /\ qNext = [m \in QueueNode |-> Wild]
        /\ qVal = [t \in {p, c} |-> Null]
        /\ qNew = [t \in {p, c} |-> Null]
        /\ qOld = [t \in {p, c} |-> Null]
  BY QueueThreads DEF ListQueue!Init
<1>2. ListQueue!TypeOK
  BY <1>1, QueueThreads DEF ListQueue!TypeOK, ListQueue!Locations
<1>3. Len(qChain) = 1 /\ qChain[1] = n
  BY <1>1
<1>4. QueueList
  BY <1>1, <1>3 DEF QueueList
<1>5. Roles /\ ProducerHolds /\ ConsumerHolds
  BY <1>1 DEF Roles, ProducerHolds, ConsumerHolds, Pushing, Filling
<1> QED
  BY <1>2, <1>4, <1>5 DEF QueueInv

(* A step that leaves the list and what it contains alone.                  *)
LEMMA SameList ==
  ASSUME ListQueue!TypeOK, QueueList,
         UNCHANGED <<qHead, qTail, qChain>>, qLive \subseteq qLive',
         \A n \in Linked : qNext'[n] = qNext[n] /\ qData'[n] = qData[n]
  PROVE  QueueList' /\ Linked' = Linked
<1>1. \A i \in 1 .. Len(qChain) : qChain[i] \in Linked /\ qChain[i] \in qLive
  BY LinkedFacts
<1>2. Linked' = Linked
  BY DEF Linked
<1>3. \A i \in 1 .. Len(qChain) - 1 :
        qNext'[qChain[i]] = qChain[i + 1] /\ qData'[qChain[i]] \in Value
  <2>1. Len(qChain) \in Nat
    BY LinkedFacts
  <2>2. \A i \in 1 .. Len(qChain) - 1 : i \in 1 .. Len(qChain)
    BY <2>1
  <2> QED
    BY <1>1, <2>2 DEF QueueList
<1> QED
  BY <1>1, <1>2, <1>3 DEF QueueList

LEMMA QueueNext ==
  QueueInv /\ [ListQueue!Next]_(ListQueue!vars) => QueueInv'
<1> SUFFICES ASSUME QueueInv, [ListQueue!Next]_(ListQueue!vars) PROVE QueueInv'
  OBVIOUS
<1>a. ListQueue!TypeOK /\ Roles /\ QueueList /\ ProducerHolds /\ ConsumerHolds
  BY DEF QueueInv
<1>b. /\ p # c /\ ListQueue!Thread = {p, c}
      /\ Null \notin QueueNode \cup Value /\ Default \notin Value
  BY QueueThreads
<1>c. /\ Len(qChain) \in Nat /\ Len(qChain) >= 1
      /\ qHead \in Linked /\ qTail \in Linked
      /\ Linked \subseteq qLive /\ Linked \subseteq QueueNode
  BY <1>a, LinkedFacts
<1> USE <1>a, <1>b, <1>c
    DEF ListQueue!Goto, ListQueue!Set, ListQueue!Deref, Pushing, Filling
<1>1. ASSUME NEW x \in Value, ListQueue!PushBegin(p, x) PROVE QueueInv'
  <2> USE <1>1 DEF ListQueue!PushBegin
  <2>1. PICK n \in QueueNode \ qLive :
          /\ qNew' = [qNew EXCEPT ![p] = n]
          /\ qLive' = qLive \cup {n}
          /\ qData' = [qData EXCEPT ![n] = Default]
          /\ qNext' = [qNext EXCEPT ![n] = Wild]
    OBVIOUS
  <2>2. n \notin Linked
    BY <2>1
  <2>3. ListQueue!TypeOK'
    BY <2>1 DEF ListQueue!TypeOK, ListQueue!Locations
  <2>4. QueueList' /\ Linked' = Linked
    BY <2>1, <2>2, SameList DEF ListQueue!TypeOK
  <2>5. Roles' /\ ConsumerHolds'
    BY <2>1, <2>4 DEF ListQueue!TypeOK, Roles, ConsumerHolds
  <2>6. ProducerHolds'
    BY <2>1, <2>2, <2>4 DEF ListQueue!TypeOK, ProducerHolds
  <2> QED
    BY <2>3, <2>4, <2>5, <2>6 DEF QueueInv
<1>2. CASE ListQueue!LoadTail(p)
  <2> USE <1>2 DEF ListQueue!LoadTail
  <2>1. ListQueue!TypeOK'
    BY DEF ListQueue!TypeOK, ListQueue!Locations
  <2>2. QueueList' /\ Linked' = Linked
    BY SameList
  <2>3. Roles' /\ ProducerHolds' /\ ConsumerHolds'
    BY <2>2 DEF ListQueue!TypeOK, Roles, ProducerHolds, ConsumerHolds
  <2> QED
    BY <2>1, <2>2, <2>3 DEF QueueInv
<1>3. CASE ListQueue!SwapData(p)
  <2> USE <1>3 DEF ListQueue!SwapData
  <2>1. qOld[p] = qTail /\ qVal[p] \in Value /\ qData[qTail] \in Value \cup {Default}
    BY DEF ProducerHolds, ListQueue!TypeOK
  <2>2. ListQueue!TypeOK'
    BY <2>1 DEF ListQueue!TypeOK, ListQueue!Locations
  <2>3. Linked' = Linked
    BY DEF Linked
  <2>4. \A n \in QueueNode : qData'[n] = IF n = qTail THEN qVal[p] ELSE qData[n]
    BY <2>1 DEF ListQueue!TypeOK
  <2>5. QueueList'
    <3>1. \A i \in 1 .. Len(qChain) - 1 : qChain[i] \in QueueNode
      BY DEF ListQueue!TypeOK
    <3> QED
      BY <2>1, <2>4, <3>1 DEF QueueList
  <2>6. Roles' /\ ConsumerHolds'
    BY <2>3 DEF ListQueue!TypeOK, Roles, ConsumerHolds
  <2>7. ProducerHolds'
    BY <2>1, <2>3, <2>4 DEF ListQueue!TypeOK, ProducerHolds
  <2> QED
    BY <2>2, <2>5, <2>6, <2>7 DEF QueueInv
<1>4. CASE ListQueue!SetNext(p)
  <2> USE <1>4 DEF ListQueue!SetNext
  <2>1. qOld[p] = qTail /\ qNew[p] \in QueueNode
    BY DEF ProducerHolds, ListQueue!TypeOK
  <2>2. ListQueue!TypeOK'
    BY <2>1 DEF ListQueue!TypeOK, ListQueue!Locations
  <2>3. Linked' = Linked
    BY DEF Linked
  <2>4. \A n \in QueueNode : qNext'[n] = IF n = qTail THEN qNew[p] ELSE qNext[n]
    BY <2>1 DEF ListQueue!TypeOK
  <2>5. QueueList'
    <3>1. \A i \in 1 .. Len(qChain) - 1 : qChain[i] \in QueueNode /\ qChain[i] # qTail
      BY DEF ListQueue!TypeOK, QueueList
    <3> QED
      BY <2>1, <2>4, <3>1 DEF QueueList
  <2>6. Roles' /\ ConsumerHolds'
    BY <2>3 DEF ListQueue!TypeOK, Roles, ConsumerHolds
  <2>7. ProducerHolds'
    BY <2>1, <2>3, <2>4 DEF ListQueue!TypeOK, ProducerHolds
  <2> QED
    BY <2>2, <2>5, <2>6, <2>7 DEF QueueInv
<1>5. CASE ListQueue!StoreTail(p)
  <2> USE <1>5 DEF ListQueue!StoreTail
  <2>1. /\ qNew[p] \in QueueNode /\ qNew[p] \in qLive /\ qNew[p] \notin Linked
        /\ qNext[qTail] = qNew[p] /\ qData[qTail] \in Value /\ qOld[p] = qTail
    BY DEF ProducerHolds, ListQueue!TypeOK
  <2>2. /\ qChain' \in Seq(QueueNode)
        /\ Len(qChain') = Len(qChain) + 1
        /\ qChain'[Len(qChain) + 1] = qNew[p]
        /\ \A i \in 1 .. Len(qChain) : qChain'[i] = qChain[i]
    BY <2>1, AppendFacts DEF ListQueue!TypeOK
  <2>3. ListQueue!TypeOK'
    BY <2>1, <2>2 DEF ListQueue!TypeOK, ListQueue!Locations
  <2>4. \A i \in 1 .. Len(qChain') : i \in 1 .. Len(qChain) \/ i = Len(qChain) + 1
    BY <2>2
  <2>5. Linked' = Linked \cup {qNew[p]}
    <3>1. Linked' \subseteq Linked \cup {qNew[p]}
      BY <2>2, <2>4 DEF Linked
    <3>2. 1 .. Len(qChain) \subseteq 1 .. Len(qChain') /\ Len(qChain) + 1 \in 1 .. Len(qChain')
      BY <2>2
    <3>3. Linked \cup {qNew[p]} \subseteq Linked'
      BY <2>2, <3>2 DEF Linked
    <3> QED
      BY <3>1, <3>3
  <2>6. QueueList'
    <3>1. /\ Len(qChain') > 0 /\ qHead' = qChain'[1]
          /\ qTail' = qChain'[Len(qChain')]
      BY <2>2 DEF QueueList
    <3>2. \A i \in 1 .. Len(qChain') : qChain'[i] \in qLive'
      BY <2>1, <2>2, <2>4 DEF QueueList
    <3>3. \A i \in 1 .. Len(qChain') - 1 :
            qNext'[qChain'[i]] = qChain'[i + 1] /\ qData'[qChain'[i]] \in Value
      BY <2>1, <2>2 DEF QueueList
    <3>4. \A i, j \in 1 .. Len(qChain') : qChain'[i] = qChain'[j] => i = j
      <4>1. \A i \in 1 .. Len(qChain) : qChain[i] # qNew[p]
        BY <2>1 DEF Linked
      <4> QED
        BY <2>2, <2>4, <4>1 DEF QueueList
    <3> QED
      BY <3>1, <3>2, <3>3, <3>4 DEF QueueList
  <2>7. Roles' /\ ProducerHolds'
    BY <2>1 DEF ListQueue!TypeOK, Roles, ProducerHolds
  <2>8. ConsumerHolds'
    <3>1. qPc[c] = "store_head" => qHead' # qTail'
      BY <2>1
    <3> QED
      BY <2>5, <3>1 DEF ListQueue!TypeOK, ConsumerHolds
  <2> QED
    BY <2>3, <2>6, <2>7, <2>8 DEF QueueInv
<1>6. CASE ListQueue!PushReturn(p)
  <2> USE <1>6 DEF ListQueue!PushReturn
  <2>1. ListQueue!TypeOK'
    BY DEF ListQueue!TypeOK, ListQueue!Locations
  <2>2. QueueList' /\ Linked' = Linked
    BY SameList
  <2>3. Roles' /\ ProducerHolds' /\ ConsumerHolds'
    BY <2>2 DEF ListQueue!TypeOK, Roles, ProducerHolds, ConsumerHolds
  <2> QED
    BY <2>1, <2>2, <2>3 DEF QueueInv
<1>7. CASE ListQueue!PopBegin(c) \/ ListQueue!LoadHead(c) \/ ListQueue!LoadEnd(c)
           \/ ListQueue!PopReturn(c)
  <2> USE <1>7 DEF ListQueue!PopBegin, ListQueue!LoadHead, ListQueue!LoadEnd,
                   ListQueue!PopReturn
  <2>1. ListQueue!TypeOK'
    BY DEF ListQueue!TypeOK, ListQueue!Locations
  <2>2. QueueList' /\ Linked' = Linked
    BY SameList
  <2>3. Roles' /\ ProducerHolds'
    BY <2>2 DEF ListQueue!TypeOK, Roles, ProducerHolds
  <2>4. ConsumerHolds'
    BY <2>2 DEF ListQueue!TypeOK, ConsumerHolds
  <2> QED
    BY <2>1, <2>2, <2>3, <2>4 DEF QueueInv
<1>8. CASE ListQueue!StoreHead(c)
  <2> USE <1>8 DEF ListQueue!StoreHead
  <2>1. qOld[c] = qHead /\ qHead # qTail
    BY DEF ConsumerHolds
  <2>2. Len(qChain) >= 2 /\ qNext[qHead] = qChain[2] /\ qChain[2] \in QueueNode
        /\ qChain # <<>>
    BY <2>1 DEF QueueList, ListQueue!TypeOK
  <2>3. /\ qChain' \in Seq(QueueNode)
        /\ Len(qChain') = Len(qChain) - 1
        /\ \A i \in 1 .. Len(qChain) - 1 : qChain'[i] = qChain[i + 1]
    BY <2>2, TailFacts DEF ListQueue!TypeOK
  <2>4. ListQueue!TypeOK'
    BY <2>1, <2>2, <2>3 DEF ListQueue!TypeOK, ListQueue!Locations
  <2>5. Linked' = Linked \ {qHead}
    <3>1. \A i \in 1 .. Len(qChain) : i = 1 \/ i - 1 \in 1 .. Len(qChain')
      BY <2>3
    <3>2. \A i \in 1 .. Len(qChain') : i + 1 \in 1 .. Len(qChain) /\ i + 1 # 1
                                       /\ i \in 1 .. Len(qChain) - 1
      BY <2>3
    <3>3. Linked' \subseteq Linked \ {qHead}
      <4> SUFFICES ASSUME NEW i \in 1 .. Len(qChain')
                   PROVE  qChain'[i] \in Linked /\ qChain'[i] # qHead
        BY DEF Linked
      <4>1. /\ i + 1 \in 1 .. Len(qChain) /\ i + 1 # 1 /\ 1 \in 1 .. Len(qChain)
            /\ qChain'[i] = qChain[i + 1]
        BY <2>3, <3>2
      <4> QED
        BY <4>1 DEF Linked, QueueList
    <3>4. Linked \ {qHead} \subseteq Linked'
      <4> SUFFICES ASSUME NEW i \in 1 .. Len(qChain), qChain[i] # qHead
                   PROVE  qChain[i] \in Linked'
        BY DEF Linked
      <4>1. i # 1
        BY DEF QueueList
      <4>2. i - 1 \in 1 .. Len(qChain') /\ i - 1 \in 1 .. Len(qChain) - 1
            /\ (i - 1) + 1 = i
        BY <2>3, <3>1, <4>1
      <4>3. qChain'[i - 1] = qChain[i]
        BY <2>3, <4>2
      <4> QED
        BY <4>2, <4>3 DEF Linked
    <3> QED
      BY <3>3, <3>4
  <2>6. QueueList'
    <3>1. Len(qChain') > 0 /\ qHead' = qChain'[1] /\ qTail' = qChain'[Len(qChain')]
      BY <2>1, <2>2, <2>3 DEF QueueList
    <3>a. \A i \in 1 .. Len(qChain') : /\ i + 1 \in 1 .. Len(qChain)
                                       /\ qChain'[i] = qChain[i + 1]
      BY <2>3
    <3>b. \A i \in 1 .. Len(qChain') - 1 : /\ i + 1 \in 1 .. Len(qChain) - 1
                                           /\ i \in 1 .. Len(qChain')
                                           /\ i + 1 \in 1 .. Len(qChain')
      <4>1. Len(qChain) \in Nat /\ Len(qChain') = Len(qChain) - 1
        BY <2>3 DEF ListQueue!TypeOK
      <4> QED
        BY <4>1
    <3>2. \A i \in 1 .. Len(qChain') : qChain'[i] \in qLive'
      BY <3>a DEF QueueList
    <3>3. \A i \in 1 .. Len(qChain') - 1 :
            qNext'[qChain'[i]] = qChain'[i + 1] /\ qData'[qChain'[i]] \in Value
      BY <3>a, <3>b DEF QueueList
    <3>4. \A i, j \in 1 .. Len(qChain') : qChain'[i] = qChain'[j] => i = j
      <4> SUFFICES ASSUME NEW i \in 1 .. Len(qChain'), NEW j \in 1 .. Len(qChain'),
                          qChain'[i] = qChain'[j]
                   PROVE  i = j
        OBVIOUS
      <4>1. i + 1 = j + 1
        BY <3>a DEF QueueList
      <4> QED
        BY <4>1, <2>3
    <3> QED
      BY <3>1, <3>2, <3>3, <3>4 DEF QueueList
  <2>7. Roles' /\ ProducerHolds'
    BY <2>5 DEF ListQueue!TypeOK, Roles, ProducerHolds
  <2>8. ConsumerHolds'
    BY <2>1, <2>5 DEF ListQueue!TypeOK, ConsumerHolds, ProducerHolds
  <2> QED
    BY <2>4, <2>6, <2>7, <2>8 DEF QueueInv
<1>9. CASE ListQueue!TakeData(c)
  <2> USE <1>9 DEF ListQueue!TakeData
  <2>1. qOld[c] \in QueueNode /\ qOld[c] \notin Linked
        /\ (qPc[p] \in Pushing => qNew[p] # qOld[c])
    BY DEF ConsumerHolds, ListQueue!TypeOK
  <2>2. ListQueue!TypeOK'
    BY <2>1 DEF ListQueue!TypeOK, ListQueue!Locations
  <2>3. QueueList' /\ Linked' = Linked
    <3>1. \A i \in 1 .. Len(qChain) : qChain[i] # qOld[c]
      BY <2>1 DEF Linked
    <3> QED
      BY <3>1 DEF QueueList, Linked
  <2>4. Roles' /\ ProducerHolds' /\ ConsumerHolds'
    BY <2>1, <2>3 DEF ListQueue!TypeOK, Roles, ProducerHolds, ConsumerHolds
  <2> QED
    BY <2>2, <2>3, <2>4 DEF QueueInv
<1>10. CASE UNCHANGED ListQueue!vars
  <2> USE <1>10 DEF ListQueue!vars
  <2>1. ListQueue!TypeOK'
    BY DEF ListQueue!TypeOK
  <2>2. QueueList' /\ Linked' = Linked
    BY SameList
  <2>3. Roles' /\ ProducerHolds' /\ ConsumerHolds'
    BY <2>2 DEF Roles, ProducerHolds, ConsumerHolds
  <2> QED
    BY <2>1, <2>2, <2>3 DEF QueueInv
<1> QED
  <2> HIDE <1>a, <1>b, <1>c
  <2> QED
  BY <1>1, <1>2, <1>3, <1>4, <1>5, <1>6, <1>7, <1>8, <1>9, <1>10
  DEF ListQueue!Next, ListQueue!PushStep, ListQueue!PopStep

(* The model's own step leaves the queue alone unless it is the queue's.    *)
LEMMA QueueSteps ==
  [MCNext]_mcVars => [ListQueue!Next]_(ListQueue!vars)
BY DEF MCNext, mcVars, queueVars, Run, ListQueue!vars

LEMMA QueueInvHolds == MCSpec => []QueueInv
<1>1. MCInit => QueueInv
  BY QueueInit DEF MCInit
<1>2. QueueInv /\ [MCNext]_mcVars => QueueInv'
  BY QueueNext, QueueSteps
<1> QED
  BY <1>1, <1>2, PTL DEF MCSpec

(* Between one producer and one consumer no freed or uninitialised pointer  *)
(* is followed, although pop frees nodes, and the two ends never access the *)
(* plain fields of one node at a time.                                      *)
THEOREM QueueAccessesSafe == MCSpec => []QueueNoBadAccess
<1>1. QueueInv => QueueNoBadAccess
  <2> SUFFICES ASSUME QueueInv PROVE QueueNoBadAccess
    OBVIOUS
  <2>1. ListQueue!TypeOK /\ Roles /\ QueueList /\ ProducerHolds /\ ConsumerHolds
    BY DEF QueueInv
  <2>2. \A t \in {p, c} :
          qPc[t] \in {"swap_data", "set_next", "store_head", "take_data"} =>
            qOld[t] \in qLive
    BY <2>1, LinkedFacts DEF Roles, ProducerHolds, ConsumerHolds, Filling, Pushing
  <2>3. /\ qPc[p] \in {"swap_data", "set_next"}
        /\ qPc[c] \in {"store_head", "take_data"}
        => qOld[p] # qOld[c]
    BY <2>1, LinkedFacts DEF ProducerHolds, ConsumerHolds, Filling, Pushing
  <2> QED
    BY <2>1, <2>2, <2>3, QueueThreads
    DEF QueueNoBadAccess, ListQueue!NoBadAccess, ListQueue!Deref
<1> QED
  BY <1>1, QueueInvHolds, PTL

-----------------------------------------------------------------------------
(* LockFreeQueue implements the atomic queue.                               *)

LEMMA AppendIs ==
  ASSUME NEW S, NEW s \in Seq(S), NEW x \in S, NEW u \in [1 .. Len(s) + 1 -> S],
         \A i \in 1 .. Len(s) : u[i] = s[i],
         u[Len(s) + 1] = x
  PROVE  u = Append(s, x)
<1>1. u \in Seq(S) /\ Len(u) = Len(s) + 1
  BY SequenceIsFunction, FunctionIsSequence
<1>2. \A i \in 1 .. Len(u) : i \in 1 .. Len(s) \/ i = Len(s) + 1
  BY <1>1, SequenceIsFunction
<1>3. \A i \in 1 .. Len(u) : u[i] = Append(s, x)[i]
  BY <1>2, AppendFacts
<1> QED
  BY <1>1, <1>3, AppendFacts, SequencesEqual

LEMMA TailIs ==
  ASSUME NEW S, NEW s \in Seq(S), s # <<>>, NEW u \in [1 .. Len(s) - 1 -> S],
         \A i \in 1 .. Len(s) - 1 : u[i] = s[i + 1]
  PROVE  u = Tail(s)
<1>1. Len(s) - 1 \in Nat
  BY SequenceIsFunction
<1>2. u \in Seq(S) /\ Len(u) = Len(s) - 1
  BY <1>1, FunctionIsSequence
<1> QED
  BY <1>2, TailFacts, SequencesEqual

QueueCalls == [t \in {p, c} |-> ListQueue!CallOf(t)]

LEMMA QueueContents ==
  ASSUME ListQueue!TypeOK, QueueList
  PROVE  /\ ListQueue!Contents \in Seq(Value)
         /\ Len(ListQueue!Contents) = Len(qChain) - 1
         /\ \A i \in 1 .. Len(qChain) - 1 :
              ListQueue!Contents[i] = qData[qChain[i]]
<1>1. Len(qChain) - 1 \in Nat
  BY LinkedFacts
<1>2. ListQueue!Contents \in [1 .. Len(qChain) - 1 -> Value]
  BY DEF QueueList, ListQueue!Contents
<1> QED
  BY <1>1, <1>2, FunctionIsSequence DEF ListQueue!Contents

(* Only what the nodes before the dummy carry is in the queue.              *)
LEMMA QueueContentsSame ==
  ASSUME ListQueue!TypeOK, QueueList, qChain' = qChain,
         \A n \in Linked \ {qTail} : qData'[n] = qData[n]
  PROVE  ListQueue!Contents' = ListQueue!Contents
<1>1. Len(qChain) \in Nat /\ Len(qChain) \in 1 .. Len(qChain)
  BY LinkedFacts
<1>2. \A i \in 1 .. Len(qChain) - 1 :
        i \in 1 .. Len(qChain) /\ i # Len(qChain)
  BY <1>1
<1>3. \A i \in 1 .. Len(qChain) - 1 : qChain[i] \in Linked \ {qTail}
  BY <1>1, <1>2, LinkedFacts DEF QueueList
<1> QED
  BY <1>3 DEF ListQueue!Contents

LEMMA QueueInitImplements == ListQueue!Init => ListQueue!LQ!Init
<1> SUFFICES ASSUME ListQueue!Init PROVE ListQueue!LQ!Init
  OBVIOUS
<1>1. QueueInv /\ Len(qChain) = 1
  BY QueueInit DEF ListQueue!Init
<1>2. ListQueue!Contents = <<>>
  BY <1>1, QueueContents, SequenceIsFunction DEF QueueInv
<1>3. \A t \in ListQueue!Thread : ListQueue!CallOf(t) = ListQueue!LQ!Idle
  BY DEF ListQueue!Init, ListQueue!CallOf, ListQueue!Call, ListQueue!LQ!Idle,
     ListQueue!LQ!Call
<1> QED
  BY <1>2, <1>3 DEF ListQueue!LQ!Init

LEMMA QueueNextImplements ==
  QueueInv /\ QueueInv' /\ [ListQueue!Next]_(ListQueue!vars) =>
    [ListQueue!LQ!Next]_(ListQueue!LQ!vars)
<1> SUFFICES ASSUME QueueInv, QueueInv', [ListQueue!Next]_(ListQueue!vars)
             PROVE  [ListQueue!LQ!Next]_(ListQueue!LQ!vars)
  OBVIOUS
<1>a. /\ ListQueue!TypeOK /\ Roles /\ QueueList /\ ProducerHolds /\ ConsumerHolds
      /\ ListQueue!TypeOK' /\ QueueList'
  BY DEF QueueInv
<1>b. /\ p # c /\ ListQueue!Thread = {p, c}
      /\ Null \notin QueueNode \cup Value /\ Default \notin Value
  BY QueueThreads
<1>c. /\ Len(qChain) \in Nat /\ Len(qChain) >= 1
      /\ \A i \in 1 .. Len(qChain) : qChain[i] \in Linked
      /\ qHead \in Linked /\ qTail \in Linked
      /\ Linked \subseteq qLive /\ Linked \subseteq QueueNode
  BY <1>a, LinkedFacts
<1>d. /\ ListQueue!Contents \in Seq(Value)
      /\ Len(ListQueue!Contents) = Len(qChain) - 1
      /\ \A i \in 1 .. Len(qChain) - 1 : ListQueue!Contents[i] = qData[qChain[i]]
  BY <1>a, QueueContents
<1> DEFINE CallP == ListQueue!CallOf(p)
           CallC == ListQueue!CallOf(c)
           InCall(st, v) == [st |-> st, val |-> v]
<1>e. ASSUME ListQueue!Contents' = ListQueue!Contents, CallP' = CallP, CallC' = CallC
      PROVE  UNCHANGED ListQueue!LQ!vars
  BY <1>e, <1>b DEF ListQueue!LQ!vars
<1>f. ASSUME NEW x, CallP' = x, CallC' = CallC
      PROVE  ListQueue!LQ!Move(p, x)
  BY <1>f, <1>b DEF ListQueue!LQ!Move
<1>g. ASSUME NEW x, CallC' = x, CallP' = CallP
      PROVE  ListQueue!LQ!Move(c, x)
  BY <1>g, <1>b DEF ListQueue!LQ!Move
<1>h. ASSUME NEW t \in {p, c},
             \/ ListQueue!LQ!Invoke(t) \/ ListQueue!LQ!Push(t)
             \/ ListQueue!LQ!Pop(t) \/ ListQueue!LQ!PopEmpty(t)
             \/ ListQueue!LQ!Return(t)
      PROVE  ListQueue!LQ!Next
  BY <1>h, <1>b DEF ListQueue!LQ!Next
<1> USE <1>a, <1>b
    DEF ListQueue!Goto, ListQueue!Set, ListQueue!Deref, Pushing, Filling
<1>1. ASSUME NEW x \in Value, ListQueue!PushBegin(p, x)
      PROVE  ListQueue!LQ!Invoke(p)
  <2> USE <1>1 DEF ListQueue!PushBegin
  <2>1. \A n \in qLive : qData'[n] = qData[n]
    BY DEF ListQueue!TypeOK
  <2>2. ListQueue!Contents' = ListQueue!Contents
    BY <1>c, <2>1, QueueContentsSame
  <2>3. CallP = InCall("idle", Null) /\ CallP' = InCall("push", x)
    BY DEF ListQueue!TypeOK, ListQueue!CallOf, ListQueue!Call
  <2>4. CallC' = CallC
    BY <2>1 DEF ListQueue!TypeOK, ConsumerHolds, ListQueue!CallOf, Roles
  <2> QED
    BY <1>f, <2>2, <2>3, <2>4
    DEF ListQueue!LQ!Invoke, ListQueue!LQ!Idle, ListQueue!LQ!Call
<1>2. CASE ListQueue!LoadTail(p) \/ ListQueue!SetNext(p)
  <2> USE <1>2 DEF ListQueue!LoadTail, ListQueue!SetNext
  <2>1. ListQueue!Contents' = ListQueue!Contents
    BY QueueContentsSame
  <2>2. CallP' = CallP /\ CallC' = CallC
    BY DEF ListQueue!TypeOK, ListQueue!CallOf
  <2> QED
    BY <1>e, <2>1, <2>2
<1>3. CASE ListQueue!SwapData(p)
  <2> USE <1>3 DEF ListQueue!SwapData
  <2>1. qOld[p] = qTail /\ qTail \in QueueNode
    BY <1>c DEF ProducerHolds
  <2>2. qData' = [qData EXCEPT ![qTail] = qVal[p]]
    BY <2>1
  <2>3. ListQueue!Contents' = ListQueue!Contents
    BY <1>c, <2>1, <2>2, QueueContentsSame DEF ListQueue!TypeOK
  <2>4. CallP' = CallP
    BY <2>1, <2>2 DEF ListQueue!TypeOK, ListQueue!CallOf
  <2>5. CallC' = CallC
    BY <1>c, <2>1, <2>2 DEF ListQueue!TypeOK, ConsumerHolds, Roles, ListQueue!CallOf
  <2> QED
    BY <1>e, <2>3, <2>4, <2>5
<1>4. CASE ListQueue!StoreTail(p)
  <2> USE <1>4 DEF ListQueue!StoreTail
  <2>1. /\ qOld[p] = qTail /\ qData[qTail] \in Value /\ qNew[p] \in QueueNode
        /\ qTail = qChain[Len(qChain)] /\ qData' = qData
    BY DEF ProducerHolds, QueueList, ListQueue!TypeOK
  <2>2. /\ Len(qChain') = Len(qChain) + 1
        /\ \A i \in 1 .. Len(qChain) : qChain'[i] = qChain[i]
    BY <2>1, AppendFacts DEF ListQueue!TypeOK
  <2>3. ListQueue!Contents' = [i \in 1 .. Len(qChain) |-> qData[qChain[i]]]
    BY <1>c, <2>1, <2>2 DEF ListQueue!Contents
  <2>4. ListQueue!Contents' = Append(ListQueue!Contents, qData[qTail])
    <3> HIDE <1>a, <1>b, <1>4
    <3>1. Len(ListQueue!Contents) + 1 = Len(qChain)
      BY <1>c, <1>d
    <3>2. \A i \in 1 .. Len(qChain) - 1 : qData[qChain[i]] \in Value
      BY <1>c, <1>d, SequenceIsFunction
    <3>3. ListQueue!Contents' \in [1 .. Len(ListQueue!Contents) + 1 -> Value]
      BY <1>c, <2>1, <2>3, <3>1, <3>2
    <3>4. /\ \A i \in 1 .. Len(ListQueue!Contents) :
               ListQueue!Contents'[i] = ListQueue!Contents[i]
          /\ ListQueue!Contents'[Len(ListQueue!Contents) + 1] = qData[qTail]
      BY <1>c, <1>d, <2>1, <2>3, <3>1
    <3> QED
      BY <1>d, <2>1, <3>3, <3>4, AppendIs
  <2>5. /\ CallP = InCall("push", qData[qTail])
        /\ CallP' = InCall("ret", qData[qTail])
    BY <2>1 DEF ListQueue!TypeOK, ListQueue!CallOf, ListQueue!Call
  <2>6. CallC' = CallC
    BY DEF ListQueue!TypeOK, ListQueue!CallOf
  <2>7. ListQueue!LQ!Push(p)
    BY <1>f, <2>4, <2>5, <2>6
    DEF ListQueue!LQ!Push, ListQueue!LQ!HasRoom, ListQueue!LQ!Call
  <2> QED
    BY <1>h, <2>7
<1>5. CASE ListQueue!PushReturn(p)
  <2> USE <1>5 DEF ListQueue!PushReturn
  <2>1. ListQueue!Contents' = ListQueue!Contents
    BY QueueContentsSame
  <2>2. CallP.st = "ret" /\ CallP' = InCall("idle", Null) /\ CallC' = CallC
    BY DEF ListQueue!TypeOK, ListQueue!CallOf, ListQueue!Call
  <2>3. ListQueue!LQ!Return(p)
    BY <1>f, <2>1, <2>2
    DEF ListQueue!LQ!Return, ListQueue!LQ!Idle, ListQueue!LQ!Call
  <2> QED
    BY <1>h, <2>3
<1>6. CASE ListQueue!PopBegin(c)
  <2> USE <1>6 DEF ListQueue!PopBegin
  <2>1. ListQueue!Contents' = ListQueue!Contents
    BY QueueContentsSame
  <2>2. /\ CallC = InCall("idle", Null) /\ CallC' = InCall("try", Null)
        /\ CallP' = CallP
    BY DEF ListQueue!TypeOK, ListQueue!CallOf, ListQueue!Call
  <2>3. ListQueue!LQ!Invoke(c)
    BY <1>g, <2>1, <2>2
    DEF ListQueue!LQ!Invoke, ListQueue!LQ!Idle, ListQueue!LQ!Call
  <2> QED
    BY <1>h, <2>3
<1>7. CASE ListQueue!LoadHead(c) \/ (ListQueue!LoadEnd(c) /\ qOld[c] # qTail)
  <2> USE <1>7 DEF ListQueue!LoadHead, ListQueue!LoadEnd
  <2>1. ListQueue!Contents' = ListQueue!Contents
    BY QueueContentsSame
  <2>2. CallP' = CallP /\ CallC' = CallC
    BY DEF ListQueue!TypeOK, ListQueue!CallOf
  <2> QED
    BY <1>e, <2>1, <2>2
<1>8. CASE ListQueue!LoadEnd(c) /\ qOld[c] = qTail
  <2> USE <1>8 DEF ListQueue!LoadEnd
  <2>1. ListQueue!Contents' = ListQueue!Contents
    BY QueueContentsSame
  <2>2. ListQueue!Contents = <<>>
    <3>1. qChain[1] = qChain[Len(qChain)]
      BY DEF ConsumerHolds, QueueList
    <3>2. 1 \in 1 .. Len(qChain) /\ Len(qChain) \in 1 .. Len(qChain)
      BY <1>c
    <3>3. Len(qChain) = 1
      BY <3>1, <3>2 DEF QueueList
    <3> QED
      BY <1>d, <3>3, SequenceIsFunction
  <2>3. /\ CallC = InCall("try", Null) /\ CallC' = InCall("ret", Null)
        /\ CallP' = CallP
    BY DEF ListQueue!TypeOK, ListQueue!CallOf, ListQueue!Call
  <2>4. ListQueue!LQ!PopEmpty(c)
    BY <1>g, <2>1, <2>2, <2>3 DEF ListQueue!LQ!PopEmpty, ListQueue!LQ!Call
  <2> QED
    BY <1>h, <2>4
<1>9. CASE ListQueue!StoreHead(c)
  <2> USE <1>9 DEF ListQueue!StoreHead
  <2>1. qOld[c] = qHead /\ qHead # qTail /\ qHead = qChain[1] /\ qData' = qData
    BY DEF ConsumerHolds, QueueList
  <2>2. Len(qChain) >= 2
    BY <1>c, <2>1 DEF QueueList
  <2>3. qChain # <<>> /\ qChain' = Tail(qChain)
    BY <1>c, <2>2
  <2>4. /\ Len(qChain') = Len(qChain) - 1
        /\ \A i \in 1 .. Len(qChain) - 1 : qChain'[i] = qChain[i + 1]
    BY <2>3, TailFacts DEF ListQueue!TypeOK
  <2>5. ListQueue!Contents' = [i \in 1 .. Len(qChain) - 2 |-> qData[qChain[i + 1]]]
    BY <1>c, <2>1, <2>4 DEF ListQueue!Contents
  <2>6. ListQueue!Contents # <<>> /\ Head(ListQueue!Contents) = qData[qHead]
    BY <1>c, <1>d, <2>1, <2>2, SequenceIsFunction
  <2>7. ListQueue!Contents' = Tail(ListQueue!Contents)
    <3> HIDE <1>a, <1>b, <1>9
    <3>1. Len(ListQueue!Contents) - 1 = Len(qChain) - 2
      BY <1>c, <1>d
    <3>2. \A i \in 1 .. Len(qChain) - 2 : i + 1 \in 1 .. Len(qChain) - 1
      BY <1>c, <2>2
    <3>3. \A i \in 1 .. Len(qChain) - 1 : qData[qChain[i]] \in Value
      BY <1>c, <1>d, SequenceIsFunction
    <3>4. ListQueue!Contents' \in [1 .. Len(ListQueue!Contents) - 1 -> Value]
      BY <2>5, <3>1, <3>2, <3>3
    <3>5. \A i \in 1 .. Len(ListQueue!Contents) - 1 :
            ListQueue!Contents'[i] = ListQueue!Contents[i + 1]
      BY <1>d, <2>5, <3>1, <3>2
    <3> QED
      BY <1>d, <2>6, <3>4, <3>5, TailIs
  <2>8. /\ CallC = InCall("try", Null) /\ CallC' = InCall("ret", qData[qHead])
        /\ CallP' = CallP
    BY <2>1 DEF ListQueue!TypeOK, ListQueue!CallOf, ListQueue!Call
  <2>9. ListQueue!LQ!Pop(c)
    BY <1>g, <2>6, <2>7, <2>8 DEF ListQueue!LQ!Pop, ListQueue!LQ!Call
  <2> QED
    BY <1>h, <2>9
<1>10. CASE ListQueue!TakeData(c)
  <2> USE <1>10 DEF ListQueue!TakeData
  <2>1. ListQueue!Contents' = ListQueue!Contents
    BY QueueContentsSame
  <2>2. CallP' = CallP /\ CallC' = CallC
    BY DEF ListQueue!TypeOK, ListQueue!CallOf
  <2> QED
    BY <1>e, <2>1, <2>2
<1>11. CASE ListQueue!PopReturn(c)
  <2> USE <1>11 DEF ListQueue!PopReturn
  <2>1. ListQueue!Contents' = ListQueue!Contents
    BY QueueContentsSame
  <2>2. CallC.st = "ret" /\ CallC' = InCall("idle", Null) /\ CallP' = CallP
    BY DEF ListQueue!TypeOK, ListQueue!CallOf, ListQueue!Call
  <2>3. ListQueue!LQ!Return(c)
    BY <1>g, <2>1, <2>2
    DEF ListQueue!LQ!Return, ListQueue!LQ!Idle, ListQueue!LQ!Call
  <2> QED
    BY <1>h, <2>3
<1>12. CASE UNCHANGED ListQueue!vars
  <2> USE <1>12 DEF ListQueue!vars
  <2>1. ListQueue!Contents' = ListQueue!Contents
    BY QueueContentsSame
  <2>2. CallP' = CallP /\ CallC' = CallC
    BY DEF ListQueue!CallOf
  <2> QED
    BY <1>e, <2>1, <2>2
<1> HIDE <1>a, <1>b
<1> HIDE DEF CallP, CallC, InCall
<1> QED
  BY <1>1, <1>2, <1>3, <1>4, <1>5, <1>6, <1>7, <1>8, <1>9, <1>10, <1>11, <1>12,
     <1>h DEF ListQueue!Next, ListQueue!PushStep, ListQueue!PopStep

(* Whatever nodes and values there are, every behaviour of the queue is one *)
(* of the atomic queue: each element leaves once, in the order of the       *)
(* pushes, and pop answers nullptr only when the queue is empty.            *)
THEOREM QueueIsLinearizable == MCSpec => QueueImplementsLinQueue
<1>1. MCInit => ListQueue!LQ!Init
  BY QueueInitImplements DEF MCInit
<1>2. QueueInv /\ QueueInv' /\ [MCNext]_mcVars =>
        [ListQueue!LQ!Next]_(ListQueue!LQ!vars)
  BY QueueNextImplements, QueueSteps
<1>3. MCSpec => ListQueue!LQ!Init /\ [][ListQueue!LQ!Next]_(ListQueue!LQ!vars)
  BY <1>1, <1>2, QueueInvHolds, PTL DEF MCSpec
<1> QED
  BY <1>3 DEF QueueImplementsLinQueue, ListQueue!ImplementsLinQueue,
     ListQueue!LQ!Spec

-----------------------------------------------------------------------------
(* LockFreeStack                                                            *)

InStack == {sChain[i] : i \in 1 .. Len(sChain)}

Pushers == {"push_load", "push_cas"}
Poppers == {"pop_next", "pop_cas", "popped"}

(* The list from head: allocated nodes, linked once each.                   *)
StackList ==
  /\ sHead = (IF sChain = <<>> THEN Null ELSE sChain[1])
  /\ \A i, j \in 1 .. Len(sChain) : sChain[i] = sChain[j] => i = j
  /\ \A i \in 1 .. Len(sChain) :
       /\ sChain[i] \in sLive
       /\ sNext[sChain[i]] = (IF i = Len(sChain) THEN Null ELSE sChain[i + 1])

(* What a thread has in hand: a new node nobody else knows; a node that was *)
(* pushed once, whose next stays what it was read as; a node it has taken   *)
(* out.  No node is used again, so nothing here is ever outdated.           *)
StackHolds ==
  /\ \A t \in StackThread :
       /\ sPc[t] \in Pushers \cup Poppers => sNode[t] \in sLive
       /\ sPc[t] \in Pushers \cup {"popped"} => sNode[t] \notin InStack
       /\ sPc[t] = "pop_cas" => sSucc[t] = sNext[sNode[t]]
       /\ sPc[t] = "pushed" => sNode[t] \in sLive
  /\ \A t, u \in StackThread :
       /\ t # u
       /\ \/ sPc[t] \in Pushers /\ sPc[u] \in Pushers \cup Poppers
          \/ sPc[t] = "popped" /\ sPc[u] = "popped"
       => sNode[t] # sNode[u]

StackInv == Stack!TypeOK /\ StackList /\ StackHolds

LEMMA InStackFacts ==
  ASSUME Stack!TypeOK, StackList
  PROVE  /\ Len(sChain) \in Nat
         /\ \A i \in 1 .. Len(sChain) : sChain[i] \in InStack
         /\ InStack \subseteq sLive /\ InStack \subseteq StackNode
         /\ Null \notin StackNode
         /\ sHead # Null => sHead \in InStack /\ sChain # <<>>
         /\ sHead = Null <=> sChain = <<>>
<1>1. /\ Len(sChain) \in Nat /\ (sChain = <<>> <=> Len(sChain) = 0)
      /\ \A i \in 1 .. Len(sChain) : sChain[i] \in StackNode
  BY SequenceIsFunction DEF Stack!TypeOK
<1>2. Null \notin StackNode
  BY StackConstants DEF Stack!StackAssumption
<1>3. sChain # <<>> => 1 \in 1 .. Len(sChain)
  BY <1>1
<1> QED
  BY <1>1, <1>2, <1>3 DEF StackList, InStack

LEMMA StackInit == Stack!Init => StackInv
<1> SUFFICES ASSUME Stack!Init PROVE StackInv
  OBVIOUS
<1>1. sChain = <<>> /\ Len(sChain) = 0 /\ sHead = Null
  BY DEF Stack!Init
<1>2. Stack!TypeOK
  BY <1>1, StackConstants DEF Stack!Init, Stack!TypeOK, Stack!StackAssumption
<1>3. StackList /\ StackHolds
  BY <1>1 DEF Stack!Init, StackList, StackHolds, Pushers, Poppers
<1> QED
  BY <1>2, <1>3 DEF StackInv

(* A step that leaves the list alone; it may link what is not in it.        *)
LEMMA SameStack ==
  ASSUME Stack!TypeOK, StackList, UNCHANGED <<sHead, sChain>>, sLive \subseteq sLive',
         \A n \in InStack : sNext'[n] = sNext[n]
  PROVE  StackList' /\ InStack' = InStack
<1>1. \A i \in 1 .. Len(sChain) : sChain[i] \in InStack
  BY InStackFacts
<1> QED
  BY <1>1 DEF StackList, InStack

LEMMA StackNext ==
  StackInv /\ [Stack!Next]_(Stack!vars) => StackInv'
<1> SUFFICES ASSUME StackInv, [Stack!Next]_(Stack!vars) PROVE StackInv'
  OBVIOUS
<1>a. Stack!TypeOK /\ StackList /\ StackHolds
  BY DEF StackInv
<1>b. Null \notin StackNode /\ MaxSpurious \in Nat
  BY StackConstants DEF Stack!StackAssumption
<1>c. /\ Len(sChain) \in Nat
      /\ \A i \in 1 .. Len(sChain) : sChain[i] \in InStack
      /\ InStack \subseteq sLive /\ InStack \subseteq StackNode
      /\ sHead # Null => sHead \in InStack /\ sChain # <<>>
      /\ sHead = Null <=> sChain = <<>>
  BY <1>a, InStackFacts
<1> USE <1>a, <1>b
    DEF Stack!Goto, Stack!Set, Stack!Deref, Stack!Fails, Pushers, Poppers
<1>1. ASSUME NEW t \in StackThread, NEW x \in Value, Stack!PushBegin(t, x)
      PROVE  StackInv'
  <2> USE <1>1 DEF Stack!PushBegin
  <2>1. PICK n \in StackNode \ sLive :
          /\ sNode' = [sNode EXCEPT ![t] = n]
          /\ sLive' = sLive \cup {n}
          /\ sData' = [sData EXCEPT ![n] = x]
          /\ sNext' = [sNext EXCEPT ![n] = Null]
    OBVIOUS
  <2>2. Stack!TypeOK'
    BY <2>1 DEF Stack!TypeOK
  <2>3. StackList' /\ InStack' = InStack
    BY <1>c, <2>1, SameStack DEF Stack!TypeOK
  <2>4. StackHolds'
    BY <1>c, <2>1, <2>3 DEF Stack!TypeOK, StackHolds
  <2> QED
    BY <2>2, <2>3, <2>4 DEF StackInv
<1>2. ASSUME NEW t \in StackThread, Stack!PushLoad(t) \/ Stack!PushRetry(t)
      PROVE  StackInv'
  <2> USE <1>2 DEF Stack!PushLoad, Stack!PushRetry
  <2>1. /\ sPc[t] \in Pushers /\ sNode[t] \in StackNode /\ sNode[t] \notin InStack
        /\ sPc' = [sPc EXCEPT ![t] = "push_cas"]
        /\ sNext' = [sNext EXCEPT ![sNode[t]] = sHead]
        /\ UNCHANGED <<sData, sLive, sHead, sNode, sSucc, sChain>>
        /\ sSpurious' \in 0 .. MaxSpurious
    BY DEF StackHolds, Stack!TypeOK
  <2> HIDE <1>2
  <2>2. Stack!TypeOK'
    BY <2>1 DEF Stack!TypeOK
  <2>3. StackList' /\ InStack' = InStack
    BY <1>c, <2>1, SameStack DEF Stack!TypeOK
  <2>4. StackHolds'
    BY <2>1, <2>3 DEF Stack!TypeOK, StackHolds
  <2> QED
    BY <2>2, <2>3, <2>4 DEF StackInv
<1>3. ASSUME NEW t \in StackThread, Stack!PushCas(t)
      PROVE  StackInv'
  <2> USE <1>3 DEF Stack!PushCas
  <2>1. /\ sNode[t] \in StackNode /\ sNode[t] \in sLive /\ sNode[t] \notin InStack
        /\ sNext[sNode[t]] = sHead
    BY DEF StackHolds, Stack!TypeOK
  <2>2. /\ sChain' \in Seq(StackNode)
        /\ Len(sChain') = Len(sChain) + 1
        /\ sChain'[1] = sNode[t]
        /\ \A i \in 1 .. Len(sChain) : sChain'[i + 1] = sChain[i]
        /\ sChain' # <<>>
    BY <1>c, <2>1, ConsFacts DEF Stack!TypeOK
  <2>3. Stack!TypeOK'
    BY <2>1, <2>2 DEF Stack!TypeOK
  <2>4. \A i \in 1 .. Len(sChain') :
          \/ i = 1
          \/ /\ i - 1 \in 1 .. Len(sChain) /\ (i - 1) + 1 = i
             /\ sChain'[i] = sChain[i - 1]
             /\ i = Len(sChain') <=> i - 1 = Len(sChain)
             /\ i # 1 /\ i # Len(sChain') => sChain'[i + 1] = sChain[(i - 1) + 1]
    <3>1. \A i \in 1 .. Len(sChain') : i = 1 \/ i - 1 \in 1 .. Len(sChain)
      BY <1>c, <2>2
    <3>2. \A i \in 1 .. Len(sChain') :
            i # 1 /\ i # Len(sChain') => i \in 1 .. Len(sChain)
      BY <1>c, <2>2
    <3> QED
      BY <1>c, <2>2, <3>1, <3>2
  <2>5. InStack' = InStack \cup {sNode[t]}
    <3>1. InStack' \subseteq InStack \cup {sNode[t]}
      BY <1>c, <2>2, <2>4 DEF InStack
    <3>2. /\ 1 \in 1 .. Len(sChain')
          /\ \A i \in 1 .. Len(sChain) : i + 1 \in 1 .. Len(sChain')
      BY <1>c, <2>2
    <3>3. InStack \cup {sNode[t]} \subseteq InStack'
      BY <2>2, <3>2 DEF InStack
    <3> QED
      BY <3>1, <3>3
  <2>6. StackList'
    <3>1. sHead' = sChain'[1]
      BY <2>2
    <3>2. \A i, j \in 1 .. Len(sChain') : sChain'[i] = sChain'[j] => i = j
      BY <1>c, <2>1, <2>2, <2>4 DEF StackList
    <3>3. \A i \in 1 .. Len(sChain') : sChain'[i] \in sLive'
      BY <1>c, <2>1, <2>2, <2>4
    <3>4. ASSUME NEW i \in 1 .. Len(sChain')
          PROVE  sNext'[sChain'[i]] =
                   (IF i = Len(sChain') THEN Null ELSE sChain'[i + 1])
      <4>1. CASE i = 1
        <5>1. sNext'[sChain'[i]] = sHead
          BY <2>1, <2>2, <4>1
        <5>2. sHead = (IF Len(sChain) = 0 THEN Null ELSE sChain[1])
          BY SequenceIsFunction DEF StackList, Stack!TypeOK
        <5>3. Len(sChain) # 0 => 1 \in 1 .. Len(sChain)
          BY <1>c
        <5>4. Len(sChain) # 0 => sChain'[i + 1] = sChain[1]
          BY <2>2, <4>1, <5>3
        <5> QED
          BY <1>c, <2>2, <4>1, <5>1, <5>2, <5>4
      <4>2. CASE i # 1
        BY <2>4, <4>2 DEF StackList
      <4> QED
        BY <4>1, <4>2
    <3> QED
      BY <2>2, <3>1, <3>2, <3>3, <3>4 DEF StackList
  <2>7. StackHolds'
    BY <2>1, <2>5 DEF Stack!TypeOK, StackHolds
  <2> QED
    BY <2>3, <2>6, <2>7 DEF StackInv
<1>4. ASSUME NEW t \in StackThread,
             Stack!PushReturn(t) \/ Stack!PopReturn(t) \/ Stack!PopBegin(t)
             \/ Stack!PopLoad(t) \/ Stack!PopNext(t) \/ Stack!PopRetry(t)
      PROVE  StackInv'
  <2> USE <1>4 DEF Stack!PushReturn, Stack!PopReturn, Stack!PopBegin,
                   Stack!PopLoad, Stack!PopNext, Stack!PopRetry
  <2>1. Stack!TypeOK'
    <3>1. CASE Stack!PushReturn(t) \/ Stack!PopReturn(t) \/ Stack!PopBegin(t)
      BY <3>1 DEF Stack!TypeOK
    <3>2. CASE Stack!PopLoad(t)
      BY <3>2 DEF Stack!TypeOK
    <3>3. CASE Stack!PopNext(t)
      <4>1. sNode[t] \in StackNode
        BY <3>3 DEF Stack!TypeOK
      <4> QED
        BY <3>3, <4>1 DEF Stack!TypeOK
    <3>4. CASE Stack!PopRetry(t)
      BY <3>4 DEF Stack!TypeOK
    <3> QED
      BY <1>4, <3>1, <3>2, <3>3, <3>4
  <2>2. StackList' /\ InStack' = InStack
    BY SameStack
  <2>3. StackHolds'
    <3>1. CASE Stack!PushReturn(t) \/ Stack!PopReturn(t)
      BY <2>2, <3>1 DEF Stack!TypeOK, StackHolds
    <3>2. CASE Stack!PopBegin(t)
      BY <2>2, <3>2 DEF Stack!TypeOK, StackHolds
    <3>3. CASE Stack!PopLoad(t)
      BY <1>c, <2>2, <3>3 DEF Stack!TypeOK, StackHolds
    <3>4. CASE Stack!PopNext(t)
      BY <2>2, <3>4 DEF Stack!TypeOK, StackHolds
    <3>5. CASE Stack!PopRetry(t)
      BY <2>2, <3>5 DEF Stack!TypeOK, StackHolds
    <3> QED
      BY <1>4, <3>1, <3>2, <3>3, <3>4, <3>5
  <2> QED
    BY <2>1, <2>2, <2>3 DEF StackInv
<1>5. ASSUME NEW t \in StackThread, Stack!PopCas(t)
      PROVE  StackInv'
  <2> USE <1>5 DEF Stack!PopCas
  <2>1. /\ sNode[t] \in sLive /\ sNode[t] # Null /\ sHead = sNode[t]
        /\ sSucc[t] = sNext[sHead] /\ sHead' = sNext[sHead]
    BY DEF StackHolds, Stack!TypeOK
  <2>2. /\ sChain # <<>> /\ sHead = sChain[1] /\ sHead \in InStack
        /\ 1 \in 1 .. Len(sChain)
    BY <1>c, <2>1 DEF StackList
  <2>3. /\ sChain' \in Seq(StackNode)
        /\ Len(sChain') = Len(sChain) - 1
        /\ \A i \in 1 .. Len(sChain') : /\ sChain'[i] = sChain[i + 1]
                                        /\ i + 1 \in 1 .. Len(sChain)
    BY <1>c, <2>2, TailFacts DEF Stack!TypeOK
  <2>4. Stack!TypeOK'
    BY <2>1, <2>3 DEF Stack!TypeOK
  <2>5. InStack' = InStack \ {sHead}
    <3>1. InStack' \subseteq InStack \ {sHead}
      <4> SUFFICES ASSUME NEW i \in 1 .. Len(sChain')
                   PROVE  sChain'[i] \in InStack /\ sChain'[i] # sHead
        BY DEF InStack
      <4>1. i + 1 # 1 /\ i + 1 \in 1 .. Len(sChain) /\ sChain'[i] = sChain[i + 1]
        BY <2>3
      <4>2. sChain[i + 1] # sChain[1]
        BY <1>c, <2>2, <4>1 DEF StackList
      <4>3. sChain[i + 1] \in InStack
        BY <4>1 DEF InStack
      <4> QED
        BY <2>2, <4>1, <4>2, <4>3
    <3>2. InStack \ {sHead} \subseteq InStack'
      <4> SUFFICES ASSUME NEW i \in 1 .. Len(sChain), sChain[i] # sHead
                   PROVE  sChain[i] \in InStack'
        BY DEF InStack
      <4>1. i # 1
        BY <2>2
      <4>2. i - 1 \in 1 .. Len(sChain') /\ (i - 1) + 1 = i
        BY <1>c, <2>3, <4>1
      <4>3. sChain'[i - 1] = sChain[i]
        BY <2>3, <4>2
      <4> QED
        BY <4>2, <4>3 DEF InStack
    <3> QED
      BY <3>1, <3>2
  <2>6. StackList'
    <3>1. sHead' = (IF sChain' = <<>> THEN Null ELSE sChain'[1])
      <4>1. sHead' = (IF 1 = Len(sChain) THEN Null ELSE sChain[1 + 1])
        BY <2>1, <2>2 DEF StackList
      <4> HIDE <1>5, <1>a
      <4>2. sChain' = <<>> <=> Len(sChain) = 1
        <5>1. sChain' = <<>> <=> Len(sChain') = 0
          BY <2>3, SequenceIsFunction
        <5> QED
          BY <1>c, <2>3, <5>1
      <4>3. Len(sChain) # 1 => 1 \in 1 .. Len(sChain')
        BY <1>c, <2>2, <2>3
      <4> QED
        BY <2>3, <4>1, <4>2, <4>3
    <3>2. ASSUME NEW i \in 1 .. Len(sChain'), NEW j \in 1 .. Len(sChain'),
                 sChain'[i] = sChain'[j]
          PROVE  i = j
      <4>1. /\ i + 1 \in 1 .. Len(sChain) /\ j + 1 \in 1 .. Len(sChain)
            /\ sChain[i + 1] = sChain[j + 1]
        BY <2>3, <3>2
      <4>2. i + 1 = j + 1
        BY <4>1 DEF StackList
      <4> HIDE <1>5, <1>a
      <4> QED
        BY <1>c, <2>3, <4>2
    <3>3. \A i \in 1 .. Len(sChain') : sChain'[i] \in sLive'
      BY <2>3 DEF StackList
    <3>4. ASSUME NEW i \in 1 .. Len(sChain')
          PROVE  sNext'[sChain'[i]] =
                   (IF i = Len(sChain') THEN Null ELSE sChain'[i + 1])
      <4>1. /\ i + 1 \in 1 .. Len(sChain) /\ sChain'[i] = sChain[i + 1]
            /\ i + 1 = Len(sChain) <=> i = Len(sChain')
            /\ i # Len(sChain') => i + 1 \in 1 .. Len(sChain')
        <5> HIDE <1>5, <1>a
        <5>1. i + 1 \in 1 .. Len(sChain) /\ sChain'[i] = sChain[i + 1]
          BY <2>3
        <5>2. /\ Len(sChain') \in Nat /\ Len(sChain) = Len(sChain') + 1
              /\ i \in Nat /\ i >= 1 /\ i <= Len(sChain')
          BY <1>c, <2>3
        <5> QED
          BY <5>1, <5>2
      <4>2. i # Len(sChain') => sChain'[i + 1] = sChain[(i + 1) + 1]
        BY <2>3, <4>1
      <4> QED
        BY <4>1, <4>2 DEF StackList
    <3> QED
      BY <3>1, <3>2, <3>3, <3>4 DEF StackList
  <2>7. StackHolds'
    <3>1. \A u \in StackThread : sPc'[u] = IF u = t THEN "popped" ELSE sPc[u]
      BY DEF Stack!TypeOK
    <3>2. \A u \in StackThread : u # t /\ sPc[u] = "popped" => sNode[u] # sNode[t]
      BY <2>1, <2>2 DEF StackHolds
    <3>3. \A u \in StackThread : u # t /\ sPc[u] \in Pushers => sNode[u] # sNode[t]
      BY DEF StackHolds
    <3>4. sNode' = sNode /\ sLive' = sLive /\ sSucc' = sSucc /\ sNext' = sNext
      OBVIOUS
    <3> HIDE <1>5
    <3>5. \A u \in StackThread :
            /\ sPc'[u] \in Pushers \cup Poppers => sNode'[u] \in sLive'
            /\ sPc'[u] \in Pushers \cup {"popped"} => sNode'[u] \notin InStack'
            /\ sPc'[u] = "pop_cas" => sSucc'[u] = sNext'[sNode'[u]]
            /\ sPc'[u] = "pushed" => sNode'[u] \in sLive'
      BY <2>1, <2>5, <3>1, <3>4 DEF StackHolds
    <3>6. \A v, u \in StackThread :
            /\ v # u
            /\ \/ sPc'[v] \in Pushers /\ sPc'[u] \in Pushers \cup Poppers
               \/ sPc'[v] = "popped" /\ sPc'[u] = "popped"
            => sNode'[v] # sNode'[u]
      BY <3>1, <3>2, <3>3, <3>4 DEF StackHolds
    <3> QED
      BY <3>5, <3>6 DEF StackHolds
  <2> QED
    BY <2>4, <2>6, <2>7 DEF StackInv
<1>6. CASE UNCHANGED Stack!vars
  <2> USE <1>6 DEF Stack!vars
  <2>1. Stack!TypeOK'
    BY DEF Stack!TypeOK
  <2>2. StackList' /\ InStack' = InStack
    BY SameStack
  <2>3. StackHolds'
    BY <2>2 DEF StackHolds
  <2> QED
    BY <2>1, <2>2, <2>3 DEF StackInv
<1> HIDE <1>a, <1>b
<1> QED
  BY <1>1, <1>2, <1>3, <1>4, <1>5, <1>6
  DEF Stack!Next, Stack!PushStep, Stack!PopStep

LEMMA StackSteps == [MCNext]_mcVars => [Stack!Next]_(Stack!vars)
BY DEF MCNext, mcVars, stackVars, Run, Stack!vars

LEMMA StackInvHolds == MCSpec => []StackInv
<1>1. MCInit => StackInv
  BY StackInit DEF MCInit
<1>2. StackInv /\ [MCNext]_mcVars => StackInv'
  BY StackNext, StackSteps
<1> QED
  BY <1>1, <1>2, PTL DEF MCSpec

(* Whichever exchanges fail, no element is lost and none is popped by two   *)
(* threads, and pop never follows a null pointer.                           *)
THEOREM StackStaysIntact == MCSpec => []StackListIntact
<1>1. StackInv => StackListIntact
  <2> SUFFICES ASSUME StackInv PROVE StackListIntact
    OBVIOUS
  <2>1. Stack!TypeOK /\ StackList /\ StackHolds
    BY DEF StackInv
  <2>2. \A i \in 1 .. Len(sChain) : sChain[i] \in InStack
    BY <2>1, InStackFacts
  <2> QED
    BY <2>1, <2>2 DEF StackListIntact, Stack!ListIntact, Stack!Deref, StackList,
       StackHolds, Pushers, Poppers
<1> QED
  BY <1>1, StackInvHolds, PTL

-----------------------------------------------------------------------------
(* LockFreeStack implements the atomic stack.                               *)

LEMMA ConsIs ==
  ASSUME NEW S, NEW s \in Seq(S), NEW x \in S, NEW u \in [1 .. Len(s) + 1 -> S],
         u[1] = x, \A i \in 1 .. Len(s) : u[i + 1] = s[i]
  PROVE  u = <<x>> \o s
<1>1. Len(s) \in Nat
  BY SequenceIsFunction
<1>2. u \in Seq(S) /\ Len(u) = Len(s) + 1
  BY <1>1, FunctionIsSequence
<1>3. \A i \in 1 .. Len(u) : i = 1 \/ (i - 1 \in 1 .. Len(s) /\ (i - 1) + 1 = i)
  BY <1>1, <1>2
<1>4. \A i \in 1 .. Len(u) : u[i] = (<<x>> \o s)[i]
  BY <1>3, ConsFacts
<1> QED
  BY <1>2, <1>4, ConsFacts, SequencesEqual

StackCalls == [t \in StackThread |-> Stack!CallOf(t)]

LEMMA StackContents ==
  ASSUME Stack!TypeOK
  PROVE  /\ Stack!Contents \in Seq(Value \cup {Null})
         /\ Len(Stack!Contents) = Len(sChain)
         /\ \A i \in 1 .. Len(sChain) : Stack!Contents[i] = sData[sChain[i]]
<1>1. Len(sChain) \in Nat /\ \A i \in 1 .. Len(sChain) : sChain[i] \in StackNode
  BY SequenceIsFunction DEF Stack!TypeOK
<1>2. Stack!Contents \in [1 .. Len(sChain) -> Value \cup {Null}]
  BY <1>1 DEF Stack!TypeOK, Stack!Contents
<1> QED
  BY <1>1, <1>2, FunctionIsSequence DEF Stack!Contents

LEMMA StackContentsSame ==
  ASSUME Stack!TypeOK, StackList, sChain' = sChain,
         \A n \in sLive : sData'[n] = sData[n]
  PROVE  Stack!Contents' = Stack!Contents
BY DEF StackList, Stack!Contents

LEMMA StackMapChange ==
  ASSUME NEW t \in StackThread, NEW x, Stack!CallOf(t)' = x,
         \A u \in StackThread \ {t} : Stack!CallOf(u)' = Stack!CallOf(u)
  PROVE  StackCalls' = [StackCalls EXCEPT ![t] = x]
BY DEF StackCalls

(* What a thread is doing depends on its program counter, its node and, in  *)
(* some places, what that carries.                                          *)
LEMMA StackSameCall ==
  ASSUME NEW u \in StackThread, sPc'[u] = sPc[u], sNode'[u] = sNode[u],
         sPc[u] \in {"push_load", "push_cas", "pushed", "popped"} =>
           sData'[sNode[u]] = sData[sNode[u]]
  PROVE  Stack!CallOf(u)' = Stack!CallOf(u)
BY DEF Stack!CallOf

LEMMA StackInitImplements == Stack!Init => Stack!LS!Init
<1> SUFFICES ASSUME Stack!Init PROVE Stack!LS!Init
  OBVIOUS
<1>1. Stack!TypeOK /\ Len(sChain) = 0
  BY StackInit DEF Stack!Init, StackInv
<1>2. Stack!Contents = <<>>
  BY <1>1, StackContents, SequenceIsFunction
<1>3. \A t \in StackThread : Stack!CallOf(t) = Stack!LS!Idle
  BY DEF Stack!Init, Stack!CallOf, Stack!Call, Stack!LS!Idle, Stack!LS!Call
<1> QED
  BY <1>2, <1>3 DEF Stack!LS!Init

LEMMA StackNextImplements ==
  StackInv /\ StackInv' /\ [Stack!Next]_(Stack!vars) =>
    [Stack!LS!Next]_(Stack!LS!vars)
<1> SUFFICES ASSUME StackInv, StackInv', [Stack!Next]_(Stack!vars)
             PROVE  [Stack!LS!Next]_(Stack!LS!vars)
  OBVIOUS
<1>a. /\ Stack!TypeOK /\ StackList /\ StackHolds
      /\ Stack!TypeOK' /\ StackList'
  BY DEF StackInv
<1>b. Null \notin StackNode
  BY StackConstants DEF Stack!StackAssumption
<1>c. /\ Len(sChain) \in Nat
      /\ \A i \in 1 .. Len(sChain) : sChain[i] \in InStack
      /\ InStack \subseteq sLive /\ InStack \subseteq StackNode
      /\ sHead # Null => sHead \in InStack /\ sChain # <<>>
      /\ sHead = Null <=> sChain = <<>>
  BY <1>a, InStackFacts
<1>d. /\ Stack!Contents \in Seq(Value \cup {Null})
      /\ Len(Stack!Contents) = Len(sChain)
      /\ \A i \in 1 .. Len(sChain) : Stack!Contents[i] = sData[sChain[i]]
      /\ Stack!Contents = <<>> <=> sChain = <<>>
  BY <1>a, <1>c, StackContents, SequenceIsFunction DEF Stack!TypeOK
<1> DEFINE InCall(st, v) == [st |-> st, val |-> v]
<1>e. ASSUME Stack!Contents' = Stack!Contents,
             \A u \in StackThread : Stack!CallOf(u)' = Stack!CallOf(u)
      PROVE  UNCHANGED Stack!LS!vars
  BY <1>e DEF Stack!LS!vars
<1>f. ASSUME NEW t \in StackThread, NEW x, Stack!CallOf(t)' = x,
             \A u \in StackThread \ {t} : Stack!CallOf(u)' = Stack!CallOf(u)
      PROVE  Stack!LS!Move(t, x)
  BY <1>f, StackMapChange DEF Stack!LS!Move, StackCalls
<1>h. ASSUME NEW t \in StackThread,
             \/ Stack!LS!Invoke(t) \/ Stack!LS!Push(t)
             \/ Stack!LS!Pop(t) \/ Stack!LS!Return(t)
      PROVE  Stack!LS!Next
  BY <1>h DEF Stack!LS!Next
<1> USE <1>a, <1>b
    DEF Stack!Goto, Stack!Set, Stack!Deref, Stack!Fails, Pushers, Poppers
<1>1. ASSUME NEW t \in StackThread, NEW x \in Value, Stack!PushBegin(t, x)
      PROVE  Stack!LS!Invoke(t)
  <2> USE <1>1 DEF Stack!PushBegin
  <2>1. \A n \in sLive : sData'[n] = sData[n]
    BY DEF Stack!TypeOK
  <2>2. Stack!Contents' = Stack!Contents
    BY <2>1, StackContentsSame
  <2>3. \A u \in StackThread \ {t} : sPc'[u] = sPc[u] /\ sNode'[u] = sNode[u]
    BY DEF Stack!TypeOK
  <2>4. \A u \in StackThread \ {t} : Stack!CallOf(u)' = Stack!CallOf(u)
    BY <2>1, <2>3, StackSameCall DEF StackHolds
  <2>5. /\ Stack!CallOf(t) = InCall("idle", Null)
        /\ Stack!CallOf(t)' = InCall("push", x)
    BY DEF Stack!TypeOK, Stack!CallOf, Stack!Call
  <2> QED
    BY <1>f, <2>2, <2>4, <2>5
    DEF Stack!LS!Invoke, Stack!LS!Idle, Stack!LS!Call
<1>2. ASSUME NEW t \in StackThread,
             \/ Stack!PushLoad(t) \/ Stack!PushRetry(t) \/ Stack!PopNext(t)
             \/ Stack!PopRetry(t) \/ (Stack!PopLoad(t) /\ sHead # Null)
      PROVE  UNCHANGED Stack!LS!vars
  <2> USE <1>2 DEF Stack!PushLoad, Stack!PushRetry, Stack!PopNext,
                   Stack!PopRetry, Stack!PopLoad
  <2>1. sData' = sData /\ sChain' = sChain
    OBVIOUS
  <2>2. Stack!Contents' = Stack!Contents
    BY <2>1, StackContentsSame
  <2>3. \A u \in StackThread \ {t} : sPc'[u] = sPc[u] /\ sNode'[u] = sNode[u]
    BY DEF Stack!TypeOK
  <2>4. \A u \in StackThread \ {t} : Stack!CallOf(u)' = Stack!CallOf(u)
    BY <2>1, <2>3, StackSameCall
  <2>5. Stack!CallOf(t)' = Stack!CallOf(t)
    BY <2>1 DEF Stack!TypeOK, Stack!CallOf
  <2> QED
    BY <1>e, <2>2, <2>4, <2>5
<1>3. ASSUME NEW t \in StackThread, Stack!PushCas(t)
      PROVE  Stack!LS!Push(t)
  <2> USE <1>3 DEF Stack!PushCas
  <2>1. /\ sNode[t] \in StackNode /\ sData' = sData
        /\ sData[sNode[t]] \in Value \cup {Null}
    BY DEF StackHolds, Stack!TypeOK
  <2>2. /\ Len(sChain') = Len(sChain) + 1
        /\ sChain'[1] = sNode[t]
        /\ \A i \in 1 .. Len(sChain) : sChain'[i + 1] = sChain[i]
    BY <1>c, <2>1, ConsFacts DEF Stack!TypeOK
  <2>3. /\ Stack!Contents' \in Seq(Value \cup {Null})
        /\ Len(Stack!Contents') = Len(sChain')
        /\ \A i \in 1 .. Len(sChain') : Stack!Contents'[i] = sData'[sChain'[i]]
    <3>1. Len(sChain') \in Nat /\ \A i \in 1 .. Len(sChain') : sChain'[i] \in StackNode
      BY SequenceIsFunction DEF Stack!TypeOK
    <3>2. Stack!Contents' \in [1 .. Len(sChain') -> Value \cup {Null}]
      BY <3>1 DEF Stack!TypeOK, Stack!Contents
    <3> QED
      BY <3>1, <3>2, FunctionIsSequence DEF Stack!Contents
  <2>4. Stack!Contents' = <<sData[sNode[t]]>> \o Stack!Contents
    <3> HIDE <1>a, <1>b, <1>3
    <3>1. Stack!Contents' \in [1 .. Len(Stack!Contents) + 1 -> Value \cup {Null}]
      BY <1>d, <2>2, <2>3, SequenceIsFunction
    <3>2. /\ 1 \in 1 .. Len(sChain')
          /\ \A i \in 1 .. Len(sChain) : i + 1 \in 1 .. Len(sChain')
      BY <1>c, <2>2
    <3>3. /\ Stack!Contents'[1] = sData[sNode[t]]
          /\ \A i \in 1 .. Len(Stack!Contents) :
               Stack!Contents'[i + 1] = Stack!Contents[i]
      BY <1>d, <2>1, <2>2, <2>3, <3>2
    <3>4. sData[sNode[t]] \in Value \cup {Null}
      BY <2>1
    <3>5. Stack!Contents \in Seq(Value \cup {Null})
      BY <1>d
    <3> QED
      BY <3>1, <3>3, <3>4, <3>5, ConsIs, Zenon
  <2>5. \A u \in StackThread \ {t} : sPc'[u] = sPc[u] /\ sNode'[u] = sNode[u]
    BY DEF Stack!TypeOK
  <2>6. \A u \in StackThread \ {t} : Stack!CallOf(u)' = Stack!CallOf(u)
    BY <2>1, <2>5, StackSameCall
  <2>7. /\ Stack!CallOf(t) = InCall("push", sData[sNode[t]])
        /\ Stack!CallOf(t)' = InCall("ret", sData[sNode[t]])
    BY <2>1 DEF Stack!TypeOK, Stack!CallOf, Stack!Call
  <2> QED
    BY <1>f, <2>4, <2>6, <2>7 DEF Stack!LS!Push, Stack!LS!Call
<1>4. ASSUME NEW t \in StackThread, Stack!PushReturn(t) \/ Stack!PopReturn(t)
      PROVE  Stack!LS!Return(t)
  <2> USE <1>4 DEF Stack!PushReturn, Stack!PopReturn
  <2>1. sData' = sData /\ sChain' = sChain
    OBVIOUS
  <2>2. Stack!Contents' = Stack!Contents
    BY <2>1, StackContentsSame
  <2>3. \A u \in StackThread \ {t} : sPc'[u] = sPc[u] /\ sNode'[u] = sNode[u]
    BY DEF Stack!TypeOK
  <2>4. \A u \in StackThread \ {t} : Stack!CallOf(u)' = Stack!CallOf(u)
    BY <2>1, <2>3, StackSameCall
  <2>5. Stack!CallOf(t).st = "ret" /\ Stack!CallOf(t)' = InCall("idle", Null)
    BY DEF Stack!TypeOK, Stack!CallOf, Stack!Call
  <2> QED
    BY <1>f, <2>2, <2>4, <2>5
    DEF Stack!LS!Return, Stack!LS!Idle, Stack!LS!Call
<1>5. ASSUME NEW t \in StackThread, Stack!PopBegin(t)
      PROVE  Stack!LS!Invoke(t)
  <2> USE <1>5 DEF Stack!PopBegin
  <2>1. sData' = sData /\ sChain' = sChain
    OBVIOUS
  <2>2. Stack!Contents' = Stack!Contents
    BY <2>1, StackContentsSame
  <2>3. \A u \in StackThread \ {t} : sPc'[u] = sPc[u] /\ sNode'[u] = sNode[u]
    BY DEF Stack!TypeOK
  <2>4. \A u \in StackThread \ {t} : Stack!CallOf(u)' = Stack!CallOf(u)
    BY <2>1, <2>3, StackSameCall
  <2>5. /\ Stack!CallOf(t) = InCall("idle", Null)
        /\ Stack!CallOf(t)' = InCall("pop", Null)
    BY DEF Stack!TypeOK, Stack!CallOf, Stack!Call
  <2> QED
    BY <1>f, <2>2, <2>4, <2>5
    DEF Stack!LS!Invoke, Stack!LS!Idle, Stack!LS!Call
<1>6. ASSUME NEW t \in StackThread, Stack!PopLoad(t), sHead = Null
      PROVE  Stack!LS!Pop(t)
  <2> USE <1>6 DEF Stack!PopLoad
  <2>1. sData' = sData /\ sChain' = sChain
    OBVIOUS
  <2>2. Stack!Contents' = Stack!Contents /\ Stack!Contents = <<>>
    BY <1>c, <1>d, <2>1, StackContentsSame
  <2>3. \A u \in StackThread \ {t} : sPc'[u] = sPc[u] /\ sNode'[u] = sNode[u]
    BY DEF Stack!TypeOK
  <2>4. \A u \in StackThread \ {t} : Stack!CallOf(u)' = Stack!CallOf(u)
    BY <2>1, <2>3, StackSameCall
  <2>5. /\ Stack!CallOf(t) = InCall("pop", Null)
        /\ Stack!CallOf(t)' = InCall("ret", Null)
    BY DEF Stack!TypeOK, Stack!CallOf, Stack!Call
  <2> QED
    BY <1>f, <2>2, <2>4, <2>5 DEF Stack!LS!Pop, Stack!LS!Call
<1>7. ASSUME NEW t \in StackThread, Stack!PopCas(t)
      PROVE  Stack!LS!Pop(t)
  <2> USE <1>7 DEF Stack!PopCas
  <2>1. /\ sNode[t] # Null /\ sHead = sNode[t] /\ sData' = sData
        /\ sChain # <<>> /\ sHead = sChain[1] /\ 1 \in 1 .. Len(sChain)
    <3>1. sNode[t] # Null /\ sHead = sNode[t] /\ sData' = sData
      BY DEF StackHolds, Stack!TypeOK
    <3>2. sChain # <<>> /\ sHead = sChain[1]
      BY <1>c, <3>1 DEF StackList
    <3>3. Len(sChain) # 0
      BY <3>2, SequenceIsFunction DEF Stack!TypeOK
    <3> QED
      BY <1>c, <3>1, <3>2, <3>3
  <2>2. /\ Len(sChain') = Len(sChain) - 1
        /\ \A i \in 1 .. Len(sChain) - 1 : sChain'[i] = sChain[i + 1]
    BY <2>1, TailFacts DEF Stack!TypeOK
  <2>3. Stack!Contents' = [i \in 1 .. Len(sChain) - 1 |-> sData[sChain[i + 1]]]
    BY <2>1, <2>2 DEF Stack!Contents
  <2>4. Stack!Contents # <<>> /\ Head(Stack!Contents) = sData[sHead]
    BY <1>d, <2>1, SequenceIsFunction
  <2>5. Stack!Contents' = Tail(Stack!Contents)
    <3> HIDE <1>a, <1>b, <1>7
    <3>1. \A i \in 1 .. Len(sChain) - 1 : i + 1 \in 1 .. Len(sChain)
      BY <1>c
    <3>2. \A i \in 1 .. Len(sChain) : sData[sChain[i]] \in Value \cup {Null}
      BY <1>d, SequenceIsFunction
    <3>3. Stack!Contents' \in [1 .. Len(Stack!Contents) - 1 -> Value \cup {Null}]
      BY <1>d, <2>3, <3>1, <3>2
    <3>4. \A i \in 1 .. Len(Stack!Contents) - 1 :
            Stack!Contents'[i] = Stack!Contents[i + 1]
      BY <1>d, <2>3, <3>1
    <3> QED
      BY <1>d, <2>4, <3>3, <3>4, TailIs
  <2>6. \A u \in StackThread \ {t} : sPc'[u] = sPc[u] /\ sNode'[u] = sNode[u]
    BY DEF Stack!TypeOK
  <2>7. \A u \in StackThread \ {t} : Stack!CallOf(u)' = Stack!CallOf(u)
    BY <2>1, <2>6, StackSameCall
  <2>8. /\ Stack!CallOf(t) = InCall("pop", Null)
        /\ Stack!CallOf(t)' = InCall("ret", sData[sHead])
    BY <2>1 DEF Stack!TypeOK, Stack!CallOf, Stack!Call
  <2> QED
    BY <1>f, <2>4, <2>5, <2>7, <2>8 DEF Stack!LS!Pop, Stack!LS!Call
<1>8. CASE UNCHANGED Stack!vars
  <2> USE <1>8 DEF Stack!vars
  <2>1. Stack!Contents' = Stack!Contents
    BY StackContentsSame
  <2>2. \A u \in StackThread : Stack!CallOf(u)' = Stack!CallOf(u)
    BY DEF Stack!CallOf
  <2> QED
    BY <1>e, <2>1, <2>2
<1> HIDE <1>a, <1>b
<1> HIDE DEF InCall
<1> QED
  BY <1>1, <1>2, <1>3, <1>4, <1>5, <1>6, <1>7, <1>8, <1>h
  DEF Stack!Next, Stack!PushStep, Stack!PopStep

(* Whatever threads, nodes and values there are, every behaviour of the     *)
(* stack is one of the atomic stack, spurious failures included: a retried  *)
(* exchange never pops an element twice or revives one.                     *)
THEOREM StackIsLinearizable == MCSpec => ImplementsLinStack
<1>1. MCInit => Stack!LS!Init
  BY StackInitImplements DEF MCInit
<1>2. StackInv /\ StackInv' /\ [MCNext]_mcVars =>
        [Stack!LS!Next]_(Stack!LS!vars)
  BY StackNextImplements, StackSteps
<1>3. MCSpec => Stack!LS!Init /\ [][Stack!LS!Next]_(Stack!LS!vars)
  BY <1>1, <1>2, StackInvHolds, PTL DEF MCSpec
<1> QED
  BY <1>3 DEF ImplementsLinStack, Stack!ImplementsLinStack, Stack!LS!Spec
=============================================================================
