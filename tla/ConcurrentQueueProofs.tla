------------------------ MODULE ConcurrentQueueProofs ------------------------
(***************************************************************************)
(* The safety of the two-lock queue, for any number of threads, nodes and  *)
(* values.  The invariants of ConcurrentQueue are not inductive alone: they *)
(* need who holds which mutex and what a push in progress has already      *)
(* written (Inv below).                                                    *)
(***************************************************************************)
EXTENDS ConcurrentQueue, TLAPS

(* A mutex belongs to the one thread that is between its lock and unlock.   *)
MutexOwners ==
  \A t \in Thread :
    /\ (pc[t] \in TailSection) <=> (tailMutex = t)
    /\ (pc[t] \in HeadSection) <=> (headMutex = t)

(* What a push has in hand and has written to the node at tail_ so far.     *)
PushProgress ==
  \A t \in Thread :
    /\ pc[t] \in {"push_lock"} \cup TailSection => node[t] # Null /\ arg[t] # Null
    /\ pc[t] \in {"push_link", "push_tail"} => data[tail] = arg[t]
    /\ pc[t] = "push_tail" => next[tail] = node[t]
    /\ pc[t] = "pop_read" => node[t] # Null

(* Only a try_pop returns nullptr, and only a Poller is in one.             *)
Roles == \A t \in Thread :
           pc[t] \in {"try_lock", "try_check", "try_null"} => t \in Poller

Inv == /\ TypeOK
       /\ ListIntact
       /\ SingleOwner
       /\ NoNodeRace
       /\ MutexOwners
       /\ PushProgress
       /\ Roles

-----------------------------------------------------------------------------
(* Facts about the sequence of linked nodes.                                *)

LEMMA SequenceIsFunction ==
  ASSUME NEW S, NEW s \in Seq(S)
  PROVE  Len(s) \in Nat /\ s \in [1 .. Len(s) -> S]
  OBVIOUS

LEMMA AppendFacts ==
  ASSUME NEW S, NEW s \in Seq(S), NEW x \in S
  PROVE  /\ Append(s, x) \in Seq(S)
         /\ Len(Append(s, x)) = Len(s) + 1
         /\ Append(s, x)[Len(s) + 1] = x
         /\ \A i \in 1 .. Len(s) : Append(s, x)[i] = s[i]
  OBVIOUS

LEMMA TailFacts ==
  ASSUME NEW S, NEW s \in Seq(S), s # <<>>
  PROVE  /\ Tail(s) \in Seq(S)
         /\ Len(Tail(s)) = Len(s) - 1
         /\ \A i \in 1 .. Len(s) - 1 : Tail(s)[i] = s[i + 1]
  OBVIOUS

(* A sequence with the elements of Append(s, x), of Tail(s), is that one.   *)
LEMMA AppendIs ==
  ASSUME NEW S, NEW s \in Seq(S), NEW x \in S,
         NEW r \in [1 .. Len(s) + 1 -> S],
         \A i \in 1 .. Len(s) : r[i] = s[i], r[Len(s) + 1] = x
  PROVE  r = Append(s, x)
<1>1. Append(s, x) \in [1 .. Len(s) + 1 -> S] /\ Len(s) \in Nat
  <2>1. Append(s, x) \in Seq(S) /\ Len(Append(s, x)) = Len(s) + 1
    BY AppendFacts
  <2> QED
    BY <2>1, SequenceIsFunction
<1>2. \A i \in 1 .. Len(s) + 1 : r[i] = Append(s, x)[i]
  BY AppendFacts
<1> QED
  BY <1>1, <1>2

LEMMA TailIs ==
  ASSUME NEW S, NEW s \in Seq(S), s # <<>>,
         NEW r \in [1 .. Len(s) - 1 -> S],
         \A i \in 1 .. Len(s) - 1 : r[i] = s[i + 1]
  PROVE  r = Tail(s)
<1>1. Tail(s) \in [1 .. Len(s) - 1 -> S] /\ Len(s) \in Nat
  <2>1. Tail(s) \in Seq(S) /\ Len(Tail(s)) = Len(s) - 1
    BY TailFacts
  <2> QED
    BY <2>1, SequenceIsFunction
<1>2. \A i \in 1 .. Len(s) - 1 : r[i] = Tail(s)[i]
  BY TailFacts
<1> QED
  BY <1>1, <1>2

LEMMA LongSequence ==
  ASSUME NEW s, Len(s) \in Nat \ {0}
  PROVE  s # <<>>
  OBVIOUS

(* While the ends differ there is a second node, and head_->next is it.     *)
LEMMA SecondNode ==
  ASSUME TypeOK, ListIntact, head # tail
  PROVE  /\ Len(chain) >= 2
         /\ next[head] = chain[2]
         /\ data[head] # Null
         /\ chain[2] \in Node
  BY DEF TypeOK, ListIntact

(* head_ and tail_ are always linked nodes.                                 *)
LEMMA EndsLinked ==
  ASSUME TypeOK, ListIntact
  PROVE  /\ Len(chain) \in Nat \ {0}
         /\ head \in ChainNodes
         /\ tail \in ChainNodes
         /\ ChainNodes \subseteq Node
  BY DEF TypeOK, ListIntact, ChainNodes

-----------------------------------------------------------------------------
LEMMA InitInv == Init => Inv
<1> SUFFICES ASSUME Init PROVE Inv
  OBVIOUS
<1> USE QueueAssumption DEF Init
<1>1. TypeOK
  BY DEF TypeOK, Locations, TailSection, HeadSection
<1>2. chain = <<head>> /\ Len(chain) = 1 /\ chain[1] = head
  OBVIOUS
<1>3. ListIntact
  BY <1>2 DEF ListIntact
<1>4. SingleOwner /\ NoNodeRace
  BY DEF SingleOwner, NoNodeRace
<1>5. MutexOwners /\ PushProgress
  BY DEF MutexOwners, PushProgress, TailSection, HeadSection, Thread
<1>6. Roles
  BY DEF Roles
<1> QED
  BY <1>1, <1>3, <1>4, <1>5, <1>6 DEF Inv

-----------------------------------------------------------------------------
(* Actions that touch neither the list nor a node: they keep the list parts *)
(* of Inv as long as nobody's node or data changes.                         *)
ListVars == <<node, head, tail, next, data, chain>>

LEMMA ListUnchanged ==
  ASSUME ListIntact, SingleOwner, UNCHANGED ListVars
  PROVE  ListIntact' /\ SingleOwner'
  BY DEF ListIntact, SingleOwner, ChainNodes, ListVars

LEMMA RolesNext == Inv /\ [Next]_vars => Roles'
<1> SUFFICES ASSUME Inv, [Next]_vars PROVE Roles'
  OBVIOUS
<1>1. TypeOK /\ Roles
  BY DEF Inv
<1>2. CASE UNCHANGED vars
  BY <1>1, <1>2 DEF vars, Roles
<1>3. ASSUME NEW t \in Thread, Begin(t) \/ Continue(t) \/ SpuriousWakeup(t)
      PROVE  Roles'
  <2>1. \A u \in Thread \ {t} : pc'[u] = pc[u] \/ pc'[u] = "wait_lock"
    BY <1>1, <1>3 DEF Begin, Continue, PushBegin, TryBegin, WaitBegin, PushLock,
       PushData, PushLink, PushTail, PushNotify, HeadLock, Check, TryNull,
       WaitBlock, SpuriousWakeup, PopHead, PopRead, Goto, Blocked, TypeOK
  <2>2. pc'[t] \in {"try_lock", "try_check", "try_null"} => t \in Poller
    BY <1>1, <1>3 DEF Begin, Continue, PushBegin, TryBegin, WaitBegin, PushLock,
       PushData, PushLink, PushTail, PushNotify, HeadLock, Check, TryNull,
       WaitBlock, SpuriousWakeup, PopHead, PopRead, Goto, Blocked, TypeOK, Roles
  <2> QED
    BY <1>1, <2>1, <2>2 DEF Roles
<1> QED
  BY <1>2, <1>3 DEF Next

LEMMA InvNext == Inv /\ [Next]_vars => Inv'
<1> SUFFICES ASSUME Inv, [Next]_vars PROVE Inv'
  OBVIOUS
<1> USE QueueAssumption
<1>r. Roles'
  BY RolesNext
<1>a. TypeOK /\ ListIntact /\ SingleOwner /\ NoNodeRace /\ MutexOwners /\ PushProgress
  BY DEF Inv
<1>b. \A t \in Thread : t # Null
  BY DEF Thread
<1>1. ASSUME NEW t \in Thread, PushBegin(t) PROVE Inv'
  <2> USE <1>1, <1>a, <1>b DEF PushBegin, Goto
  <2>1. PICK x \in Value, n \in Free :
          arg' = [arg EXCEPT ![t] = x] /\ node' = [node EXCEPT ![t] = n]
    OBVIOUS
  <2>2. n \in Node /\ n \notin ChainNodes /\ n # Null /\ \A u \in Thread : node[u] # n
    BY <2>1 DEF Free
  <2>3. TypeOK'
    BY <2>1, <2>2 DEF TypeOK, Locations
  <2>4. ListIntact'
    BY DEF ListIntact
  <2>5. SingleOwner'
    BY <2>1, <2>2 DEF TypeOK, SingleOwner, ChainNodes
  <2>6. NoNodeRace'
    BY <2>1 DEF TypeOK, NoNodeRace
  <2>7. MutexOwners'
    BY DEF TypeOK, MutexOwners, TailSection, HeadSection
  <2>8. PushProgress'
    BY <2>1, <2>2 DEF TypeOK, PushProgress, TailSection
  <2> QED
    BY <1>r, <2>3, <2>4, <2>5, <2>6, <2>7, <2>8 DEF Inv
<1>2. ASSUME NEW t \in Thread, PushLock(t) PROVE Inv'
  <2> USE <1>2, <1>a, <1>b DEF PushLock, Goto
  <2>1. TypeOK'
    BY DEF TypeOK, Locations, TailSection
  <2>2. ListIntact' /\ SingleOwner'
    BY ListUnchanged DEF ListVars
  <2>3. NoNodeRace'
    BY DEF TypeOK, NoNodeRace
  <2>4. MutexOwners'
    BY DEF TypeOK, MutexOwners, TailSection, HeadSection
  <2>5. PushProgress'
    BY DEF TypeOK, PushProgress, TailSection
  <2> QED
    BY <1>r, <2>1, <2>2, <2>3, <2>4, <2>5 DEF Inv
<1>3. ASSUME NEW t \in Thread, PushData(t) PROVE Inv'
  <2> USE <1>3, <1>a, <1>b DEF PushData, Goto
  <2>1. arg[t] \in Value
    BY DEF TypeOK, PushProgress, TailSection
  <2>2. \A n \in Node : data'[n] = IF n = tail THEN arg[t] ELSE data[n]
    BY DEF TypeOK
  <2>3. TypeOK'
    BY <2>1 DEF TypeOK, Locations, TailSection
  <2>4. ListIntact'
    BY <2>1, <2>2 DEF TypeOK, ListIntact
  <2>5. SingleOwner'
    BY DEF SingleOwner, ChainNodes
  <2>6. NoNodeRace'
    BY <2>1, <2>2 DEF TypeOK, NoNodeRace, PushProgress
  <2>7. MutexOwners'
    BY DEF TypeOK, MutexOwners, TailSection, HeadSection
  <2>8. \A u \in Thread \ {t} : pc[u] \notin TailSection
    BY DEF MutexOwners, TailSection
  <2>9. PushProgress'
    BY <2>1, <2>2, <2>8 DEF TypeOK, PushProgress, TailSection
  <2> QED
    BY <1>r, <2>3, <2>4, <2>5, <2>6, <2>7, <2>9 DEF Inv
<1>4. ASSUME NEW t \in Thread, PushLink(t) PROVE Inv'
  <2> USE <1>4, <1>a, <1>b DEF PushLink, Goto
  <2>1. \A n \in Node : next'[n] = IF n = tail THEN node[t] ELSE next[n]
    BY DEF TypeOK
  <2>2. TypeOK'
    BY DEF TypeOK, Locations, TailSection
  <2>3. ListIntact'
    <3>1. \A i \in 1 .. Len(chain) - 1 : chain[i] \in Node /\ chain[i] # tail
      BY EndsLinked DEF TypeOK, ListIntact
    <3> QED
      BY <2>1, <3>1 DEF ListIntact
  <2>4. SingleOwner'
    BY DEF SingleOwner, ChainNodes
  <2>5. NoNodeRace'
    BY DEF TypeOK, NoNodeRace
  <2>6. MutexOwners'
    BY DEF TypeOK, MutexOwners, TailSection, HeadSection
  <2>7. \A u \in Thread : pc[u] = "push_tail" => u = t
    BY DEF MutexOwners, TailSection
  <2>8. PushProgress'
    BY <2>1, <2>7 DEF TypeOK, PushProgress, TailSection
  <2> QED
    BY <1>r, <2>2, <2>3, <2>4, <2>5, <2>6, <2>8 DEF Inv
<1>5. ASSUME NEW t \in Thread, PushTail(t) PROVE Inv'
  <2> USE <1>5, <1>a, <1>b DEF PushTail, Goto
  <2>1. /\ node[t] \in Node /\ node[t] \notin ChainNodes
        /\ next[tail] = node[t] /\ data[tail] # Null
    BY DEF TypeOK, PushProgress, TailSection, SingleOwner
  <2>2. /\ chain' \in Seq(Node)
        /\ Len(chain') = Len(chain) + 1
        /\ chain'[Len(chain) + 1] = node[t]
        /\ \A i \in 1 .. Len(chain) : chain'[i] = chain[i]
    BY <2>1, AppendFacts DEF TypeOK
  <2>3. ChainNodes' \subseteq ChainNodes \cup {node[t]}
    <3>1. \A i \in DOMAIN chain' : i \in DOMAIN chain \/ i = Len(chain) + 1
      BY <2>2 DEF TypeOK
    <3>2. \A i \in DOMAIN chain : chain'[i] = chain[i]
      BY <2>2 DEF TypeOK
    <3> QED
      BY <2>2, <3>1, <3>2 DEF ChainNodes
  <2>4. node'[t] = Null /\ \A u \in Thread \ {t} : node'[u] = node[u]
    BY DEF TypeOK
  <2>5. TypeOK'
    BY <2>1, <2>2 DEF TypeOK, Locations
  <2>6. ListIntact'
    <3> USE EndsLinked, <2>1, <2>2 DEF ListIntact
    <3>1. chain' # <<>> /\ head' = chain'[1] /\ tail' = chain'[Len(chain')]
      OBVIOUS
    <3>2. \A i \in 1 .. Len(chain') - 1 :
            next'[chain'[i]] = chain'[i + 1] /\ data'[chain'[i]] # Null
      OBVIOUS
    <3>3. \A i, j \in 1 .. Len(chain') : chain'[i] = chain'[j] => i = j
      BY DEF ChainNodes
    <3> QED
      BY <3>1, <3>2, <3>3
  <2>7. SingleOwner'
    BY <2>1, <2>3, <2>4 DEF SingleOwner
  <2>8. NoNodeRace'
    <3>1. head # node[t]
      BY <2>1, EndsLinked
    <3>2. \A u \in Thread : node[u] # Null /\ u # t => node[u] # node[t]
      BY DEF SingleOwner
    <3> QED
      BY <2>4, <3>1, <3>2 DEF TypeOK, NoNodeRace, PushProgress
  <2>9. MutexOwners'
    BY DEF TypeOK, MutexOwners, TailSection, HeadSection
  <2>10. \A u \in Thread \ {t} : pc[u] \notin TailSection
    BY DEF MutexOwners, TailSection
  <2>11. PushProgress'
    BY <2>4, <2>10 DEF TypeOK, PushProgress, TailSection
  <2> QED
    BY <1>r, <2>5, <2>6, <2>7, <2>8, <2>9, <2>11 DEF Inv
<1>6. ASSUME NEW t \in Thread, PushNotify(t) PROVE Inv'
  <2> USE <1>6, <1>a, <1>b DEF PushNotify, Goto, Blocked
  <2>1. \A u \in Thread :
          \/ u = t /\ pc'[u] = "idle"
          \/ u # t /\ pc'[u] = pc[u] /\ arg'[u] = arg[u]
          \/ u # t /\ pc[u] = "blocked" /\ pc'[u] = "wait_lock"
    BY DEF TypeOK
  <2>2. TypeOK'
    BY DEF TypeOK, Locations, Thread
  <2>3. ListIntact' /\ SingleOwner'
    BY ListUnchanged DEF ListVars
  <2>4. NoNodeRace'
    BY <2>1 DEF NoNodeRace
  <2>5. MutexOwners'
    BY <2>1 DEF MutexOwners, TailSection, HeadSection
  <2>6. PushProgress'
    BY <2>1 DEF PushProgress, TailSection
  <2> QED
    BY <1>r, <2>2, <2>3, <2>4, <2>5, <2>6 DEF Inv
<1>7. ASSUME NEW t \in Thread, TryBegin(t) \/ WaitBegin(t) \/ SpuriousWakeup(t)
      PROVE Inv'
  <2> USE <1>7, <1>a, <1>b DEF TryBegin, WaitBegin, SpuriousWakeup, Goto
  <2>1. UNCHANGED ListVars /\ pc'[t] \in {"try_lock", "wait_lock"}
        /\ pc[t] \in {"idle", "blocked"}
        /\ UNCHANGED <<arg, headMutex, tailMutex>>
        /\ pc' \in [Thread -> Locations]
        /\ \A u \in Thread \ {t} : pc'[u] = pc[u]
    BY DEF TypeOK, Locations, ListVars
  <2> HIDE <1>7
  <2>2. TypeOK'
    BY <2>1 DEF TypeOK, ListVars
  <2>3. ListIntact' /\ SingleOwner'
    BY <2>1, ListUnchanged
  <2>4. NoNodeRace'
    BY <2>1 DEF NoNodeRace, ListVars
  <2>5. MutexOwners'
    BY <2>1 DEF MutexOwners, TailSection, HeadSection
  <2>6. PushProgress'
    BY <2>1 DEF PushProgress, TailSection, ListVars
  <2> QED
    BY <1>r, <2>2, <2>3, <2>4, <2>5, <2>6 DEF Inv
<1>8. ASSUME NEW t \in Thread, HeadLock(t) PROVE Inv'
  <2> USE <1>8, <1>a, <1>b DEF HeadLock, Goto
  <2>1. TypeOK'
    BY DEF TypeOK, Locations, HeadSection
  <2>2. ListIntact' /\ SingleOwner'
    BY ListUnchanged DEF ListVars
  <2>3. NoNodeRace'
    BY DEF TypeOK, NoNodeRace
  <2>4. MutexOwners'
    BY DEF TypeOK, MutexOwners, TailSection, HeadSection
  <2>5. PushProgress'
    BY DEF TypeOK, PushProgress, TailSection
  <2> QED
    BY <1>r, <2>1, <2>2, <2>3, <2>4, <2>5 DEF Inv
<1>9. ASSUME NEW t \in Thread, Check(t) PROVE Inv'
  <2> USE <1>9, <1>a, <1>b DEF Check, Goto
  <2>1. TypeOK'
    BY DEF TypeOK, Locations, HeadSection
  <2>2. ListIntact' /\ SingleOwner'
    BY ListUnchanged DEF ListVars
  <2>3. NoNodeRace'
    BY DEF TypeOK, NoNodeRace
  <2>4. MutexOwners'
    BY DEF TypeOK, MutexOwners, TailSection, HeadSection
  <2>5. PushProgress'
    BY DEF TypeOK, PushProgress, TailSection
  <2> QED
    BY <1>r, <2>1, <2>2, <2>3, <2>4, <2>5 DEF Inv
<1>10. ASSUME NEW t \in Thread, TryNull(t) \/ WaitBlock(t) PROVE Inv'
  <2> USE <1>10, <1>a, <1>b DEF TryNull, WaitBlock, Goto
  <2>1. TypeOK'
    BY DEF TypeOK, Locations
  <2>2. ListIntact' /\ SingleOwner'
    BY ListUnchanged DEF ListVars
  <2>3. NoNodeRace'
    BY DEF TypeOK, NoNodeRace
  <2>4. MutexOwners'
    BY DEF TypeOK, MutexOwners, TailSection, HeadSection
  <2>5. PushProgress'
    BY DEF TypeOK, PushProgress, TailSection
  <2> QED
    BY <1>r, <2>1, <2>2, <2>3, <2>4, <2>5 DEF Inv
<1>11. ASSUME NEW t \in Thread, PopHead(t) PROVE Inv'
  <2> USE <1>11, <1>a, <1>b DEF PopHead, Goto
  <2>1. /\ head # tail /\ head \in Node
        /\ Len(chain) >= 2 /\ chain # <<>>
        /\ head' = chain[2] /\ data[head] # Null
        /\ chain[1] = head /\ chain[2] \in Node
        /\ tail' = tail /\ data' = data
    BY SecondNode DEF NoNodeRace, ListIntact, TypeOK
  <2>2. /\ chain' \in Seq(Node)
        /\ Len(chain') = Len(chain) - 1
        /\ \A i \in 1 .. Len(chain) - 1 : chain'[i] = chain[i + 1]
    BY <2>1, TailFacts DEF TypeOK
  <2>3. \A n \in Node \ {head} : next'[n] = next[n]
    BY DEF TypeOK
  <2>4. node'[t] = head /\ \A u \in Thread \ {t} : node'[u] = node[u]
    BY DEF TypeOK
  <2>5. ChainNodes' \subseteq ChainNodes \ {head}
    BY <2>1, <2>2 DEF ChainNodes, ListIntact, TypeOK
  <2>6. TypeOK'
    BY <2>1, <2>2 DEF TypeOK, Locations
  <2>7. ListIntact'
    <3> HIDE <1>11
    <3> USE <2>1, <2>2 DEF ListIntact
    <3>1. Len(chain) \in Nat /\ \A i \in 1 .. Len(chain) : chain[i] \in Node
      BY DEF TypeOK
    <3>2. chain' # <<>> /\ head' = chain'[1] /\ tail' = chain'[Len(chain')]
      <4>1. Len(chain') \in 1 .. Len(chain) - 1
        BY <3>1
      <4>2. chain'[1] = chain[2] /\ chain'[Len(chain')] = chain[Len(chain)]
        BY <3>1, <4>1
      <4>3. chain' # <<>>
        BY <4>1, LongSequence
      <4> QED
        BY <4>2, <4>3
    <3>3. \A i \in 1 .. Len(chain') - 1 :
            next'[chain'[i]] = chain'[i + 1] /\ data'[chain'[i]] # Null
      BY <2>3, <3>1
    <3>4. \A i, j \in 1 .. Len(chain') : chain'[i] = chain'[j] => i = j
      BY <3>1
    <3> QED
      BY <3>2, <3>3, <3>4
  <2>8. SingleOwner'
    BY <2>1, <2>4, <2>5, EndsLinked DEF SingleOwner
  <2>9. \A u \in Thread \ {t} : pc[u] # "pop_head"
    BY DEF MutexOwners, HeadSection
  <2>10. NoNodeRace'
    BY <2>1, <2>4, <2>9 DEF TypeOK, NoNodeRace
  <2>11. MutexOwners'
    BY DEF TypeOK, MutexOwners, TailSection, HeadSection
  <2>12. PushProgress'
    BY <2>1, <2>3, <2>4 DEF TypeOK, PushProgress, TailSection
  <2> QED
    BY <1>r, <2>6, <2>7, <2>8, <2>10, <2>11, <2>12 DEF Inv
<1>12. ASSUME NEW t \in Thread, PopRead(t) PROVE Inv'
  <2> USE <1>12, <1>a, <1>b DEF PopRead, Goto
  <2>1. node[t] \in Node /\ node[t] \notin ChainNodes
        /\ \A u \in Thread \ {t} : node[u] # node[t] /\ node'[u] = node[u]
    BY DEF TypeOK, PushProgress, SingleOwner
  <2>2. /\ \A n \in ChainNodes : data'[n] = data[n]
        /\ \A u \in Thread \ {t} : node[u] # Null => data'[node[u]] = data[node[u]]
    BY <2>1, EndsLinked DEF TypeOK
  <2>3. TypeOK'
    BY DEF TypeOK, Locations
  <2>4. ListIntact'
    <3>1. chain' = chain /\ head' = head /\ tail' = tail /\ next' = next
      OBVIOUS
    <3>2. \A i \in 1 .. Len(chain) - 1 : i \in 1 .. Len(chain)
      BY DEF TypeOK
    <3>3. \A i \in 1 .. Len(chain) : chain[i] \in ChainNodes
      BY DEF ChainNodes, TypeOK
    <3>4. \A i \in 1 .. Len(chain) - 1 : data'[chain[i]] = data[chain[i]]
      BY <2>2, <3>2, <3>3
    <3> QED
      BY <3>1, <3>4 DEF ListIntact
  <2>5. SingleOwner'
    BY <2>1 DEF TypeOK, SingleOwner, ChainNodes
  <2>6. NoNodeRace'
    BY <2>1, <2>2 DEF TypeOK, NoNodeRace, PushProgress
  <2>7. MutexOwners'
    BY DEF TypeOK, MutexOwners, TailSection, HeadSection
  <2>8. PushProgress'
    BY <2>1, <2>2, EndsLinked DEF TypeOK, PushProgress, TailSection
  <2> QED
    BY <1>r, <2>3, <2>4, <2>5, <2>6, <2>7, <2>8 DEF Inv
<1>13. CASE UNCHANGED vars
  BY <1>13, <1>a, <1>r DEF vars, Inv, TypeOK, ListIntact, SingleOwner, ChainNodes,
     NoNodeRace, MutexOwners, PushProgress
<1> QED
  BY <1>1, <1>2, <1>3, <1>4, <1>5, <1>6, <1>7, <1>8, <1>9, <1>10, <1>11,
     <1>12, <1>13 DEF Next, Begin, Continue

-----------------------------------------------------------------------------
(* The list implements the atomic queue.  Inv says enough of the steps that *)
(* take effect; what is left is how a step changes the two mapped variables. *)
Calls == [t \in Thread |-> CallOf(t)]

LEMMA MapChange ==
  ASSUME NEW t \in Thread, NEW c,
         CallOf(t)' = c, \A u \in Thread \ {t} : CallOf(u)' = CallOf(u)
  PROVE  Calls' = [Calls EXCEPT ![t] = c]
  BY DEF Calls

LEMMA MapSame ==
  ASSUME \A u \in Thread : CallOf(u)' = CallOf(u)
  PROVE  Calls' = Calls
  BY DEF Calls

(* What a thread is doing depends on its own program counter, argument and  *)
(* node and, once a pop has its node, on the data in it.                    *)
LEMMA SameCall ==
  ASSUME TypeOK, TypeOK', NEW u \in Thread,
         \/ pc'[u] = pc[u]
         \/ pc[u] = "blocked" /\ pc'[u] = "wait_lock"
         \/ pc[u] = "wait_block" /\ pc'[u] = "blocked"
         \/ pc[u] = "wait_check" /\ pc'[u] = "wait_block"
         \/ pc[u] = "wait_lock" /\ pc'[u] = "wait_check"
         \/ pc[u] = "try_lock" /\ pc'[u] = "try_check"
         \/ pc[u] \in {"try_check", "wait_check"} /\ pc'[u] = "pop_head"
         \/ pc[u] = "push_lock" /\ pc'[u] = "push_data"
         \/ pc[u] = "push_data" /\ pc'[u] = "push_link"
         \/ pc[u] = "push_link" /\ pc'[u] = "push_tail",
         arg'[u] = arg[u],
         pc[u] = "pop_read" => data'[node'[u]] = data[node[u]]
  PROVE  CallOf(u)' = CallOf(u)
  BY DEF CallOf, TypeOK, TailSection

LEMMA ContentsFacts ==
  ASSUME TypeOK, ListIntact
  PROVE  /\ Contents \in Seq(Value)
         /\ Len(Contents) = Len(chain) - 1
         /\ \A i \in 1 .. Len(chain) - 1 : Contents[i] = data[chain[i]]
<1>1. Len(chain) \in Nat \ {0} /\ \A i \in 1 .. Len(chain) : chain[i] \in Node
  BY DEF TypeOK, ListIntact
<1>2. \A i \in 1 .. Len(chain) - 1 : data[chain[i]] \in Value
  BY <1>1 DEF TypeOK, ListIntact
<1>3. Contents \in [1 .. Len(chain) - 1 -> Value]
  BY <1>2 DEF Contents
<1> QED
  BY <1>1, <1>3 DEF Contents

LEMMA ContentsSame ==
  ASSUME TypeOK, ListIntact, chain' = chain,
         \A n \in Node : n # tail /\ n \in ChainNodes => data'[n] = data[n]
  PROVE  Contents' = Contents
<1>1. \A i \in 1 .. Len(chain) - 1 : /\ chain[i] \in Node /\ chain[i] # tail
                                     /\ chain[i] \in ChainNodes
  BY DEF TypeOK, ListIntact, ChainNodes
<1> QED
  BY <1>1 DEF Contents

LEMMA SequenceOne ==
  ASSUME NEW S, NEW s \in Seq(S)
  PROVE  /\ s = <<>> <=> Len(s) = 0
         /\ Len(s) \in Nat
         /\ s # <<>> => Head(s) = s[1]
  OBVIOUS

LEMMA InitImplements == Init => LQ!Init
<1> SUFFICES ASSUME Init PROVE LQ!Init
  OBVIOUS
<1>1. Inv
  BY InitInv
<1>2. Contents = <<>>
  BY <1>1, ContentsFacts, SequenceOne DEF Init, Inv
<1>3. \A t \in Thread : CallOf(t) = LQ!Idle
  BY DEF Init, CallOf, LQ!Idle, LQ!Call, TailSection
<1> QED
  BY <1>2, <1>3 DEF LQ!Init

(* One step of the list is one step of the atomic queue, or none.           *)
LEMMA NextImplements == Inv /\ Inv' /\ [Next]_vars => [LQ!Next]_LQ!vars
<1> SUFFICES ASSUME Inv, Inv', [Next]_vars PROVE [LQ!Next]_LQ!vars
  OBVIOUS
<1> USE QueueAssumption
<1>a. /\ TypeOK /\ ListIntact /\ SingleOwner /\ NoNodeRace /\ MutexOwners
      /\ PushProgress
  BY DEF Inv
<1>b. TypeOK' /\ ListIntact' /\ PushProgress'
  BY DEF Inv
<1>c. \A t \in Thread : t # Null
  BY DEF Thread
<1>d. ASSUME Contents' = Contents, Calls' = Calls PROVE [LQ!Next]_LQ!vars
  BY <1>d DEF LQ!vars, Calls
<1>e. ASSUME NEW t \in Thread, LQ!Invoke(t) \/ LQ!Push(t) \/ LQ!Pop(t)
                               \/ LQ!PopEmpty(t) \/ LQ!Return(t)
      PROVE  [LQ!Next]_LQ!vars
  BY <1>e DEF LQ!Next
<1>1. ASSUME NEW t \in Thread, PushBegin(t) PROVE LQ!Invoke(t)
  <2> USE <1>1, <1>a, <1>b, <1>c DEF PushBegin, Goto
  <2>1. Contents' = Contents
    BY ContentsSame
  <2>2. \A u \in Thread \ {t} : CallOf(u)' = CallOf(u)
    BY SameCall DEF TypeOK
  <2>3. PICK x \in Value : arg' = [arg EXCEPT ![t] = x]
    OBVIOUS
  <2>4. CallOf(t) = LQ!Idle /\ CallOf(t)' = LQ!Call("push", x)
    BY <2>3 DEF CallOf, LQ!Idle, LQ!Call, TypeOK, TailSection
  <2> QED
    BY <2>1, <2>2, <2>4, MapChange DEF LQ!Invoke, LQ!Move, Calls
<1>2. ASSUME NEW t \in Thread,
             PushLock(t) \/ PushLink(t) \/ HeadLock(t) \/ WaitBlock(t)
             \/ SpuriousWakeup(t)
      PROVE  Contents' = Contents /\ Calls' = Calls
  <2>1. chain' = chain /\ data' = data /\ arg' = arg /\ node' = node
    BY <1>2 DEF PushLock, PushLink, HeadLock, WaitBlock, SpuriousWakeup
  <2>2. Contents' = Contents
    BY <2>1, <1>a, ContentsSame
  <2>3. \A u \in Thread \ {t} : pc'[u] = pc[u]
    BY <1>2, <1>a DEF PushLock, PushLink, HeadLock, WaitBlock, SpuriousWakeup,
       Goto, TypeOK
  <2>4. CallOf(t)' = CallOf(t)
    BY <1>2, <1>a, <1>b DEF PushLock, PushLink, HeadLock, WaitBlock,
       SpuriousWakeup, Goto, TypeOK, CallOf, TailSection
  <2>5. \A u \in Thread \ {t} : CallOf(u)' = CallOf(u)
    BY <2>1, <2>3, <1>a, <1>b, SameCall
  <2> QED
    BY <2>2, <2>4, <2>5, MapSame
<1>3. ASSUME NEW t \in Thread, PushData(t)
      PROVE  Contents' = Contents /\ Calls' = Calls
  <2> USE <1>3, <1>a, <1>b, <1>c DEF PushData, Goto
  <2>1. \A n \in Node : n # tail => data'[n] = data[n]
    BY DEF TypeOK
  <2>2. Contents' = Contents
    BY <2>1, ContentsSame
  <2>3. \A u \in Thread : pc[u] = "pop_read" =>
          node[u] \in Node /\ node[u] # tail
    BY DEF TypeOK, NoNodeRace, PushProgress
  <2>4. \A u \in Thread : CallOf(u)' = CallOf(u)
    BY <2>1, <2>3, SameCall DEF TypeOK
  <2> QED
    BY <2>2, <2>4, MapSame
<1>4. ASSUME NEW t \in Thread, PushTail(t) PROVE LQ!Push(t)
  <2> USE <1>4, <1>a, <1>b, <1>c DEF PushTail, Goto
  <2>1. node[t] \in Node /\ data[tail] = arg[t] /\ arg[t] \in Value
    BY DEF TypeOK, PushProgress, TailSection
  <2>2. /\ Len(chain') = Len(chain) + 1
        /\ \A i \in 1 .. Len(chain) : chain'[i] = chain[i]
    BY <2>1, AppendFacts DEF TypeOK
  <2>3. Len(chain) \in Nat \ {0} /\ chain[Len(chain)] = tail /\ data' = data
    BY EndsLinked DEF ListIntact
  <2>4. /\ Contents \in Seq(Value) /\ Len(Contents) = Len(chain) - 1
        /\ \A i \in 1 .. Len(chain) - 1 : Contents[i] = data[chain[i]]
    BY ContentsFacts
  <2>5. Contents' = [i \in 1 .. Len(chain) |-> data[chain[i]]]
    BY <2>2, <2>3 DEF Contents
  <2>6. Contents' = Append(Contents, arg[t])
    <3> HIDE <1>4, <1>a, <1>b
    <3>1. Len(Contents) + 1 = Len(chain)
      BY <2>3, <2>4
    <3>2. \A i \in 1 .. Len(chain) - 1 : data[chain[i]] \in Value
      BY <2>3, <2>4
    <3>3. Contents' \in [1 .. Len(Contents) + 1 -> Value]
      BY <2>1, <2>3, <2>5, <3>1, <3>2
    <3>4. /\ \A i \in 1 .. Len(Contents) : Contents'[i] = Contents[i]
          /\ Contents'[Len(Contents) + 1] = arg[t]
      BY <2>1, <2>3, <2>4, <2>5, <3>1
    <3> QED
      BY <2>1, <2>4, <3>3, <3>4, AppendIs
  <2>7. \A u \in Thread \ {t} : CallOf(u)' = CallOf(u)
    BY SameCall DEF TypeOK
  <2>8. CallOf(t) = LQ!Call("push", arg[t]) /\ CallOf(t)' = LQ!Call("ret", arg[t])
    BY DEF CallOf, LQ!Call, TypeOK, TailSection
  <2>9. LQ!HasRoom
    BY DEF LQ!HasRoom
  <2> QED
    BY <2>6, <2>7, <2>8, <2>9, MapChange DEF LQ!Push, LQ!Move, LQ!Call, Calls
<1>5. ASSUME NEW t \in Thread, PushNotify(t) PROVE LQ!Return(t)
  <2> USE <1>5, <1>a, <1>b, <1>c DEF PushNotify, Goto, Blocked
  <2>1. Contents' = Contents
    BY ContentsSame
  <2>2. /\ pc'[t] = "idle"
        /\ \A u \in Thread \ {t} :
             \/ pc'[u] = pc[u]
             \/ pc[u] = "blocked" /\ pc'[u] = "wait_lock"
    BY DEF TypeOK
  <2>3. \A u \in Thread \ {t} : CallOf(u)' = CallOf(u)
    BY <2>2, SameCall DEF TypeOK
  <2>4. CallOf(t).st = "ret" /\ CallOf(t)' = LQ!Idle
    BY <2>2 DEF CallOf, LQ!Idle, LQ!Call, TailSection
  <2> QED
    BY <2>1, <2>3, <2>4, MapChange DEF LQ!Return, LQ!Move, Calls
<1>6. ASSUME NEW t \in Thread, TryBegin(t) \/ WaitBegin(t) PROVE LQ!Invoke(t)
  <2> USE <1>6, <1>a, <1>b, <1>c DEF TryBegin, WaitBegin, Goto
  <2>1. Contents' = Contents
    BY ContentsSame
  <2>2. \A u \in Thread \ {t} : CallOf(u)' = CallOf(u)
    BY SameCall DEF TypeOK
  <2>3. /\ CallOf(t) = LQ!Idle
        /\ CallOf(t)' \in {LQ!Call("try", Null), LQ!Call("wait", Null)}
    BY DEF CallOf, LQ!Idle, LQ!Call, TypeOK, TailSection
  <2> QED
    BY <2>1, <2>2, <2>3, MapChange DEF LQ!Invoke, LQ!Move, Calls
<1>7. ASSUME NEW t \in Thread, Check(t), head = tail, pc[t] = "try_check"
      PROVE  LQ!PopEmpty(t)
  <2> USE <1>7, <1>a, <1>b, <1>c DEF Check, Goto
  <2>1. Contents' = Contents
    BY ContentsSame
  <2>2. Contents = <<>>
    <3>1. Len(chain) \in Nat \ {0} /\ chain[Len(chain)] = chain[1]
      BY EndsLinked DEF ListIntact
    <3> HIDE <1>7, <1>a, <1>b
    <3>2. \A i, j \in 1 .. Len(chain) : chain[i] = chain[j] => i = j
      BY <1>a DEF ListIntact
    <3>3. 1 \in 1 .. Len(chain) /\ Len(chain) \in 1 .. Len(chain)
      BY <3>1
    <3>4. Len(chain) = 1
      BY <3>1, <3>2, <3>3
    <3> QED
      BY <3>4, <1>a, ContentsFacts, SequenceOne
  <2>3. \A u \in Thread \ {t} : CallOf(u)' = CallOf(u)
    BY SameCall DEF TypeOK
  <2>4. t \in Poller
    BY DEF Inv, Roles
  <2>5. CallOf(t).st = "try" /\ CallOf(t)' = LQ!Call("ret", Null)
    BY <2>4 DEF CallOf, LQ!Call, TypeOK, TailSection
  <2> QED
    BY <2>1, <2>2, <2>3, <2>5, MapChange DEF LQ!PopEmpty, LQ!Move, Calls
<1>8. ASSUME NEW t \in Thread, Check(t), head # tail \/ pc[t] # "try_check"
      PROVE  Contents' = Contents /\ Calls' = Calls
  <2> USE <1>8, <1>a, <1>b, <1>c DEF Check, Goto
  <2>1. Contents' = Contents
    BY ContentsSame
  <2>2. \A u \in Thread : CallOf(u)' = CallOf(u)
    BY SameCall DEF TypeOK
  <2> QED
    BY <2>1, <2>2, MapSame
<1>9. ASSUME NEW t \in Thread, TryNull(t) \/ PopRead(t) PROVE LQ!Return(t)
  <2> USE <1>9, <1>a, <1>b, <1>c DEF TryNull, PopRead, Goto
  <2>1. chain' = chain /\ \A n \in ChainNodes : data'[n] = data[n]
    BY EndsLinked DEF TypeOK, SingleOwner, PushProgress
  <2>2. Contents' = Contents
    BY <2>1, ContentsSame
  <2>3. \A u \in Thread \ {t} : pc[u] = "pop_read" => data'[node'[u]] = data[node[u]]
    BY DEF TypeOK, SingleOwner, PushProgress
  <2>4. \A u \in Thread \ {t} : CallOf(u)' = CallOf(u)
    BY <2>3, SameCall DEF TypeOK
  <2>5. CallOf(t).st = "ret" /\ CallOf(t)' = LQ!Idle
    BY DEF CallOf, LQ!Idle, LQ!Call, TypeOK, TailSection
  <2> QED
    BY <2>2, <2>4, <2>5, MapChange DEF LQ!Return, LQ!Move, Calls
<1>10. ASSUME NEW t \in Thread, PopHead(t) PROVE LQ!Pop(t)
  <2> USE <1>10, <1>a, <1>b, <1>c DEF PopHead, Goto
  <2>1. /\ Len(chain) >= 2 /\ data[head] # Null /\ head = chain[1]
        /\ Len(chain) \in Nat
    BY SecondNode, EndsLinked DEF NoNodeRace, ListIntact
  <2>2. /\ Len(chain') = Len(chain) - 1
        /\ \A i \in 1 .. Len(chain) - 1 : chain'[i] = chain[i + 1]
    BY TailFacts DEF TypeOK, ListIntact
  <2>3. /\ Contents \in Seq(Value) /\ Len(Contents) = Len(chain) - 1
        /\ \A i \in 1 .. Len(chain) - 1 : Contents[i] = data[chain[i]]
    BY ContentsFacts
  <2>4. Contents # <<>> /\ Head(Contents) = data[head]
    BY <2>1, <2>3, SequenceOne
  <2>5. Contents' = [i \in 1 .. Len(chain) - 2 |-> data[chain[i + 1]]]
    BY <2>1, <2>2 DEF Contents
  <2>6. Contents' = Tail(Contents)
    <3> HIDE <1>10, <1>a, <1>b
    <3>1. Len(Contents) - 1 = Len(chain) - 2
      BY <2>1, <2>3
    <3>2. \A i \in 1 .. Len(chain) - 2 : i + 1 \in 1 .. Len(chain) - 1
      BY <2>1
    <3>3. Contents' \in [1 .. Len(Contents) - 1 -> Value]
      BY <2>1, <2>3, <2>5, <3>1, <3>2
    <3>4. \A i \in 1 .. Len(Contents) - 1 : Contents'[i] = Contents[i + 1]
      BY <2>1, <2>3, <2>5, <3>1, <3>2
    <3> QED
      BY <2>3, <2>4, <3>3, <3>4, TailIs
  <2>7. \A u \in Thread \ {t} : CallOf(u)' = CallOf(u)
    BY SameCall DEF TypeOK
  <2>8. /\ CallOf(t).st \in {"try", "wait"}
        /\ CallOf(t)' = LQ!Call("ret", Head(Contents))
    BY <2>4 DEF CallOf, LQ!Call, TypeOK, TailSection
  <2> QED
    BY <2>4, <2>6, <2>7, <2>8, MapChange DEF LQ!Pop, LQ!Move, Calls
<1>11. CASE UNCHANGED vars
  BY <1>11, <1>a, <1>d, ContentsSame DEF vars, Calls, CallOf
<1> QED
  BY <1>1, <1>2, <1>3, <1>4, <1>5, <1>6, <1>7, <1>8, <1>9, <1>10, <1>11,
     <1>d, <1>e DEF Next, Begin, Continue

-----------------------------------------------------------------------------
(* Inv holds in every reachable state.                                      *)
THEOREM InvHolds == Spec => []Inv
  BY InitInv, InvNext, PTL DEF Spec

(* head_, tail_ and every Node::next always have values of their types; in  *)
(* particular push and pop_head never go through a null pointer.            *)
THEOREM TypeCorrect == Spec => []TypeOK
<1>1. Inv => TypeOK
  BY DEF Inv
<1> QED
  BY <1>1, InvHolds, PTL

(* However pushes and pops interleave the list is never torn.               *)
THEOREM ListStaysIntact == Spec => []ListIntact
<1>1. Inv => ListIntact
  BY DEF Inv
<1> QED
  BY <1>1, InvHolds, PTL

(* Every node has one owner: nothing is freed twice or freed while linked.  *)
THEOREM NodesHaveOneOwner == Spec => []SingleOwner
<1>1. Inv => SingleOwner
  BY DEF Inv
<1> QED
  BY <1>1, InvHolds, PTL

(* A pop and a push never work on one node at a time, although they hold    *)
(* different mutexes.                                                       *)
THEOREM EndsNeverRace == Spec => []NoNodeRace
<1>1. Inv => NoNodeRace
  BY DEF Inv
<1> QED
  BY <1>1, InvHolds, PTL
(* Whatever threads, nodes and values there are, every behaviour of the     *)
(* linked list is one of the atomic queue: each element leaves once, in the *)
(* order of the pushes, and try_pop returns nullptr only when it is empty.  *)
THEOREM ListImplementsLinQueue == Spec => ImplementsLinQueue
<1>1. Spec => LQ!Init /\ [][LQ!Next]_LQ!vars
  BY InitImplements, NextImplements, InvHolds, PTL DEF Spec
<1> QED
  BY <1>1 DEF ImplementsLinQueue, LQ!Spec
=============================================================================
