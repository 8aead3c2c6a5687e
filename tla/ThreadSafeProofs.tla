--------------------------- MODULE ThreadSafeProofs ---------------------------
(***************************************************************************)
(* The list and the table that lock their parts one by one, for any        *)
(* threads, nodes, keys and values: a walk of ConcurrentList never touches *)
(* a freed node and misses none, and ConcurrentMap is linearizable.        *)
(***************************************************************************)
EXTENDS MCThreadSafe, Integers, WellFoundedInduction, TLAPS

-----------------------------------------------------------------------------
(* ConcurrentList                                                           *)

InList == Linked \cup {HeadNode}
Walks == {"each", "find", "remove"}

(* Nodes a push has made and not linked, or remove_if has taken out and not *)
(* freed, are known to one thread only.                                     *)
Pushing(t) == pc[t] \in {"lock_head", "link"} /\ op[t] = "push"
Own(t) == IF Pushing(t) THEN {cur[t]}
          ELSE IF pc[t] = "free" THEN {nxt[t]} ELSE {}

(* What is linked is allocated, and what is not linked is linked to nothing. *)
Shape ==
  /\ Linked \subseteq live
  /\ \A m \in live \ Linked : next[m] = Null

(* Where a thread is, what it has locked and what it relies on there.       *)
HoldsOf(t) ==
  /\ pc[t] = "lock_head" =>
       op[t] = "push" \/ (op[t] \in Walks /\ cur[t] = HeadNode)
  /\ Pushing(t) => cur[t] \in live \ Linked
  /\ pc[t] = "link" => op[t] = "push" /\ mutex[HeadNode] = t
  /\ pc[t] \in UsesCur =>
       cur[t] \in InList /\ mutex[cur[t]] = t /\ op[t] \in Walks
  /\ pc[t] \in {"lock_next", "test"} => next[cur[t]] = nxt[t]
  /\ pc[t] = "visit" =>
       nxt[t] \in Linked /\ mutex[nxt[t]] = t /\ op[t] \in {"each", "find"}
  /\ pc[t] = "test" => mutex[nxt[t]] = t /\ op[t] = "remove"
  /\ pc[t] = "free" =>
       nxt[t] \in live \ Linked /\ mutex[nxt[t]] = Null /\ op[t] = "remove"

Holds ==
  /\ \A t \in Thread : HoldsOf(t)
  /\ \A t, u \in Thread : t # u => Own(t) \cap Own(u) = {}

(* The nodes can be numbered in the order of the list.                      *)
Ordered(pos) ==
  /\ \A n \in Linked : pos[HeadNode] < pos[n]
  /\ \A m, n \in InList : pos[m] = pos[n] => m = n
  /\ \A m \in InList : next[m] = Null => \A n \in InList : pos[n] <= pos[m]
  /\ \A m \in InList : next[m] # Null =>
       /\ pos[m] < pos[next[m]]
       /\ \A n \in InList : pos[n] <= pos[m] \/ pos[next[m]] <= pos[n]

Met(t) == Range(seen[t])

(* What a walk has still to see is ahead of it.                             *)
AheadOf(pos, t) ==
  /\ pc[t] \in UsesCur => \A n \in due[t] \ Met(t) : pos[cur[t]] < pos[n]
  /\ pc[t] = "visit" => \A n \in due[t] \ Met(t) : pos[nxt[t]] <= pos[n]

(* What a walk has seen, and what has been pushed at its address since, is  *)
(* not ahead of it.                                                         *)
BehindOf(pos, t) ==
  /\ pc[t] \in UsesCur => \A n \in Met(t) \cap Linked : pos[n] <= pos[cur[t]]
  /\ pc[t] = "visit" => \A n \in Met(t) \cap Linked : pos[n] < pos[nxt[t]]

(* The members of s are different, those in S in the order of their numbers. *)
Ascending(pos, s, S) ==
  \A i, j \in DOMAIN s : i < j =>
    /\ s[i] # s[j]
    /\ s[i] \in S /\ s[j] \in S => pos[s[i]] < pos[s[j]]

OnItsWay(pos, t) ==
  AheadOf(pos, t) /\ BehindOf(pos, t) /\ Ascending(pos, seen[t], due[t])

Numbering(pos) == Ordered(pos) /\ \A t \in Thread : OnItsWay(pos, t)

(* What a walk has seen: everything in the end, and nothing it looked for.  *)
SeenOf(t) ==
  /\ due[t] \subseteq Linked
  /\ pc[t] \in {"idle", "lock_head", "link"} => seen[t] = <<>>
  /\ pc[t] = "done" /\ op[t] # "push" => due[t] \subseteq Met(t)
  /\ pc[t] # "found" /\ op[t] \in {"find", "remove"} =>
       \A n \in due[t] \cap Met(t) : data[n] \notin pred[t]

ListInv ==
  /\ TypeOK /\ Shape /\ Holds
  /\ \A t \in Thread : SeenOf(t)
  /\ \E pos \in [Place -> Int] : Numbering(pos)

(* A walk that sees the next node goes on in order.                         *)
LEMMA SeesNext ==
  ASSUME NEW s \in Seq(Node), NEW n \in Node, n \notin Range(s), NEW S,
         NEW pos \in [Place -> Int], Ascending(pos, s, S),
         \A m \in Range(s) \cap S : n \in S => pos[m] < pos[n]
  PROVE  Ascending(pos, Append(s, n), S) /\ Range(Append(s, n)) = Range(s) \cup {n}
<1>1. /\ Len(s) \in Nat /\ DOMAIN s = 1 .. Len(s)
      /\ DOMAIN Append(s, n) = 1 .. Len(s) + 1
      /\ \A i \in 1 .. Len(s) : Append(s, n)[i] = s[i]
      /\ Append(s, n)[Len(s) + 1] = n
  OBVIOUS
<1>2. \A i \in DOMAIN s : s[i] \in Range(s)
  BY DEF Range
<1>3. ASSUME NEW i \in DOMAIN Append(s, n), NEW j \in DOMAIN Append(s, n), i < j
      PROVE  /\ Append(s, n)[i] # Append(s, n)[j]
             /\ Append(s, n)[i] \in S /\ Append(s, n)[j] \in S =>
                  pos[Append(s, n)[i]] < pos[Append(s, n)[j]]
  <2>1. i \in 1 .. Len(s)
    BY <1>1, <1>3
  <2>2. CASE j \in 1 .. Len(s)
    BY <1>1, <1>3, <2>1, <2>2 DEF Ascending
  <2>3. CASE j = Len(s) + 1
    <3>1. s[i] # n /\ (s[i] \in S /\ n \in S => pos[s[i]] < pos[n])
      BY <1>1, <1>2, <2>1
    <3> QED
      BY <1>1, <2>1, <2>3, <3>1
  <2> QED
    BY <1>1, <2>2, <2>3
<1>4. Range(Append(s, n)) = Range(s) \cup {n}
  <2>1. \A x : x \in Range(Append(s, n)) <=> \E i \in 1 .. Len(s) + 1 : Append(s, n)[i] = x
    BY <1>1 DEF Range
  <2>2. \A x : x \in Range(s) <=> \E i \in 1 .. Len(s) : s[i] = x
    BY <1>1 DEF Range
  <2>3. \A i : i \in 1 .. Len(s) + 1 <=> i \in 1 .. Len(s) \/ i = Len(s) + 1
    BY <1>1
  <2> HIDE DEF Range
  <2>4. \A x : x \in Range(Append(s, n)) <=> x \in Range(s) \/ x = n
    BY <1>1, <2>1, <2>2, <2>3
  <2> QED
    BY <2>4
<1> QED
  BY <1>3, <1>4 DEF Ascending

LEMMA LinkedFacts ==
  ASSUME TypeOK, Shape
  PROVE  /\ Linked \subseteq Node /\ Linked \subseteq live
         /\ HeadNode \notin Node /\ Null \notin Place
         /\ InList \subseteq Place /\ HeadNode \in InList
         /\ \A m \in InList : next[m] # Null => next[m] \in Linked
         /\ \A n \in Linked : \E m \in InList : next[m] = n
<1>1. Linked \subseteq Node /\ HeadNode \notin Node /\ Null \notin Place
  BY ListAssumption DEF Linked, Place
<1>2. \A m \in InList : next[m] # Null => next[m] \in Linked
  BY <1>1 DEF TypeOK, Shape, InList, Linked, Place
<1>3. \A n \in Linked : \E m \in InList : next[m] = n
  BY <1>1 DEF Shape, InList, Linked, Place
<1> QED
  BY <1>1, <1>2, <1>3 DEF Shape, InList, Place

(* A walk's next is the only successor of its cur, whose lock it holds.     *)
LEMMA OnePredecessor ==
  ASSUME TypeOK, Shape, NEW pos \in [Place -> Int], Ordered(pos),
         NEW m \in InList, NEW n \in InList, next[m] = next[n], next[m] # Null
  PROVE  m = n
<1>1. /\ pos[m] \in Int /\ pos[n] \in Int /\ pos[next[m]] \in Int
  BY LinkedFacts DEF InList
<1>2. pos[m] < pos[next[m]] /\ pos[n] < pos[next[m]]
  BY DEF Ordered
<1>3. pos[n] <= pos[m] /\ pos[m] <= pos[n]
  BY <1>1, <1>2 DEF Ordered
<1> QED
  BY <1>1, <1>3 DEF Ordered

LEMMA SameLinks ==
  ASSUME next' = next, live' = live
  PROVE  Linked' = Linked /\ InList' = InList /\ (Shape => Shape')
BY DEF Linked, InList, Shape

LEMMA SameOrder ==
  ASSUME next' = next, live' = live, NEW pos, Ordered(pos)
  PROVE  Ordered(pos)'
BY SameLinks DEF Ordered

LEMMA TypeNext == ListInv /\ [Next]_vars => TypeOK'
<1> SUFFICES ASSUME ListInv, [Next]_vars PROVE TypeOK'
  OBVIOUS
<1>a. TypeOK /\ Shape /\ Holds
  BY DEF ListInv
<1>b. /\ HeadNode \in Place /\ Node \subseteq Place /\ Null \notin Node
      /\ Null \notin Place /\ Calls \in Nat /\ HeadNode \notin Node
  BY ListAssumption DEF Place
<1>c. ASSUME NEW t \in Thread, See(t), nxt[t] \in Node
      PROVE  seen' \in [Thread -> Seq(Node)]
  <2>1. Append(seen[t], nxt[t]) \in Seq(Node)
    BY <1>a, <1>c DEF TypeOK
  <2> QED
    BY <1>a, <1>c, <2>1 DEF See, Set, TypeOK
<1> USE <1>a, <1>b DEF Goto, Set, Locations, UsesNext, UsesCur
<1>1. ASSUME NEW t \in Thread, Begin(t) PROVE TypeOK'
  <2>1. CASE PushBegin(t)
    BY <2>1 DEF PushBegin, TypeOK
  <2>2. CASE WalkBegin(t)
    <3>1. Linked \subseteq Node
      BY DEF Linked
    <3>2. /\ pc' \in [Thread -> Locations] /\ cur' \in [Thread -> Place \cup {Null}]
          /\ pc'[t] \notin UsesNext /\ \A u \in Thread \ {t} : pc'[u] = pc[u]
          /\ due' \in [Thread -> SUBSET Node] /\ nxt' = nxt
      BY <2>2, <3>1 DEF WalkBegin, TypeOK
    <3>3. op' \in [Thread -> {"push", "each", "find", "remove", Null}]
      BY <2>2 DEF WalkBegin, TypeOK
    <3>4. pred' \in [Thread -> SUBSET Value]
      <4>1. pred \in [Thread -> SUBSET Value]
        BY DEF TypeOK
      <4>2. pred' = pred \/ \E p \in SUBSET Value : pred' = [pred EXCEPT ![t] = p]
        BY <2>2 DEF WalkBegin
      <4> QED
        BY <4>1, <4>2
    <3>6. toCall' \in [Thread -> 0 .. Calls]
      BY <2>2 DEF WalkBegin, TypeOK
    <3>5. UNCHANGED <<next, data, mutex, live, seen>>
      BY <2>2 DEF WalkBegin, listVars
    <3> HIDE <2>2 DEF Locations
    <3> QED
      BY <3>2, <3>3, <3>4, <3>5, <3>6 DEF TypeOK
  <2> QED
    BY <1>1, <2>1, <2>2 DEF Begin
<1>2. ASSUME NEW t \in Thread, Step(t) PROVE TypeOK'
  <2>1. CASE LockHead(t)
    BY <2>1 DEF LockHead, TypeOK, walkVars
  <2>2. CASE PushLink(t)
    <3>1. cur[t] \in Node
      BY <2>2 DEF PushLink, Holds, HoldsOf, Pushing, TypeOK
    <3> QED
      BY <2>2, <3>1 DEF PushLink, TypeOK, walkVars
  <2>3. CASE Look(t)
    <3>1. cur[t] \in Place
      BY <2>3, LinkedFacts DEF Look, Holds, HoldsOf
    <3> QED
      BY <2>3, <3>1 DEF Look, TypeOK, listVars
  <2>4. CASE Finish(t)
    BY <2>4 DEF Finish, TypeOK, walkVars
  <2>5. CASE LockNext(t)
    <3>1. /\ pc' \in [Thread -> Locations] /\ nxt[t] # Null
          /\ \A u \in Thread \ {t} : pc'[u] = pc[u]
      BY <2>5 DEF LockNext, TypeOK
    <3>2. mutex' \in [Place -> Thread \cup {Null}]
      <4>1. mutex \in [Place -> Thread \cup {Null}]
        BY DEF TypeOK
      <4>2. \/ mutex' = [mutex EXCEPT ![nxt[t]] = t]
            \/ mutex' = [mutex EXCEPT ![nxt[t]] = t, ![cur[t]] = Null]
        BY <2>5 DEF LockNext
      <4> QED
        BY <4>1, <4>2
    <3>3. UNCHANGED <<op, pred, cur, nxt, next, data, live, toCall, seen, due>>
      BY <2>5 DEF LockNext, walkVars
    <3> HIDE <2>5 DEF Locations
    <3> QED
      BY <3>1, <3>2, <3>3 DEF TypeOK
  <2>6. CASE Visit(t)
    <3>1. seen' \in [Thread -> Seq(Node)]
      BY <1>c, <2>6 DEF Visit, TypeOK
    <3> QED
      BY <2>6, <3>1 DEF Visit, TypeOK, listVars
  <2>7. CASE Found(t)
    <3>1. seen' \in [Thread -> Seq(Node)]
      BY <1>c, <2>7 DEF Found, TypeOK
    <3> QED
      BY <2>7, <3>1 DEF Found, TypeOK, walkVars
  <2>8. CASE Keep(t)
    <3>1. seen' \in [Thread -> Seq(Node)]
      BY <1>c, <2>8 DEF Keep, TypeOK
    <3> QED
      BY <2>8, <3>1 DEF Keep, TypeOK
  <2>9. CASE Unlink(t)
    <3>1. seen' \in [Thread -> Seq(Node)]
      BY <1>c, <2>9 DEF Unlink, TypeOK
    <3> QED
      BY <2>9, <3>1 DEF Unlink, TypeOK, walkVars
  <2>10. CASE FreeNode(t)
    BY <2>10 DEF FreeNode, TypeOK, walkVars
  <2>11. CASE Return(t)
    BY <2>11 DEF Return, TypeOK, listVars
  <2> QED
    BY <1>2, <2>1, <2>2, <2>3, <2>4, <2>5, <2>6, <2>7, <2>8, <2>9, <2>10, <2>11
    DEF Step
<1>3. CASE UNCHANGED vars
  BY <1>3 DEF vars, walkVars, listVars, TypeOK
<1> QED
  BY <1>1, <1>2, <1>3 DEF Next, Idle

SameThread(u) ==
  /\ pc'[u] = pc[u] /\ op'[u] = op[u] /\ pred'[u] = pred[u]
  /\ cur'[u] = cur[u] /\ nxt'[u] = nxt[u]
  /\ seen'[u] = seen[u] /\ due'[u] = due[u]

(* All that t does to mutexes is lock free ones of the list and unlock its. *)
LocksOf(t) ==
  \A n \in Place :
    \/ mutex'[n] = mutex[n]
    \/ mutex[n] = Null /\ mutex'[n] = t /\ n \in InList
    \/ mutex[n] = t /\ mutex'[n] = Null

(* A step of t that leaves the nodes alone disturbs nobody else.            *)
LEMMA LocalStep ==
  ASSUME ListInv, TypeOK', NEW t \in Thread,
         next' = next, live' = live, data' = data,
         \A u \in Thread \ {t} : SameThread(u), LocksOf(t),
         HoldsOf(t)', Own(t)' \subseteq Own(t), SeenOf(t)',
         NEW pos \in [Place -> Int], Numbering(pos), OnItsWay(pos, t)'
  PROVE  ListInv'
<1>a. TypeOK /\ Shape /\ Holds /\ \A u \in Thread : SeenOf(u)
  BY DEF ListInv
<1>b. Linked' = Linked /\ InList' = InList /\ Shape' /\ Ordered(pos)'
  BY <1>a, SameLinks, SameOrder DEF Numbering
<1>c. Linked \subseteq Node /\ InList \subseteq Place /\ HeadNode \in Place
      /\ Null \notin Thread /\ HeadNode \notin Node
  BY <1>a, LinkedFacts, ListAssumption DEF Place
<1>1. ASSUME NEW u \in Thread \ {t}
      PROVE  HoldsOf(u)' /\ Own(u)' = Own(u) /\ SeenOf(u)' /\ OnItsWay(pos, u)'
  <2>1. SameThread(u)
    OBVIOUS
  <2>2. Own(u)' = Own(u) /\ Pushing(u)' = Pushing(u)
    BY <2>1 DEF SameThread, Own, Pushing
  <2>3. \A n \in Place : mutex[n] = u => mutex'[n] = u
    BY <1>c DEF LocksOf
  <2>4. pc[u] = "free" => mutex'[nxt[u]] = Null
    BY <1>a, <1>c DEF LocksOf, Holds, HoldsOf, TypeOK, InList, Place
  <2>5. HoldsOf(u)'
    <3>1. HoldsOf(u)
      BY <1>a DEF Holds
    <3>2. Linked \subseteq Place /\ (pc[u] = "test" => nxt[u] \in Place)
      BY <1>a, <1>c DEF TypeOK, UsesNext, Place
    <3> QED
      BY <1>b, <1>c, <2>1, <2>2, <2>3, <2>4, <3>1, <3>2 DEF HoldsOf, SameThread
  <2>6. SeenOf(u)' /\ OnItsWay(pos, u)'
    <3>1. Met(u)' = Met(u)
      BY <2>1 DEF Met, SameThread
    <3>2. SeenOf(u) /\ OnItsWay(pos, u)
      BY <1>a DEF Numbering
    <3> QED
      BY <1>b, <2>1, <3>1, <3>2
      DEF SeenOf, OnItsWay, AheadOf, BehindOf, SameThread
  <2> QED
    BY <2>2, <2>5, <2>6
<1>2. Holds'
  BY <1>1, <1>a DEF Holds
<1>3. \A u \in Thread : SeenOf(u)' /\ OnItsWay(pos, u)'
  BY <1>1
<1> QED
  BY <1>b, <1>2, <1>3 DEF ListInv, Numbering

LEMMA ListNext == ListInv /\ [Next]_vars => ListInv'
<1> SUFFICES ASSUME ListInv, [Next]_vars PROVE ListInv'
  OBVIOUS
<1>a. TypeOK /\ Shape /\ Holds /\ TypeOK'
      /\ \A u \in Thread : SeenOf(u) /\ HoldsOf(u)
  BY TypeNext DEF ListInv, Holds
<1>b. PICK pos \in [Place -> Int] : Numbering(pos)
  BY DEF ListInv
<1>c. /\ HeadNode \in Place /\ Node \subseteq Place /\ HeadNode \notin Node
      /\ Null \notin Place /\ Null \notin Thread /\ Null \notin Value
  BY ListAssumption DEF Place
<1>d. /\ Linked \subseteq Node /\ Linked \subseteq live
      /\ InList \subseteq Place /\ HeadNode \in InList
      /\ \A m \in InList : next[m] # Null => next[m] \in Linked
      /\ \A n \in Linked : n \in InList /\ \E m \in InList : next[m] = n
      /\ \A m \in InList : m = HeadNode \/ m \in Linked
  BY <1>a, LinkedFacts DEF InList
<1>e. next' = next /\ live' = live => Linked' = Linked /\ InList' = InList
  BY SameLinks
<1>f. ASSUME NEW t \in Thread, next' = next, live' = live, data' = data,
             \A u \in Thread \ {t} : SameThread(u), LocksOf(t),
             HoldsOf(t)', Own(t)' \subseteq Own(t), SeenOf(t)', AheadOf(pos, t)',
             BehindOf(pos, t)', Ascending(pos, seen[t], due[t])'
      PROVE  ListInv'
  BY <1>a, <1>b, <1>f, LocalStep DEF OnItsWay
<1>j. ASSUME NEW t \in Thread, pc[t] \in {"visit", "test"}
      PROVE  /\ nxt[t] \in Linked /\ nxt[t] \notin Met(t)
             /\ \A m \in Met(t) \cap Linked : pos[m] < pos[nxt[t]]
  <2>1. /\ nxt[t] \in Linked /\ BehindOf(pos, t)
        /\ pc[t] = "test" => cur[t] \in InList /\ next[cur[t]] = nxt[t]
    BY <1>a, <1>b, <1>d, <1>j
    DEF HoldsOf, TypeOK, UsesNext, UsesCur, Numbering, OnItsWay
  <2>2. /\ pos[nxt[t]] \in Int /\ \A m \in Linked : pos[m] \in Int
        /\ pc[t] = "test" => pos[cur[t]] \in Int /\ pos[cur[t]] < pos[nxt[t]]
    BY <1>a, <1>b, <1>c, <1>d, <1>j, <2>1
    DEF Numbering, Ordered, TypeOK, UsesNext
  <2>3. \A m \in Met(t) \cap Linked : pos[m] < pos[nxt[t]]
    BY <1>j, <2>1, <2>2 DEF BehindOf, UsesCur
  <2> QED
    BY <2>1, <2>2, <2>3
<1>k. ASSUME NEW t \in Thread, pc[t] \in {"visit", "test"}, See(t),
             due'[t] \subseteq due[t]
      PROVE  Met(t)' = Met(t) \cup {nxt[t]} /\ Ascending(pos, seen[t], due[t])'
  <2>1. /\ seen[t] \in Seq(Node) /\ nxt[t] \in Node
        /\ seen'[t] = Append(seen[t], nxt[t])
    BY <1>a, <1>d, <1>j, <1>k DEF TypeOK, See, Set
  <2>2. /\ Ascending(pos, seen[t], due'[t])
        /\ \A m \in Range(seen[t]) \cap due'[t] : pos[m] < pos[nxt[t]]
        /\ nxt[t] \notin Range(seen[t])
    BY <1>a, <1>b, <1>j, <1>k DEF Numbering, OnItsWay, Ascending, SeenOf, Met
  <2> QED
    BY <1>b, <2>1, <2>2, SeesNext DEF Met
<1>l. ASSUME NEW t \in Thread, seen'[t] = seen[t], due'[t] \subseteq due[t]
      PROVE  Met(t)' = Met(t) /\ Ascending(pos, seen[t], due[t])'
  BY <1>b, <1>l DEF Numbering, OnItsWay, Ascending, Met
<1>m. ASSUME NEW t \in Thread, seen'[t] = <<>>
      PROVE  Met(t)' = {} /\ Ascending(pos, seen[t], due[t])'
  BY <1>m DEF Ascending, Met, Range
<1>n. \A t \in Thread :
        /\ AheadOf(pos, t) /\ BehindOf(pos, t)
        /\ seen[t] = <<>> => Met(t) = {}
  BY <1>b DEF Numbering, OnItsWay, Met, Range
<1> USE <1>a, <1>b, <1>c
    DEF Goto, Set, Locations, UsesNext, UsesCur, Pushing, Own, Walks, walkVars,
        listVars
<1>1. ASSUME NEW t \in Thread, WalkBegin(t) PROVE ListInv'
  <2> USE <1>1 DEF WalkBegin
  <2>0. Met(t)' = {} /\ Ascending(pos, seen[t], due[t])'
    <3>1. seen'[t] = <<>>
      BY DEF TypeOK, SeenOf
    <3> QED
      BY <1>m, <3>1
  <2>1. \A u \in Thread \ {t} : SameThread(u)
    BY DEF TypeOK, SameThread
  <2>2. LocksOf(t)
    BY <1>d DEF TypeOK, HoldsOf, LocksOf
  <2>3. HoldsOf(t)' /\ Own(t)' \subseteq Own(t)
    BY <1>d, <1>e DEF TypeOK, HoldsOf
  <2>4. SeenOf(t)'
    BY <1>d, <1>e, <1>n, <2>0 DEF TypeOK, HoldsOf, SeenOf, AheadOf
  <2>5. AheadOf(pos, t)'
    BY <1>d, <1>e, <1>n, <2>0 DEF TypeOK, HoldsOf, SeenOf, AheadOf, Numbering, Ordered
  <2>6. BehindOf(pos, t)'
    BY <2>0 DEF TypeOK, BehindOf
  <2> QED
    BY <1>f, <2>0, <2>1, <2>2, <2>3, <2>4, <2>5, <2>6
<1>2. ASSUME NEW t \in Thread, LockHead(t) PROVE ListInv'
  <2> USE <1>2 DEF LockHead
  <2>0. Met(t)' = Met(t) /\ Ascending(pos, seen[t], due[t])'
    <3>1. seen' = seen /\ due' = due
      OBVIOUS
    <3> QED
      BY <1>l, <3>1
  <2>1. \A u \in Thread \ {t} : SameThread(u)
    BY DEF TypeOK, SameThread
  <2>2. LocksOf(t)
    BY <1>d DEF TypeOK, HoldsOf, LocksOf
  <2>3. HoldsOf(t)' /\ Own(t)' \subseteq Own(t)
    BY <1>d, <1>e DEF TypeOK, HoldsOf
  <2>4. SeenOf(t)'
    BY <1>e, <2>0 DEF TypeOK, SeenOf
  <2>5. AheadOf(pos, t)'
    BY <1>d, <1>e, <1>n, <2>0 DEF TypeOK, HoldsOf, SeenOf, AheadOf, Numbering, Ordered
  <2>6. BehindOf(pos, t)'
    BY <1>n, <2>0 DEF TypeOK, SeenOf, BehindOf
  <2> QED
    BY <1>f, <2>0, <2>1, <2>2, <2>3, <2>4, <2>5, <2>6
<1>3. ASSUME NEW t \in Thread, Look(t) PROVE ListInv'
  <2> USE <1>3 DEF Look
  <2>0. Met(t)' = Met(t) /\ Ascending(pos, seen[t], due[t])'
    <3>1. seen' = seen /\ due' = due
      OBVIOUS
    <3> QED
      BY <1>l, <3>1
  <2>1. \A u \in Thread \ {t} : SameThread(u)
    BY DEF TypeOK, SameThread
  <2>2. LocksOf(t)
    BY <1>d DEF TypeOK, HoldsOf, LocksOf
  <2>3. HoldsOf(t)' /\ Own(t)' \subseteq Own(t)
    BY <1>d, <1>e DEF TypeOK, HoldsOf
  <2>4. SeenOf(t)'
    BY <1>e, <2>0 DEF TypeOK, SeenOf
  <2>5. AheadOf(pos, t)'
    BY <1>d, <1>e, <1>n, <2>0 DEF TypeOK, HoldsOf, SeenOf, AheadOf, Numbering, Ordered
  <2>6. BehindOf(pos, t)'
    BY <1>e, <1>n, <2>0 DEF TypeOK, BehindOf
  <2> QED
    BY <1>f, <2>0, <2>1, <2>2, <2>3, <2>4, <2>5, <2>6
<1>4. ASSUME NEW t \in Thread, Finish(t) PROVE ListInv'
  <2> USE <1>4 DEF Finish
  <2>0. Met(t)' = Met(t) /\ Ascending(pos, seen[t], due[t])'
    <3>1. seen' = seen /\ due' = due
      OBVIOUS
    <3> QED
      BY <1>l, <3>1
  <2>1. \A u \in Thread \ {t} : SameThread(u)
    BY DEF TypeOK, SameThread
  <2>2. LocksOf(t)
    BY <1>d DEF TypeOK, HoldsOf, LocksOf
  <2>3. HoldsOf(t)' /\ Own(t)' \subseteq Own(t)
    BY <1>d, <1>e DEF TypeOK, HoldsOf
  <2>4. SeenOf(t)'
    <3>1. ASSUME NEW n \in due[t] \ Met(t) PROVE FALSE
      <4>1. /\ n \in InList /\ cur[t] \in InList /\ next[cur[t]] = Null
            /\ pos[cur[t]] < pos[n]
        BY <1>d, <1>n DEF SeenOf, HoldsOf, AheadOf
      <4>2. pos[n] \in Int /\ pos[cur[t]] \in Int /\ pos[n] <= pos[cur[t]]
        BY <1>d, <4>1 DEF Numbering, Ordered
      <4> QED
        BY <4>1, <4>2
    <3>2. /\ due[t] \subseteq Met(t) /\ pc'[t] = "done" /\ pc[t] = "look"
          /\ op' = op /\ pred' = pred /\ data' = data /\ due' = due
      BY <3>1 DEF TypeOK
    <3> QED
      BY <1>e, <2>0, <3>2 DEF SeenOf
  <2>5. AheadOf(pos, t)'
    BY <1>d, <1>e, <1>n, <2>0 DEF TypeOK, HoldsOf, SeenOf, AheadOf, Numbering, Ordered
  <2>6. BehindOf(pos, t)'
    BY <1>e, <1>n, <2>0 DEF TypeOK, BehindOf
  <2> QED
    BY <1>f, <2>0, <2>1, <2>2, <2>3, <2>4, <2>5, <2>6
<1>5. ASSUME NEW t \in Thread, LockNext(t) PROVE ListInv'
  <2> USE <1>5 DEF LockNext
  <2>0. Met(t)' = Met(t) /\ Ascending(pos, seen[t], due[t])'
    <3>1. seen' = seen /\ due' = due
      OBVIOUS
    <3> QED
      BY <1>l, <3>1
  <2>1. \A u \in Thread \ {t} : SameThread(u)
    BY DEF TypeOK, SameThread
  <2>2. LocksOf(t)
    BY <1>d DEF TypeOK, HoldsOf, LocksOf
  <2>3. HoldsOf(t)' /\ Own(t)' \subseteq Own(t)
    BY <1>d, <1>e DEF TypeOK, HoldsOf
  <2>4. SeenOf(t)'
    <3>1. /\ pc'[t] \in {"test", "visit"} /\ pc[t] = "lock_next"
          /\ op' = op /\ pred' = pred /\ data' = data /\ due' = due
      BY DEF TypeOK
    <3> QED
      BY <1>e, <2>0, <3>1 DEF SeenOf
  <2>5. AheadOf(pos, t)'
    BY <1>d, <1>e, <1>n, <2>0 DEF TypeOK, HoldsOf, SeenOf, AheadOf, Numbering, Ordered
  <2>6. BehindOf(pos, t)'
    <3>1. /\ pos[cur[t]] \in Int /\ pos[cur[t]] < pos[nxt[t]]
          /\ pos[nxt[t]] \in Int /\ \A m \in Linked : pos[m] \in Int
      BY <1>d DEF TypeOK, HoldsOf, Numbering, Ordered
    <3>2. \A m \in Met(t) \cap Linked : pos[m] <= pos[cur[t]] /\ pos[m] < pos[nxt[t]]
      BY <1>n, <3>1 DEF BehindOf
    <3> QED
      BY <1>e, <2>0, <3>2 DEF TypeOK, BehindOf
  <2> QED
    BY <1>f, <2>0, <2>1, <2>2, <2>3, <2>4, <2>5, <2>6
<1>6. ASSUME NEW t \in Thread, Visit(t) PROVE ListInv'
  <2> USE <1>6 DEF Visit, See, Matches
  <2>0. Met(t)' = Met(t) \cup {nxt[t]} /\ Ascending(pos, seen[t], due[t])'
    <3>1. See(t) /\ due' = due /\ pc[t] \in {"visit", "test"}
      BY DEF See
    <3> QED
      BY <1>k, <3>1
  <2>1. \A u \in Thread \ {t} : SameThread(u)
    BY DEF TypeOK, SameThread
  <2>2. LocksOf(t)
    BY <1>d DEF TypeOK, HoldsOf, LocksOf
  <2>3. HoldsOf(t)' /\ Own(t)' \subseteq Own(t)
    BY <1>d, <1>e DEF TypeOK, HoldsOf
  <2>4. SeenOf(t)'
    <3>1. /\ pc'[t] \in {"look", "found"} /\ pc[t] \in {"visit", "test"}
          /\ op' = op /\ pred' = pred /\ data' = data /\ due' = due
          /\ pc'[t] # "found" /\ op[t] \in {"find", "remove"} =>
               data[nxt[t]] \notin pred[t]
      BY DEF TypeOK, HoldsOf
    <3> QED
      BY <1>e, <2>0, <3>1 DEF SeenOf
  <2>5. AheadOf(pos, t)'
    <3>1. ASSUME NEW n \in due[t] \ Met(t), n # nxt[t] PROVE pos[nxt[t]] < pos[n]
      <4>1. n \in InList /\ nxt[t] \in InList /\ pos[nxt[t]] <= pos[n]
        BY <1>d, <1>n DEF SeenOf, HoldsOf, AheadOf
      <4>2. pos[n] \in Int /\ pos[nxt[t]] \in Int /\ pos[n] # pos[nxt[t]]
        BY <1>d, <3>1, <4>1 DEF Numbering, Ordered
      <4> QED
        BY <4>1, <4>2
    <3> QED
      BY <2>0, <3>1 DEF TypeOK, AheadOf
  <2>6. BehindOf(pos, t)'
    <3>1. \A m \in Met(t)' \cap Linked : pos[m] <= pos[nxt[t]]
      BY <1>d, <1>j, <2>0
    <3> QED
      BY <1>e, <3>1 DEF TypeOK, BehindOf
  <2> QED
    BY <1>f, <2>0, <2>1, <2>2, <2>3, <2>4, <2>5, <2>6
<1>7. ASSUME NEW t \in Thread, Found(t) PROVE ListInv'
  <2> USE <1>7 DEF Found, See, Matches
  <2>0. Met(t)' = Met(t) \cup {nxt[t]} /\ Ascending(pos, seen[t], due[t])'
    <3>1. See(t) /\ due' = due /\ pc[t] \in {"visit", "test"}
      BY DEF See
    <3> QED
      BY <1>k, <3>1
  <2>1. \A u \in Thread \ {t} : SameThread(u)
    BY DEF TypeOK, SameThread
  <2>2. LocksOf(t)
    BY <1>d DEF TypeOK, HoldsOf, LocksOf
  <2>3. HoldsOf(t)' /\ Own(t)' \subseteq Own(t)
    BY <1>d, <1>e DEF TypeOK, HoldsOf
  <2>4. SeenOf(t)'
    <3>1. /\ pc'[t] \in {"look", "found"} /\ pc[t] \in {"visit", "test"}
          /\ op' = op /\ pred' = pred /\ data' = data /\ due' = due
          /\ pc'[t] # "found" /\ op[t] \in {"find", "remove"} =>
               data[nxt[t]] \notin pred[t]
      BY DEF TypeOK, HoldsOf
    <3> QED
      BY <1>e, <2>0, <3>1 DEF SeenOf
  <2>5. AheadOf(pos, t)'
    BY <1>d, <1>e, <1>n, <2>0 DEF TypeOK, HoldsOf, SeenOf, AheadOf, Numbering, Ordered
  <2>6. BehindOf(pos, t)'
    BY <2>0 DEF TypeOK, BehindOf
  <2> QED
    BY <1>f, <2>0, <2>1, <2>2, <2>3, <2>4, <2>5, <2>6
<1>8. ASSUME NEW t \in Thread, Keep(t) PROVE ListInv'
  <2> USE <1>8 DEF Keep, See, Matches
  <2>0. Met(t)' = Met(t) \cup {nxt[t]} /\ Ascending(pos, seen[t], due[t])'
    <3>1. See(t) /\ due' = due /\ pc[t] \in {"visit", "test"}
      BY DEF See
    <3> QED
      BY <1>k, <3>1
  <2>1. \A u \in Thread \ {t} : SameThread(u)
    BY DEF TypeOK, SameThread
  <2>2. LocksOf(t)
    BY <1>d DEF TypeOK, HoldsOf, LocksOf
  <2>3. HoldsOf(t)' /\ Own(t)' \subseteq Own(t)
    <3>1. /\ cur[t] \in InList /\ nxt[t] \in Linked /\ mutex[nxt[t]] = t
          /\ next[cur[t]] = nxt[t] /\ op[t] = "remove"
      BY <1>d DEF TypeOK, HoldsOf
    <3>2. cur[t] # nxt[t]
      <4>1. pos[cur[t]] \in Int /\ pos[cur[t]] < pos[nxt[t]]
        BY <1>d, <3>1 DEF Numbering, Ordered
      <4> QED
        BY <4>1
    <3>3. /\ pc'[t] = "look" /\ cur'[t] = nxt[t] /\ op'[t] = "remove"
          /\ mutex'[nxt[t]] = t
      BY <1>d, <3>1, <3>2 DEF TypeOK
    <3> QED
      BY <1>d, <1>e, <3>1, <3>3 DEF HoldsOf
  <2>4. SeenOf(t)'
    <3>1. /\ pc'[t] \in {"look", "found"} /\ pc[t] \in {"visit", "test"}
          /\ op' = op /\ pred' = pred /\ data' = data /\ due' = due
          /\ pc'[t] # "found" /\ op[t] \in {"find", "remove"} =>
               data[nxt[t]] \notin pred[t]
      BY DEF TypeOK, HoldsOf
    <3> QED
      BY <1>e, <2>0, <3>1 DEF SeenOf
  <2>5. AheadOf(pos, t)'
    <3>1. ASSUME NEW n \in due[t] \ Met(t), n # nxt[t] PROVE pos[nxt[t]] < pos[n]
      <4>1. /\ n \in InList /\ nxt[t] \in InList /\ cur[t] \in InList
            /\ next[cur[t]] = nxt[t] /\ nxt[t] # Null /\ pos[cur[t]] < pos[n]
        BY <1>d, <1>n DEF SeenOf, TypeOK, HoldsOf, AheadOf
      <4>2. /\ pos[n] \in Int /\ pos[nxt[t]] \in Int /\ pos[cur[t]] \in Int
            /\ pos[n] # pos[nxt[t]]
        BY <1>d, <3>1, <4>1 DEF Numbering, Ordered
      <4>3. pos[n] <= pos[cur[t]] \/ pos[nxt[t]] <= pos[n]
        BY <1>d, <4>1 DEF Numbering, Ordered
      <4> QED
        BY <4>1, <4>2, <4>3
    <3> QED
      BY <2>0, <3>1 DEF TypeOK, AheadOf
  <2>6. BehindOf(pos, t)'
    <3>1. \A m \in Met(t)' \cap Linked : pos[m] <= pos[nxt[t]]
      BY <1>d, <1>j, <2>0
    <3> QED
      BY <1>e, <3>1 DEF TypeOK, BehindOf
  <2> QED
    BY <1>f, <2>0, <2>1, <2>2, <2>3, <2>4, <2>5, <2>6
<1>9. ASSUME NEW t \in Thread, Return(t) PROVE ListInv'
  <2> USE <1>9 DEF Return
  <2>0. Met(t)' = {} /\ Ascending(pos, seen[t], due[t])'
    <3>1. seen'[t] = <<>>
      BY DEF TypeOK, SeenOf
    <3> QED
      BY <1>m, <3>1
  <2>1. \A u \in Thread \ {t} : SameThread(u)
    BY DEF TypeOK, SameThread
  <2>2. LocksOf(t)
    BY <1>d DEF TypeOK, HoldsOf, LocksOf
  <2>3. HoldsOf(t)' /\ Own(t)' \subseteq Own(t)
    BY <1>d, <1>e DEF TypeOK, HoldsOf
  <2>4. SeenOf(t)'
    BY <1>d, <1>e, <1>n, <2>0 DEF TypeOK, HoldsOf, SeenOf, AheadOf
  <2>5. AheadOf(pos, t)'
    BY <1>d, <1>e, <1>n, <2>0 DEF TypeOK, HoldsOf, SeenOf, AheadOf, Numbering, Ordered
  <2>6. BehindOf(pos, t)'
    BY <2>0 DEF TypeOK, BehindOf
  <2> QED
    BY <1>f, <2>0, <2>1, <2>2, <2>3, <2>4, <2>5, <2>6
<1>g. \A u \in Thread : Own(u) \subseteq live \ Linked
  BY DEF HoldsOf
<1>h. \A u, v \in Thread : u # v => Own(u) \cap Own(v) = {}
  BY DEF Holds
<1>i. ASSUME NEW pos2 \in [Place -> Int], Shape', \A u \in Thread : HoldsOf(u)',
             \A u, v \in Thread : u # v => (Own(u) \cap Own(v) = {})',
             \A u \in Thread : SeenOf(u)', Ordered(pos2)',
             \A u \in Thread : OnItsWay(pos2, u)'
      PROVE  ListInv'
  BY <1>i DEF ListInv, Holds, Numbering
<1>10. ASSUME NEW t \in Thread, PushBegin(t) PROVE ListInv'
  <2> USE <1>10 DEF PushBegin
  <2>1. PICK n \in Node \ live, x \in Value :
          /\ cur' = [cur EXCEPT ![t] = n]
          /\ live' = live \cup {n}
          /\ data' = [data EXCEPT ![n] = x]
          /\ next' = [next EXCEPT ![n] = Null]
    OBVIOUS
  <2>2. /\ \A m \in Place : next'[m] = IF m = n THEN Null ELSE next[m]
        /\ n \notin InList /\ n # HeadNode /\ n \notin Linked
    BY <1>d, <2>1 DEF TypeOK
  <2>3. Linked' = Linked /\ InList' = InList
    <3>1. Linked' = Linked
      BY <2>1, <2>2 DEF Linked, TypeOK
    <3> QED
      BY <3>1 DEF InList
  <2>4. Shape'
    BY <2>1, <2>2, <2>3 DEF Shape, TypeOK
  <2>5. /\ pc'[t] = "lock_head" /\ op'[t] = "push" /\ cur'[t] = n
        /\ seen' = seen /\ due' = due /\ mutex' = mutex
        /\ \A u \in Thread \ {t} : SameThread(u)
    BY <2>1 DEF TypeOK, SameThread
  <2>6. ASSUME NEW u \in Thread PROVE HoldsOf(u)'
    <3>1. CASE u = t
      BY <1>d, <2>1, <2>3, <2>5, <3>1 DEF HoldsOf
    <3>2. CASE u # t
      BY <1>d, <2>1, <2>2, <2>3, <2>5, <3>2 DEF HoldsOf, SameThread
    <3> QED
      BY <3>1, <3>2
  <2>7. \A u, v \in Thread : u # v => (Own(u) \cap Own(v) = {})'
    <3>1. Own(t)' = {n} /\ \A u \in Thread \ {t} : Own(u)' = Own(u)
      BY <2>5 DEF SameThread
    <3> HIDE DEF Own
    <3> QED
      BY <1>g, <1>h, <2>1, <3>1
  <2>8. ASSUME NEW u \in Thread PROVE SeenOf(u)' /\ OnItsWay(pos, u)'
    <3>1. n \notin due[u] /\ \A m \in due[u] : data'[m] = data[m]
      BY <1>d, <2>1 DEF SeenOf, TypeOK
    <3>a. Met(u)' = Met(u) /\ Ascending(pos, seen[u], due[u])'
      BY <1>l, <2>5
    <3>2. CASE u = t
      BY <2>3, <2>5, <3>1, <3>2, <3>a DEF SeenOf, OnItsWay, AheadOf, BehindOf
    <3>3. CASE u # t
      BY <1>n, <2>3, <2>5, <3>1, <3>3, <3>a
      DEF SeenOf, OnItsWay, AheadOf, BehindOf, SameThread
    <3> QED
      BY <3>2, <3>3
  <2>9. Ordered(pos)'
    BY <1>d, <2>2, <2>3 DEF Ordered, Numbering
  <2> QED
    BY <1>i, <2>4, <2>6, <2>7, <2>8, <2>9
<1>11. ASSUME NEW t \in Thread, PushLink(t) PROVE ListInv'
  <2> USE <1>11 DEF PushLink
  <2>1. PICK n \in Node : n = cur[t] /\ n \in live /\ n \notin Linked
    BY DEF HoldsOf, TypeOK
  <2>2. PICK h \in Node \cup {Null} : h = next[HeadNode]
    BY DEF TypeOK
  <2>3. /\ \A m \in Place : next'[m] = IF m = HeadNode THEN n
                                      ELSE IF m = n THEN h ELSE next[m]
        /\ n \notin InList /\ n # HeadNode /\ n # Null /\ next[n] = Null
        /\ mutex[HeadNode] = t
        /\ \A m \in Place : mutex'[m] = IF m = HeadNode THEN Null ELSE mutex[m]
        /\ cur' = cur /\ nxt' = nxt /\ op' = op /\ live' = live /\ data' = data
        /\ seen' = seen /\ due' = due
        /\ \A u \in Thread \ {t} : SameThread(u)
        /\ pc[t] = "link" /\ pc'[t] = "done" /\ op[t] = "push"
    BY <1>d, <2>1, <2>2 DEF TypeOK, HoldsOf, Shape, InList, SameThread
  <2> HIDE <1>11
  <2>4. Linked' = Linked \cup {n} /\ InList' = InList \cup {n}
    <3>a. live \subseteq Place /\ HeadNode \in Place
      BY DEF TypeOK
    <3>1. ASSUME NEW m \in Linked' PROVE m \in Linked \cup {n}
      <4>1. PICK x \in live \cup {HeadNode} : next'[x] = m /\ m \in Node
        BY <2>3, <3>1 DEF Linked
      <4> QED
        BY <2>1, <2>2, <2>3, <3>a, <4>1 DEF Linked
    <3>b. n \in Linked'
      BY <2>1, <2>3, <3>a DEF Linked
    <3>c. ASSUME NEW m \in Linked PROVE m \in Linked'
      <4>1. PICK x \in live \cup {HeadNode} : next[x] = m /\ m \in Node
        BY <3>c DEF Linked
      <4>2. next'[IF x = HeadNode THEN n ELSE x] = m
        BY <2>1, <2>2, <2>3, <3>a, <4>1
      <4> QED
        BY <2>1, <2>3, <4>1, <4>2 DEF Linked
    <3>2. Linked' = Linked \cup {n}
      BY <3>1, <3>b, <3>c
    <3> QED
      BY <3>2 DEF InList
  <2>5. Shape'
    BY <1>d, <2>1, <2>3, <2>4 DEF Shape, TypeOK
  <2>6. ASSUME NEW u \in Thread PROVE HoldsOf(u)'
    <3>1. CASE u = t
      BY <2>3, <3>1 DEF HoldsOf
    <3>2. CASE u # t
      <4>1. Pushing(u) => cur[u] # n
        BY <1>h, <2>1, <2>3, <3>2 DEF HoldsOf
      <4>2. pc[u] = "free" => nxt[u] # n /\ nxt[u] # HeadNode
        <5>1. Own(t) = {n} /\ (pc[u] = "free" => Own(u) = {nxt[u]})
          BY <2>1, <2>3
        <5>2. pc[u] = "free" => nxt[u] \in Node
          BY DEF HoldsOf, TypeOK
        <5> HIDE DEF Own
        <5> QED
          BY <1>c, <1>h, <3>2, <5>1, <5>2
      <4>3. /\ pc[u] # "link"
            /\ pc[u] \in UsesCur => cur[u] # HeadNode /\ cur[u] # n
        BY <2>3, <3>2 DEF HoldsOf
      <4>4. pc[u] \in {"visit", "test"} => nxt[u] # HeadNode
        BY <1>c, <1>d DEF HoldsOf, TypeOK
      <4> QED
        BY <1>d, <2>3, <2>4, <3>2, <4>1, <4>2, <4>3, <4>4
        DEF HoldsOf, SameThread, TypeOK
    <3> QED
      BY <3>1, <3>2
  <2>7. \A u, v \in Thread : u # v => (Own(u) \cap Own(v) = {})'
    <3>1. Own(t)' = {} /\ \A u \in Thread \ {t} : Own(u)' = Own(u)
      BY <2>3 DEF SameThread
    <3> HIDE DEF Own
    <3> QED
      BY <1>h, <3>1
  <2>8. PICK pos2 \in [Place -> Int] :
          \A m \in Place : pos2[m] = IF m = n THEN pos[HeadNode]
                                     ELSE IF m = HeadNode THEN pos[HeadNode] - 1
                                     ELSE pos[m]
    <3>1. [m \in Place |-> IF m = n THEN pos[HeadNode]
                           ELSE IF m = HeadNode THEN pos[HeadNode] - 1
                           ELSE pos[m]] \in [Place -> Int]
      BY <1>b
    <3> QED
      BY <3>1
  <2>9. \A u \in Thread : SeenOf(u)' /\ OnItsWay(pos2, u)'
    <3> SUFFICES ASSUME NEW u \in Thread PROVE SeenOf(u)' /\ OnItsWay(pos2, u)'
      OBVIOUS
    <3>a. \A m \in Linked : pos2[m] = pos[m]
      BY <1>d, <2>1, <2>8
    <3>b. Met(u)' = Met(u) /\ Ascending(pos2, seen[u], due[u])'
      <4>1. seen' = seen /\ due' = due /\ due[u] \subseteq Linked
        BY <2>3 DEF SeenOf
      <4>2. Met(u)' = Met(u) /\ Ascending(pos, seen[u], due[u])
        BY <1>b, <1>l, <4>1 DEF Numbering, OnItsWay
      <4> QED
        BY <3>a, <4>1, <4>2 DEF Ascending
    <3>1. CASE u = t
      BY <2>3, <2>4, <3>1, <3>b DEF SeenOf, OnItsWay, AheadOf, BehindOf
    <3>2. CASE u # t
      <4>1. SeenOf(u)'
        BY <2>3, <2>4, <3>2, <3>b DEF SeenOf, SameThread
      <4>2. /\ pc[u] \in UsesCur =>
                 cur[u] \in Linked /\ cur[u] # HeadNode /\ cur[u] # n
            /\ pc[u] = "visit" => nxt[u] \in Linked
        BY <1>d, <2>3, <3>2 DEF HoldsOf
      <4>3. /\ pos2[n] = pos[HeadNode] /\ \A m \in Linked : pos[HeadNode] < pos[m]
            /\ pos[HeadNode] \in Int /\ \A m \in Linked : pos[m] \in Int
        BY <1>b, <1>d, <2>1, <2>8 DEF Numbering, Ordered
      <4>4. AheadOf(pos2, u)'
        BY <1>n, <2>3, <3>2, <3>a, <3>b, <4>2 DEF AheadOf, SeenOf, SameThread
      <4>5. BehindOf(pos2, u)'
        BY <1>n, <2>3, <2>4, <3>2, <3>a, <3>b, <4>2, <4>3 DEF BehindOf, SameThread
      <4> QED
        BY <3>b, <4>1, <4>4, <4>5 DEF OnItsWay
    <3> QED
      BY <3>1, <3>2
  <2>10. Ordered(pos2)'
    <3>1. \A m \in Place : pos[m] \in Int /\ pos2[m] \in Int
      BY <1>b
    <3>2. /\ pos2[n] = pos[HeadNode] /\ pos2[HeadNode] = pos[HeadNode] - 1
          /\ \A m \in Linked : pos2[m] = pos[m] /\ pos[HeadNode] < pos[m] /\ m \in Place
          /\ n \in Place
      BY <1>b, <1>d, <2>1, <2>3, <2>8 DEF Ordered, Numbering
    <3>3. /\ Linked' = Linked \cup {n} /\ InList' = Linked \cup {HeadNode, n}
      BY <2>4 DEF InList
    <3>4. \A m \in Linked' : pos2[HeadNode] < pos2[m]
      BY <3>1, <3>2, <3>3
    <3>5. \A m, x \in InList' : pos2[m] = pos2[x] => m = x
      BY <1>b, <3>1, <3>2, <3>3 DEF Ordered, Numbering, InList
    <3>6. ASSUME NEW m \in InList', next'[m] = Null, NEW x \in InList'
          PROVE  pos2[x] <= pos2[m]
      <4>1. CASE m = n
        BY <1>b, <1>d, <2>2, <2>3, <3>1, <3>2, <3>3, <3>6, <4>1 DEF Ordered, Numbering, InList
      <4>2. CASE m \in Linked
        BY <1>b, <1>d, <2>1, <2>3, <3>1, <3>2, <3>3, <3>6, <4>2 DEF Ordered, Numbering, InList
      <4> QED
        BY <2>3, <3>3, <3>6, <4>1, <4>2
    <3>7. ASSUME NEW m \in InList', next'[m] # Null
          PROVE  /\ pos2[m] < pos2[next'[m]]
                 /\ \A x \in InList' : pos2[x] <= pos2[m] \/ pos2[next'[m]] <= pos2[x]
      <4>1. CASE m = HeadNode
        BY <2>3, <3>1, <3>2, <3>3, <4>1
      <4>2. CASE m = n
        <5>1. next'[m] = h /\ h # Null /\ h \in Linked
          BY <1>d, <2>2, <2>3, <3>2, <3>7, <4>2
        <5>2. \A x \in InList : pos[x] <= pos[HeadNode] \/ pos[h] <= pos[x]
          BY <1>b, <1>d, <2>2, <5>1 DEF Ordered, Numbering
        <5> QED
          BY <3>1, <3>2, <3>3, <4>2, <5>1, <5>2 DEF InList
      <4>3. CASE m \in Linked
        <5>1. next'[m] = next[m] /\ next[m] # Null /\ next[m] \in Linked
          BY <1>d, <2>1, <2>3, <3>2, <3>7, <4>3
        <5>2. /\ pos[m] < pos[next[m]]
              /\ \A x \in InList : pos[x] <= pos[m] \/ pos[next[m]] <= pos[x]
          BY <1>b, <1>d, <4>3, <5>1 DEF Ordered, Numbering
        <5> QED
          BY <3>1, <3>2, <3>3, <4>3, <5>1, <5>2 DEF InList
      <4> QED
        BY <3>3, <4>1, <4>2, <4>3
    <3> QED
      BY <3>4, <3>5, <3>6, <3>7 DEF Ordered
  <2> QED
    BY <1>i, <2>5, <2>6, <2>7, <2>9, <2>10
<1>12. ASSUME NEW t \in Thread, Unlink(t) PROVE ListInv'
  <2> USE <1>12 DEF Unlink
  <2>0. /\ Met(t)' = Met(t) \cup {nxt[t]}
        /\ \A u \in Thread \ {t} : Met(u)' = Met(u)
        /\ \A u \in Thread : Ascending(pos, seen[u], due[u])'
    <3>1. \A u \in Thread : due'[u] \subseteq due[u]
      OBVIOUS
    <3>2. \A u \in Thread \ {t} : seen'[u] = seen[u]
      BY DEF See, TypeOK
    <3> QED
      BY <1>k, <1>l, <3>1, <3>2
  <2>1. PICK x \in Node, y \in Node \cup {Null}, k \in Place :
          /\ x = nxt[t] /\ k = cur[t] /\ y = next[x] /\ next[k] = x
          /\ k \in InList /\ x \in Linked /\ mutex[k] = t /\ mutex[x] = t
          /\ op[t] = "remove"
    BY <1>d DEF HoldsOf, TypeOK
  <2>2. /\ pos[k] \in Int /\ pos[x] \in Int /\ pos[k] < pos[x] /\ k # x
        /\ x \in InList /\ x # HeadNode
    <3>1. pos[k] \in Int /\ pos[x] \in Int /\ pos[k] < pos[x]
      BY <1>b, <1>c, <1>d, <2>1 DEF Ordered, Numbering
    <3> QED
      BY <1>c, <1>d, <2>1, <3>1
  <2>3. /\ \A m \in Place : next'[m] = IF m = x THEN Null
                                      ELSE IF m = k THEN y ELSE next[m]
        /\ \A m \in Place : mutex'[m] = IF m = x THEN Null ELSE mutex[m]
        /\ cur' = cur /\ nxt' = nxt /\ op' = op /\ pred' = pred
        /\ live' = live /\ data' = data
        /\ pc[t] = "test" /\ pc'[t] = "free" /\ data[x] \in pred[t]
        /\ \A u \in Thread \ {t} : pc'[u] = pc[u] /\ seen'[u] = seen[u]
        /\ \A u \in Thread : due'[u] = due[u] \ {x}
        /\ Met(t)' = Met(t) \cup {x}
    BY <1>c, <2>0, <2>1, <2>2 DEF TypeOK, Matches, See
  <2> HIDE <1>12
  <2>4. Linked' = Linked \ {x} /\ InList' = InList \ {x}
    <3>a. live \subseteq Place /\ HeadNode \in Place
      BY DEF TypeOK
    <3>1. ASSUME NEW m \in live \cup {HeadNode}, next[m] = x PROVE m = k
      <4>1. m \in InList
        BY <2>1, <3>1 DEF Shape, InList
      <4> QED
        BY <1>b, <1>c, <2>1, <3>1, <4>1, OnePredecessor DEF Numbering
    <3>2. y # x
      BY <2>1, <2>2, <3>1, <1>d
    <3>3. ASSUME NEW m \in Linked' PROVE m \in Linked \ {x}
      <4>1. PICK z \in live \cup {HeadNode} : next'[z] = m /\ m \in Node
        BY <2>3, <3>3 DEF Linked
      <4>2. z # x
        BY <1>c, <2>3, <3>a, <4>1
      <4>3. CASE z = k
        BY <1>d, <2>1, <2>2, <2>3, <3>2, <3>a, <4>1, <4>2, <4>3 DEF Linked
      <4>4. CASE z # k
        BY <2>3, <3>1, <3>a, <4>1, <4>2, <4>4 DEF Linked
      <4> QED
        BY <4>3, <4>4
    <3>4. ASSUME NEW m \in Linked \ {x} PROVE m \in Linked'
      <4>1. PICK z \in live \cup {HeadNode} : next[z] = m /\ m \in Node
        BY <3>4 DEF Linked
      <4>2. z # k
        BY <2>1, <3>4, <4>1
      <4>3. k \in live \cup {HeadNode}
        BY <1>d, <2>1
      <4>4. next'[IF z = x THEN k ELSE z] = m
        BY <2>1, <2>2, <2>3, <3>a, <4>1, <4>2
      <4> QED
        BY <2>3, <4>1, <4>3, <4>4 DEF Linked
    <3>5. Linked' = Linked \ {x}
      BY <3>3, <3>4
    <3> QED
      BY <2>2, <3>5 DEF InList
  <2>5. Shape'
    <3>1. ASSUME NEW m \in live \ Linked' PROVE next'[m] = Null
      <4>1. m \in Place /\ m # HeadNode
        BY <1>c DEF TypeOK
      <4>2. CASE m = x
        BY <2>3, <4>1, <4>2
      <4>3. CASE m # x
        <5>1. m \notin Linked /\ m # k
          BY <1>d, <2>1, <2>4, <4>1, <4>3
        <5> QED
          BY <2>3, <4>1, <4>3, <5>1 DEF Shape
      <4> QED
        BY <4>2, <4>3
    <3> QED
      BY <1>d, <2>3, <2>4, <3>1 DEF Shape
  <2>6. ASSUME NEW u \in Thread PROVE HoldsOf(u)'
    <3>1. CASE u = t
      BY <1>c, <2>1, <2>2, <2>3, <2>4, <1>d, <3>1 DEF HoldsOf
    <3>2. CASE u # t
      <4>1. /\ pc[u] \in UsesCur => cur[u] # x /\ cur[u] # k
            /\ pc[u] \in {"visit", "test"} => nxt[u] # x
        BY <2>1, <3>2 DEF HoldsOf
      <4>2. pc[u] = "free" => nxt[u] \in Place
        BY DEF HoldsOf, TypeOK
      <4>3. pc[u] = "test" => nxt[u] \in Linked
        BY <1>d DEF HoldsOf, TypeOK
      <4>4. pc'[u] = pc[u]
        BY <2>3, <3>2
      <4> QED
        BY <1>c, <1>d, <2>2, <2>3, <2>4, <4>1, <4>2, <4>3, <4>4 DEF HoldsOf
    <3> QED
      BY <3>1, <3>2
  <2>7. \A u, v \in Thread : u # v => (Own(u) \cap Own(v) = {})'
    <3>1. Own(t)' = {x} /\ \A u \in Thread \ {t} : Own(u)' = Own(u)
      BY <2>1, <2>3
    <3> HIDE DEF Own
    <3> QED
      BY <1>g, <1>h, <2>1, <3>1
  <2>8. \A u \in Thread : SeenOf(u)' /\ OnItsWay(pos, u)'
    <3> SUFFICES ASSUME NEW u \in Thread PROVE SeenOf(u)' /\ OnItsWay(pos, u)'
      OBVIOUS
    <3>1. CASE u = t
      BY <1>n, <2>0, <2>1, <2>3, <2>4, <3>1
      DEF SeenOf, OnItsWay, AheadOf, BehindOf
    <3>2. CASE u # t
      BY <1>n, <2>0, <2>3, <2>4, <3>2 DEF SeenOf, OnItsWay, AheadOf, BehindOf
    <3> QED
      BY <3>1, <3>2
  <2>9. Ordered(pos)'
    <3>1. \A m \in InList : pos[m] \in Int /\ m \in Place
      BY <1>b, <1>d
    <3>2. \A m \in InList : pos[m] <= pos[k] \/ m = x \/ (pos[x] < pos[m] /\ m # k)
      <4>1. \A m \in InList : pos[m] <= pos[k] \/ pos[x] <= pos[m]
        BY <1>b, <1>c, <2>1 DEF Ordered, Numbering
      <4>2. \A m \in InList : pos[m] = pos[x] => m = x
        BY <1>b, <2>2 DEF Ordered, Numbering
      <4> QED
        BY <2>2, <3>1, <4>1, <4>2
    <3>3. ASSUME NEW m \in InList', next'[m] = Null, NEW z \in InList'
          PROVE  pos[z] <= pos[m]
      <4>1. CASE m = k
        <5>1. \A w \in InList : pos[w] <= pos[x]
          BY <1>b, <2>1, <2>2, <2>3, <2>4, <3>1, <3>3, <4>1 DEF Ordered, Numbering
        <5> QED
          BY <2>2, <2>4, <3>1, <3>2, <4>1, <5>1
      <4>2. CASE m # k
        BY <1>b, <2>3, <2>4, <3>1, <3>3, <4>2 DEF Ordered, Numbering
      <4> QED
        BY <4>1, <4>2
    <3>4. ASSUME NEW m \in InList', next'[m] # Null
          PROVE  /\ pos[m] < pos[next'[m]]
                 /\ \A z \in InList' : pos[z] <= pos[m] \/ pos[next'[m]] <= pos[z]
      <4>1. CASE m = k
        <5>1. next'[m] = y /\ y # Null /\ y \in InList
          BY <1>d, <2>1, <2>2, <2>3, <2>4, <3>1, <3>4, <4>1
        <5>2. pos[x] < pos[y] /\ \A z \in InList : pos[z] <= pos[x] \/ pos[y] <= pos[z]
          BY <1>b, <2>1, <2>2, <5>1 DEF Ordered, Numbering
        <5> QED
          BY <2>2, <2>4, <3>1, <3>2, <4>1, <5>1, <5>2
      <4>2. CASE m # k
        BY <1>b, <2>3, <2>4, <3>1, <3>4, <4>2 DEF Ordered, Numbering
      <4> QED
        BY <4>1, <4>2
    <3>5. /\ \A m \in Linked' : pos[HeadNode] < pos[m]
          /\ \A m, z \in InList' : pos[m] = pos[z] => m = z
      BY <1>b, <2>4 DEF Ordered, Numbering
    <3> QED
      BY <3>3, <3>4, <3>5 DEF Ordered
  <2> QED
    BY <1>b, <1>i, <2>5, <2>6, <2>7, <2>8, <2>9
<1>13. ASSUME NEW t \in Thread, FreeNode(t) PROVE ListInv'
  <2> USE <1>13 DEF FreeNode
  <2>1. PICK x \in Node :
          /\ x = nxt[t] /\ x \in live /\ x \notin Linked /\ next[x] = Null
          /\ op[t] = "remove"
    BY DEF HoldsOf, TypeOK, Shape
  <2>2. /\ live' = live \ {x} /\ next' = next /\ mutex' = mutex
        /\ \A m \in Node : m # x => data'[m] = data[m]
        /\ cur' = cur /\ nxt' = nxt /\ op' = op /\ pred' = pred
        /\ seen' = seen /\ due' = due
        /\ pc[t] = "free" /\ pc'[t] = "look"
        /\ \A u \in Thread \ {t} : SameThread(u)
    BY <2>1 DEF TypeOK, SameThread
  <2> HIDE <1>13
  <2>3. Linked' = Linked /\ InList' = InList
    <3>1. Linked' = Linked
      BY <1>c, <2>1, <2>2 DEF Linked
    <3> QED
      BY <3>1 DEF InList
  <2>4. Shape'
    BY <2>1, <2>2, <2>3 DEF Shape
  <2>5. ASSUME NEW u \in Thread PROVE HoldsOf(u)'
    <3>1. CASE u = t
      BY <2>2, <2>3, <3>1 DEF HoldsOf
    <3>2. CASE u # t
      <4>1. x \notin Own(u)
        <5>1. Own(t) = {x}
          BY <2>1, <2>2
        <5> HIDE DEF Own
        <5> QED
          BY <1>h, <3>2, <5>1
      <4> QED
        BY <2>2, <2>3, <3>2, <4>1 DEF HoldsOf, SameThread
    <3> QED
      BY <3>1, <3>2
  <2>6. \A u, v \in Thread : u # v => (Own(u) \cap Own(v) = {})'
    <3>1. Own(t)' = {} /\ \A u \in Thread \ {t} : Own(u)' = Own(u)
      BY <2>2 DEF SameThread
    <3> HIDE DEF Own
    <3> QED
      BY <1>h, <3>1
  <2>7. \A u \in Thread : SeenOf(u)' /\ OnItsWay(pos, u)'
    <3> SUFFICES ASSUME NEW u \in Thread PROVE SeenOf(u)' /\ OnItsWay(pos, u)'
      OBVIOUS
    <3>1. \A m \in due[u] : data'[m] = data[m]
      BY <1>d, <2>1, <2>2 DEF SeenOf
    <3>a. Met(u)' = Met(u) /\ Ascending(pos, seen[u], due[u])'
      BY <1>l, <2>2
    <3>2. CASE u = t
      BY <1>n, <2>2, <2>3, <3>1, <3>2, <3>a
      DEF SeenOf, OnItsWay, AheadOf, BehindOf
    <3>3. CASE u # t
      BY <1>n, <2>2, <2>3, <3>1, <3>3, <3>a
      DEF SeenOf, OnItsWay, AheadOf, BehindOf, SameThread
    <3> QED
      BY <3>2, <3>3
  <2>8. Ordered(pos)'
    BY <1>b, <2>2, <2>3 DEF Ordered, Numbering
  <2> QED
    BY <1>b, <1>i, <2>4, <2>5, <2>6, <2>7, <2>8
<1>14. CASE UNCHANGED vars
  <2> USE <1>14 DEF vars
  <2>1. Linked' = Linked /\ InList' = InList
    BY <1>e
  <2>2. Shape' /\ Ordered(pos)'
    BY <1>b, SameLinks, SameOrder DEF Numbering
  <2>3. ASSUME NEW u \in Thread PROVE HoldsOf(u)' /\ SeenOf(u)' /\ OnItsWay(pos, u)'
    <3>1. Met(u)' = Met(u) /\ Ascending(pos, seen[u], due[u])'
      BY <1>l
    <3> QED
      BY <1>n, <2>1, <3>1 DEF HoldsOf, SeenOf, OnItsWay, AheadOf, BehindOf
  <2>4. \A u, v \in Thread : u # v => (Own(u) \cap Own(v) = {})'
    BY <1>h
  <2> QED
    BY <1>b, <1>i, <2>2, <2>3, <2>4
<1> HIDE <1>a, <1>b, <1>c
<1> QED
  BY <1>1, <1>2, <1>3, <1>4, <1>5, <1>6, <1>7, <1>8, <1>9, <1>10, <1>11, <1>12,
     <1>13, <1>14 DEF Next, Begin, Step, Idle

(* At first the list is Initial, after head_.                               *)
LEMMA InitialLinks ==
  ASSUME Init
  PROVE  LET N == Len(Initial)
         IN  /\ N \in Nat /\ DOMAIN Initial = 1 .. N
             /\ next \in [Place -> Node \cup {Null}]
             /\ next[HeadNode] = (IF N = 0 THEN Null ELSE Initial[1])
             /\ \A i \in 1 .. N : next[Initial[i]] =
                                   (IF i = N THEN Null ELSE Initial[i + 1])
<1> DEFINE N == Len(Initial)
           list == <<HeadNode>> \o Initial \o <<Null>>
<1>1. /\ N \in Nat /\ DOMAIN Initial = 1 .. N
      /\ \A i \in 1 .. N : Initial[i] \in Node
      /\ HeadNode \notin Node /\ Null \notin Node /\ Null # HeadNode
      /\ \A i, j \in 1 .. N : Initial[i] = Initial[j] => i = j
  BY ListAssumption
<1>2. /\ Len(list) = N + 2
      /\ list[1] = HeadNode /\ list[N + 2] = Null
      /\ \A i \in 1 .. N : list[i + 1] = Initial[i]
  BY <1>1, ListAssumption
<1>3. /\ Len(list) - 1 = N + 1
      /\ next = [n \in Place |->
                IF \E i \in 1 .. N + 1 : list[i] = n
                THEN list[(CHOOSE i \in 1 .. N + 1 : list[i] = n) + 1]
                ELSE Null]
  <2>1. Len(list) - 1 = N + 1
    BY <1>1, <1>2
  <2>2. next = [n \in Place |->
                  IF \E i \in 1 .. Len(list) - 1 : list[i] = n
                  THEN list[(CHOOSE i \in 1 .. Len(list) - 1 : list[i] = n) + 1]
                  ELSE Null]
    BY DEF Init
  <2> QED
    BY <2>1, <2>2
<1>a. N \in Nat
  BY <1>1
<1> HIDE DEF list, N
<1>4. \A i \in 1 .. N + 1 : i = 1 \/ (i - 1 \in 1 .. N /\ (i - 1) + 1 = i)
  BY <1>a
<1>5. \A i \in 1 .. N + 1 : list[i] = (IF i = 1 THEN HeadNode ELSE Initial[i - 1])
  BY <1>2, <1>4
<1>6. \A i, j \in 1 .. N + 1 : list[i] = list[j] => i = j
  <2> SUFFICES ASSUME NEW i \in 1 .. N + 1, NEW j \in 1 .. N + 1, list[i] = list[j]
               PROVE  i = j
    OBVIOUS
  <2>1. i = 1 <=> j = 1
    BY <1>1, <1>4, <1>5
  <2>2. i # 1 => i - 1 = j - 1
    BY <1>1, <1>4, <1>5, <2>1
  <2> QED
    BY <1>a, <2>1, <2>2
<1>7. ASSUME NEW i \in 1 .. N + 1 PROVE next[list[i]] = list[i + 1]
  <2>1. list[i] \in Place
    BY <1>1, <1>4, <1>5 DEF Place
  <2>2. (CHOOSE j \in 1 .. N + 1 : list[j] = list[i]) = i
    BY <1>6
  <2> QED
    BY <1>3, <2>1, <2>2
<1>8. \A i \in 1 .. N + 1 : list[i + 1] \in Node \cup {Null}
  <2> SUFFICES ASSUME NEW i \in 1 .. N + 1 PROVE list[i + 1] \in Node \cup {Null}
    OBVIOUS
  <2>1. i \in 1 .. N \/ i = N + 1
    BY <1>a
  <2> QED
    BY <1>1, <1>2, <2>1
<1>9. next \in [Place -> Node \cup {Null}]
  <2>1. ASSUME NEW n \in Place PROVE next[n] \in Node \cup {Null}
    <3>1. CASE \E i \in 1 .. N + 1 : list[i] = n
      BY <1>7, <1>8, <3>1
    <3>2. CASE ~ \E i \in 1 .. N + 1 : list[i] = n
      BY <1>3, <3>2
    <3> QED
      BY <3>1, <3>2
  <2> QED
    BY <1>3, <2>1
<1>10. next[HeadNode] = (IF N = 0 THEN Null ELSE Initial[1])
  <2>1. 1 \in 1 .. N + 1 /\ (N # 0 => 1 \in 1 .. N)
    BY <1>a
  <2>2. next[HeadNode] = list[1 + 1]
    BY <1>2, <1>7, <2>1
  <2>3. N = 0 => list[1 + 1] = Null
    BY <1>2
  <2>4. N # 0 => list[1 + 1] = Initial[1]
    BY <1>2, <2>1
  <2> QED
    BY <2>2, <2>3, <2>4
<1>11. ASSUME NEW i \in 1 .. N
       PROVE  next[Initial[i]] = (IF i = N THEN Null ELSE Initial[i + 1])
  <2>1. i + 1 \in 1 .. N + 1 /\ (i # N => i + 1 \in 1 .. N)
    BY <1>a
  <2>2. next[Initial[i]] = list[(i + 1) + 1]
    BY <1>2, <1>7, <2>1
  <2>3. i = N => (i + 1) + 1 = N + 2
    BY <1>a
  <2> QED
    BY <1>2, <2>1, <2>2, <2>3
<1> QED
  BY <1>1, <1>9, <1>10, <1>11 DEF N

LEMMA ListInit == Init => ListInv
<1> SUFFICES ASSUME Init PROVE ListInv
  OBVIOUS
<1> DEFINE N == Len(Initial)
           Nodes == {Initial[i] : i \in 1 .. N}
           Index(m) == CHOOSE i \in 1 .. N : Initial[i] = m
           pos == [m \in Place |-> IF m \in Nodes THEN Index(m) ELSE 0]
<1>1. /\ N \in Nat /\ DOMAIN Initial = 1 .. N
      /\ next \in [Place -> Node \cup {Null}]
      /\ next[HeadNode] = (IF N = 0 THEN Null ELSE Initial[1])
      /\ \A i \in 1 .. N : next[Initial[i]] =
                            (IF i = N THEN Null ELSE Initial[i + 1])
  BY InitialLinks
<1>2. /\ \A i \in 1 .. N : Initial[i] \in Node
      /\ HeadNode \notin Node /\ Null \notin Node /\ Null # HeadNode
      /\ HeadNode \in Place /\ Node \subseteq Place
      /\ \A i, j \in 1 .. N : Initial[i] = Initial[j] => i = j
  <2>1. \A i \in 1 .. N : Initial[i] \in Node
    BY ListAssumption
  <2>2. \A i, j \in 1 .. N : Initial[i] = Initial[j] => i = j
    BY <1>1, ListAssumption
  <2>3. HeadNode \notin Node /\ Null \notin Node /\ Null # HeadNode
    BY ListAssumption
  <2> QED
    BY <2>1, <2>2, <2>3 DEF Place
<1>a. N \in Nat /\ live = Nodes
  BY <1>1 DEF Init
<1> HIDE DEF N
<1>3. \A i \in 1 .. N : i + 1 \in 1 .. N \/ i = N
  BY <1>a
<1>4. Linked = Nodes
  <2>1. live = Nodes
    BY <1>a
  <2>2. ASSUME NEW n \in Linked PROVE n \in Nodes
    <3>1. PICK m \in Nodes \cup {HeadNode} : next[m] = n /\ n \in Node
      BY <2>1, <2>2 DEF Linked
    <3>2. CASE m = HeadNode
      <4>1. N # 0 /\ n = Initial[1]
        BY <1>1, <1>2, <3>1, <3>2
      <4>2. 1 \in 1 .. N
        BY <1>a, <4>1
      <4> QED
        BY <4>1, <4>2
    <3>3. CASE m \in Nodes
      <4>1. PICK i \in 1 .. N : m = Initial[i]
        BY <3>3
      <4>2. next[m] = (IF i = N THEN Null ELSE Initial[i + 1])
        BY <1>1, <4>1
      <4>3. i + 1 \in 1 .. N /\ n = Initial[i + 1]
        BY <1>2, <1>3, <3>1, <4>2
      <4> QED
        BY <4>3
    <3> QED
      BY <3>1, <3>2, <3>3
  <2>3. ASSUME NEW i \in 1 .. N PROVE Initial[i] \in Linked
    <3>1. CASE i = 1
      <4>1. next[HeadNode] = Initial[i]
        <5>1. N # 0
          BY <1>a
        <5> QED
          BY <1>1, <3>1, <5>1
      <4> QED
        BY <1>2, <4>1 DEF Linked
    <3>2. CASE i # 1
      <4>1. /\ i - 1 \in 1 .. N /\ i - 1 # N /\ (i - 1) + 1 = i
        BY <1>a, <3>2
      <4>2. next[Initial[i - 1]] = Initial[i] /\ Initial[i - 1] \in live
        BY <1>1, <2>1, <4>1
      <4> QED
        BY <1>2, <4>2 DEF Linked
    <3> QED
      BY <3>1, <3>2
  <2> QED
    BY <2>2, <2>3
<1>5. TypeOK
  <2>1. live \subseteq Node
    BY <1>a, <1>2
  <2>2. next \in [Place -> Node \cup {Null}]
    BY <1>1
  <2>3. /\ pc = [t \in Thread |-> "idle"] /\ op = [t \in Thread |-> Null]
        /\ pred = [t \in Thread |-> {}] /\ cur = [t \in Thread |-> Null]
        /\ nxt = [t \in Thread |-> Null] /\ data = Content
        /\ mutex = [n \in Place |-> Null] /\ toCall = [t \in Thread |-> Calls]
        /\ seen = [t \in Thread |-> <<>>] /\ due = [t \in Thread |-> {}]
    BY DEF Init
  <2>4. Content \in [Node -> Value \cup {Null}] /\ Calls \in Nat
    BY ListAssumption
  <2> QED
    BY <2>1, <2>2, <2>3, <2>4 DEF TypeOK, Locations, UsesNext
<1>6. Shape
  BY <1>1, <1>4 DEF Init, Shape
<1>7. Holds
  BY DEF Init, Holds, HoldsOf, Own, Pushing, UsesCur
<1>8. \A t \in Thread : SeenOf(t) /\ OnItsWay(pos, t)
  BY ListAssumption
  DEF Init, SeenOf, OnItsWay, AheadOf, BehindOf, Ascending, Met, Range, UsesCur
<1>9. \A i \in 1 .. N : Index(Initial[i]) = i
  BY <1>2
<1>10. pos \in [Place -> Int]
  <2>1. \A m \in Nodes : Index(m) \in 1 .. N
    BY <1>9
  <2> HIDE DEF Index
  <2> QED
    BY <2>1
<1>11. pos[HeadNode] = 0 /\ \A i \in 1 .. N : pos[Initial[i]] = i
  BY <1>2, <1>9
<1> HIDE DEF pos, Index
<1>12. Ordered(pos)
  <2>1. InList = Nodes \cup {HeadNode}
    BY <1>4 DEF InList
  <2>2. \A n \in Linked : pos[HeadNode] < pos[n]
    BY <1>a, <1>4, <1>11
  <2>3. \A m, n \in InList : pos[m] = pos[n] => m = n
    BY <1>a, <1>11, <2>1
  <2>4. ASSUME NEW m \in InList, next[m] = Null, NEW n \in InList
        PROVE  pos[n] <= pos[m]
    <3>1. CASE m = HeadNode
      <4>1. N = 0
        <5>1. N # 0 => 1 \in 1 .. N
          BY <1>a
        <5> QED
          BY <1>1, <1>2, <2>4, <3>1, <5>1
      <4> QED
        BY <1>11, <2>1, <3>1, <4>1
    <3>2. CASE m \in Nodes
      <4>1. PICK i \in 1 .. N : m = Initial[i]
        BY <3>2
      <4>2. i = N
        BY <1>1, <1>2, <1>3, <2>4, <4>1
      <4> QED
        BY <1>a, <1>11, <2>1, <4>1, <4>2
    <3> QED
      BY <2>1, <3>1, <3>2
  <2>5. ASSUME NEW m \in InList, next[m] # Null
        PROVE  /\ pos[m] < pos[next[m]]
               /\ \A n \in InList : pos[n] <= pos[m] \/ pos[next[m]] <= pos[n]
    <3>1. CASE m = HeadNode
      <4>1. N # 0 /\ next[m] = Initial[1]
        BY <1>1, <2>5, <3>1
      <4>2. 1 \in 1 .. N
        BY <1>a, <4>1
      <4> QED
        BY <1>a, <1>11, <2>1, <3>1, <4>1, <4>2
    <3>2. CASE m \in Nodes
      <4>1. PICK i \in 1 .. N : m = Initial[i]
        BY <3>2
      <4>2. i + 1 \in 1 .. N /\ next[m] = Initial[i + 1]
        BY <1>1, <1>3, <2>5, <4>1
      <4> QED
        BY <1>a, <1>11, <2>1, <4>1, <4>2
    <3> QED
      BY <2>1, <3>1, <3>2
  <2> QED
    BY <2>2, <2>3, <2>4, <2>5 DEF Ordered
<1> QED
  BY <1>5, <1>6, <1>7, <1>8, <1>10, <1>12 DEF ListInv, Numbering

LEMMA ListInvHolds == Spec => []ListInv
  BY ListInit, ListNext, PTL DEF Spec

(* However many threads walk, push and remove at once, no walk ever stands  *)
(* on, waits for, or holds the mutex of a node that remove_if has freed.    *)
THEOREM NoWalkTouchesFreedNodes == Spec => []NoUseAfterFree
<1>1. ListInv => NoUseAfterFree
  <2> SUFFICES ASSUME ListInv PROVE NoUseAfterFree
    OBVIOUS
  <2>1. TypeOK /\ Shape /\ Holds
    BY DEF ListInv
  <2>2. /\ Linked \subseteq live /\ InList \subseteq live \cup {HeadNode}
        /\ HeadNode \notin Node /\ Null \notin Thread
        /\ \A m \in InList : next[m] # Null => next[m] \in Linked
    BY <2>1, LinkedFacts, ListAssumption DEF InList
  <2>3. ASSUME NEW t \in Thread
        PROVE  /\ pc[t] \in UsesNext => nxt[t] \in live
               /\ pc[t] \in UsesCur => cur[t] \in live \cup {HeadNode}
               /\ pc[t] \in UsesNext /\ pc[t] # "free" => nxt[t] \in Linked
               /\ pc[t] \in UsesCur => cur[t] \in InList
    <3>1. HoldsOf(t)
      BY <2>1 DEF Holds
    <3> QED
      BY <2>1, <2>2, <3>1 DEF HoldsOf, TypeOK, UsesNext, UsesCur
  <2>4. ASSUME NEW t \in Thread, pc[t] = "free"
        PROVE  /\ mutex[nxt[t]] = Null /\ nxt[t] \in Node \ Linked
               /\ \A u \in Thread \ {t} : pc[u] = "free" => nxt[u] # nxt[t]
    <3>1. mutex[nxt[t]] = Null /\ nxt[t] \in Node \ Linked
      BY <2>1, <2>4 DEF Holds, HoldsOf, TypeOK
    <3>2. \A u \in Thread : pc[u] = "free" => Own(u) = {nxt[u]}
      BY DEF Own, Pushing
    <3>3. \A u \in Thread \ {t} : Own(t) \cap Own(u) = {}
      BY <2>1 DEF Holds
    <3> QED
      BY <2>4, <3>1, <3>2, <3>3
  <2> QED
    BY <2>1, <2>2, <2>3, <2>4 DEF NoUseAfterFree, InList
<1> QED
  BY <1>1, ListInvHolds, PTL

LEMMA LeastNumber ==
  ASSUME NEW T \in SUBSET Nat, T # {}
  PROVE  \E i \in T : \A j \in T : i <= j
<1>1. PICK i \in T : \A j \in T : ~(<<j, i>> \in OpToRel(<, Nat))
  BY NatLessThanWellFounded, WFMin
<1>2. \A j \in T : j < i => <<j, i>> \in OpToRel(<, Nat)
  BY DEF OpToRel
<1>3. \A j \in T : ~(j < i)
  BY <1>1, <1>2
<1> QED
  BY <1>3

(* Of two nodes of the list the one with the higher number lies behind the  *)
(* other: the first node from m on that is not in a set closed under next   *)
(* would have a predecessor in it.                                          *)
LEMMA HigherIsBehind ==
  ASSUME TypeOK, Shape, NEW pos \in [Place -> Int], Ordered(pos),
         NEW m \in Linked, NEW n \in Linked, pos[m] < pos[n]
  PROVE  Behind(n, m)
<1>a. /\ Linked \subseteq InList /\ InList \subseteq Place
      /\ \A k \in InList : pos[k] \in Int
      /\ \A k \in Linked : \E p \in InList : next[p] = k
      /\ Linked \subseteq Node /\ HeadNode \notin Node /\ Null \notin Place
      /\ \A p \in InList : p = HeadNode \/ p \in Linked
  BY LinkedFacts DEF InList
<1> SUFFICES ASSUME NEW S \in SUBSET Node,
                    \A k \in S \cup {m} : next[k] \in S \cup {Null}
             PROVE  n \in S
  BY DEF Behind
<1> DEFINE Off(i) == \E k \in Linked : k \notin S /\ pos[k] = pos[m] + i /\ i > 0
           T == {i \in Nat : Off(i)}
<1> SUFFICES ASSUME n \notin S PROVE FALSE
  OBVIOUS
<1>1. T # {}
  <2>1. pos[n] - pos[m] \in Nat /\ Off(pos[n] - pos[m])
    BY <1>a
  <2> QED
    BY <2>1
<1>2. PICK i \in T : \A j \in T : i <= j
  <2> HIDE DEF T
  <2>1. T \subseteq Nat
    BY DEF T
  <2> QED
    BY <1>1, <2>1, LeastNumber
<1>3. PICK k \in Linked : k \notin S /\ pos[k] = pos[m] + i /\ i > 0
  BY <1>2
<1>4. PICK p \in InList : next[p] = k
  BY <1>a
<1>5. /\ k # Null /\ pos[p] < pos[k]
      /\ \A z \in InList : pos[z] <= pos[p] \/ pos[k] <= pos[z]
  BY <1>4, <1>a DEF Ordered
<1>6. pos[m] <= pos[p]
  BY <1>2, <1>3, <1>5, <1>a
<1>7. p \in Linked
  BY <1>6, <1>a DEF Ordered
<1>8. p = m \/ p \in S
  <2>1. CASE pos[p] = pos[m]
    BY <2>1, <1>a DEF Ordered
  <2>2. CASE pos[p] # pos[m]
    <3>1. pos[p] - pos[m] \in Nat /\ pos[p] - pos[m] > 0 /\ pos[p] - pos[m] < i
          /\ pos[p] = pos[m] + (pos[p] - pos[m])
      BY <1>2, <1>3, <1>5, <1>6, <1>7, <1>a, <2>2
    <3>2. p \notin S => Off(pos[p] - pos[m])
      BY <1>7, <3>1
    <3>3. ~ (pos[p] - pos[m] \in T)
      BY <1>2, <3>1
    <3> QED
      BY <3>1, <3>2, <3>3
  <2> QED
    BY <2>1, <2>2
<1> QED
  BY <1>3, <1>4, <1>5, <1>8

(* However many threads push and remove around it, a walk calls its         *)
(* function at most once on a node, on those linked all the time in the     *)
(* order of the list; a walk that comes to the end has missed none of them, *)
(* and left none that it should have removed or answered.                   *)
THEOREM WalksAreComplete == Spec => []WalkComplete
<1>1. ListInv => WalkComplete
  <2> SUFFICES ASSUME ListInv, NEW t \in Thread
               PROVE  /\ \A i, j \in DOMAIN seen[t] : i < j =>
                           /\ seen[t][i] # seen[t][j]
                           /\ {seen[t][i], seen[t][j]} \subseteq due[t] =>
                                Behind(seen[t][j], seen[t][i])
                      /\ pc[t] = "done" /\ op[t] # "push" =>
                           /\ due[t] \subseteq Range(seen[t])
                           /\ op[t] \in {"find", "remove"} =>
                                \A n \in due[t] : data[n] \notin pred[t]
    BY DEF WalkComplete
  <2>1. PICK pos \in [Place -> Int] : Numbering(pos)
    BY DEF ListInv
  <2>2. TypeOK /\ Shape /\ SeenOf(t) /\ Ordered(pos) /\ Ascending(pos, seen[t], due[t])
    BY <2>1 DEF ListInv, Numbering, OnItsWay
  <2>3. ASSUME NEW i \in DOMAIN seen[t], NEW j \in DOMAIN seen[t], i < j
        PROVE  /\ seen[t][i] # seen[t][j]
               /\ {seen[t][i], seen[t][j]} \subseteq due[t] =>
                    Behind(seen[t][j], seen[t][i])
    <3>1. /\ seen[t][i] # seen[t][j]
          /\ seen[t][i] \in due[t] /\ seen[t][j] \in due[t] =>
               pos[seen[t][i]] < pos[seen[t][j]]
      BY <2>2, <2>3 DEF Ascending
    <3>2. due[t] \subseteq Linked
      BY <2>2 DEF SeenOf
    <3> QED
      BY <2>1, <2>2, <3>1, <3>2, HigherIsBehind
  <2>4. pc[t] = "done" /\ op[t] # "push" =>
          /\ due[t] \subseteq Range(seen[t])
          /\ op[t] \in {"find", "remove"} =>
               \A n \in due[t] : data[n] \notin pred[t]
    BY <2>2 DEF SeenOf, Met
  <2> QED
    BY <2>3, <2>4
<1> QED
  BY <1>1, ListInvHolds, PTL

-----------------------------------------------------------------------------
(* ConcurrentMap: what find_if, push_back, assignment and list::erase do to *)
(* a bucket in which no key comes twice.                                    *)
Pairs == [first : Key, second : Value]

Unique(pairs) ==
  \A i, j \in 1 .. Len(pairs) : pairs[i].first = pairs[j].first => i = j

Lookup(pairs, k) ==
  IF Table!Position(pairs, k) = 0 THEN Null
  ELSE pairs[Table!Position(pairs, k)].second

LEMMA PositionIs ==
  ASSUME NEW pairs \in Seq(Pairs), Unique(pairs), NEW k,
         NEW i \in 1 .. Len(pairs), pairs[i].first = k
  PROVE  Table!Position(pairs, k) = i
<1> DEFINE I == {j \in 1 .. Len(pairs) : pairs[j].first = k}
<1>1. I = {i}
  BY DEF Unique
<1>2. Table!Min(I) = i
  BY <1>1 DEF Table!Min
<1> QED
  BY <1>1, <1>2 DEF Table!Position, Table!SelectInSeq

LEMMA PositionNone ==
  ASSUME NEW pairs \in Seq(Pairs), NEW k,
         \A i \in 1 .. Len(pairs) : pairs[i].first # k
  PROVE  Table!Position(pairs, k) = 0
BY DEF Table!Position, Table!SelectInSeq

LEMMA PositionFacts ==
  ASSUME NEW pairs \in Seq(Pairs), Unique(pairs), NEW k
  PROVE  \/ /\ Table!Position(pairs, k) = 0
            /\ \A i \in 1 .. Len(pairs) : pairs[i].first # k
         \/ /\ Table!Position(pairs, k) \in 1 .. Len(pairs)
            /\ pairs[Table!Position(pairs, k)].first = k
BY PositionIs, PositionNone

LEMMA ConcatFacts ==
  ASSUME NEW S, NEW l \in Seq(S), NEW r \in Seq(S)
  PROVE  /\ l \o r \in Seq(S) /\ Len(l \o r) = Len(l) + Len(r)
         /\ \A i \in 1 .. Len(l) : (l \o r)[i] = l[i]
         /\ \A i \in 1 .. Len(r) : (l \o r)[Len(l) + i] = r[i]
  OBVIOUS

LEMMA RemoveAtFacts ==
  ASSUME NEW S, NEW s \in Seq(S), NEW i \in 1 .. Len(s)
  PROVE  /\ Table!RemoveAt(s, i) \in Seq(S)
         /\ Len(Table!RemoveAt(s, i)) = Len(s) - 1
         /\ \A j \in 1 .. Len(s) - 1 :
              Table!RemoveAt(s, i)[j] = (IF j < i THEN s[j] ELSE s[j + 1])
<1> DEFINE l == SubSeq(s, 1, i - 1)
           r == SubSeq(s, i + 1, Len(s))
<1>1. Len(s) \in Nat /\ i \in Nat /\ i >= 1 /\ i <= Len(s)
  OBVIOUS
<1>2. /\ l \in Seq(S) /\ Len(l) = i - 1
      /\ \A j \in 1 .. i - 1 : l[j] = s[j]
  BY <1>1
<1>3. /\ r \in Seq(S) /\ Len(r) = Len(s) - i
      /\ \A j \in 1 .. Len(s) - i : r[j] = s[i + j]
  BY <1>1
<1> HIDE DEF l, r
<1>4. l \o r \in Seq(S) /\ Len(l \o r) = Len(s) - 1
  <2>1. l \o r \in Seq(S) /\ Len(l \o r) = Len(l) + Len(r)
    BY <1>2, <1>3, ConcatFacts
  <2> QED
    BY <1>1, <1>2, <1>3, <2>1
<1>5. \A j \in 1 .. i - 1 : (l \o r)[j] = s[j]
  BY <1>2, <1>3, ConcatFacts
<1>6. \A j \in 1 .. Len(s) - i : (l \o r)[(i - 1) + j] = s[i + j]
  BY <1>2, <1>3, ConcatFacts
<1>7. ASSUME NEW j \in 1 .. Len(s) - 1, ~ j < i
      PROVE  (l \o r)[j] = s[j + 1]
  <2> DEFINE m == j - (i - 1)
  <2>1. m \in 1 .. Len(s) - i /\ (i - 1) + m = j /\ i + m = j + 1
    BY <1>1, <1>7
  <2> HIDE DEF m
  <2> QED
    BY <1>6, <2>1
<1>8. \A j \in 1 .. Len(s) - 1 : j < i => j \in 1 .. i - 1
  BY <1>1
<1> QED
  BY <1>4, <1>5, <1>7, <1>8 DEF Table!RemoveAt, l, r

LEMMA LookupIs ==
  ASSUME NEW pairs \in Seq(Pairs), Unique(pairs), NEW k
  PROVE  /\ \A i \in 1 .. Len(pairs) :
              pairs[i].first = k => Lookup(pairs, k) = pairs[i].second
         /\ (\A i \in 1 .. Len(pairs) : pairs[i].first # k) => Lookup(pairs, k) = Null
<1>1. ASSUME NEW i \in 1 .. Len(pairs), pairs[i].first = k
      PROVE  Lookup(pairs, k) = pairs[i].second
  <2>1. Table!Position(pairs, k) = i /\ i # 0
    BY <1>1, PositionIs
  <2> QED
    BY <2>1 DEF Lookup
<1>2. ASSUME \A i \in 1 .. Len(pairs) : pairs[i].first # k
      PROVE  Lookup(pairs, k) = Null
  BY <1>2, PositionNone DEF Lookup
<1> QED
  BY <1>1, <1>2

(* Two buckets with the same entries for a key answer the same.             *)
LEMMA LookupSame ==
  ASSUME NEW s \in Seq(Pairs), Unique(s), NEW u \in Seq(Pairs), Unique(u), NEW k,
         \A i \in 1 .. Len(s) : s[i].first = k =>
           \E j \in 1 .. Len(u) : u[j] = s[i],
         \A j \in 1 .. Len(u) : u[j].first = k =>
           \E i \in 1 .. Len(s) : s[i] = u[j]
  PROVE  Lookup(u, k) = Lookup(s, k)
<1>1. CASE \E i \in 1 .. Len(s) : s[i].first = k
  <2>1. PICK i \in 1 .. Len(s) : s[i].first = k
    BY <1>1
  <2>2. PICK j \in 1 .. Len(u) : u[j] = s[i]
    BY <2>1
  <2> QED
    BY <2>1, <2>2, LookupIs
<1>2. CASE ~ \E i \in 1 .. Len(s) : s[i].first = k
  <2>1. \A j \in 1 .. Len(u) : u[j].first # k
    BY <1>2
  <2> QED
    BY <1>2, <2>1, LookupIs
<1> QED
  BY <1>1, <1>2

(* u is what becomes of bucket s when k is given v (Null: when it goes).    *)
Becomes(s, u, k, v) ==
  /\ u \in Seq(Pairs) /\ Unique(u)
  /\ Lookup(u, k) = v
  /\ \A k2 \in Key \ {k} : Lookup(u, k2) = Lookup(s, k2)

LEMMA PushBackBecomes ==
  ASSUME NEW s \in Seq(Pairs), Unique(s), NEW k \in Key, NEW v \in Value,
         Table!Position(s, k) = 0
  PROVE  Becomes(s, Append(s, Table!Pair(k, v)), k, v)
<1> DEFINE x == Table!Pair(k, v)
           u == Append(s, x)
           n == Len(s)
<1>1. x \in Pairs /\ x.first = k /\ x.second = v
  BY DEF Table!Pair, Pairs
<1>2. /\ u \in Seq(Pairs) /\ Len(u) = n + 1 /\ u[n + 1] = x /\ n \in Nat
      /\ \A i \in 1 .. n : u[i] = s[i]
  BY <1>1
<1>3. \A i \in 1 .. n : s[i].first # k
  BY PositionFacts
<1> HIDE DEF u, x, n
<1>4. \A i \in 1 .. Len(u) : i \in 1 .. n \/ i = n + 1
  BY <1>2
<1>5. 1 .. n \subseteq 1 .. Len(u) /\ n + 1 \in 1 .. Len(u)
  BY <1>2
<1>6. Unique(u)
  BY <1>1, <1>2, <1>3, <1>4 DEF Unique, n
<1>7. Lookup(u, k) = v
  BY <1>1, <1>2, <1>5, <1>6, LookupIs
<1>8. ASSUME NEW k2 \in Key \ {k} PROVE Lookup(u, k2) = Lookup(s, k2)
  <2>1. \A i \in 1 .. n : \E j \in 1 .. Len(u) : u[j] = s[i]
    BY <1>2, <1>5
  <2>2. \A j \in 1 .. Len(u) : u[j].first = k2 => \E i \in 1 .. n : s[i] = u[j]
    BY <1>1, <1>2, <1>4
  <2> QED
    BY <1>2, <1>6, <2>1, <2>2, LookupSame DEF n
<1> QED
  BY <1>2, <1>6, <1>7, <1>8 DEF Becomes, u, x

LEMMA AssignBecomes ==
  ASSUME NEW s \in Seq(Pairs), Unique(s), NEW k \in Key, NEW v \in Value,
         NEW i \in 1 .. Len(s), i = Table!Position(s, k)
  PROVE  Becomes(s, [s EXCEPT ![i].second = v], k, v)
<1> DEFINE u == [s EXCEPT ![i].second = v]
<1>1. s[i] \in Pairs /\ s[i].first = k
  BY PositionFacts
<1>2. /\ u \in Seq(Pairs) /\ Len(u) = Len(s)
      /\ u[i].first = k /\ u[i].second = v
      /\ \A j \in 1 .. Len(s) : j # i => u[j] = s[j]
  BY <1>1 DEF Pairs
<1> HIDE DEF u
<1>3. \A j \in 1 .. Len(s) : u[j].first = s[j].first
  BY <1>1, <1>2
<1>4. Unique(u)
  BY <1>2, <1>3 DEF Unique
<1>5. Lookup(u, k) = v
  BY <1>2, <1>4, LookupIs
<1>6. ASSUME NEW k2 \in Key \ {k} PROVE Lookup(u, k2) = Lookup(s, k2)
  <2>1. \A j \in 1 .. Len(s) : s[j].first = k2 \/ u[j].first = k2 => u[j] = s[j]
    BY <1>1, <1>2, <1>3
  <2> QED
    BY <1>2, <1>4, <2>1, LookupSame
<1> QED
  BY <1>2, <1>4, <1>5, <1>6 DEF Becomes, u

LEMMA EraseBecomes ==
  ASSUME NEW s \in Seq(Pairs), Unique(s), NEW k \in Key,
         NEW i \in 1 .. Len(s), i = Table!Position(s, k)
  PROVE  Becomes(s, Table!RemoveAt(s, i), k, Null)
<1> DEFINE u == Table!RemoveAt(s, i)
           n == Len(s)
<1>1. s[i].first = k /\ n \in Nat
  BY PositionFacts
<1>2. /\ u \in Seq(Pairs) /\ Len(u) = n - 1
      /\ \A j \in 1 .. n - 1 : u[j] = (IF j < i THEN s[j] ELSE s[j + 1])
  BY RemoveAtFacts
<1> HIDE DEF u
<1>3. ASSUME NEW j \in 1 .. Len(u)
      PROVE  \E m \in 1 .. n : /\ u[j] = s[m] /\ m # i
                               /\ m = (IF j < i THEN j ELSE j + 1)
  BY <1>1, <1>2
<1>4. ASSUME NEW m \in 1 .. n, m # i PROVE \E j \in 1 .. Len(u) : u[j] = s[m]
  <2>1. CASE m < i
    <3>1. m \in 1 .. n - 1
      BY <1>1, <2>1
    <3> QED
      BY <1>2, <2>1, <3>1
  <2>2. CASE ~ m < i
    <3>1. m - 1 \in 1 .. n - 1 /\ ~ (m - 1) < i /\ (m - 1) + 1 = m
      BY <1>1, <1>4, <2>2
    <3> QED
      BY <1>2, <3>1
  <2> QED
    BY <2>1, <2>2
<1>5. Unique(u)
  <2> SUFFICES ASSUME NEW j1 \in 1 .. Len(u), NEW j2 \in 1 .. Len(u),
                      u[j1].first = u[j2].first
               PROVE  j1 = j2
    BY DEF Unique
  <2>1. PICK m1 \in 1 .. n : u[j1] = s[m1] /\ m1 = (IF j1 < i THEN j1 ELSE j1 + 1)
    BY <1>3
  <2>2. PICK m2 \in 1 .. n : u[j2] = s[m2] /\ m2 = (IF j2 < i THEN j2 ELSE j2 + 1)
    BY <1>3
  <2>3. m1 = m2
    BY <2>1, <2>2 DEF Unique
  <2> QED
    BY <1>1, <1>2, <2>1, <2>2, <2>3
<1>6. Lookup(u, k) = Null
  <2>1. \A j \in 1 .. Len(u) : u[j].first # k
    BY <1>1, <1>3 DEF Unique
  <2> QED
    BY <1>2, <1>5, <2>1, LookupIs
<1>7. ASSUME NEW k2 \in Key \ {k} PROVE Lookup(u, k2) = Lookup(s, k2)
  <2>1. \A m \in 1 .. n : s[m].first = k2 => \E j \in 1 .. Len(u) : u[j] = s[m]
    BY <1>1, <1>4
  <2>2. \A j \in 1 .. Len(u) : \E m \in 1 .. n : s[m] = u[j]
    BY <1>3
  <2> QED
    BY <1>2, <1>5, <2>1, <2>2, LookupSame
<1> QED
  BY <1>2, <1>5, <1>6, <1>7 DEF Becomes, u

-----------------------------------------------------------------------------
(* ConcurrentMap: the invariant                                             *)
InBucket == {"find", "get", "set", "erase"}

TableType ==
  /\ mapPc \in [TableThread -> {"idle", "lock", "done"} \cup InBucket]
  /\ mapOp \in [TableThread -> {"get", "set", "erase", Null}]
  /\ mapKey \in [TableThread -> Key \cup {Null}]
  /\ mapVal \in [TableThread -> Value \cup {Null}]
  /\ mapIt \in [TableThread -> Nat]
  /\ mapData \in [Bucket -> Seq(Pairs)]
  /\ mapReaders \in [Bucket -> SUBSET TableThread]
  /\ mapWriter \in [Bucket -> TableThread \cup {Null}]

(* No key twice in a bucket, and who writes in one is alone there.          *)
BucketInv(b2) ==
  /\ Unique(mapData[b2])
  /\ mapWriter[b2] # Null => mapReaders[b2] = {}

(* What a call has in hand: its arguments, the lock it needs, and the place *)
(* of its key, which nobody has changed since find_if.                      *)
CallInv(t) ==
  /\ mapPc[t] = "idle" => mapVal[t] = Null
  /\ mapPc[t] # "idle" =>
       /\ mapKey[t] \in Key
       /\ mapOp[t] \in {"get", "set", "erase"}
       /\ mapOp[t] = "set" => mapVal[t] \in Value
       /\ mapOp[t] = "erase" => mapVal[t] = Null
       /\ mapOp[t] = "get" /\ mapPc[t] # "done" => mapVal[t] = Null
  /\ mapPc[t] \in InBucket =>
       IF mapOp[t] = "get" THEN t \in mapReaders[Hash[mapKey[t]]]
       ELSE mapWriter[Hash[mapKey[t]]] = t
  /\ mapPc[t] \in {"get", "set", "erase"} =>
       /\ mapOp[t] = mapPc[t]
       /\ mapIt[t] = Table!Position(mapData[Hash[mapKey[t]]], mapKey[t])

TableInv ==
  /\ TableType
  /\ \A b2 \in Bucket : BucketInv(b2)
  /\ \A t \in TableThread : CallInv(t)

LEMMA TableFacts ==
  /\ Hash \in [Key -> Bucket]
  /\ Null \notin Key /\ Null \notin Value /\ Null \notin TableThread
BY TableConstants DEF Table!MapAssumption

LEMMA TableInit == Table!Init => TableInv
<1> SUFFICES ASSUME Table!Init PROVE TableInv
  OBVIOUS
<1>1. TableType
  BY DEF Table!Init, TableType
<1>2. \A b2 \in Bucket : BucketInv(b2)
  BY DEF Table!Init, BucketInv, Unique
<1>3. \A t \in TableThread : CallInv(t)
  BY DEF Table!Init, CallInv, InBucket
<1> QED
  BY <1>1, <1>2, <1>3 DEF TableInv

(* How Set and Erase change the bucket of their key.                        *)
LEMMA SetBecomes ==
  ASSUME TableInv, NEW t \in TableThread, Table!Set(t)
  PROVE  /\ Hash[mapKey[t]] \in Bucket /\ mapKey[t] \in Key /\ mapVal[t] \in Value
         /\ \A b2 \in Bucket : b2 # Hash[mapKey[t]] => mapData'[b2] = mapData[b2]
         /\ Becomes(mapData[Hash[mapKey[t]]], mapData'[Hash[mapKey[t]]],
                    mapKey[t], mapVal[t])
         /\ mapData' \in [Bucket -> Seq(Pairs)]
<1>1. PICK b2 \in Bucket, k \in Key, v \in Value :
        /\ k = mapKey[t] /\ b2 = Hash[k] /\ v = mapVal[t]
        /\ mapIt[t] = Table!Position(mapData[b2], k)
  BY TableFacts DEF TableInv, CallInv, Table!Set
<1>2. /\ mapData \in [Bucket -> Seq(Pairs)] /\ mapData[b2] \in Seq(Pairs)
      /\ Unique(mapData[b2])
  BY DEF TableInv, TableType, BucketInv
<1> DEFINE u == IF mapIt[t] = 0 THEN Append(mapData[b2], Table!Pair(k, v))
                ELSE [mapData[b2] EXCEPT ![mapIt[t]].second = v]
<1>3. mapData' = [mapData EXCEPT ![b2] = u]
  BY <1>1 DEF Table!Set, Table!BucketOf
<1>4. Becomes(mapData[b2], u, k, v)
  <2>1. CASE mapIt[t] = 0
    BY <1>1, <1>2, <2>1, PushBackBecomes
  <2>2. CASE mapIt[t] # 0
    <3>1. mapIt[t] \in 1 .. Len(mapData[b2])
      BY <1>1, <1>2, <2>2, PositionFacts
    <3> QED
      BY <1>1, <1>2, <2>2, <3>1, AssignBecomes
  <2> QED
    BY <2>1, <2>2
<1> HIDE DEF u
<1>5. u \in Seq(Pairs)
  BY <1>4 DEF Becomes
<1> QED
  BY <1>1, <1>2, <1>3, <1>4, <1>5

LEMMA EraseChanges ==
  ASSUME TableInv, NEW t \in TableThread, Table!Erase(t)
  PROVE  /\ Hash[mapKey[t]] \in Bucket /\ mapKey[t] \in Key
         /\ \A b2 \in Bucket : b2 # Hash[mapKey[t]] => mapData'[b2] = mapData[b2]
         /\ Becomes(mapData[Hash[mapKey[t]]], mapData'[Hash[mapKey[t]]],
                    mapKey[t], Null)
         /\ mapData' \in [Bucket -> Seq(Pairs)]
<1>1. PICK b2 \in Bucket, k \in Key :
        /\ k = mapKey[t] /\ b2 = Hash[k]
        /\ mapIt[t] = Table!Position(mapData[b2], k)
  BY TableFacts DEF TableInv, CallInv, Table!Erase
<1>2. /\ mapData \in [Bucket -> Seq(Pairs)] /\ mapData[b2] \in Seq(Pairs)
      /\ Unique(mapData[b2])
  BY DEF TableInv, TableType, BucketInv
<1> DEFINE u == IF mapIt[t] = 0 THEN mapData[b2]
                ELSE Table!RemoveAt(mapData[b2], mapIt[t])
<1>3. mapData' = [mapData EXCEPT ![b2] = u]
  BY <1>1 DEF Table!Erase, Table!BucketOf
<1>4. Becomes(mapData[b2], u, k, Null)
  <2>1. CASE mapIt[t] = 0
    BY <1>1, <1>2, <2>1 DEF Becomes, Lookup
  <2>2. CASE mapIt[t] # 0
    <3>1. mapIt[t] \in 1 .. Len(mapData[b2])
      BY <1>1, <1>2, <2>2, PositionFacts
    <3> QED
      BY <1>1, <1>2, <2>2, <3>1, EraseBecomes
  <2> QED
    BY <2>1, <2>2
<1> HIDE DEF u
<1>5. u \in Seq(Pairs)
  BY <1>4 DEF Becomes
<1> QED
  BY <1>1, <1>2, <1>3, <1>4, <1>5

LEMMA TableNext == TableInv /\ [Table!Next]_(Table!vars) => TableInv'
<1> SUFFICES ASSUME TableInv, [Table!Next]_(Table!vars) PROVE TableInv'
  OBVIOUS
<1>a. /\ TableType
      /\ \A b2 \in Bucket : BucketInv(b2)
      /\ \A t \in TableThread : CallInv(t)
  BY DEF TableInv
<1>b. /\ Hash \in [Key -> Bucket]
      /\ Null \notin Key /\ Null \notin Value /\ Null \notin TableThread
  BY TableFacts
<1> USE <1>a, <1>b DEF Table!Goto, Table!BucketOf, Table!callVars, InBucket
<1>1. ASSUME NEW t \in TableThread, Table!Begin(t) PROVE TableInv'
  <2>0. PICK k \in Key, o \in {"get", "set", "erase"}, v \in Value \cup {Null} :
          /\ mapPc[t] = "idle" /\ mapPc' = [mapPc EXCEPT ![t] = "lock"]
          /\ mapOp' = [mapOp EXCEPT ![t] = o]
          /\ mapKey' = [mapKey EXCEPT ![t] = k]
          /\ mapVal' = [mapVal EXCEPT ![t] = v]
          /\ o = "set" => v \in Value
          /\ o # "set" => v = Null
          /\ UNCHANGED <<mapIt, mapData, mapReaders, mapWriter>>
    <3>1. PICK k \in Key : mapKey' = [mapKey EXCEPT ![t] = k]
      BY <1>1 DEF Table!Begin
    <3>2. /\ mapPc[t] = "idle" /\ mapPc' = [mapPc EXCEPT ![t] = "lock"]
          /\ UNCHANGED <<mapIt, mapData, mapReaders, mapWriter>>
          /\ mapVal[t] = Null
      BY <1>1 DEF Table!Begin, CallInv
    <3>3. CASE \E o \in {"get", "erase"} :
                 mapOp' = [mapOp EXCEPT ![t] = o] /\ UNCHANGED mapVal
      <4>1. PICK o \in {"get", "erase"} :
              mapOp' = [mapOp EXCEPT ![t] = o] /\ UNCHANGED mapVal
        BY <3>3
      <4>2. mapVal' = [mapVal EXCEPT ![t] = Null]
        BY <3>2, <4>1 DEF TableType
      <4> QED
        BY <3>1, <3>2, <4>1, <4>2
    <3>4. CASE /\ mapOp' = [mapOp EXCEPT ![t] = "set"]
               /\ \E v \in Value : mapVal' = [mapVal EXCEPT ![t] = v]
      BY <3>1, <3>2, <3>4
    <3> QED
      BY <1>1, <3>3, <3>4 DEF Table!Begin
  <2>1. TableType'
    BY <2>0 DEF TableType
  <2>2. \A b2 \in Bucket : BucketInv(b2)'
    BY <2>0 DEF BucketInv
  <2>3. \A u \in TableThread : CallInv(u)'
    BY <2>0 DEF CallInv, TableType
  <2> QED
    BY <2>1, <2>2, <2>3 DEF TableInv
<1>2. ASSUME NEW t \in TableThread, Table!Lock(t) PROVE TableInv'
  <2>0. PICK b2 \in Bucket : b2 = Hash[mapKey[t]]
    BY <1>2 DEF CallInv, Table!Lock
  <2>1. /\ mapPc[t] = "lock" /\ mapPc' = [mapPc EXCEPT ![t] = "find"]
        /\ UNCHANGED <<mapOp, mapKey, mapVal, mapIt, mapData>>
        /\ mapWriter[b2] = Null
        /\ \/ /\ mapOp[t] = "get"
              /\ mapReaders' = [mapReaders EXCEPT ![b2] = @ \cup {t}]
              /\ UNCHANGED mapWriter
           \/ /\ mapOp[t] # "get" /\ mapReaders[b2] = {}
              /\ mapWriter' = [mapWriter EXCEPT ![b2] = t]
              /\ UNCHANGED mapReaders
    BY <1>2, <2>0 DEF Table!Lock, Table!LockShared, Table!LockUnique
  <2>2. TableType'
    <3>1. mapReaders' \in [Bucket -> SUBSET TableThread]
      <4>1. mapReaders \in [Bucket -> SUBSET TableThread]
        BY DEF TableType
      <4>2. mapReaders[b2] \cup {t} \in SUBSET TableThread
        BY <4>1
      <4> HIDE <1>a, <1>b
      <4> QED
        BY <2>1, <4>1, <4>2
    <3>2. mapWriter' \in [Bucket -> TableThread \cup {Null}]
      BY <2>1 DEF TableType
    <3>3. mapPc' \in [TableThread -> {"idle", "lock", "done"} \cup InBucket]
      BY <2>1 DEF TableType
    <3>4. UNCHANGED <<mapOp, mapKey, mapVal, mapIt, mapData>>
      BY <2>1
    <3> QED
      BY <3>1, <3>2, <3>3, <3>4 DEF TableType
  <2>3. \A b3 \in Bucket : BucketInv(b3)'
    BY <2>1 DEF BucketInv, TableType
  <2>4. \A u \in TableThread : CallInv(u)'
    <3>1. /\ mapWriter \in [Bucket -> TableThread \cup {Null}]
          /\ mapReaders \in [Bucket -> SUBSET TableThread]
          /\ mapPc \in [TableThread -> {"idle", "lock", "done"} \cup InBucket]
      BY DEF TableType
    <3>2. CallInv(t)'
      BY <2>0, <2>1, <3>1 DEF CallInv
    <3>3. ASSUME NEW u \in TableThread, u # t PROVE CallInv(u)'
      <4>1. /\ mapPc'[u] = mapPc[u] /\ CallInv(u)
            /\ mapPc[u] # "idle" => Hash[mapKey[u]] \in Bucket
        BY <2>1, <3>1, <3>3 DEF CallInv
      <4>2. ASSUME NEW b3 \in Bucket
            PROVE  /\ u \in mapReaders[b3] => u \in mapReaders'[b3]
                   /\ mapWriter[b3] = u => mapWriter'[b3] = u
        BY <2>1, <3>1, <3>3, <1>b
      <4>3. UNCHANGED <<mapOp, mapKey, mapVal, mapIt, mapData>>
        BY <2>1
      <4>4. mapPc[u] \in InBucket =>
              IF mapOp[u] = "get" THEN u \in mapReaders'[Hash[mapKey[u]]]
              ELSE mapWriter'[Hash[mapKey[u]]] = u
        BY <4>1, <4>2 DEF CallInv
      <4> HIDE <1>a, <1>b
      <4> QED
        BY <4>1, <4>3, <4>4 DEF CallInv
    <3> QED
      BY <3>2, <3>3
  <2> QED
    BY <2>2, <2>3, <2>4 DEF TableInv
<1>3. ASSUME NEW t \in TableThread, Table!Find(t) PROVE TableInv'
  <2> USE <1>3 DEF Table!Find
  <2>1. PICK b2 \in Bucket : b2 = Hash[mapKey[t]]
    BY DEF CallInv
  <2>2. Table!Position(mapData[b2], mapKey[t]) \in Nat
    <3>1. mapData[b2] \in Seq(Pairs) /\ Unique(mapData[b2])
      BY DEF TableType, BucketInv
    <3> QED
      BY <3>1, PositionFacts
  <2>3. TableType'
    BY <2>1, <2>2 DEF TableType, CallInv
  <2>4. \A b3 \in Bucket : BucketInv(b3)'
    BY DEF BucketInv
  <2>5. \A u \in TableThread : CallInv(u)'
    BY DEF CallInv, TableType
  <2> QED
    BY <2>3, <2>4, <2>5 DEF TableInv
<1>4. ASSUME NEW t \in TableThread, Table!Get(t) PROVE TableInv'
  <2> USE <1>4 DEF Table!Get, Table!Finish, Table!Unlock
  <2>1. PICK b2 \in Bucket, k \in Key :
          /\ k = mapKey[t] /\ b2 = Hash[k]
          /\ mapIt[t] = Table!Position(mapData[b2], k)
          /\ mapOp[t] = "get" /\ t \in mapReaders[b2] /\ mapWriter[b2] = Null
    BY DEF CallInv, BucketInv
  <2>2. mapVal'[t] \in Value \cup {Null}
    <3>1. mapData[b2] \in Seq(Pairs) /\ Unique(mapData[b2])
      BY DEF TableType, BucketInv
    <3>2. mapIt[t] # 0 => mapData[b2][mapIt[t]] \in Pairs
      BY <2>1, <3>1, PositionFacts
    <3> QED
      BY <2>1, <3>2 DEF TableType, Pairs
  <2>3. TableType'
    BY <2>1, <2>2 DEF TableType
  <2>4. \A b3 \in Bucket : BucketInv(b3)'
    BY <2>1 DEF BucketInv, TableType
  <2>5. \A u \in TableThread : CallInv(u)'
    BY <2>1, <2>2 DEF CallInv, TableType
  <2> QED
    BY <2>3, <2>4, <2>5 DEF TableInv
<1>5. ASSUME NEW t \in TableThread, Table!Set(t) \/ Table!Erase(t) PROVE TableInv'
  <2>1. PICK b2 \in Bucket, k \in Key :
          /\ k = mapKey[t] /\ b2 = Hash[k]
          /\ mapWriter[b2] = t /\ mapReaders[b2] = {}
          /\ mapData' \in [Bucket -> Seq(Pairs)] /\ Unique(mapData'[b2])
          /\ \A b3 \in Bucket : b3 # b2 => mapData'[b3] = mapData[b3]
    <3>1. mapPc[t] \in {"set", "erase"}
      BY <1>5 DEF Table!Set, Table!Erase
    <3>2. /\ Hash[mapKey[t]] \in Bucket /\ mapKey[t] \in Key
          /\ mapData' \in [Bucket -> Seq(Pairs)]
          /\ Unique(mapData'[Hash[mapKey[t]]])
          /\ \A b3 \in Bucket : b3 # Hash[mapKey[t]] => mapData'[b3] = mapData[b3]
      BY <1>5, SetBecomes, EraseChanges DEF Becomes
    <3> QED
      BY <3>1, <3>2 DEF CallInv, BucketInv
  <2>2. /\ mapPc' = [mapPc EXCEPT ![t] = "done"] /\ mapPc[t] \in {"set", "erase"}
        /\ mapIt' = [mapIt EXCEPT ![t] = 0]
        /\ mapReaders' = [mapReaders EXCEPT ![b2] = @ \ {t}]
        /\ mapWriter' = [mapWriter EXCEPT ![b2] = Null]
        /\ UNCHANGED <<mapOp, mapKey, mapVal>>
    BY <1>5, <2>1 DEF Table!Set, Table!Erase, Table!Finish, Table!Unlock
  <2>3. TableType'
    BY <2>1, <2>2 DEF TableType
  <2>4. \A b3 \in Bucket : BucketInv(b3)'
    BY <2>1, <2>2 DEF BucketInv, TableType
  <2>5. ASSUME NEW u \in TableThread PROVE CallInv(u)'
    <3>1. CASE u = t
      BY <2>2, <3>1 DEF CallInv, TableType
    <3>2. CASE u # t
      <4>1. mapPc[u] \in InBucket => Hash[mapKey[u]] # b2 /\ Hash[mapKey[u]] \in Bucket
        BY <2>1, <3>2 DEF CallInv
      <4> QED
        BY <2>1, <2>2, <3>2, <4>1 DEF CallInv, TableType
    <3> QED
      BY <3>1, <3>2
  <2> QED
    BY <2>3, <2>4, <2>5 DEF TableInv
<1>6. ASSUME NEW t \in TableThread, Table!Return(t) PROVE TableInv'
  <2> USE <1>6 DEF Table!Return
  <2>1. TableType'
    BY DEF TableType
  <2>2. \A b2 \in Bucket : BucketInv(b2)'
    BY DEF BucketInv
  <2>3. \A u \in TableThread : CallInv(u)'
    BY DEF CallInv, TableType
  <2> QED
    BY <2>1, <2>2, <2>3 DEF TableInv
<1>7. CASE UNCHANGED Table!vars
  BY <1>7 DEF Table!vars, TableInv, TableType, BucketInv, CallInv
<1> HIDE <1>a, <1>b
<1> QED
  BY <1>1, <1>2, <1>3, <1>4, <1>5, <1>6, <1>7 DEF Table!Next, Table!Step

LEMMA TableSteps == [MCNext]_mcVars => [Table!Next]_(Table!vars)
BY DEF MCNext, mcVars, mapVars, Run, Table!vars, Table!callVars

LEMMA TableInvHolds == MCSpec => []TableInv
<1>1. MCInit => TableInv
  BY TableInit DEF MCInit
<1>2. TableInv /\ [MCNext]_mcVars => TableInv'
  BY TableNext, TableSteps
<1> QED
  BY <1>1, <1>2, PTL DEF MCSpec

-----------------------------------------------------------------------------
(* ConcurrentMap implements the atomic table.                               *)

TableCalls == [t \in TableThread |-> Table!CallOf(t)]

LEMMA TableCallChange ==
  ASSUME NEW t \in TableThread, NEW x, Table!CallOf(t)' = x,
         \A u \in TableThread \ {t} : Table!CallOf(u)' = Table!CallOf(u)
  PROVE  TableCalls' = [TableCalls EXCEPT ![t] = x]
BY DEF TableCalls

LEMMA ContentsAre ==
  /\ Table!Contents = [k \in Key |-> Lookup(mapData[Hash[k]], k)]
  /\ Table!Contents' = [k \in Key |-> Lookup(mapData'[Hash[k]], k)]
BY DEF Table!Contents, Lookup

(* A change of one bucket that concerns one key changes one value.          *)
LEMMA ContentsChange ==
  ASSUME TableInv, NEW k \in Key, NEW v,
         Becomes(mapData[Hash[k]], mapData'[Hash[k]], k, v),
         \A b2 \in Bucket : b2 # Hash[k] => mapData'[b2] = mapData[b2]
  PROVE  Table!Contents' = [Table!Contents EXCEPT ![k] = v]
<1>1. ASSUME NEW k2 \in Key, k2 # k
      PROVE  Lookup(mapData'[Hash[k2]], k2) = Lookup(mapData[Hash[k2]], k2)
  <2>1. CASE Hash[k2] = Hash[k]
    BY <1>1, <2>1 DEF Becomes
  <2>2. CASE Hash[k2] # Hash[k]
    BY <1>1, <2>2, TableFacts
  <2> QED
    BY <2>1, <2>2
<1>2. Lookup(mapData'[Hash[k]], k) = v
  BY DEF Becomes
<1> QED
  BY <1>1, <1>2, ContentsAre

LEMMA TableNextImplements ==
  TableInv /\ [Table!Next]_(Table!vars) => [Table!LM!Next]_(Table!LM!vars)
<1> SUFFICES ASSUME TableInv, [Table!Next]_(Table!vars)
             PROVE  [Table!LM!Next]_(Table!LM!vars)
  OBVIOUS
<1>a. /\ TableType
      /\ \A t \in TableThread : CallInv(t)
  BY DEF TableInv
<1> DEFINE InCall(st, k, v) == [st |-> st, key |-> k, val |-> v]
<1>b. ASSUME mapData' = mapData,
             \A u \in TableThread : Table!CallOf(u)' = Table!CallOf(u)
      PROVE  UNCHANGED Table!LM!vars
  BY <1>b, ContentsAre DEF Table!LM!vars
<1>c. ASSUME NEW t \in TableThread, NEW x, Table!CallOf(t)' = x,
             \A u \in TableThread \ {t} : Table!CallOf(u)' = Table!CallOf(u)
      PROVE  Table!LM!Move(t, x)
  BY <1>c, TableCallChange DEF Table!LM!Move, TableCalls
<1>d. ASSUME mapData' = mapData PROVE Table!Contents' = Table!Contents
  BY <1>d, ContentsAre
<1>e. ASSUME NEW u \in TableThread, mapPc'[u] = mapPc[u], mapOp'[u] = mapOp[u],
             mapKey'[u] = mapKey[u], mapVal'[u] = mapVal[u]
      PROVE  Table!CallOf(u)' = Table!CallOf(u)
  BY <1>e DEF Table!CallOf
<1> USE DEF Table!Goto, Table!callVars
<1>1. ASSUME NEW t \in TableThread, Table!Begin(t) PROVE Table!LM!Invoke(t)
  <2> USE <1>1 DEF Table!Begin
  <2>1. \A u \in TableThread \ {t} : Table!CallOf(u)' = Table!CallOf(u)
    <3>1. \A u \in TableThread \ {t} :
            /\ mapPc'[u] = mapPc[u] /\ mapOp'[u] = mapOp[u]
            /\ mapKey'[u] = mapKey[u] /\ mapVal'[u] = mapVal[u]
      BY <1>a DEF TableType
    <3> QED
      BY <3>1, <1>e
  <2>2. Table!CallOf(t) = Table!LM!Idle
    BY DEF Table!CallOf, Table!LM!Idle, Table!LM!Call
  <2>3. Table!Contents' = Table!Contents
    BY <1>d
  <2>4. PICK k \in Key : mapKey' = [mapKey EXCEPT ![t] = k]
    OBVIOUS
  <2>5. /\ mapPc'[t] = "lock" /\ mapKey'[t] = k
        /\ Table!CallOf(t)' = InCall(mapOp'[t], k, mapVal'[t])
    BY <2>4, <1>a DEF TableType, Table!CallOf
  <2>6. \/ mapOp'[t] \in {"get", "erase"} /\ mapVal'[t] = Null
        \/ mapOp'[t] = "set" /\ mapVal'[t] \in Value
    BY <1>a DEF TableType, CallInv
  <2>7. Table!LM!Move(t, InCall(mapOp'[t], k, mapVal'[t]))
    BY <1>c, <2>1, <2>5
  <2>8. \/ Table!LM!Move(t, InCall("get", k, Null))
        \/ Table!LM!Move(t, InCall("erase", k, Null))
        \/ \E v \in Value : Table!LM!Move(t, InCall("set", k, v))
    BY <2>6, <2>7
  <2> QED
    BY <2>2, <2>3, <2>8 DEF Table!LM!Invoke, Table!LM!Call
<1>2. ASSUME NEW t \in TableThread, Table!Lock(t) \/ Table!Find(t)
      PROVE  UNCHANGED Table!LM!vars
  <2>1. /\ mapData' = mapData /\ mapOp' = mapOp /\ mapKey' = mapKey /\ mapVal' = mapVal
        /\ mapPc[t] \in {"lock", "find"} /\ mapPc'[t] \notin {"idle", "done"}
        /\ \A u \in TableThread \ {t} : mapPc'[u] = mapPc[u]
    BY <1>a, <1>2 DEF Table!Lock, Table!Find, TableType, CallInv
  <2>2. \A u \in TableThread \ {t} : Table!CallOf(u)' = Table!CallOf(u)
    BY <1>e, <2>1
  <2>3. Table!CallOf(t)' = Table!CallOf(t)
    BY <2>1 DEF Table!CallOf
  <2> QED
    BY <1>b, <2>1, <2>2, <2>3
<1>3. ASSUME NEW t \in TableThread,
             \/ Table!Get(t) \/ Table!Set(t) \/ Table!Erase(t)
      PROVE  /\ mapPc[t] \in {"get", "set", "erase"} /\ mapOp[t] = mapPc[t]
             /\ Table!CallOf(t).st = mapPc[t]
             /\ Table!CallOf(t).key = mapKey[t] /\ Table!CallOf(t).val = mapVal[t]
             /\ Table!LM!Move(t, InCall("ret", mapKey[t], mapVal'[t]))
  <2>1. /\ mapPc[t] \in {"get", "set", "erase"} /\ mapPc' = [mapPc EXCEPT ![t] = "done"]
        /\ mapOp' = mapOp /\ mapKey' = mapKey
        /\ \A u \in TableThread \ {t} : mapVal'[u] = mapVal[u]
    BY <1>a, <1>3 DEF Table!Get, Table!Set, Table!Erase, Table!Finish, TableType
  <2>2. \A u \in TableThread \ {t} : Table!CallOf(u)' = Table!CallOf(u)
    BY <1>a, <1>e, <2>1 DEF TableType
  <2>3. mapOp[t] = mapPc[t]
    BY <1>a, <2>1 DEF CallInv
  <2>4. /\ Table!CallOf(t) = InCall(mapPc[t], mapKey[t], mapVal[t])
        /\ Table!CallOf(t)' = InCall("ret", mapKey[t], mapVal'[t])
    BY <1>a, <2>1, <2>3 DEF TableType, Table!CallOf
  <2> QED
    BY <1>c, <2>1, <2>2, <2>3, <2>4
<1>4. ASSUME NEW t \in TableThread, Table!Get(t) PROVE Table!LM!Get(t)
  <2>1. mapData' = mapData /\ mapPc[t] = "get" /\ mapKey[t] \in Key
    BY <1>a, <1>4 DEF Table!Get, CallInv
  <2>2. mapVal'[t] = Table!Contents[mapKey[t]]
    <3>1. mapIt[t] = Table!Position(mapData[Hash[mapKey[t]]], mapKey[t])
      BY <1>a, <2>1 DEF CallInv
    <3> QED
      BY <1>a, <1>4, <2>1, <3>1
      DEF Table!Get, Table!BucketOf, Table!Contents, TableType
  <2> QED
    BY <1>3, <1>4, <1>d, <2>1, <2>2 DEF Table!LM!Get, Table!LM!Call
<1>5. ASSUME NEW t \in TableThread, Table!Set(t) PROVE Table!LM!Set(t)
  <2>1. mapVal' = mapVal /\ mapPc[t] = "set"
    BY <1>5 DEF Table!Set
  <2>2. Table!Contents' = [Table!Contents EXCEPT ![mapKey[t]] = mapVal[t]]
    BY <1>5, SetBecomes, ContentsChange
  <2> QED
    BY <1>3, <1>5, <2>1, <2>2 DEF Table!LM!Set, Table!LM!Call
<1>6. ASSUME NEW t \in TableThread, Table!Erase(t) PROVE Table!LM!Erase(t)
  <2>1. mapVal' = mapVal /\ mapPc[t] = "erase" /\ mapVal[t] = Null
    <3>1. mapVal' = mapVal /\ mapPc[t] = "erase"
      BY <1>6 DEF Table!Erase
    <3> QED
      BY <1>a, <3>1 DEF CallInv
  <2>2. Table!Contents' = [Table!Contents EXCEPT ![mapKey[t]] = Null]
    BY <1>6, EraseChanges, ContentsChange
  <2> QED
    BY <1>3, <1>6, <2>1, <2>2 DEF Table!LM!Erase, Table!LM!Call
<1>7. ASSUME NEW t \in TableThread, Table!Return(t) PROVE Table!LM!Return(t)
  <2>1. /\ mapData' = mapData /\ mapPc[t] = "done" /\ mapPc'[t] = "idle"
        /\ \A u \in TableThread \ {t} :
             /\ mapPc'[u] = mapPc[u] /\ mapOp'[u] = mapOp[u]
             /\ mapKey'[u] = mapKey[u] /\ mapVal'[u] = mapVal[u]
    BY <1>a, <1>7 DEF Table!Return, TableType
  <2>2. \A u \in TableThread \ {t} : Table!CallOf(u)' = Table!CallOf(u)
    BY <1>e, <2>1
  <2>3. Table!CallOf(t).st = "ret" /\ Table!CallOf(t)' = Table!LM!Idle
    BY <2>1 DEF Table!CallOf, Table!LM!Idle, Table!LM!Call
  <2> QED
    BY <1>c, <1>d, <2>1, <2>2, <2>3 DEF Table!LM!Return
<1>8. CASE UNCHANGED Table!vars
  <2>1. \A u \in TableThread : Table!CallOf(u)' = Table!CallOf(u)
    BY <1>8 DEF Table!vars, Table!CallOf
  <2> QED
    BY <1>8, <1>b, <2>1 DEF Table!vars
<1>9. ASSUME NEW t \in TableThread,
             \/ Table!LM!Invoke(t) \/ Table!LM!Get(t) \/ Table!LM!Set(t)
             \/ Table!LM!Erase(t) \/ Table!LM!Return(t)
      PROVE  Table!LM!Next
  BY <1>9 DEF Table!LM!Next
<1> QED
  BY <1>1, <1>2, <1>4, <1>5, <1>6, <1>7, <1>8, <1>9 DEF Table!Next, Table!Step

(* Every get, set and erase takes effect at once, for any keys, values,     *)
(* threads and buckets and whatever the hash function is, with readers that *)
(* share the lock of a bucket.                                              *)
THEOREM TableIsLinearizable == MCSpec => ImplementsLinMap
<1>1. MCInit => Table!LM!Init
  <2> SUFFICES ASSUME MCInit PROVE Table!LM!Init
    OBVIOUS
  <2>1. Table!Init
    BY DEF MCInit
  <2>2. \A t \in TableThread : Table!CallOf(t) = Table!LM!Idle
    BY <2>1 DEF Table!Init, Table!CallOf, Table!LM!Idle, Table!LM!Call
  <2>3. \A k \in Key : Lookup(mapData[Hash[k]], k) = Null
    <3>1. \A k \in Key : mapData[Hash[k]] = <<>>
      BY <2>1, TableFacts DEF Table!Init
    <3>2. <<>> \in Seq(Pairs) /\ Unique(<<>>) /\ Len(<<>>) = 0
      BY DEF Unique
    <3> QED
      <4>1. ASSUME NEW k PROVE Lookup(<<>>, k) = Null
        <5> DEFINE none == <<>>
        <5>1. none \in Seq(Pairs) /\ Unique(none) /\ Len(none) = 0
          BY <3>2
        <5> HIDE DEF none
        <5>2. \A i \in 1 .. Len(none) : none[i].first # k
          BY <5>1
        <5>3. Lookup(none, k) = Null
          BY <5>1, <5>2, LookupIs
        <5> QED
          BY <5>3 DEF none
      <4> QED
        BY <3>1, <4>1
  <2> QED
    BY <2>2, <2>3, ContentsAre DEF Table!LM!Init
<1>2. TableInv /\ [MCNext]_mcVars => [Table!LM!Next]_(Table!LM!vars)
  BY TableNextImplements, TableSteps
<1>3. MCSpec => Table!LM!Init /\ [][Table!LM!Next]_(Table!LM!vars)
  BY <1>1, <1>2, TableInvHolds, PTL DEF MCSpec
<1> QED
  BY <1>3 DEF ImplementsLinMap, Table!ImplementsLinMap, Table!LM!Spec
=============================================================================
