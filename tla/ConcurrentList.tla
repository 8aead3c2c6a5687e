---------------------------- MODULE ConcurrentList ----------------------------
(***************************************************************************)
(* ConcurrentList<T> of src/thread-safe/list.cpp: a singly linked list with *)
(* a mutex in every node.  The walks (for_each, find_first_if, remove_if)  *)
(* lock a node before they let go of the one before it, and remove_if      *)
(* frees nodes while other threads walk.                                   *)
(***************************************************************************)
EXTENDS Naturals, Sequences, Functions

CONSTANTS
  Thread,   \* the threads that use the list
  Node,     \* the addresses nodes can be allocated at (bounds the memory)
  Value,    \* the values that are pushed
  HeadNode,     \* head_, the node that is part of the list object
  Initial,  \* the nodes in the list when the threads start, first one first
  Content,  \* the values of these nodes; Null for the others
  Calls,    \* bound: how many calls each thread makes
  Null      \* the null pointer; no thread; no value

ASSUME ListAssumption ==
  /\ HeadNode \notin Node
  /\ Null \notin Node \cup Value \cup Thread \cup {HeadNode}
  /\ Initial \in Seq(Node)
  /\ \A i, j \in DOMAIN Initial : Initial[i] = Initial[j] => i = j
  /\ Content \in [Node -> Value \cup {Null}]
  /\ \A n \in Node : Content[n] # Null <=> \E i \in DOMAIN Initial : Initial[i] = n
  /\ Calls \in Nat

VARIABLES
  pc,      \* where each thread is in a call
  op,      \* the call it is in
  pred,    \* the values for which the F of find_first_if, remove_if is true
  cur,     \* cur of a walk, the new node t of push_front
  nxt,     \* next of a walk
  next,    \* Node::next of every node
  data,    \* Node::data of every node
  mutex,   \* owner of Node::m of every node
  live,    \* the nodes that are allocated
  toCall,  \* calls each thread has not made yet
  seen,    \* history: nodes the walk has called its function on, in that order
  due      \* history: nodes that have been linked since the walk was called

walkVars == <<op, pred, cur, nxt>>
listVars == <<next, data, mutex, live>>
vars == <<pc, walkVars, listVars, toCall, seen, due>>

Place == Node \cup {HeadNode}
Set(f, x, y) == [f EXCEPT ![x] = y]
Goto(t, l) == pc' = Set(pc, t, l)

Linked == {n \in Node : \E m \in live \cup {HeadNode} : next[m] = n}

Init ==
  /\ pc = [t \in Thread |-> "idle"]
  /\ op = [t \in Thread |-> Null]
  /\ pred = [t \in Thread |-> {}]
  /\ cur = [t \in Thread |-> Null]
  /\ nxt = [t \in Thread |-> Null]
  /\ LET list == <<HeadNode>> \o Initial \o <<Null>>
     IN  next = [n \in Place |->
                   IF \E i \in 1 .. Len(list) - 1 : list[i] = n
                   THEN list[(CHOOSE i \in 1 .. Len(list) - 1 : list[i] = n) + 1]
                   ELSE Null]
  /\ live = {Initial[i] : i \in DOMAIN Initial}
  /\ data = Content
  /\ mutex = [n \in Place |-> Null]
  /\ toCall = [t \in Thread |-> Calls]
  /\ seen = [t \in Thread |-> <<>>]
  /\ due = [t \in Thread |-> {}]

-----------------------------------------------------------------------------
(* push_front                                                               *)

PushBegin(t) ==
  /\ pc[t] = "idle" /\ toCall[t] > 0
  /\ \E n \in Node \ live, x \in Value :
       /\ cur' = Set(cur, t, n)
       /\ live' = live \cup {n}
       /\ data' = Set(data, n, x)
       /\ next' = Set(next, n, Null)
  /\ op' = Set(op, t, "push")
  /\ toCall' = Set(toCall, t, toCall[t] - 1)
  /\ Goto(t, "lock_head")
  /\ UNCHANGED <<pred, nxt, mutex, seen, due>>

(* t->next = std::move(head_.next), head_.next = std::move(t), and the      *)
(* lock_guard releases head_.m.                                             *)
PushLink(t) ==
  /\ pc[t] = "link"
  /\ next' = [next EXCEPT ![cur[t]] = next[HeadNode], ![HeadNode] = cur[t]]
  /\ mutex' = Set(mutex, HeadNode, Null)
  /\ Goto(t, "done")
  /\ UNCHANGED <<walkVars, data, live, toCall, seen, due>>

-----------------------------------------------------------------------------
(* The walks                                                                *)

WalkBegin(t) ==
  /\ pc[t] = "idle" /\ toCall[t] > 0
  /\ \/ op' = Set(op, t, "each") /\ UNCHANGED pred
     \/ /\ \E kind \in {"find", "remove"} : op' = Set(op, t, kind)
        /\ \E p \in SUBSET Value \ {{}} : pred' = Set(pred, t, p)
  /\ cur' = Set(cur, t, HeadNode)
  /\ toCall' = Set(toCall, t, toCall[t] - 1)
  /\ due' = Set(due, t, Linked)
  /\ Goto(t, "lock_head")
  /\ UNCHANGED <<nxt, listVars, seen>>

(* head_.m is locked, by push_front or by a walk.                           *)
LockHead(t) ==
  /\ pc[t] = "lock_head"
  /\ mutex[HeadNode] = Null
  /\ mutex' = Set(mutex, HeadNode, t)
  /\ Goto(t, IF op[t] = "push" THEN "link" ELSE "look")
  /\ UNCHANGED <<walkVars, next, data, live, toCall, seen, due>>

(* Mutant of Look: the lock on cur is released before the one on its        *)
(* successor is taken.                                                      *)
LookReleases(t) ==
  /\ pc[t] = "look"
  /\ next[cur[t]] # Null
  /\ nxt' = Set(nxt, t, next[cur[t]])
  /\ mutex' = Set(mutex, cur[t], Null)
  /\ Goto(t, "lock_next")
  /\ UNCHANGED <<op, pred, cur, next, data, live, toCall, seen, due>>

(* next = cur->next.get() is not null.                                      *)
Look(t) ==
  /\ pc[t] = "look"
  /\ next[cur[t]] # Null
  /\ nxt' = Set(nxt, t, next[cur[t]])
  /\ Goto(t, "lock_next")
  /\ UNCHANGED <<op, pred, cur, listVars, toCall, seen, due>>

(* Mutant of Finish: the last lock is kept.                                 *)
FinishKeepsLock(t) ==
  /\ pc[t] = "look"
  /\ next[cur[t]] = Null
  /\ Goto(t, "done")
  /\ UNCHANGED <<walkVars, listVars, toCall, seen, due>>

(* The end of the list: head_lock goes out of scope, the loop is over.      *)
Finish(t) ==
  /\ pc[t] = "look"
  /\ next[cur[t]] = Null
  /\ mutex' = Set(mutex, cur[t], Null)
  /\ Goto(t, "done")
  /\ UNCHANGED <<walkVars, next, data, live, toCall, seen, due>>

(* next_lock(next->m).  for_each and find_first_if then unlock head_lock at *)
(* once, which can make nobody else wait; remove_if holds both.             *)
LockNext(t) ==
  /\ pc[t] = "lock_next"
  /\ mutex[nxt[t]] = Null
  /\ \/ /\ op[t] = "remove"
        /\ mutex' = Set(mutex, nxt[t], t)
        /\ Goto(t, "test")
     \/ /\ op[t] # "remove"
        /\ mutex' = [mutex EXCEPT ![nxt[t]] = t, ![cur[t]] = Null]
        /\ Goto(t, "visit")
  /\ UNCHANGED <<walkVars, next, data, live, toCall, seen, due>>

Matches(t) == data[nxt[t]] \in pred[t]

See(t) == seen' = Set(seen, t, Append(seen[t], nxt[t]))

(* The function is called; the walk moves on with the lock on next.         *)
Visit(t) ==
  /\ pc[t] = "visit"
  /\ op[t] = "find" => ~Matches(t)
  /\ See(t)
  /\ cur' = Set(cur, t, nxt[t])
  /\ Goto(t, "look")
  /\ UNCHANGED <<op, pred, nxt, listVars, toCall, due>>

(* find_first_if has found its element and returns its data.                *)
Found(t) ==
  /\ pc[t] = "visit"
  /\ op[t] = "find" /\ Matches(t)
  /\ See(t)
  /\ mutex' = Set(mutex, nxt[t], Null)
  /\ Goto(t, "found")
  /\ UNCHANGED <<walkVars, next, data, live, toCall, due>>

(* remove_if keeps the node: head_lock.unlock(), and the walk moves on.     *)
Keep(t) ==
  /\ pc[t] = "test"
  /\ ~Matches(t)
  /\ See(t)
  /\ mutex' = Set(mutex, cur[t], Null)
  /\ cur' = Set(cur, t, nxt[t])
  /\ Goto(t, "look")
  /\ UNCHANGED <<op, pred, nxt, next, data, live, toCall, due>>

(* Mutant of Unlink: the rest of the list goes with the node.               *)
UnlinkRest(t) ==
  /\ pc[t] = "test"
  /\ Matches(t)
  /\ See(t)
  /\ next' = [next EXCEPT ![cur[t]] = Null, ![nxt[t]] = Null]
  /\ mutex' = Set(mutex, nxt[t], Null)
  /\ due' = [u \in Thread |-> due[u] \ {nxt[t]}]
  /\ Goto(t, "free")
  /\ UNCHANGED <<walkVars, data, live, toCall>>

(* remove_if takes the node out: old_next = std::move(cur->next),           *)
(* cur->next = std::move(next->next), next_lock.unlock()                    *)
Unlink(t) ==
  /\ pc[t] = "test"
  /\ Matches(t)
  /\ See(t)
  /\ next' = [next EXCEPT ![cur[t]] = next[nxt[t]], ![nxt[t]] = Null]
  /\ mutex' = Set(mutex, nxt[t], Null)
  /\ due' = [u \in Thread |-> due[u] \ {nxt[t]}]
  /\ Goto(t, "free")
  /\ UNCHANGED <<walkVars, data, live, toCall>>

(* old_next goes out of scope and the node with its mutex is freed; the     *)
(* walk goes on from cur, which is still locked.                            *)
FreeNode(t) ==
  /\ pc[t] = "free"
  /\ live' = live \ {nxt[t]}
  /\ data' = Set(data, nxt[t], Null)
  /\ Goto(t, "look")
  /\ UNCHANGED <<walkVars, next, mutex, toCall, seen, due>>

Return(t) ==
  /\ pc[t] \in {"done", "found"}
  /\ op' = Set(op, t, Null)
  /\ pred' = Set(pred, t, {})
  /\ cur' = Set(cur, t, Null)
  /\ nxt' = Set(nxt, t, Null)
  /\ seen' = Set(seen, t, <<>>)
  /\ due' = Set(due, t, {})
  /\ Goto(t, "idle")
  /\ UNCHANGED <<listVars, toCall>>

-----------------------------------------------------------------------------
Begin(t) == PushBegin(t) \/ WalkBegin(t)

Step(t) ==
  \/ LockHead(t) \/ PushLink(t)
  \/ Look(t) \/ Finish(t) \/ LockNext(t) \/ Visit(t) \/ Found(t)
  \/ Keep(t) \/ Unlink(t) \/ FreeNode(t)
  \/ Return(t)

(* The threads have made all their calls, or have no memory left to push.   *)
Idle == (\A t \in Thread : pc[t] = "idle") /\ UNCHANGED vars

Next == (\E t \in Thread : Begin(t) \/ Step(t)) \/ Idle

Spec == Init /\ [][Next]_vars

(* A thread inside a call goes on when it can.  Nobody is obliged to make a *)
(* call, and since calls are finitely many no mutex is contended for ever.  *)
FairSpec == Spec /\ \A t \in Thread : WF_vars(Step(t))

-----------------------------------------------------------------------------
Locations ==
  {"idle", "lock_head", "link", "look", "lock_next", "visit",
   "test", "free", "done", "found"}

(* Where a thread is about to use the node its nxt (its cur) points to.     *)
UsesNext == {"lock_next", "visit", "test", "free"}
UsesCur == {"look", "lock_next", "test", "free"}

(* Types; a walk that uses next has one.                                    *)
TypeOK ==
  /\ pc \in [Thread -> Locations]
  /\ op \in [Thread -> {"push", "each", "find", "remove", Null}]
  /\ pred \in [Thread -> SUBSET Value]
  /\ cur \in [Thread -> Place \cup {Null}]
  /\ nxt \in [Thread -> Node \cup {Null}]
  /\ \A t \in Thread : pc[t] \in UsesNext => nxt[t] # Null
  /\ next \in [Place -> Node \cup {Null}]
  /\ data \in [Node -> Value \cup {Null}]
  /\ mutex \in [Place -> Thread \cup {Null}]
  /\ live \subseteq Node
  /\ toCall \in [Thread -> 0 .. Calls]
  /\ seen \in [Thread -> Seq(Node)]
  /\ due \in [Thread -> SUBSET Node]

(* A walk never stands on, waits for, or holds the mutex of a node that     *)
(* remove_if has freed: while a thread is blocked on next->m, nobody can    *)
(* take that node out, because it still holds the node before.  And a node  *)
(* is freed with its mutex unlocked, nobody about to lock it, and out of    *)
(* the list.                                                                *)
NoUseAfterFree ==
  /\ TypeOK
  /\ \A t \in Thread :
       /\ pc[t] \in UsesNext => nxt[t] \in live
       /\ pc[t] \in UsesCur => cur[t] \in live \cup {HeadNode}
       /\ pc[t] = "free" =>
            /\ mutex[nxt[t]] = Null
            /\ nxt[t] \notin Linked
            /\ \A u \in Thread \ {t} :
                 /\ pc[u] \in UsesNext => nxt[u] # nxt[t]
                 /\ pc[u] \in UsesCur => cur[u] # nxt[t]

(* n lies behind m in the list: whatever contains m and with a node the     *)
(* next one contains n.                                                     *)
Behind(n, m) ==
  \A S \in SUBSET Node :
    (\A k \in S \cup {m} : next[k] \in S \cup {Null}) => n \in S

(* Whatever is pushed and removed around it, a walk calls its function at   *)
(* most once on a node, and on those that are linked during the whole call  *)
(* in the order of the list.  When it reaches the end it has missed none of *)
(* them; so remove_if leaves no such node that matches, and find_first_if   *)
(* answers nullptr only if there is none.                                   *)
WalkComplete ==
  \A t \in Thread :
    /\ \A i, j \in DOMAIN seen[t] : i < j =>
         /\ seen[t][i] # seen[t][j]
         /\ {seen[t][i], seen[t][j]} \subseteq due[t] =>
              Behind(seen[t][j], seen[t][i])
    /\ pc[t] = "done" /\ op[t] # "push" =>
         /\ due[t] \subseteq Range(seen[t])
         /\ op[t] \in {"find", "remove"} =>
              \A n \in due[t] : data[n] \notin pred[t]

(* Every call returns: threads that lock node after node in the direction   *)
(* of the list cannot deadlock, and none leaves a lock behind.              *)
CallsReturn == \A t \in Thread : (pc[t] # "idle") ~> (pc[t] = "idle")
=============================================================================
