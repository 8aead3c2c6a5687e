--------------------------- MODULE ConcurrentQueue ---------------------------
(***************************************************************************)
(* ConcurrentQueue<T> of src/thread-safe/queue.cpp: a singly linked list   *)
(* with a dummy node at its end, head_ protected by head_mutex_, tail_ by  *)
(* tail_mutex_, and a condition variable for wait_and_pop.                 *)
(*                                                                         *)
(* One action per step a thread can be preempted after: taking a mutex,    *)
(* each write to a node another thread could reach, the predicate of       *)
(* cv_.wait and the blocking that follows it, the notification.            *)
(***************************************************************************)
EXTENDS Naturals, Sequences

CONSTANTS
  Producer,   \* threads that call push
  Poller,     \* threads that call try_pop
  Waiter,     \* threads that call wait_and_pop
  Node,       \* the addresses nodes can be allocated at (bounds the memory)
  Value,      \* the values that are pushed
  Null        \* the null pointer; also "no thread" and "no value"

ASSUME QueueAssumption ==
  /\ Producer \cap Poller = {}
  /\ Producer \cap Waiter = {}
  /\ Poller \cap Waiter = {}
  /\ Node # {}
  /\ Null \notin Node \cup Value \cup Producer \cup Poller \cup Waiter

Thread == Producer \cup Poller \cup Waiter

VARIABLES
  pc,         \* where each thread is in push, try_pop or wait_and_pop
  arg,        \* new_val: the value a push carries
  node,       \* the unique_ptr local to a call: new_node or head_node
  head,       \* head_
  tail,       \* tail_
  next,       \* Node::next of every node
  data,       \* Node::v of every node
  headMutex,  \* owner of head_mutex_
  tailMutex,  \* owner of tail_mutex_
  chain       \* history: the nodes from head_ to tail_, in the order linked

vars == <<pc, arg, node, head, tail, next, data, headMutex, tailMutex, chain>>

(* The points where a thread holds tail_mutex_, head_mutex_.               *)
TailSection == {"push_data", "push_link", "push_tail"}
HeadSection == {"try_check", "try_null", "wait_check", "wait_block", "pop_head"}

Locations ==
  {"idle", "push_lock", "push_notify", "try_lock", "wait_lock", "blocked",
   "pop_read"} \cup TailSection \cup HeadSection

Goto(t, l) == pc' = [pc EXCEPT ![t] = l]

ChainNodes == {chain[i] : i \in DOMAIN chain}
Free == Node \ (ChainNodes \cup {node[t] : t \in Thread})

Init ==
  /\ pc = [t \in Thread |-> "idle"]
  /\ arg = [t \in Thread |-> Null]
  /\ node = [t \in Thread |-> Null]
  /\ head \in Node
  /\ tail = head
  /\ next = [n \in Node |-> Null]
  /\ data = [n \in Node |-> Null]
  /\ headMutex = Null
  /\ tailMutex = Null
  /\ chain = <<head>>

-----------------------------------------------------------------------------
(* push                                                                     *)

(* The value and the new dummy node are allocated before any lock is taken. *)
PushBegin(t) ==
  /\ t \in Producer
  /\ pc[t] = "idle"
  /\ \E x \in Value, n \in Free :
       /\ arg' = [arg EXCEPT ![t] = x]
       /\ node' = [node EXCEPT ![t] = n]
  /\ Goto(t, "push_lock")
  /\ UNCHANGED <<head, tail, next, data, headMutex, tailMutex, chain>>

(* Mutant of PushLock: push does not lock tail_mutex_.                      *)
PushUnlocked(t) ==
  /\ pc[t] = "push_lock"
  /\ tailMutex' = t
  /\ Goto(t, "push_data")
  /\ UNCHANGED <<arg, node, head, tail, next, data, headMutex, chain>>

PushLock(t) ==
  /\ pc[t] = "push_lock"
  /\ tailMutex = Null
  /\ tailMutex' = t
  /\ Goto(t, "push_data")
  /\ UNCHANGED <<arg, node, head, tail, next, data, headMutex, chain>>

(* tail_->v = std::move(new_val)                                            *)
PushData(t) ==
  /\ pc[t] = "push_data"
  /\ data' = [data EXCEPT ![tail] = arg[t]]
  /\ Goto(t, "push_link")
  /\ UNCHANGED <<arg, node, head, tail, next, headMutex, tailMutex, chain>>

(* tail_->next = std::move(new_node)                                        *)
PushLink(t) ==
  /\ pc[t] = "push_link"
  /\ next' = [next EXCEPT ![tail] = node[t]]
  /\ Goto(t, "push_tail")
  /\ UNCHANGED <<arg, node, head, tail, data, headMutex, tailMutex, chain>>

(* Mutant of PushTail: tail_mutex_ stays locked.                            *)
PushTailKeepsLock(t) ==
  /\ pc[t] = "push_tail"
  /\ tail' = node[t]
  /\ chain' = Append(chain, node[t])
  /\ node' = [node EXCEPT ![t] = Null]
  /\ Goto(t, "push_notify")
  /\ UNCHANGED <<arg, head, next, data, headMutex, tailMutex>>

(* tail_ = new_tail_node, then the lock_guard releases tail_mutex_          *)
PushTail(t) ==
  /\ pc[t] = "push_tail"
  /\ tail' = node[t]
  /\ tailMutex' = Null
  /\ chain' = Append(chain, node[t])
  /\ node' = [node EXCEPT ![t] = Null]
  /\ Goto(t, "push_notify")
  /\ UNCHANGED <<arg, head, next, data, headMutex>>

(* cv_.notify_one(), called with no lock held: one blocked thread, if there *)
(* is one, goes on to reacquire head_mutex_.                                *)
Blocked == {w \in Waiter : pc[w] = "blocked"}

PushNotify(t) ==
  /\ pc[t] = "push_notify"
  /\ arg' = [arg EXCEPT ![t] = Null]
  /\ \/ /\ Blocked = {}
        /\ Goto(t, "idle")
     \/ \E w \in Blocked :
          pc' = [pc EXCEPT ![t] = "idle", ![w] = "wait_lock"]
  /\ UNCHANGED <<node, head, tail, next, data, headMutex, tailMutex, chain>>

-----------------------------------------------------------------------------
(* try_pop and wait_and_pop                                                 *)

TryBegin(t) ==
  /\ t \in Poller
  /\ pc[t] = "idle"
  /\ Goto(t, "try_lock")
  /\ UNCHANGED <<arg, node, head, tail, next, data, headMutex, tailMutex, chain>>

WaitBegin(t) ==
  /\ t \in Waiter
  /\ pc[t] = "idle"
  /\ Goto(t, "wait_lock")
  /\ UNCHANGED <<arg, node, head, tail, next, data, headMutex, tailMutex, chain>>

(* try_pop_head and wait_for_data start by locking head_mutex_; a thread    *)
(* woken in cv_.wait locks it again before it looks at the predicate.       *)
HeadLock(t) ==
  /\ pc[t] \in {"try_lock", "wait_lock"}
  /\ headMutex = Null
  /\ headMutex' = t
  /\ Goto(t, IF pc[t] = "try_lock" THEN "try_check" ELSE "wait_check")
  /\ UNCHANGED <<arg, node, head, tail, next, data, tailMutex, chain>>

(* Mutants of Check: the wait returns whatever the predicate says; try_pop  *)
(* gives up when it cannot lock tail_mutex_ at once.                        *)
CheckIgnored(t) ==
  /\ pc[t] \in {"try_check", "wait_check"}
  /\ tailMutex = Null
  /\ Goto(t, "pop_head")
  /\ UNCHANGED <<arg, node, head, tail, next, data, headMutex, tailMutex, chain>>

CheckTryLock(t) ==
  /\ pc[t] \in {"try_check", "wait_check"}
  /\ \/ /\ tailMutex = Null /\ head # tail
        /\ Goto(t, "pop_head")
     \/ /\ tailMutex # Null \/ head = tail
        /\ Goto(t, IF pc[t] = "try_check" THEN "try_null" ELSE "wait_block")
  /\ UNCHANGED <<arg, node, head, tail, next, data, headMutex, tailMutex, chain>>

(* head_.get() against get_tail(), which locks tail_mutex_ for the reading. *)
Check(t) ==
  /\ pc[t] \in {"try_check", "wait_check"}
  /\ tailMutex = Null
  /\ \/ /\ head # tail
        /\ Goto(t, "pop_head")
     \/ /\ head = tail
        /\ Goto(t, IF pc[t] = "try_check" THEN "try_null" ELSE "wait_block")
  /\ UNCHANGED <<arg, node, head, tail, next, data, headMutex, tailMutex, chain>>

(* Mutant of TryNull: the early return leaves head_mutex_ locked.           *)
TryNullKeepsLock(t) ==
  /\ pc[t] = "try_null"
  /\ Goto(t, "idle")
  /\ UNCHANGED <<arg, node, head, tail, next, data, headMutex, tailMutex, chain>>

(* try_pop_head returns nullptr and its lock_guard releases head_mutex_.    *)
TryNull(t) ==
  /\ pc[t] = "try_null"
  /\ headMutex' = Null
  /\ Goto(t, "idle")
  /\ UNCHANGED <<arg, node, head, tail, next, data, tailMutex, chain>>

(* The predicate was false: cv_.wait atomically unlocks and blocks.         *)
WaitBlock(t) ==
  /\ pc[t] = "wait_block"
  /\ headMutex' = Null
  /\ Goto(t, "blocked")
  /\ UNCHANGED <<arg, node, head, tail, next, data, tailMutex, chain>>

(* A condition variable may wake a thread that nobody notified.             *)
SpuriousWakeup(t) ==
  /\ pc[t] = "blocked"
  /\ Goto(t, "wait_lock")
  /\ UNCHANGED <<arg, node, head, tail, next, data, headMutex, tailMutex, chain>>

(* Mutant of PopHead: head_ is not moved on to the successor.               *)
PopHeadStays(t) ==
  /\ pc[t] = "pop_head"
  /\ node' = [node EXCEPT ![t] = head]
  /\ headMutex' = Null
  /\ Goto(t, "pop_read")
  /\ UNCHANGED <<arg, head, tail, next, data, tailMutex, chain>>

(* pop_head moves the first node out, head_ to its successor, and the lock  *)
(* is released when try_pop_head or wait_pop_head returns.                  *)
PopHead(t) ==
  /\ pc[t] = "pop_head"
  /\ node' = [node EXCEPT ![t] = head]
  /\ head' = next[head]
  /\ next' = [next EXCEPT ![head] = Null]
  /\ chain' = Tail(chain)
  /\ headMutex' = Null
  /\ Goto(t, "pop_read")
  /\ UNCHANGED <<arg, tail, data, tailMutex>>

(* head_node->v is returned and the node freed, with no lock held.          *)
PopRead(t) ==
  /\ pc[t] = "pop_read"
  /\ data' = [data EXCEPT ![node[t]] = Null]
  /\ node' = [node EXCEPT ![t] = Null]
  /\ Goto(t, "idle")
  /\ UNCHANGED <<arg, head, tail, next, headMutex, tailMutex, chain>>

-----------------------------------------------------------------------------
Begin(t) == PushBegin(t) \/ TryBegin(t) \/ WaitBegin(t)

Continue(t) ==
  \/ PushLock(t) \/ PushData(t) \/ PushLink(t) \/ PushTail(t) \/ PushNotify(t)
  \/ HeadLock(t) \/ Check(t) \/ TryNull(t) \/ WaitBlock(t)
  \/ PopHead(t) \/ PopRead(t)

Next == \E t \in Thread : Begin(t) \/ Continue(t) \/ SpuriousWakeup(t)

Spec == Init /\ [][Next]_vars

-----------------------------------------------------------------------------
(* Types: every variable keeps to the values its declaration allows.        *)
TypeOK ==
  /\ pc \in [Thread -> Locations]
  /\ arg \in [Thread -> Value \cup {Null}]
  /\ node \in [Thread -> Node \cup {Null}]
  /\ head \in Node
  /\ tail \in Node
  /\ next \in [Node -> Node \cup {Null}]
  /\ data \in [Node -> Value \cup {Null}]
  /\ headMutex \in Thread \cup {Null}
  /\ tailMutex \in Thread \cup {Null}
  /\ chain \in Seq(Node)

(* The list is never torn: whatever pushes and pops interleave, following   *)
(* Node::next from head_ meets every linked node once, in the order it was  *)
(* linked, carrying its value, and ends at tail_.                           *)
ListIntact ==
  /\ chain # <<>>
  /\ head = chain[1]
  /\ tail = chain[Len(chain)]
  /\ \A i \in 1 .. Len(chain) - 1 :
       /\ next[chain[i]] = chain[i + 1]
       /\ data[chain[i]] # Null
  /\ \A i, j \in 1 .. Len(chain) : chain[i] = chain[j] => i = j

(* A unique_ptr has one owner: a node held by a call (being pushed, or      *)
(* popped and not freed yet) is in no other call and not in the list, so no *)
(* node is freed twice or while the list still reaches it.                  *)
SingleOwner ==
  \A t \in Thread : node[t] # Null =>
    /\ node[t] \notin ChainNodes
    /\ \A u \in Thread \ {t} : node[u] # node[t]

(* The two mutexes protect different ends, yet a push writes the node tail_ *)
(* points to while a pop reads the node head_ points to.  These must never  *)
(* be one node: once a pop has seen head_ # tail_ under both locks, the     *)
(* answer stays true although tail_mutex_ is released before it is used.    *)
NoNodeRace ==
  \A t \in Thread :
    /\ pc[t] = "pop_head" => head # tail
    /\ pc[t] = "pop_read" => node[t] # tail /\ data[node[t]] # Null

-----------------------------------------------------------------------------
(* The queue implements LinQueue: a push takes effect when tail_ moves, a   *)
(* pop when head_ moves, an unsuccessful try_pop when it compares them.     *)
Contents == [i \in 1 .. Len(chain) - 1 |-> data[chain[i]]]

CallOf(t) ==
  LET c(st, v) == [st |-> st, val |-> v]
  IN  CASE pc[t] \in {"push_lock"} \cup TailSection -> c("push", arg[t])
        [] pc[t] = "push_notify"                    -> c("ret", arg[t])
        [] pc[t] \in {"try_null"}                   -> c("ret", Null)
        [] pc[t] = "pop_read"                       -> c("ret", data[node[t]])
        [] pc[t] = "idle"                           -> c("idle", Null)
        [] OTHER -> c(IF t \in Poller THEN "try" ELSE "wait", Null)

LQ == INSTANCE LinQueue WITH
        queue <- Contents, call <- [t \in Thread |-> CallOf(t)],
        Bounded <- FALSE, Capacity <- 0, Precise <- TRUE

(* Every behaviour of the linked list is one of the atomic queue: elements  *)
(* leave once each, in the order of their pushes, and try_pop returns       *)
(* nullptr only at a moment the queue is empty.                             *)
ImplementsLinQueue == LQ!Spec
=============================================================================
