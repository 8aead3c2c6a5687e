---------------------------- MODULE LockFreeQueue ----------------------------
(***************************************************************************)
(* LockFreeQueue<T> of src/latch-free/queue.cpp: a singly linked list with *)
(* a dummy node at its end, whose ends are the atomics head and tail and   *)
(* which has no compare-and-swap.  Every atomic access is sequentially     *)
(* consistent (the default of std::atomic), so a step here is one access   *)
(* to memory another thread can reach.                                     *)
(*                                                                         *)
(* The constructor Node() leaves next uninitialised (Wild), and pop frees  *)
(* the node it unlinks, so an address may be allocated again.              *)
(***************************************************************************)
EXTENDS Naturals, Sequences

CONSTANTS
  Producer,  \* threads that call push
  Consumer,  \* threads that call pop
  Node,      \* the addresses nodes can be allocated at (bounds the memory)
  Value,     \* the values that are pushed
  Default,   \* T(), the value a dummy node is made with
  Wild,      \* the content of an uninitialised pointer
  Null       \* the null pointer; also "no value"

LockFreeAssumption ==
  /\ Producer \cap Consumer = {}
  /\ Node # {}
  /\ Null \notin Node \cup Value \cup {Wild, Default}
  /\ Wild \notin Node
  /\ Default \notin Value

Thread == Producer \cup Consumer

VARIABLES
  pc,     \* where each thread is in push or pop
  data,   \* Node::data of every node, the value it points to
  next,   \* Node::next of every node
  live,   \* the nodes that are allocated
  head,   \* head
  tail,   \* tail
  val,    \* new_data of a push, res of a pop
  new,    \* new_node of a push
  old,    \* old_tail of a push, old_head of a pop
  chain   \* history: the nodes from head to tail, in the order tail got them

vars == <<pc, data, next, live, head, tail, val, new, old, chain>>

Locations ==
  {"idle", "load_tail", "swap_data", "set_next", "store_tail", "pushed",
   "load_head", "load_end", "store_head", "take_data", "popped", "empty"}

Goto(t, l) == pc' = [pc EXCEPT ![t] = l]
Set(f, t, x) == [f EXCEPT ![t] = x]

Init ==
  \E n \in Node :
    /\ head = n /\ tail = n /\ chain = <<n>> /\ live = {n}
    /\ pc = [t \in Thread |-> "idle"]
    /\ data = [m \in Node |-> Default]
    /\ next = [m \in Node |-> Wild]
    /\ val = [t \in Thread |-> Null]
    /\ new = [t \in Thread |-> Null]
    /\ old = [t \in Thread |-> Null]

(* p-> is defined only while p points to an allocated node.                 *)
Deref(p) == p \in live

-----------------------------------------------------------------------------
(* push                                                                     *)

(* new_data and new_node are made; nobody else can reach either.            *)
PushBegin(t, x) ==
  /\ pc[t] = "idle"
  /\ \E n \in Node \ live :
       /\ new' = Set(new, t, n)
       /\ live' = live \cup {n}
       /\ data' = Set(data, n, Default)
       /\ next' = Set(next, n, Wild)
  /\ val' = Set(val, t, x)
  /\ Goto(t, "load_tail")
  /\ UNCHANGED <<head, tail, old, chain>>

LoadTail(t) ==
  /\ pc[t] = "load_tail"
  /\ old' = Set(old, t, tail)
  /\ Goto(t, "swap_data")
  /\ UNCHANGED <<data, next, live, head, tail, val, new, chain>>

(* old_tail->data.swap(new_data)                                            *)
SwapData(t) ==
  /\ pc[t] = "swap_data"
  /\ Deref(old[t])
  /\ data' = Set(data, old[t], val[t])
  /\ val' = Set(val, t, data[old[t]])
  /\ Goto(t, "set_next")
  /\ UNCHANGED <<next, live, head, tail, new, old, chain>>

(* old_tail->next = new_node                                                *)
SetNext(t) ==
  /\ pc[t] = "set_next"
  /\ Deref(old[t])
  /\ next' = Set(next, old[t], new[t])
  /\ Goto(t, "store_tail")
  /\ UNCHANGED <<data, live, head, tail, val, new, old, chain>>

(* tail.store(new_node), which publishes what the node before it holds.     *)
StoreTail(t) ==
  /\ pc[t] = "store_tail"
  /\ tail' = new[t]
  /\ chain' = Append(chain, new[t])
  /\ Goto(t, "pushed")
  /\ UNCHANGED <<data, next, live, head, val, new, old>>

(* push returns; what the swap left in new_data is destroyed.               *)
PushReturn(t) ==
  /\ pc[t] = "pushed"
  /\ new' = Set(new, t, Null)
  /\ old' = Set(old, t, Null)
  /\ val' = Set(val, t, Null)
  /\ Goto(t, "idle")
  /\ UNCHANGED <<data, next, live, head, tail, chain>>

-----------------------------------------------------------------------------
(* pop                                                                      *)

PopBegin(t) ==
  /\ pc[t] = "idle"
  /\ Goto(t, "load_head")
  /\ UNCHANGED <<data, next, live, head, tail, val, new, old, chain>>

LoadHead(t) ==
  /\ pc[t] = "load_head"
  /\ old' = Set(old, t, head)
  /\ Goto(t, "load_end")
  /\ UNCHANGED <<data, next, live, head, tail, val, new, chain>>

(* Mutant of LoadEnd: the list is never found empty.                        *)
LoadEndIgnored(t) ==
  /\ pc[t] = "load_end"
  /\ Goto(t, "store_head")
  /\ UNCHANGED <<data, next, live, head, tail, val, new, old, chain>>

(* old_head is compared with tail.load().                                   *)
LoadEnd(t) ==
  /\ pc[t] = "load_end"
  /\ Goto(t, IF old[t] = tail THEN "empty" ELSE "store_head")
  /\ UNCHANGED <<data, next, live, head, tail, val, new, old, chain>>

(* head.store(old_head->next).  The one consumer is the only thread that    *)
(* reads this next, after its one writer has moved tail away from it.       *)
StoreHead(t) ==
  /\ pc[t] = "store_head"
  /\ Deref(old[t])
  /\ head' = next[old[t]]
  /\ chain' = IF Len(chain) > 1 THEN Tail(chain) ELSE chain
  /\ Goto(t, "take_data")
  /\ UNCHANGED <<data, next, live, tail, val, new, old>>

(* Mutant of TakeData: the answer is taken from the node that is now first. *)
TakeDataNext(t) ==
  /\ pc[t] = "take_data"
  /\ val' = Set(val, t, data[head])
  /\ live' = live \ {old[t]}
  /\ Goto(t, "popped")
  /\ UNCHANGED <<data, next, head, tail, new, old, chain>>

(* res(old_head->data), then delete old_head                                *)
TakeData(t) ==
  /\ pc[t] = "take_data"
  /\ Deref(old[t])
  /\ val' = Set(val, t, data[old[t]])
  /\ live' = live \ {old[t]}
  /\ Goto(t, "popped")
  /\ UNCHANGED <<data, next, head, tail, new, old, chain>>

PopReturn(t) ==
  /\ pc[t] \in {"popped", "empty"}
  /\ val' = Set(val, t, Null)
  /\ old' = Set(old, t, Null)
  /\ Goto(t, "idle")
  /\ UNCHANGED <<data, next, live, head, tail, new, chain>>

-----------------------------------------------------------------------------
PushStep(t) ==
  LoadTail(t) \/ SwapData(t) \/ SetNext(t) \/ StoreTail(t) \/ PushReturn(t)

PopStep(t) ==
  LoadHead(t) \/ LoadEnd(t) \/ StoreHead(t) \/ TakeData(t) \/ PopReturn(t)

Next ==
  \/ \E t \in Producer : (\E x \in Value : PushBegin(t, x)) \/ PushStep(t)
  \/ \E t \in Consumer : PopBegin(t) \/ PopStep(t)

Spec == Init /\ [][Next]_vars

-----------------------------------------------------------------------------
(* Every variable keeps to the values its declaration allows.               *)
TypeOK ==
  /\ pc \in [Thread -> Locations]
  /\ data \in [Node -> Value \cup {Default}]
  /\ next \in [Node -> Node \cup {Wild}]
  /\ live \subseteq Node
  /\ head \in Node /\ tail \in Node
  /\ val \in [Thread -> Value \cup {Default, Null}]
  /\ new \in [Thread -> Node \cup {Null}]
  /\ old \in [Thread -> Node \cup {Null}]
  /\ chain \in Seq(Node)

(* No thread follows a pointer to a node that was freed (or never made),    *)
(* although pop frees nodes push may have loaded as old_tail; head never    *)
(* becomes an uninitialised pointer; and Node::data and Node::next, which   *)
(* are not atomic, are never written by a push and read by a pop at once.   *)
NoBadAccess ==
  /\ TypeOK
  /\ \A t \in Thread :
       pc[t] \in {"swap_data", "set_next", "store_head", "take_data"} =>
         Deref(old[t])
  /\ \A p \in Producer, c \in Consumer :
       /\ pc[p] \in {"swap_data", "set_next"}
       /\ pc[c] \in {"store_head", "take_data"}
       => old[p] # old[c]

-----------------------------------------------------------------------------
(* The queue implements LinQueue: a push takes effect when tail is stored,  *)
(* a pop when head is, an unsuccessful pop when it compares them.           *)
Contents == [i \in 1 .. Len(chain) - 1 |-> data[chain[i]]]

Call(st, v) == [st |-> st, val |-> v]

(* The swap moves the value from the call to the node, until StoreTail.     *)
CallOf(t) ==
  CASE pc[t] \in {"load_tail", "swap_data"}   -> Call("push", val[t])
    [] pc[t] \in {"set_next", "store_tail"}   -> Call("push", data[old[t]])
    [] pc[t] = "pushed"                       -> Call("ret", data[old[t]])
    [] pc[t] \in {"load_head", "load_end", "store_head"} -> Call("try", Null)
    [] pc[t] = "take_data"                    -> Call("ret", data[old[t]])
    [] pc[t] = "popped"                       -> Call("ret", val[t])
    [] pc[t] = "empty"                        -> Call("ret", Null)
    [] OTHER                                  -> Call("idle", Null)

LQ == INSTANCE LinQueue WITH
        queue <- Contents, call <- [t \in Thread |-> CallOf(t)],
        Bounded <- FALSE, Capacity <- 0, Precise <- TRUE

(* With one producer and one consumer the elements come out once each, in   *)
(* the order they went in, and pop answers nullptr only when the queue is   *)
(* empty.                                                                   *)
ImplementsLinQueue == LQ!Spec
=============================================================================
