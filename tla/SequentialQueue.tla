--------------------------- MODULE SequentialQueue ---------------------------
(***************************************************************************)
(* Queue and DummyQueue of src/thread-safe/queue.cpp, the two queues for   *)
(* one thread.  head_ owns the chain of nodes; tail_ is a plain pointer.   *)
(*                                                                         *)
(* Queue::try_pop frees the last node and leaves tail_ pointing to it, so  *)
(* that a push on an emptied Queue writes to freed memory.  Like main, the *)
(* program modelled does not push on a Queue it has emptied.               *)
(***************************************************************************)
EXTENDS Naturals, Sequences

CONSTANTS
  Node,     \* the addresses nodes can be allocated at (bounds the memory)
  Value,
  Null      \* the null pointer; no value

SeqQueueAssumption == Null \notin Node \cup Value /\ Node # {}

VARIABLES
  class,    \* the class of the queue: "Queue" or "DummyQueue"
  head,     \* head_
  tail,     \* tail_
  v,        \* Node::v of every node
  next,     \* Node::next of every node
  live,     \* the nodes that are allocated
  content   \* history: what was pushed and not yet popped, in order

queueVars == <<class, head, tail, v, next, live, content>>

(* A Queue begins without, a DummyQueue with a node.                        *)
Init ==
  /\ v = [n \in Node |-> Null]
  /\ next = [n \in Node |-> Null]
  /\ content = <<>>
  /\ \/ class = "Queue" /\ head = Null /\ tail = Null /\ live = {}
     \/ \E n \in Node :
          class = "DummyQueue" /\ head = n /\ tail = n /\ live = {n}

(* new_node takes the place of the last node; a Queue without one is empty. *)
PushQueue(n, x) ==
  /\ class = "Queue"
  /\ tail \in live \cup {Null}   \* the program: see above
  /\ v' = [v EXCEPT ![n] = x]
  /\ IF tail # Null
     THEN next' = [next EXCEPT ![tail] = n, ![n] = Null] /\ UNCHANGED head
     ELSE next' = [next EXCEPT ![n] = Null] /\ head' = n

(* Mutant of PushDummy: the value goes to new_node.                         *)
PushDummyNew(n, x) ==
  /\ class = "DummyQueue"
  /\ v' = [v EXCEPT ![n] = x]
  /\ next' = [next EXCEPT ![tail] = n, ![n] = Null]
  /\ UNCHANGED head

(* The dummy node gets the value, and new_node is the next dummy.           *)
PushDummy(n, x) ==
  /\ class = "DummyQueue"
  /\ v' = [v EXCEPT ![tail] = x, ![n] = Null]
  /\ next' = [next EXCEPT ![tail] = n, ![n] = Null]
  /\ UNCHANGED head

Push(n, x) ==
  /\ n \notin live
  /\ PushQueue(n, x) \/ PushDummy(n, x)
  /\ tail' = n
  /\ live' = live \cup {n}
  /\ content' = Append(content, x)
  /\ UNCHANGED class

(* A Queue is empty without a node, a DummyQueue with only the dummy.       *)
Empty == IF class = "Queue" THEN head = Null ELSE head = tail

(* try_pop answers head_->v, or nothing.                                    *)
Popped == IF Empty THEN Null ELSE v[head]

(* try_pop on a queue that is not empty; a move assignment of head_ frees   *)
(* the node it has owned.                                                   *)
TryPop ==
  /\ ~Empty
  /\ head' = next[head]
  /\ live' = live \ {head}
  /\ content' = Tail(content)
  /\ UNCHANGED <<class, tail, v, next>>

(* try_pop on an empty one answers nullptr.                                 *)
TryPopNothing == Empty /\ UNCHANGED queueVars

Next == TryPop \/ TryPopNothing \/ \E n \in Node, x \in Value : Push(n, x)

Spec == Init /\ [][Next]_queueVars

-----------------------------------------------------------------------------
(* Properties                                                               *)

(* A node for every element, and the dummy.                                 *)
Length == IF class = "Queue" THEN Len(content) ELSE Len(content) + 1

(* c is the chain of nodes from head_ to tail_, each visited once, with the *)
(* elements in it.                                                          *)
IsChain(c) ==
  /\ IF Length = 0 THEN head = Null ELSE head = c[1] /\ tail = c[Length]
  /\ \A k \in 1 .. Length : next[c[k]] = IF k = Length THEN Null ELSE c[k + 1]
  /\ \A j, k \in 1 .. Length : c[j] = c[k] => j = k
  /\ \A k \in 1 .. Len(content) : v[c[k]] = content[k]

(* Elements come out as they went in, and the chain from head_ is made of   *)
(* live nodes, ends at tail_ and owns every node: none leaks, though nodes  *)
(* are owned by one pointer and reached by another.                         *)
QueueHolds ==
  /\ Empty <=> content = <<>>
  /\ content # <<>> => Popped = Head(content)
  /\ \E c \in [1 .. Length -> live] :
       IsChain(c) /\ live = {c[k] : k \in 1 .. Length}

(* "队列是空的时候 head_ = tail_ = nullptr": when a Queue is empty both its    *)
(* pointers are null.                                                       *)
EmptyMeansNull ==
  class = "Queue" /\ content = <<>> => head = Null /\ tail = Null
=============================================================================
