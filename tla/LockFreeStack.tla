---------------------------- MODULE LockFreeStack ----------------------------
(***************************************************************************)
(* LockFreeStack<T> of src/latch-free/stack.cpp: a singly linked list whose *)
(* head is exchanged with compare_exchange_weak.  Atomic accesses are      *)
(* sequentially consistent, so a step is one access to shared memory.  The *)
(* nodes are never freed.                                                  *)
(***************************************************************************)
EXTENDS Naturals, Sequences

CONSTANTS
  Thread,       \* the threads that call push and pop
  Node,         \* the addresses nodes can be allocated at (bounds the pushes)
  Value,        \* the values that are pushed
  InitialHead,  \* what head may hold at first: the default constructor of
                \* std::atomic makes it null from C++20 on, before that it is
                \* whatever the memory held
  Wild,         \* the content of an uninitialised pointer
  MaxSpurious,  \* bound: how often compare_exchange_weak fails spuriously
  Null          \* the null pointer; also "no value"

StackAssumption ==
  /\ InitialHead \subseteq {Null, Wild} /\ InitialHead # {}
  /\ Null \notin Node \cup Value
  /\ Wild \notin Node \cup {Null}
  /\ MaxSpurious \in Nat

VARIABLES
  pc,        \* where each thread is in push or pop
  data,      \* Node::data of every node
  next,      \* Node::next of every node
  live,      \* the nodes that are allocated
  head,      \* head
  node,      \* new_node of a push, old_head of a pop
  succ,      \* old_head->next, the third operand of pop's exchange
  spurious,  \* spurious failures so far
  chain      \* history: the nodes in the stack, the first one first

vars == <<pc, data, next, live, head, node, succ, spurious, chain>>

Goto(t, l) == pc' = [pc EXCEPT ![t] = l]
Set(f, t, x) == [f EXCEPT ![t] = x]

Init ==
  /\ head \in InitialHead
  /\ chain = <<>> /\ live = {} /\ spurious = 0
  /\ pc = [t \in Thread |-> "idle"]
  /\ data = [n \in Node |-> Null]
  /\ next = [n \in Node |-> Null]
  /\ node = [t \in Thread |-> Null]
  /\ succ = [t \in Thread |-> Null]

Deref(p) == p \in live

(* compare_exchange_weak fails when head differs from what is expected, or  *)
(* for no reason; a failure stores what head holds in the expected operand. *)
Fails(expected) ==
  \/ /\ head # expected
     /\ UNCHANGED spurious
  \/ /\ spurious < MaxSpurious
     /\ spurious' = spurious + 1

-----------------------------------------------------------------------------
(* push                                                                     *)

PushBegin(t, x) ==
  /\ pc[t] = "idle"
  /\ \E n \in Node \ live :
       /\ node' = Set(node, t, n)
       /\ live' = live \cup {n}
       /\ data' = Set(data, n, x)
       /\ next' = Set(next, n, Null)
  /\ Goto(t, "push_load")
  /\ UNCHANGED <<head, succ, spurious, chain>>

(* new_node->next = head.load()                                             *)
PushLoad(t) ==
  /\ pc[t] = "push_load"
  /\ next' = Set(next, node[t], head)
  /\ Goto(t, "push_cas")
  /\ UNCHANGED <<data, live, head, node, succ, spurious, chain>>

(* Mutant of PushCas: head is stored instead of exchanged.                  *)
PushStore(t) ==
  /\ pc[t] = "push_cas"
  /\ head' = node[t]
  /\ chain' = <<node[t]>> \o chain
  /\ Goto(t, "pushed")
  /\ UNCHANGED <<data, next, live, node, succ, spurious>>

PushCas(t) ==
  /\ pc[t] = "push_cas"
  /\ head = next[node[t]]
  /\ head' = node[t]
  /\ chain' = <<node[t]>> \o chain
  /\ Goto(t, "pushed")
  /\ UNCHANGED <<data, next, live, node, succ, spurious>>

(* Mutant of PushRetry: the failure does not refresh new_node->next.        *)
PushRetryBlind(t) ==
  /\ pc[t] = "push_cas"
  /\ Fails(next[node[t]])
  /\ UNCHANGED <<pc, data, next, live, head, node, succ, chain>>

(* The loop's body is empty: the exchange itself has reloaded head.         *)
PushRetry(t) ==
  /\ pc[t] = "push_cas"
  /\ Fails(next[node[t]])
  /\ next' = Set(next, node[t], head)
  /\ UNCHANGED <<pc, data, live, head, node, succ, chain>>

PushReturn(t) ==
  /\ pc[t] = "pushed"
  /\ node' = Set(node, t, Null)
  /\ Goto(t, "idle")
  /\ UNCHANGED <<data, next, live, head, succ, spurious, chain>>

-----------------------------------------------------------------------------
(* pop                                                                      *)

PopBegin(t) ==
  /\ pc[t] = "idle"
  /\ Goto(t, "pop_load")
  /\ UNCHANGED <<data, next, live, head, node, succ, spurious, chain>>

(* old_head = head.load(), before the loop and again in its body, and the   *)
(* loop's test that old_head is not null.                                   *)
PopLoad(t) ==
  /\ pc[t] = "pop_load"
  /\ node' = Set(node, t, head)
  /\ Goto(t, IF head = Null THEN "empty" ELSE "pop_next")
  /\ UNCHANGED <<data, next, live, head, succ, spurious, chain>>

(* The operand old_head->next is read before the exchange.                  *)
PopNext(t) ==
  /\ pc[t] = "pop_next"
  /\ Deref(node[t])
  /\ succ' = Set(succ, t, next[node[t]])
  /\ Goto(t, "pop_cas")
  /\ UNCHANGED <<data, next, live, head, node, spurious, chain>>

PopCas(t) ==
  /\ pc[t] = "pop_cas"
  /\ head = node[t]
  /\ head' = succ[t]
  /\ chain' = Tail(chain)
  /\ Goto(t, "popped")
  /\ UNCHANGED <<data, next, live, node, succ, spurious>>

PopRetry(t) ==
  /\ pc[t] = "pop_cas"
  /\ Fails(node[t])
  /\ Goto(t, "pop_load")
  /\ UNCHANGED <<data, next, live, head, node, succ, chain>>

(* Mutant of PopReturn: the node is freed, as in LockFreeQueue::pop.        *)
PopReturnFrees(t) ==
  /\ pc[t] \in {"popped", "empty"}
  /\ live' = live \ {node[t]}
  /\ node' = Set(node, t, Null)
  /\ succ' = Set(succ, t, Null)
  /\ Goto(t, "idle")
  /\ UNCHANGED <<data, next, head, spurious, chain>>

(* The answer is old_head->data, or nullptr; the node is kept.              *)
PopReturn(t) ==
  /\ pc[t] \in {"popped", "empty"}
  /\ node' = Set(node, t, Null)
  /\ succ' = Set(succ, t, Null)
  /\ Goto(t, "idle")
  /\ UNCHANGED <<data, next, live, head, spurious, chain>>

-----------------------------------------------------------------------------
PushStep(t) == PushLoad(t) \/ PushCas(t) \/ PushRetry(t) \/ PushReturn(t)

PopStep(t) ==
  PopLoad(t) \/ PopNext(t) \/ PopCas(t) \/ PopRetry(t) \/ PopReturn(t)

Next ==
  \E t \in Thread :
    \/ \E x \in Value : PushBegin(t, x)
    \/ PushStep(t)
    \/ PopBegin(t)
    \/ PopStep(t)

Spec == Init /\ [][Next]_vars

(* Some thread that is inside a call goes on.  Which one is up to the       *)
(* scheduler, which may suspend any of the others for ever.                 *)
Progress == \E t \in Thread : PushStep(t) \/ PopStep(t)

FairSpec == Spec /\ WF_vars(Progress)

-----------------------------------------------------------------------------
(* Types: every variable keeps to the values its declaration allows; an     *)
(* uninitialised pointer can only stem from head's first value.             *)
TypeOK ==
  /\ pc \in [Thread -> {"idle", "push_load", "push_cas", "pushed", "pop_load",
                        "pop_next", "pop_cas", "popped", "empty"}]
  /\ data \in [Node -> Value \cup {Null}]
  /\ next \in [Node -> Node \cup {Null} \cup InitialHead]
  /\ live \subseteq Node
  /\ head \in Node \cup {Null} \cup InitialHead
  /\ node \in [Thread -> Node \cup {Null} \cup InitialHead]
  /\ succ \in [Thread -> Node \cup {Null} \cup InitialHead]
  /\ spurious \in 0 .. MaxSpurious
  /\ chain \in Seq(Node)

(* No element is lost or popped twice: the nodes the list reaches from head *)
(* are those pushed and not popped, whichever exchanges fail; a popped node *)
(* has one thread to return it.  And pop follows no pointer that is null,   *)
(* uninitialised or freed.                                                  *)
ListIntact ==
  /\ TypeOK
  /\ head = (IF chain = <<>> THEN Null ELSE chain[1])
  /\ \A i \in 1 .. Len(chain) :
       /\ next[chain[i]] = (IF i = Len(chain) THEN Null ELSE chain[i + 1])
       /\ \A j \in 1 .. Len(chain) : chain[i] = chain[j] => i = j
       /\ \A t \in Thread : pc[t] = "popped" => node[t] # chain[i]
  /\ \A t, u \in Thread :
       pc[t] = "popped" /\ pc[u] = "popped" /\ t # u => node[t] # node[u]
  /\ \A t \in Thread : pc[t] \in {"pop_next", "popped"} => Deref(node[t])

-----------------------------------------------------------------------------
Contents == [i \in 1 .. Len(chain) |-> data[chain[i]]]

Call(st, v) == [st |-> st, val |-> v]

CallOf(t) ==
  CASE pc[t] \in {"push_load", "push_cas"}           -> Call("push", data[node[t]])
    [] pc[t] \in {"pushed", "popped"}                -> Call("ret", data[node[t]])
    [] pc[t] \in {"pop_load", "pop_next", "pop_cas"} -> Call("pop", Null)
    [] pc[t] = "empty"                               -> Call("ret", Null)
    [] OTHER                                         -> Call("idle", Null)

LS == INSTANCE LinStack WITH
        stack <- Contents, call <- [t \in Thread |-> CallOf(t)]

(* Every behaviour is one of the atomic stack: a push takes effect when its *)
(* exchange succeeds, a pop when its exchange does or when it loads null.   *)
(* A node that is popped and pushed again between a pop's load and exchange *)
(* would break this; none is, because no address is used twice.             *)
ImplementsLinStack == LS!Spec

(* Lock-freedom: as long as some thread inside a call is run, calls keep    *)
(* returning (or none is left), however threads are suspended between a     *)
(* load and its exchange.                                                   *)
Returns == \E t \in Thread : PushReturn(t) \/ PopReturn(t)

LockFree == []<>(\A t \in Thread : pc[t] = "idle") \/ []<><<Returns>>_vars
=============================================================================
