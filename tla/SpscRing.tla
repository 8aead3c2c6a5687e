------------------------------ MODULE SpscRing ------------------------------
(***************************************************************************)
(* spsc<T, Cap> of src/latch-free/spsc-17.cpp and spsc<T> of spsc-20.cpp:  *)
(* a ring of Cap slots between one producer and one consumer, without      *)
(* locks.  The two files have the same emplace and pop.                    *)
(*                                                                         *)
(* An acquire load may return an older value of the atomic it reads, though *)
(* never one older than the thread has read before.  How far behind the    *)
(* newest store a thread's last load is, is its lag; which stores it has   *)
(* synchronized with decides whether its next access to a slot is a race.  *)
(***************************************************************************)
EXTENDS Naturals, Sequences

CONSTANTS
  Cap,     \* number of slots
  Value,   \* the elements
  Null,    \* a slot without an object; no element
  Stale    \* TRUE: loads may be stale; FALSE: sequential consistency

ASSUME RingAssumption ==
  /\ Cap \in Nat \ {0}
  /\ Null \notin Value
  /\ Stale \in BOOLEAN

VARIABLES
  ppc,        \* where the producer is in emplace
  cpc,        \* where the consumer is in pop
  slots,      \* data: the object in each slot
  head,       \* head, an index
  tail,       \* tail, an index
  val,        \* the element the producer brings
  out,        \* the element the consumer has moved out
  headLag,    \* stores to head newer than the one the producer read last
  tailLag,    \* stores to tail newer than the one the consumer read last
  headNews,   \* stores to head the producer has not synchronized with
  tailNews    \* stores to tail the consumer has not synchronized with

prodVars == <<ppc, val, headLag, headNews>>
consVars == <<cpc, out, tailLag, tailNews>>
vars == <<prodVars, consVars, slots, head, tail>>

Index == 0 .. Cap - 1
After(i) == (i + 1) % Cap

(* The index that is n places before i.                                     *)
Before(i, n) == (i + Cap - n) % Cap

(* The distance from head to tail.                                          *)
Size == (tail + Cap - head) % Cap

Init ==
  /\ ppc = "idle" /\ cpc = "idle"
  /\ slots = [i \in Index |-> Null]
  /\ head = 0 /\ tail = 0
  /\ val = Null /\ out = Null
  /\ headLag = 0 /\ tailLag = 0
  /\ headNews = 0 /\ tailNews = 0

(* The stores a load may miss.                                              *)
Missed(lag) == IF Stale THEN 0 .. lag ELSE {0}

-----------------------------------------------------------------------------
(* emplace                                                                  *)

EmplaceBegin ==
  /\ ppc = "idle"
  /\ val' \in Value
  /\ ppc' = "load_head"
  /\ UNCHANGED <<headLag, headNews, consVars, slots, head, tail>>

(* Mutants of LoadHead: the test is forgotten; the load is relaxed and      *)
(* synchronizes with nothing.                                               *)
LoadHeadUntested ==
  /\ ppc = "load_head"
  /\ \E lag \in Missed(headLag) : headLag' = lag /\ headNews' = lag
  /\ ppc' = "construct"
  /\ UNCHANGED <<val, consVars, slots, head, tail>>

LoadHeadRelaxed ==
  /\ ppc = "load_head"
  /\ \E lag \in Missed(headLag) :
       /\ headLag' = lag
       /\ ppc' = IF After(tail) = Before(head, lag) THEN "full" ELSE "construct"
  /\ UNCHANGED <<val, headNews, consVars, slots, head, tail>>

(* (1): the acquire load of head, and the test for a full ring.             *)
LoadHead ==
  /\ ppc = "load_head"
  /\ \E lag \in Missed(headLag) :
       /\ headLag' = lag
       /\ headNews' = lag
       /\ ppc' = IF After(tail) = Before(head, lag) THEN "full" ELSE "construct"
  /\ UNCHANGED <<val, consVars, slots, head, tail>>

(* An object is constructed in the raw memory of the slot at tail.          *)
Construct ==
  /\ ppc = "construct"
  /\ slots' = [slots EXCEPT ![tail] = val]
  /\ ppc' = "store_tail"
  /\ UNCHANGED <<val, headLag, headNews, consVars, head, tail>>

(* (2): the release store of tail.                                          *)
StoreTail ==
  /\ ppc = "store_tail"
  /\ tail' = After(tail)
  /\ tailLag' = tailLag + 1
  /\ tailNews' = tailNews + 1
  /\ ppc' = "pushed"
  /\ UNCHANGED <<val, headLag, headNews, cpc, out, slots, head>>

EmplaceReturn ==
  /\ ppc \in {"full", "pushed"}
  /\ val' = Null
  /\ ppc' = "idle"
  /\ UNCHANGED <<headLag, headNews, consVars, slots, head, tail>>

-----------------------------------------------------------------------------
(* pop                                                                      *)

PopBegin ==
  /\ cpc = "idle"
  /\ cpc' = "load_tail"
  /\ UNCHANGED <<prodVars, out, tailLag, tailNews, slots, head, tail>>

(* (3): the acquire load of tail, and the test for an empty ring.           *)
LoadTail ==
  /\ cpc = "load_tail"
  /\ \E lag \in Missed(tailLag) :
       /\ tailLag' = lag
       /\ tailNews' = lag
       /\ cpc' = IF head = Before(tail, lag) THEN "empty" ELSE "take"
  /\ UNCHANGED <<prodVars, out, slots, head, tail>>

(* Mutant of TakeOut: the object is moved from but not destroyed.           *)
TakeOutKeeps ==
  /\ cpc = "take"
  /\ out' = slots[head]
  /\ cpc' = "store_head"
  /\ UNCHANGED <<prodVars, tailLag, tailNews, slots, head, tail>>

(* The object is moved into the caller's variable and destroyed.            *)
TakeOut ==
  /\ cpc = "take"
  /\ out' = slots[head]
  /\ slots' = [slots EXCEPT ![head] = Null]
  /\ cpc' = "store_head"
  /\ UNCHANGED <<prodVars, tailLag, tailNews, head, tail>>

(* (4): the release store of head.                                          *)
StoreHead ==
  /\ cpc = "store_head"
  /\ head' = After(head)
  /\ headLag' = headLag + 1
  /\ headNews' = headNews + 1
  /\ cpc' = "popped"
  /\ UNCHANGED <<ppc, val, out, tailLag, tailNews, slots, tail>>

PopReturn ==
  /\ cpc \in {"empty", "popped"}
  /\ out' = Null
  /\ cpc' = "idle"
  /\ UNCHANGED <<prodVars, tailLag, tailNews, slots, head, tail>>

-----------------------------------------------------------------------------
Next ==
  \/ EmplaceBegin \/ LoadHead \/ Construct \/ StoreTail \/ EmplaceReturn
  \/ PopBegin \/ LoadTail \/ TakeOut \/ StoreHead \/ PopReturn

Spec == Init /\ [][Next]_vars

-----------------------------------------------------------------------------
(* Types: in particular a lag is less than the number of slots, so an old   *)
(* index is never mistaken for a new one although indices wrap around.      *)
TypeOK ==
  /\ ppc \in {"idle", "load_head", "full", "construct", "store_tail", "pushed"}
  /\ cpc \in {"idle", "load_tail", "empty", "take", "store_head", "popped"}
  /\ slots \in [Index -> Value \cup {Null}]
  /\ head \in Index /\ tail \in Index
  /\ val \in Value \cup {Null} /\ out \in Value \cup {Null}
  /\ headLag \in Index /\ tailLag \in Index
  /\ headNews \in Index /\ tailNews \in Index

(* Both threads' accesses to a slot are ordered by the acquire loads: the   *)
(* producer constructs in a slot only after it has synchronized with the    *)
(* pop that emptied it, the consumer takes only what it has synchronized    *)
(* with.  (The slot at tail was emptied Cap - 1 - Size stores to head ago,  *)
(* the one at head was filled Size - 1 stores to tail ago.)                 *)
NoDataRace ==
  /\ ppc = "construct" => headNews + Size <= Cap - 1
  /\ cpc = "take" => tailNews < Size

(* Objects live from their construction to their destruction: the slots     *)
(* between head and tail hold one each and no other slot does, except the   *)
(* two being worked on; nothing is overwritten, or read after its end.      *)
ObjectLifetimes ==
  \A n \in Index :
    LET i == (head + n) % Cap
        live == \/ n < Size /\ ~(n = 0 /\ cpc = "store_head")
                \/ n = Size /\ ppc = "store_tail"
    IN  (slots[i] # Null) <=> live

-----------------------------------------------------------------------------
(* The ring implements LinQueue with room for Cap - 1 elements.             *)
Contents ==
  [n \in 1 .. Size |-> IF n = 1 /\ cpc = "store_head" THEN out
                       ELSE slots[(head + n - 1) % Cap]]

Call(st, v) == [st |-> st, val |-> v]

ProducerCall ==
  CASE ppc = "idle"   -> Call("idle", Null)
    [] ppc = "pushed" -> Call("ret", val)
    [] ppc = "full"   -> Call("ret", Null)
    [] OTHER          -> Call("push", val)

ConsumerCall ==
  CASE cpc = "idle"   -> Call("idle", Null)
    [] cpc = "popped" -> Call("ret", out)
    [] cpc = "empty"  -> Call("ret", Null)
    [] OTHER          -> Call("try", Null)

LQ == INSTANCE LinQueue WITH
        Thread <- {"producer", "consumer"}, queue <- Contents,
        call <- [t \in {"producer", "consumer"} |->
                   IF t = "producer" THEN ProducerCall ELSE ConsumerCall],
        Bounded <- TRUE, Capacity <- Cap - 1, Precise <- ~Stale

(* The elements come out in the order they went in, each once.  A call that *)
(* sees the newest indices is refused only when the ring is full (empty) at *)
(* that moment; with stale loads it may be refused on an outdated view.     *)
ImplementsLinQueue == LQ!Spec
=============================================================================
