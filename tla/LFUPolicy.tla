------------------------------ MODULE LFUPolicy ------------------------------
(***************************************************************************)
(* What a least-frequently-used cache promises (src/demo/lfu.cpp).  A use  *)
(* is a get that finds the key or a put.  When a new key finds no room the *)
(* key with the fewest uses goes, among those the one not used for the     *)
(* longest time.  An erased key's place is lost.                           *)
(***************************************************************************)
EXTENDS Naturals, FiniteSets

CONSTANTS Keys, Values, Missing

VARIABLES
  capacity,
  entry,    \* val and uses of every key in the cache
  older,    \* <<x, y>> if x has not been used since y was
  lost,     \* places lost to erased keys
  answer    \* the last answer of get

vars == <<capacity, entry, older, lost, answer>>

Cached == DOMAIN entry
Among(S) == older \cap (S \X S)

(* k is used, the keys in gone leave.                                       *)
Used(k, gone) ==
  LET others == Cached \ (gone \cup {k})
  IN  Among(others) \cup (others \X {k})

Init ==
  /\ capacity \in Nat
  /\ entry = <<>> /\ older = {} /\ lost = 0
  /\ answer = Missing

Use(k, v) ==
  /\ k \in Cached
  /\ entry' = [entry EXCEPT ![k] = [val |-> v, uses |-> @.uses + 1]]
  /\ older' = Used(k, {})
  /\ UNCHANGED lost

Hit(k) == Use(k, entry[k].val) /\ answer' = entry[k].val

Miss(k) ==
  /\ k \notin Cached
  /\ answer' = Missing
  /\ UNCHANGED <<entry, older, lost>>

Update(k, v) == Use(k, v) /\ UNCHANGED answer

(* x goes before y.                                                         *)
Precedes(x, y) ==
  \/ entry[x].uses < entry[y].uses
  \/ entry[x].uses = entry[y].uses /\ <<x, y>> \in older

Insert(k, v, gone) ==
  /\ entry' = [x \in (Cached \ gone) \cup {k} |->
                 IF x = k THEN [val |-> v, uses |-> 1] ELSE entry[x]]
  /\ older' = Used(k, gone)
  /\ UNCHANGED <<lost, answer>>

PutNew(k, v) ==
  /\ k \notin Cached
  /\ IF Cardinality(Cached) + lost < capacity
     THEN Insert(k, v, {})
     ELSE \E victim \in Cached :
            /\ \A x \in Cached \ {victim} : Precedes(victim, x)
            /\ Insert(k, v, {victim})

Erase(k) ==
  /\ k \in Cached
  /\ entry' = [x \in Cached \ {k} |-> entry[x]]
  /\ older' = Among(Cached \ {k})
  /\ lost' = lost + 1
  /\ UNCHANGED answer

Next ==
  /\ UNCHANGED capacity
  /\ \E k \in Keys :
       \/ Hit(k)
       \/ Miss(k)
       \/ Erase(k)
       \/ \E v \in Values : Update(k, v) \/ PutNew(k, v)

Spec == Init /\ [][Next]_vars
=============================================================================
