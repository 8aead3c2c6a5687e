------------------------------ MODULE LFUCache ------------------------------
(***************************************************************************)
(* LFUCache of src/demo/lfu.cpp: a list of lists of nodes, one list per    *)
(* frequency, and two tables that point into it.                           *)
(*                                                                         *)
(* An iterator is modelled by what it identifies: key_table takes a key to *)
(* the frequency whose list holds its node, freq_table is the set of       *)
(* frequencies whose list it points to.                                    *)
(*                                                                         *)
(* erase leaves the key in key_table, where its iterator dangles.  The     *)
(* caller modelled here does not use a key again once it is erased, and    *)
(* erases fewer keys than the cache has places: otherwise the code follows *)
(* the dangling iterator, or looks for a victim in an empty list.          *)
(***************************************************************************)
EXTENDS Naturals, FiniteSets, Sequences, SequencesExt

CONSTANTS
  Keys,
  Values,
  Missing,      \* what get answers if it does not find the key, -1
  MaxCapacity,  \* bound: the largest capacity
  MaxFreq       \* bound: how often a key is used

CacheAssumption ==
  /\ Missing \notin Values
  /\ MaxCapacity \in Nat
  /\ MaxFreq \in Nat \ {0}

VARIABLES
  capacity,
  key_table,   \* a frequency for every key in the table
  freq_table,  \* the frequencies in the table
  freq_list,   \* the lists, each with its frequency and its nodes
  erased,      \* the keys the caller has erased
  answer,      \* history: the last answer of get
  older        \* history: <<x, y>> if x has not been used since y was

vars == <<capacity, key_table, freq_table, freq_list, erased, answer, older>>

Init ==
  /\ capacity \in 0 .. MaxCapacity
  /\ key_table = <<>> /\ freq_table = {} /\ freq_list = <<>>
  /\ erased = {} /\ answer = Missing /\ older = {}

-----------------------------------------------------------------------------
(* Lists                                                                    *)

(* Where the iterator freq_table[f] points.                                 *)
Place(lists, f) == CHOOSE i \in DOMAIN lists : lists[i].freq = f

PushFront(lists, f, node) ==
  [lists EXCEPT ![Place(lists, f)].nodes = <<node>> \o @]

(* A list for f + 1 is inserted next to the one for f.                      *)
InsertNext(lists, f, node) ==
  InsertAt(lists, Place(lists, f) + 1, [freq |-> f + 1, nodes |-> <<node>>])

(* Where the iterator key_table[k] points, in the list of its frequency.     *)
Spot(nodes, k) == CHOOSE i \in DOMAIN nodes : nodes[i].key = k

NodesWithout(lists, f, k) ==
  LET nodes == lists[Place(lists, f)].nodes
  IN  RemoveAt(nodes, Spot(nodes, k))

(* The node is erased from its list, and the list if it is empty now.       *)
Without(lists, f, k) ==
  LET rest == NodesWithout(lists, f, k)
  IN  IF rest = <<>>
      THEN RemoveAt(lists, Place(lists, f))
      ELSE [lists EXCEPT ![Place(lists, f)].nodes = rest]

(* Mutant of FreqsWithout: the empty list's entry stays.                    *)
FreqsWithoutNothing(freqs, lists, f, k) == freqs

FreqsWithout(freqs, lists, f, k) ==
  IF NodesWithout(lists, f, k) = <<>> THEN freqs \ {f} ELSE freqs

-----------------------------------------------------------------------------
(* Operations                                                               *)

Known(k) == k \in DOMAIN key_table

Cached == DOMAIN key_table \ erased

(* k is used, the keys in gone leave.                                       *)
Among(S) == older \cap (S \X S)
Used(k, gone) ==
  LET others == Cached \ (gone \cup {k})
  IN  Among(others) \cup (others \X {k})

(* Mutant of Promote: the node joins the back of the next list.             *)
PromoteBehind(k, v) ==
  LET f == key_table[k]
      node == [key |-> k, val |-> v]
      lists == IF f + 1 \in freq_table
               THEN [freq_list EXCEPT ![Place(freq_list, f + 1)].nodes =
                       Append(@, node)]
               ELSE InsertNext(freq_list, f, node)
  IN  /\ f < MaxFreq
      /\ freq_list' = Without(lists, f, k)
      /\ freq_table' = FreqsWithout(freq_table \cup {f + 1}, lists, f, k)
      /\ key_table' = [key_table EXCEPT ![k] = f + 1]
      /\ older' = Used(k, {})

(* A use of a key: a new node for it goes to the front of the list for the  *)
(* next frequency, then the old one is erased.                              *)
Promote(k, v) ==
  LET f == key_table[k]
      node == [key |-> k, val |-> v]
      lists == IF f + 1 \in freq_table THEN PushFront(freq_list, f + 1, node)
               ELSE InsertNext(freq_list, f, node)
  IN  /\ f < MaxFreq
      /\ freq_list' = Without(lists, f, k)
      /\ freq_table' = FreqsWithout(freq_table \cup {f + 1}, lists, f, k)
      /\ key_table' = [key_table EXCEPT ![k] = f + 1]
      /\ older' = Used(k, {})

ValueOf(k) ==
  LET nodes == freq_list[Place(freq_list, key_table[k])].nodes
  IN  nodes[Spot(nodes, k)].val

Get(k) ==
  /\ UNCHANGED <<capacity, erased>>
  /\ \/ /\ ~Known(k)
        /\ answer' = Missing
        /\ UNCHANGED <<key_table, freq_table, freq_list, older>>
     \/ /\ Known(k)
        /\ answer' = ValueOf(k)
        /\ Promote(k, ValueOf(k))

MINFREQ == IF freq_list = <<>> THEN 0 ELSE freq_list[1].freq

Full == Cardinality(DOMAIN key_table) = capacity

(* The back of the list for MINFREQ.                                        *)
Victim == Last(freq_list[Place(freq_list, MINFREQ)].nodes).key

(* A new key, after the keys in gone have made room.                        *)
InsertKey(k, v, gone, freqs, lists) ==
  LET node == [key |-> k, val |-> v]
  IN  /\ freq_list' = IF 1 \in freqs THEN PushFront(lists, 1, node)
                      ELSE InsertAt(lists, 1, [freq |-> 1, nodes |-> <<node>>])
      /\ freq_table' = freqs \cup {1}
      /\ key_table' = [x \in (DOMAIN key_table \ gone) \cup {k} |->
                         IF x = k THEN 1 ELSE key_table[x]]
      /\ older' = Used(k, gone)

Put(k, v) ==
  /\ UNCHANGED <<capacity, erased, answer>>
  /\ capacity # 0
  /\ \/ /\ Known(k)
        /\ Promote(k, v)
     \/ /\ ~Known(k) /\ ~Full
        /\ InsertKey(k, v, {}, freq_table, freq_list)
     \/ /\ ~Known(k) /\ Full
        /\ InsertKey(k, v, {Victim},
                     FreqsWithout(freq_table, freq_list, MINFREQ, Victim),
                     Without(freq_list, MINFREQ, Victim))

PutNothing ==
  /\ capacity = 0
  /\ UNCHANGED vars

(* erase(key); of a key that is not in the table it does nothing.           *)
Erase(k) ==
  /\ Known(k)
  /\ Cardinality(erased) + 1 < capacity
  /\ LET f == key_table[k]
     IN  /\ freq_list' = Without(freq_list, f, k)
         /\ freq_table' = FreqsWithout(freq_table, freq_list, f, k)
  /\ erased' = erased \cup {k}
  /\ older' = Among(Cached \ {k})
  /\ UNCHANGED <<capacity, key_table, answer>>

Next ==
  \/ PutNothing
  \/ \E k \in Keys \ erased :
       \/ Get(k)
       \/ \E v \in Values : Put(k, v)
       \/ Erase(k)

Spec == Init /\ [][Next]_vars

-----------------------------------------------------------------------------
(* Properties                                                               *)

(* No more keys than the capacity, and no frequency below 1.                *)
TypeOK ==
  /\ key_table \in [DOMAIN key_table -> 1 .. MaxFreq]
  /\ Cardinality(DOMAIN key_table) <= capacity
  /\ freq_table \subseteq 1 .. MaxFreq
  /\ \A i \in DOMAIN freq_list :
       /\ freq_list[i].freq \in 1 .. MaxFreq
       /\ \A j \in DOMAIN freq_list[i].nodes :
            freq_list[i].nodes[j] \in [key : Keys, val : Values]

(* The three structures agree, so that no iterator of a key in use dangles  *)
(* and MINFREQ finds the least frequency at the front: the lists ascend and *)
(* are not empty, freq_table points to each of them, and a key's only node  *)
(* is in the list its entry in key_table points into.                       *)
TablesAgree ==
  /\ TypeOK
  /\ \A i, j \in DOMAIN freq_list :
       i < j => freq_list[i].freq < freq_list[j].freq
  /\ freq_table = {freq_list[i].freq : i \in DOMAIN freq_list}
  /\ \A i \in DOMAIN freq_list : freq_list[i].nodes # <<>>
  /\ \A i \in DOMAIN freq_list :
       LET nodes == freq_list[i].nodes
       IN  \A j \in DOMAIN nodes :
             /\ nodes[j].key \in Cached
             /\ key_table[nodes[j].key] = freq_list[i].freq
             /\ \A m \in DOMAIN nodes : nodes[m].key = nodes[j].key => m = j
  /\ \A k \in Cached :
       \E i \in DOMAIN freq_list, node \in [key : {k}, val : Values] :
         node \in Range(freq_list[i].nodes)

(* The cache behaves as LFUPolicy: get answers the last value put, and the  *)
(* victim is the least frequently used key, of several the least recently   *)
(* used.  Neither uses nor times are stored anywhere but in the places of   *)
(* the nodes.                                                               *)
Policy == INSTANCE LFUPolicy WITH
  entry <- [k \in Cached |-> [val |-> ValueOf(k), uses |-> key_table[k]]],
  lost <- Cardinality(erased)

ImplementsLFUPolicy == Policy!Spec
=============================================================================
