---------------------------- MODULE ConcurrentMap ----------------------------
(***************************************************************************)
(* ConcurrentMap<K, V> of src/thread-safe/map.cpp and                      *)
(* src/hashmap/concurrent_map.cpp (the same class twice): a fixed number   *)
(* of buckets, each a list of pairs under a std::shared_mutex.             *)
(*                                                                         *)
(* A step is what a thread does between two points at which another thread *)
(* could interfere if the locks did not prevent it: find_if walks the list *)
(* in one, and what is done with the iterator it answers is another.       *)
(***************************************************************************)
EXTENDS Naturals, Sequences, SequencesExt

CONSTANTS
  Thread,
  Key,
  Value,
  Bucket,  \* the buckets
  Hash,    \* the bucket of each key: hasher_(k) % buckets_.size()
  Null     \* default_value; no value, no thread

MapAssumption ==
  /\ Hash \in [Key -> Bucket]
  /\ Null \notin Key \cup Value \cup Thread

VARIABLES
  pc,       \* where each thread is in a call
  op,       \* the call it is in: "get", "set" or "erase"
  key,      \* its arguments
  val,      \* the value it sets or answers
  it,       \* the iterator of find_if: a position, 0 for end()
  data,     \* Bucket::data of every bucket
  readers,  \* the threads that hold Bucket::m shared
  writer    \* the thread that holds Bucket::m, or Null

callVars == <<op, key, val>>
vars == <<pc, callVars, it, data, readers, writer>>

Pair(k, v) == [first |-> k, second |-> v]
Goto(t, l) == pc' = [pc EXCEPT ![t] = l]
BucketOf(t) == Hash[key[t]]

Init ==
  /\ pc = [t \in Thread |-> "idle"]
  /\ op = [t \in Thread |-> Null]
  /\ key = [t \in Thread |-> Null]
  /\ val = [t \in Thread |-> Null]
  /\ it = [t \in Thread |-> 0]
  /\ data = [b \in Bucket |-> <<>>]
  /\ readers = [b \in Bucket |-> {}]
  /\ writer = [b \in Bucket |-> Null]

Begin(t) ==
  /\ pc[t] = "idle"
  /\ \E k \in Key : key' = [key EXCEPT ![t] = k]
  /\ \/ \E o \in {"get", "erase"} : op' = [op EXCEPT ![t] = o] /\ UNCHANGED val
     \/ /\ op' = [op EXCEPT ![t] = "set"]
        /\ \E v \in Value : val' = [val EXCEPT ![t] = v]
  /\ Goto(t, "lock")
  /\ UNCHANGED <<it, data, readers, writer>>

(* std::shared_lock, which excludes writers only.                           *)
LockShared(t) ==
  /\ writer[BucketOf(t)] = Null
  /\ readers' = [readers EXCEPT ![BucketOf(t)] = @ \cup {t}]
  /\ UNCHANGED writer

(* std::unique_lock, which excludes everyone.                               *)
LockUnique(t) ==
  /\ writer[BucketOf(t)] = Null
  /\ readers[BucketOf(t)] = {}
  /\ writer' = [writer EXCEPT ![BucketOf(t)] = t]
  /\ UNCHANGED readers

(* Mutant of Lock: set takes the lock shared, too.                          *)
LockSetShared(t) ==
  /\ pc[t] = "lock"
  /\ \/ op[t] # "erase" /\ LockShared(t)
     \/ op[t] = "erase" /\ LockUnique(t)
  /\ Goto(t, "find")
  /\ UNCHANGED <<callVars, it, data>>

Lock(t) ==
  /\ pc[t] = "lock"
  /\ \/ op[t] = "get" /\ LockShared(t)
     \/ op[t] # "get" /\ LockUnique(t)
  /\ Goto(t, "find")
  /\ UNCHANGED <<callVars, it, data>>

(* Leaving the scope of the lock.                                           *)
Unlock(t) ==
  /\ readers' = [readers EXCEPT ![BucketOf(t)] = @ \ {t}]
  /\ writer' = [writer EXCEPT ![BucketOf(t)] = Null]

(* std::find_if: the first pair with the key, or end().                     *)
Position(pairs, k) == SelectInSeq(pairs, LAMBDA x : x.first = k)

Find(t) ==
  /\ pc[t] = "find"
  /\ it' = [it EXCEPT ![t] = Position(data[BucketOf(t)], key[t])]
  /\ Goto(t, op[t])
  /\ UNCHANGED <<callVars, data, readers, writer>>

Finish(t) ==
  /\ Goto(t, "done")
  /\ it' = [it EXCEPT ![t] = 0]
  /\ Unlock(t)
  /\ UNCHANGED <<op, key>>

Get(t) ==
  /\ pc[t] = "get"
  /\ val' = [val EXCEPT ![t] = IF it[t] = 0 THEN Null
                               ELSE data[BucketOf(t)][it[t]].second]
  /\ Finish(t)
  /\ UNCHANGED data

Set(t) ==
  /\ pc[t] = "set"
  /\ data' = [data EXCEPT ![BucketOf(t)] =
                IF it[t] = 0 THEN Append(@, Pair(key[t], val[t]))
                ELSE [@ EXCEPT ![it[t]].second = val[t]]]
  /\ Finish(t)
  /\ UNCHANGED val

Erase(t) ==
  /\ pc[t] = "erase"
  /\ data' = [data EXCEPT ![BucketOf(t)] =
                IF it[t] = 0 THEN @ ELSE RemoveAt(@, it[t])]
  /\ Finish(t)
  /\ UNCHANGED val

Return(t) ==
  /\ pc[t] = "done"
  /\ Goto(t, "idle")
  /\ op' = [op EXCEPT ![t] = Null]
  /\ key' = [key EXCEPT ![t] = Null]
  /\ val' = [val EXCEPT ![t] = Null]
  /\ UNCHANGED <<it, data, readers, writer>>

Step(t) == Lock(t) \/ Find(t) \/ Get(t) \/ Set(t) \/ Erase(t) \/ Return(t)

Next == \E t \in Thread : Begin(t) \/ Step(t)

Spec == Init /\ [][Next]_vars

-----------------------------------------------------------------------------
(* Properties                                                               *)

Contents ==
  [k \in Key |-> LET pairs == data[Hash[k]]
                     i == Position(pairs, k)
                 IN  IF i = 0 THEN Null ELSE pairs[i].second]

CallOf(t) ==
  CASE pc[t] = "idle" -> [st |-> "idle", key |-> Null, val |-> Null]
    [] pc[t] = "done" -> [st |-> "ret", key |-> key[t], val |-> val[t]]
    [] OTHER          -> [st |-> op[t], key |-> key[t], val |-> val[t]]

LM == INSTANCE LinMap WITH
        map <- Contents, call <- [t \in Thread |-> CallOf(t)]

(* Every get, set and erase takes effect at once, though each first looks a *)
(* key up and then acts on what it has found, and readers share the lock:   *)
(* no key gets two entries, and none is lost.                               *)
ImplementsLinMap == LM!Spec
=============================================================================
