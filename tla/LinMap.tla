-------------------------------- MODULE LinMap --------------------------------
(***************************************************************************)
(* The promise of a concurrent table, independent of how it is built: each *)
(* get, set and erase takes effect atomically between its call and its     *)
(* return, and get answers what was set last.                              *)
(***************************************************************************)
CONSTANTS
  Thread,  \* the threads that call the table
  Key,
  Value,
  Null     \* the answer of a get that found nothing; "no value"

VARIABLES
  map,     \* the value of each key, Null if it has none
  call     \* what each thread is doing: waiting for its effect ("get", "set",
           \* "erase"), about to return ("ret"), or nothing ("idle")

vars == <<map, call>>

Call(st, k, v) == [st |-> st, key |-> k, val |-> v]
Idle == Call("idle", Null, Null)

Move(t, c) == call' = [call EXCEPT ![t] = c]

Init ==
  /\ map = [k \in Key |-> Null]
  /\ call = [t \in Thread |-> Idle]

Invoke(t) ==
  /\ call[t] = Idle
  /\ \E k \in Key :
       \/ Move(t, Call("get", k, Null))
       \/ \E v \in Value : Move(t, Call("set", k, v))
       \/ Move(t, Call("erase", k, Null))
  /\ UNCHANGED map

Get(t) ==
  /\ call[t].st = "get"
  /\ Move(t, Call("ret", call[t].key, map[call[t].key]))
  /\ UNCHANGED map

Set(t) ==
  /\ call[t].st = "set"
  /\ map' = [map EXCEPT ![call[t].key] = call[t].val]
  /\ Move(t, Call("ret", call[t].key, call[t].val))

Erase(t) ==
  /\ call[t].st = "erase"
  /\ map' = [map EXCEPT ![call[t].key] = Null]
  /\ Move(t, Call("ret", call[t].key, Null))

Return(t) ==
  /\ call[t].st = "ret"
  /\ Move(t, Idle)
  /\ UNCHANGED map

Next == \E t \in Thread : Invoke(t) \/ Get(t) \/ Set(t) \/ Erase(t) \/ Return(t)

Spec == Init /\ [][Next]_vars
=============================================================================
