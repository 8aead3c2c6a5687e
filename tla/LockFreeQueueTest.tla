-------------------------- MODULE LockFreeQueueTest --------------------------
(***************************************************************************)
(* main() of src/latch-free/queue.cpp: n threads push one number each and  *)
(* are joined, then main pops n times and dereferences every answer.  Here *)
(* a thread's number is the thread itself (Value = Producer) and main is   *)
(* the one consumer.                                                       *)
(***************************************************************************)
EXTENDS LockFreeQueue, FiniteSets

VARIABLES
  toPush,  \* workers that have not called push yet
  pops     \* how many times main has called pop

testVars == <<vars, toPush, pops>>

TestInit == Init /\ toPush = Producer /\ pops = 0

TestPush(t) ==
  /\ t \in toPush
  /\ PushBegin(t, t)
  /\ toPush' = toPush \ {t}
  /\ UNCHANGED pops

Joined == toPush = {} /\ \A t \in Producer : pc[t] = "idle"

TestPop(t) ==
  /\ Joined
  /\ pops < Cardinality(Producer)
  /\ PopBegin(t)
  /\ pops' = pops + 1
  /\ UNCHANGED toPush

TestNext ==
  \/ \E t \in Producer :
       TestPush(t) \/ (PushStep(t) /\ UNCHANGED <<toPush, pops>>)
  \/ \E t \in Consumer :
       TestPop(t) \/ (PopStep(t) /\ UNCHANGED <<toPush, pops>>)

TestSpec == TestInit /\ [][TestNext]_testVars

(* main dereferences the answer of each of its n pops without a test: n     *)
(* pushes have returned, so n pops must each find an element.               *)
EveryPopFinds == \A t \in Consumer : pc[t] # "empty"
=============================================================================
