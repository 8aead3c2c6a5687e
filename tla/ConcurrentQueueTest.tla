------------------------- MODULE ConcurrentQueueTest -------------------------
(***************************************************************************)
(* ConcurrentQueue under clients that make finitely many calls, as the test *)
(* of main() in src/thread-safe/queue.cpp does: there main pushes as many  *)
(* values as there are threads that call wait_and_pop once, and joins them. *)
(***************************************************************************)
EXTENDS ConcurrentQueue

CONSTANTS
  PushCalls,  \* how many times each producer calls push
  PopCalls    \* how many times each consumer calls its pop

ASSUME TestAssumption == PushCalls \in Nat /\ PopCalls \in Nat

VARIABLE
  toCall      \* the calls each thread has not started yet

testVars == <<vars, toCall>>

TestInit ==
  /\ Init
  /\ toCall = [t \in Thread |-> IF t \in Producer THEN PushCalls ELSE PopCalls]

TestCall(t) ==
  /\ toCall[t] > 0
  /\ Begin(t)
  /\ toCall' = [toCall EXCEPT ![t] = @ - 1]

(* A thread's next step on its own: its next call, or the next step of the  *)
(* call it is in.                                                           *)
TestStep(t) == TestCall(t) \/ (Continue(t) /\ UNCHANGED toCall)

TestDone(t) == toCall[t] = 0 /\ pc[t] = "idle"

(* The clients have made all their calls, or can make no more because the   *)
(* waiting ones wait for elements nobody pushes.                            *)
TestEnd ==
  /\ \A t \in Thread \ Waiter : TestDone(t)
  /\ \A t \in Waiter : TestDone(t) \/ pc[t] = "blocked"
  /\ UNCHANGED testVars

TestNext ==
  \/ \E t \in Thread :
       TestStep(t) \/ (SpuriousWakeup(t) /\ UNCHANGED toCall)
  \/ TestEnd

(* The scheduler lets every thread that can go on do so; since each thread  *)
(* makes finitely many calls no mutex stays contended for ever.  Spurious   *)
(* wakeups may happen but nothing obliges them to.                          *)
TestSpec ==
  /\ TestInit
  /\ [][TestNext]_testVars
  /\ \A t \in Thread : WF_testVars(TestStep(t))

(* The joins return: every call of push, try_pop and wait_and_pop finishes  *)
(* when no more elements are asked for than are pushed.                     *)
JoinsReturn == <>(\A t \in Thread : TestDone(t))

(* push returns, whatever the consumers do: it never waits for one that     *)
(* sleeps, wakes up for nothing again and again, or holds head_mutex_.      *)
(* try_pop returns too, unless waking waiters contend for head_mutex_ for   *)
(* ever; in particular the two mutexes cannot deadlock.                     *)
WakeupsCease == <>[][\A t \in Waiter : ~SpuriousWakeup(t)]_testVars

OnlyWaitersWait ==
  /\ <>(\A t \in Producer : TestDone(t))
  /\ WakeupsCease => <>(\A t \in Poller : TestDone(t))
=============================================================================
