----------------------------- MODULE ThreadPool -----------------------------
(***************************************************************************)
(* ThreadPool of src/thread-pool/thread_pool.h (the copy beside the sparse *)
(* matrix differs only in names): workers that take tasks from one queue   *)
(* under one mutex and condition variable, enqueue, and a destructor that  *)
(* sets stop and joins them.                                               *)
(*                                                                         *)
(* The owner is the thread that constructs and destroys the pool; a task   *)
(* may enqueue further tasks from the worker that runs it.  One action per *)
(* stretch between two points where another thread can interfere.          *)
(***************************************************************************)
EXTENDS Naturals, Sequences, FiniteSets

CONSTANTS
  Worker,       \* the threads the constructor launches
  Owner,        \* the thread that owns the pool
  Task,         \* the callables that may be enqueued
  Parent,       \* the task that enqueues a task, or Owner
  MaxSpurious,  \* bound on the wakeups nobody asked for
  Null          \* no thread, no task

ASSUME PoolAssumption ==
  /\ Worker # {} /\ IsFiniteSet(Worker) /\ IsFiniteSet(Task)
  /\ Parent \in [Task -> Task \cup {Owner}]
  /\ Owner \notin Worker \cup Task
  /\ Null \notin Worker \cup Task \cup {Owner}
  /\ MaxSpurious \in Nat

Thread == Worker \cup {Owner}

VARIABLES
  pc,         \* where each thread is
  arg,        \* the task a thread's call of enqueue or get is about
  running,    \* task: what each worker is executing
  tasks,      \* the queue of tasks
  mutex,      \* owner of queue_mutex
  stop,       \* stop
  ready,      \* tasks whose packaged_task has run: their futures are ready
  offered,    \* tasks that have been handed to enqueue
  refused,    \* tasks whose enqueue threw
  spurious    \* how many spurious wakeups there have been

vars == <<pc, arg, running, tasks, mutex, stop, ready, offered, refused, spurious>>

Locations ==
  {"lock", "check", "block", "blocked", "run", "finish", "exited",
   "idle", "enq_lock", "enq_push", "enq_notify", "get",
   "stop_lock", "stop_set", "stop_notify", "join", "gone"}

(* The points where a thread holds queue_mutex.                             *)
Section == {"check", "block", "enq_push", "stop_set"}

Goto(t, l) == pc' = [pc EXCEPT ![t] = l]

Blocked == {w \in Worker : pc[w] = "blocked"}

Init ==
  /\ pc = [t \in Thread |-> IF t = Owner THEN "idle" ELSE "lock"]
  /\ arg = [t \in Thread |-> Null]
  /\ running = [w \in Worker |-> Null]
  /\ tasks = <<>>
  /\ mutex = Null
  /\ stop = FALSE
  /\ ready = {}
  /\ offered = {}
  /\ refused = {}
  /\ spurious = 0

-----------------------------------------------------------------------------
(* The loop of a worker                                                     *)

WorkerLock(w) ==
  /\ pc[w] = "lock"
  /\ mutex = Null
  /\ mutex' = w
  /\ Goto(w, "check")
  /\ UNCHANGED <<arg, running, tasks, stop, ready, offered, refused, spurious>>

(* The predicate of condition.wait does not hold.                           *)
WaitCheck(w) ==
  /\ pc[w] = "check"
  /\ ~stop /\ tasks = <<>>
  /\ Goto(w, "block")
  /\ UNCHANGED <<arg, running, tasks, mutex, stop, ready, offered, refused, spurious>>

(* condition.wait unlocks and blocks, in one step for those who lock.       *)
WaitBlock(w) ==
  /\ pc[w] = "block"
  /\ mutex' = Null
  /\ Goto(w, "blocked")
  /\ UNCHANGED <<arg, running, tasks, stop, ready, offered, refused, spurious>>

SpuriousWakeup(w) ==
  /\ pc[w] = "blocked"
  /\ spurious < MaxSpurious
  /\ spurious' = spurious + 1
  /\ Goto(w, "lock")
  /\ UNCHANGED <<arg, running, tasks, mutex, stop, ready, offered, refused>>

(* Mutant of Exit: the worker leaves as soon as it sees stop.              *)
ExitOnStop(w) ==
  /\ pc[w] = "check"
  /\ stop
  /\ mutex' = Null
  /\ Goto(w, "exited")
  /\ UNCHANGED <<arg, running, tasks, stop, ready, offered, refused, spurious>>

Exit(w) ==
  /\ pc[w] = "check"
  /\ stop /\ tasks = <<>>
  /\ mutex' = Null
  /\ Goto(w, "exited")
  /\ UNCHANGED <<arg, running, tasks, stop, ready, offered, refused, spurious>>

(* The front of the queue is moved out and popped before the unlock.        *)
Take(w) ==
  /\ pc[w] = "check"
  /\ tasks # <<>>
  /\ running' = [running EXCEPT ![w] = Head(tasks)]
  /\ tasks' = Tail(tasks)
  /\ mutex' = Null
  /\ Goto(w, "run")
  /\ UNCHANGED <<arg, stop, ready, offered, refused, spurious>>

(* The callable returns, or an exception ends it: packaged_task stores      *)
(* either in the future and the loop goes round.                            *)
Finish(w) ==
  /\ pc[w] \in {"run", "finish"}
  /\ ready' = ready \cup {running[w]}
  /\ running' = [running EXCEPT ![w] = Null]
  /\ Goto(w, "lock")
  /\ UNCHANGED <<arg, tasks, mutex, stop, offered, refused, spurious>>

-----------------------------------------------------------------------------
(* enqueue, called by the owner or by a task on the worker that runs it     *)

Caller(t) == IF t = Owner THEN Owner ELSE running[t]

EnqueueBegin(t) ==
  /\ pc[t] \in {"idle", "run"}
  /\ \E x \in Task \ offered :
       /\ Parent[x] = Caller(t)
       /\ arg' = [arg EXCEPT ![t] = x]
       /\ offered' = offered \cup {x}
  /\ Goto(t, "enq_lock")
  /\ UNCHANGED <<running, tasks, mutex, stop, ready, refused, spurious>>

EnqueueLock(t) ==
  /\ pc[t] = "enq_lock"
  /\ mutex = Null
  /\ mutex' = t
  /\ Goto(t, "enq_push")
  /\ UNCHANGED <<arg, running, tasks, stop, ready, offered, refused, spurious>>

EnqueuePush(t) ==
  /\ pc[t] = "enq_push"
  /\ ~stop
  /\ tasks' = Append(tasks, arg[t])
  /\ mutex' = Null
  /\ Goto(t, "enq_notify")
  /\ UNCHANGED <<arg, running, stop, ready, offered, refused, spurious>>

(* enqueue throws: the exception leaves the task that called it.            *)
EnqueueThrow(t) ==
  /\ pc[t] = "enq_push"
  /\ stop
  /\ refused' = refused \cup {arg[t]}
  /\ arg' = [arg EXCEPT ![t] = Null]
  /\ mutex' = Null
  /\ Goto(t, "finish")
  /\ UNCHANGED <<running, tasks, stop, ready, offered, spurious>>

Return(t) == IF t = Owner THEN "idle" ELSE "run"

(* Mutant of EnqueueNotify: the caller forgets to notify.                   *)
EnqueueSilent(t) ==
  /\ pc[t] = "enq_notify"
  /\ arg' = [arg EXCEPT ![t] = Null]
  /\ Goto(t, Return(t))
  /\ UNCHANGED <<running, tasks, mutex, stop, ready, offered, refused, spurious>>

(* condition.notify_one() wakes one blocked worker, if there is any.        *)
EnqueueNotify(t) ==
  /\ pc[t] = "enq_notify"
  /\ arg' = [arg EXCEPT ![t] = Null]
  /\ \/ /\ Blocked = {}
        /\ Goto(t, Return(t))
     \/ \E w \in Blocked :
          pc' = [pc EXCEPT ![t] = Return(t), ![w] = "lock"]
  /\ UNCHANGED <<running, tasks, mutex, stop, ready, offered, refused, spurious>>

-----------------------------------------------------------------------------
(* What else the owner does: get a result, destroy the pool                 *)

GetBegin ==
  /\ pc[Owner] = "idle"
  /\ \E x \in offered :
       /\ Parent[x] = Owner
       /\ arg' = [arg EXCEPT ![Owner] = x]
  /\ Goto(Owner, "get")
  /\ UNCHANGED <<running, tasks, mutex, stop, ready, offered, refused, spurious>>

GetReturn ==
  /\ pc[Owner] = "get"
  /\ arg[Owner] \in ready
  /\ arg' = [arg EXCEPT ![Owner] = Null]
  /\ Goto(Owner, "idle")
  /\ UNCHANGED <<running, tasks, mutex, stop, ready, offered, refused, spurious>>

DestroyBegin ==
  /\ pc[Owner] = "idle"
  /\ Goto(Owner, "stop_lock")
  /\ UNCHANGED <<arg, running, tasks, mutex, stop, ready, offered, refused, spurious>>

(* Mutant of StopLock: stop is set without queue_mutex.                     *)
StopUnlocked ==
  /\ pc[Owner] = "stop_lock"
  /\ stop' = TRUE
  /\ Goto(Owner, "stop_notify")
  /\ UNCHANGED <<arg, running, tasks, mutex, ready, offered, refused, spurious>>

StopLock ==
  /\ pc[Owner] = "stop_lock"
  /\ mutex = Null
  /\ mutex' = Owner
  /\ Goto(Owner, "stop_set")
  /\ UNCHANGED <<arg, running, tasks, stop, ready, offered, refused, spurious>>

StopSet ==
  /\ pc[Owner] = "stop_set"
  /\ stop' = TRUE
  /\ mutex' = Null
  /\ Goto(Owner, "stop_notify")
  /\ UNCHANGED <<arg, running, tasks, ready, offered, refused, spurious>>

(* condition.notify_all()                                                   *)
StopNotify ==
  /\ pc[Owner] = "stop_notify"
  /\ pc' = [t \in Thread |-> IF t = Owner THEN "join"
                             ELSE IF t \in Blocked THEN "lock" ELSE pc[t]]
  /\ UNCHANGED <<arg, running, tasks, mutex, stop, ready, offered, refused, spurious>>

(* Every join has returned, and with it the destructor.                     *)
Join ==
  /\ pc[Owner] = "join"
  /\ \A w \in Worker : pc[w] = "exited"
  /\ Goto(Owner, "gone")
  /\ UNCHANGED <<arg, running, tasks, mutex, stop, ready, offered, refused, spurious>>

-----------------------------------------------------------------------------
WorkerStep(w) ==
  WorkerLock(w) \/ WaitCheck(w) \/ WaitBlock(w) \/ Exit(w) \/ Take(w) \/ Finish(w)

EnqueueStep(t) ==
  EnqueueLock(t) \/ EnqueuePush(t) \/ EnqueueThrow(t) \/ EnqueueNotify(t)

(* The steps of a call the owner is in; what it calls next is up to it.     *)
OwnerStep == GetReturn \/ StopLock \/ StopSet \/ StopNotify \/ Join
OwnerCall == GetBegin \/ DestroyBegin

(* Nothing is left to do once the pool is gone.                             *)
Terminated == pc[Owner] = "gone" /\ UNCHANGED vars

Next ==
  \/ \E w \in Worker : WorkerStep(w) \/ SpuriousWakeup(w)
  \/ \E t \in Thread : EnqueueBegin(t) \/ EnqueueStep(t)
  \/ OwnerStep
  \/ OwnerCall
  \/ Terminated

Spec == Init /\ [][Next]_vars

(* A thread that can go on does: a worker's loop, a call of enqueue, and    *)
(* the owner's get and destructor.  Neither the owner nor a task is obliged *)
(* to make another call, and mutex contention is finite because the tasks   *)
(* and the spurious wakeups are.                                            *)
FairSpec ==
  /\ Spec
  /\ \A w \in Worker : WF_vars(WorkerStep(w))
  /\ \A t \in Thread : WF_vars(EnqueueStep(t))
  /\ WF_vars(OwnerStep)

-----------------------------------------------------------------------------
(* Types                                                                    *)
TypeOK ==
  /\ pc \in [Thread -> Locations]
  /\ arg \in [Thread -> Task \cup {Null}]
  /\ running \in [Worker -> Task \cup {Null}]
  /\ tasks \in Seq(Task)
  /\ mutex \in Thread \cup {Null}
  /\ stop \in BOOLEAN
  /\ ready \subseteq Task
  /\ offered \subseteq Task
  /\ refused \subseteq Task
  /\ spurious \in 0 .. MaxSpurious

(* No task waits beside a sleeping worker without a wakeup on its way: the  *)
(* queue is never longer than the notifications still to be sent plus the   *)
(* workers already going to look at it, as long as a worker sleeps.         *)
Notifying == {t \in Thread : pc[t] = "enq_notify"}
Coming == {w \in Worker : pc[w] \in {"lock", "check"}}

WorkConserving ==
  Blocked # {} => Len(tasks) <= Cardinality(Notifying) + Cardinality(Coming)

(* Once stop is set and announced no worker sleeps again: otherwise the     *)
(* destructor would join a thread that nobody wakes.                        *)
NoSleeperAfterStop ==
  pc[Owner] \in {"join", "gone"} => \A w \in Worker : pc[w] \notin {"block", "blocked"}

StatusOf(t) ==
  CASE t \in ready                          -> "done"
    [] t \in refused                        -> "refused"
    [] \E i \in DOMAIN tasks : tasks[i] = t -> "pending"
    [] \E w \in Worker : running[w] = t     -> "running"
    [] OTHER                                -> "new"

Phase == IF pc[Owner] = "gone" THEN "closed" ELSE IF stop THEN "closing" ELSE "open"

TP == INSTANCE TaskPool WITH
        pending <- tasks, status <- [t \in Task |-> StatusOf(t)], phase <- Phase,
        Width <- Cardinality(Worker)

(* The pool keeps the promise of TaskPool: each accepted task starts once,  *)
(* first come first served, refusals happen only after stop, and the        *)
(* destructor returns with every accepted task done.                        *)
ImplementsTaskPool == TP!Spec

(* The future of every accepted task becomes ready, whether or not the pool *)
(* is ever destroyed: no wakeup of a worker is lost.                        *)
AcceptedFinish ==
  \A t \in Task : (StatusOf(t) = "pending") ~> (t \in ready)

(* The destructor returns.                                                  *)
DestructorReturns == (pc[Owner] = "stop_lock") ~> (pc[Owner] = "gone")
=============================================================================
