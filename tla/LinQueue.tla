------------------------------ MODULE LinQueue ------------------------------
(***************************************************************************)
(* The promise of a concurrent FIFO queue, independent of how it is built: *)
(* every call takes effect atomically at one moment between its invocation *)
(* and its return.  The queues of the repository (ConcurrentQueue, the     *)
(* lock free queue, the SPSC rings) are shown to implement this module.    *)
(***************************************************************************)
EXTENDS Naturals, Sequences

CONSTANTS
  Thread,    \* the threads that call the queue
  Value,     \* the values that may be queued
  Null,      \* the answer of a pop that found nothing, of a push that failed
  Bounded,   \* whether there is a limit to the number of elements
  Capacity,  \* the limit, if there is one
  Precise    \* TRUE: a call is refused only if the queue is full (empty) now;
             \* FALSE: it may be refused on an outdated view of the other side

VARIABLES
  queue,     \* the elements, oldest first
  call       \* what each thread is doing with the queue

vars == <<queue, call>>

(* A call is waiting for its effect ("push", "try", "wait"), has had it and *)
(* is about to return ("ret"), or there is none ("idle").                   *)
Call(st, v) == [st |-> st, val |-> v]
Idle == Call("idle", Null)

Move(t, c) == call' = [call EXCEPT ![t] = c]

Init ==
  /\ queue = <<>>
  /\ call = [t \in Thread |-> Idle]

Invoke(t) ==
  /\ call[t] = Idle
  /\ \/ \E x \in Value : Move(t, Call("push", x))
     \/ Move(t, Call("try", Null))
     \/ Move(t, Call("wait", Null))
  /\ UNCHANGED queue

HasRoom == Bounded => Len(queue) < Capacity

(* The push takes effect: its value becomes the youngest element.           *)
Push(t) ==
  /\ call[t].st = "push"
  /\ HasRoom
  /\ queue' = Append(queue, call[t].val)
  /\ Move(t, Call("ret", call[t].val))

(* The push is refused.                                                     *)
PushFull(t) ==
  /\ call[t].st = "push"
  /\ Precise => ~HasRoom
  /\ Bounded
  /\ Move(t, Call("ret", Null))
  /\ UNCHANGED queue

(* A pop takes the oldest element.                                          *)
Pop(t) ==
  /\ call[t].st \in {"try", "wait"}
  /\ queue # <<>>
  /\ queue' = Tail(queue)
  /\ Move(t, Call("ret", Head(queue)))

(* A non-blocking pop finds the queue empty.                                *)
PopEmpty(t) ==
  /\ call[t].st = "try"
  /\ Precise => queue = <<>>
  /\ Move(t, Call("ret", Null))
  /\ UNCHANGED queue

Return(t) ==
  /\ call[t].st = "ret"
  /\ Move(t, Idle)
  /\ UNCHANGED queue

Next ==
  \E t \in Thread :
    Invoke(t) \/ Push(t) \/ PushFull(t) \/ Pop(t) \/ PopEmpty(t) \/ Return(t)

Spec == Init /\ [][Next]_vars
=============================================================================
