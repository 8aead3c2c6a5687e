------------------------------ MODULE TaskPool ------------------------------
(***************************************************************************)
(* The promise of a thread pool: a task that is accepted is started once,  *)
(* in the order of acceptance, by one of Width workers; nothing is refused *)
(* before the pool closes and nothing accepted after; and the destructor   *)
(* returns only when every accepted task has finished.                     *)
(***************************************************************************)
EXTENDS Naturals, Sequences, FiniteSets

CONSTANTS
  Task,    \* what may be submitted
  Width    \* how many tasks may run at a time

VARIABLES
  pending,   \* accepted tasks that have not started, oldest first
  status,    \* "new", "pending", "running", "done" or "refused"
  phase      \* of the pool: "open", "closing" (only drains) or "closed"

vars == <<pending, status, phase>>

Init ==
  /\ pending = <<>>
  /\ status = [t \in Task |-> "new"]
  /\ phase = "open"

Running == {t \in Task : status[t] = "running"}

Accept(t) ==
  /\ phase = "open"
  /\ status[t] = "new"
  /\ pending' = Append(pending, t)
  /\ status' = [status EXCEPT ![t] = "pending"]
  /\ UNCHANGED phase

Refuse(t) ==
  /\ phase = "closing"
  /\ status[t] = "new"
  /\ status' = [status EXCEPT ![t] = "refused"]
  /\ UNCHANGED <<pending, phase>>

Start(t) ==
  /\ pending # <<>>
  /\ t = Head(pending)
  /\ Cardinality(Running) < Width
  /\ pending' = Tail(pending)
  /\ status' = [status EXCEPT ![t] = "running"]
  /\ UNCHANGED phase

Finish(t) ==
  /\ status[t] = "running"
  /\ status' = [status EXCEPT ![t] = "done"]
  /\ UNCHANGED <<pending, phase>>

Close ==
  /\ phase = "open"
  /\ phase' = "closing"
  /\ UNCHANGED <<pending, status>>

(* The destructor returns.                                                  *)
Closed ==
  /\ phase = "closing"
  /\ pending = <<>>
  /\ Running = {}
  /\ phase' = "closed"
  /\ UNCHANGED <<pending, status>>

Next ==
  \/ \E t \in Task : Accept(t) \/ Refuse(t) \/ Start(t) \/ Finish(t)
  \/ Close
  \/ Closed

Spec == Init /\ [][Next]_vars
=============================================================================
