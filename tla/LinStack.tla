------------------------------- MODULE LinStack -------------------------------
(***************************************************************************)
(* The promise of a concurrent stack, independent of how it is built: each *)
(* push and pop takes effect atomically between its call and its return.   *)
(***************************************************************************)
EXTENDS Sequences

CONSTANTS
  Thread,  \* the threads that call the stack
  Value,   \* the values that may be pushed
  Null     \* the answer of a pop that found nothing; "no value"

VARIABLES
  stack,   \* the elements, youngest first
  call     \* what each thread is doing: waiting for its effect ("push",
           \* "pop"), about to return ("ret"), or nothing ("idle")

vars == <<stack, call>>

Call(st, v) == [st |-> st, val |-> v]
Idle == Call("idle", Null)

Move(t, c) == call' = [call EXCEPT ![t] = c]

Init ==
  /\ stack = <<>>
  /\ call = [t \in Thread |-> Idle]

Invoke(t) ==
  /\ call[t] = Idle
  /\ \/ \E x \in Value : Move(t, Call("push", x))
     \/ Move(t, Call("pop", Null))
  /\ UNCHANGED stack

Push(t) ==
  /\ call[t].st = "push"
  /\ stack' = <<call[t].val>> \o stack
  /\ Move(t, Call("ret", call[t].val))

Pop(t) ==
  /\ call[t].st = "pop"
  /\ \/ /\ stack # <<>>
        /\ Move(t, Call("ret", Head(stack)))
        /\ stack' = Tail(stack)
     \/ /\ stack = <<>>
        /\ Move(t, Call("ret", Null))
        /\ UNCHANGED stack

Return(t) ==
  /\ call[t].st = "ret"
  /\ Move(t, Idle)
  /\ UNCHANGED stack

Next == \E t \in Thread : Invoke(t) \/ Push(t) \/ Pop(t) \/ Return(t)

Spec == Init /\ [][Next]_vars
=============================================================================
