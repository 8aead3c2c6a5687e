-------------------------- MODULE ThreadPoolProofs --------------------------
(***************************************************************************)
(* The safety of ThreadPool for any number of workers and tasks.           *)
(***************************************************************************)
EXTENDS ThreadPool, FiniteSetTheorems, TLAPS

(* queue_mutex belongs to the one thread in a critical section.             *)
MutexOwner == \A t \in Thread : (pc[t] \in Section) <=> (mutex = t)

Busy == {"run", "finish", "enq_lock", "enq_push", "enq_notify"}
Idling == {"lock", "check", "block", "blocked", "exited"}
Stopped == {"stop_notify", "join", "gone"}

(* Where each kind of thread can be, and what it has in hand there.         *)
Places ==
  /\ pc[Owner] \in {"idle", "enq_lock", "enq_push", "enq_notify", "get",
                    "stop_lock", "stop_set"} \cup Stopped
  /\ \A w \in Worker : \/ pc[w] \in Busy /\ running[w] # Null
                       \/ pc[w] \in Idling /\ running[w] = Null
  /\ \A t \in Thread : pc[t] \in {"enq_lock", "enq_push"} => arg[t] # Null

(* stop is set by the destructor; a worker about to block has seen it unset *)
(* and the queue empty, and after the announcement none is there; a worker  *)
(* has left only if the queue was empty, and then nobody can fill it.       *)
StopState ==
  /\ stop <=> pc[Owner] \in Stopped
  /\ \A w \in Worker : pc[w] = "block" => ~stop /\ tasks = <<>>
  /\ \A w \in Worker : pc[w] = "exited" => stop /\ tasks = <<>>
  /\ pc[Owner] = "gone" => \A w \in Worker : pc[w] = "exited"

(* A task is in one place: in the queue, with a worker, in a call of        *)
(* enqueue, finished, or refused.                                           *)
Queued == {tasks[i] : i \in DOMAIN tasks}
Carrying(t) == pc[t] \in {"enq_lock", "enq_push"}

OnePlace ==
  /\ ready \cap refused = {}
  /\ \A i, j \in DOMAIN tasks : tasks[i] = tasks[j] => i = j
  /\ Queued \subseteq offered \ (ready \cup refused)
  /\ \A w \in Worker : running[w] # Null =>
       /\ running[w] \in offered \ (ready \cup refused)
       /\ running[w] \notin Queued
       /\ \A u \in Worker \ {w} : running[u] # running[w]
  /\ \A t \in Thread : Carrying(t) =>
       /\ arg[t] \in offered \ (ready \cup refused \cup Queued)
       /\ \A w \in Worker : running[w] # arg[t]
       /\ \A u \in Thread \ {t} : Carrying(u) => arg[u] # arg[t]
  /\ ready \cup refused \subseteq offered

Inv ==
  /\ TypeOK
  /\ MutexOwner
  /\ Places
  /\ StopState
  /\ NoSleeperAfterStop
  /\ OnePlace

-----------------------------------------------------------------------------
LEMMA QueueAppend ==
  ASSUME NEW S, NEW s \in Seq(S), NEW x \in S
  PROVE  /\ Append(s, x) \in Seq(S)
         /\ DOMAIN Append(s, x) = DOMAIN s \cup {Len(s) + 1}
         /\ Len(s) + 1 \notin DOMAIN s
         /\ Append(s, x)[Len(s) + 1] = x
         /\ \A i \in DOMAIN s : Append(s, x)[i] = s[i]
  OBVIOUS

LEMMA QueueTail ==
  ASSUME NEW S, NEW s \in Seq(S), s # <<>>
  PROVE  /\ Tail(s) \in Seq(S)
         /\ Head(s) = s[1] /\ 1 \in DOMAIN s /\ s[1] \in S
         /\ \A i \in DOMAIN Tail(s) : /\ i + 1 \in DOMAIN s /\ i + 1 # 1
                                      /\ Tail(s)[i] = s[i + 1]
         /\ \A i \in DOMAIN Tail(s) : i \in Nat
  OBVIOUS

(* Steps that move no task keep OnePlace.                                   *)
LEMMA NothingMoves ==
  ASSUME OnePlace,
         UNCHANGED <<tasks, running, ready, offered, refused>>,
         \A t \in Thread : Carrying(t)' => Carrying(t) /\ arg'[t] = arg[t]
  PROVE  OnePlace'
<1>1. Queued' = Queued
  BY DEF Queued
<1> QED
  BY <1>1 DEF OnePlace

LEMMA InitInv == Init => Inv
<1> SUFFICES ASSUME Init PROVE Inv
  OBVIOUS
<1> USE PoolAssumption DEF Init
<1>1. TypeOK
  <2>1. pc \in [Thread -> Locations]
    BY DEF Locations
  <2>2. tasks \in Seq(Task) /\ spurious \in 0 .. MaxSpurious
    OBVIOUS
  <2> QED
    BY <2>1, <2>2 DEF TypeOK
<1>2. MutexOwner /\ NoSleeperAfterStop
  BY DEF MutexOwner, NoSleeperAfterStop, Section, Thread
<1>3. Places /\ StopState
  BY DEF Places, StopState, Busy, Idling, Stopped, Thread
<1>4. OnePlace
  BY DEF OnePlace, Queued, Carrying, Thread
<1> QED
  BY <1>1, <1>2, <1>3, <1>4 DEF Inv

LEMMA InvNext == Inv /\ [Next]_vars => Inv'
<1> SUFFICES ASSUME Inv, [Next]_vars PROVE Inv'
  OBVIOUS
<1> USE PoolAssumption
<1>a. TypeOK /\ MutexOwner /\ Places /\ StopState /\ NoSleeperAfterStop /\ OnePlace
  BY DEF Inv
<1>b. /\ Owner \in Thread /\ Worker \subseteq Thread /\ Owner \notin Worker
      /\ \A t \in Thread : t # Null /\ (t # Owner => t \in Worker)
      /\ \A t \in Task : t # Null
  BY DEF Thread
<1>1. ASSUME NEW w \in Worker, WorkerLock(w) PROVE Inv'
  <2> USE <1>1, <1>a, <1>b DEF WorkerLock, Goto
  <2>1. TypeOK'
    BY DEF TypeOK, Locations
  <2>2. MutexOwner'
    BY DEF TypeOK, MutexOwner, Section
  <2>3. Places'
    BY DEF TypeOK, Places, Busy, Idling, Stopped
  <2>4. StopState'
    BY DEF TypeOK, StopState, Places, Busy, Idling, Stopped
  <2>5. NoSleeperAfterStop'
    BY DEF TypeOK, NoSleeperAfterStop, StopState, Stopped
  <2>6. OnePlace'
    BY NothingMoves DEF TypeOK, Carrying
  <2> QED
    BY <2>1, <2>2, <2>3, <2>4, <2>5, <2>6 DEF Inv
<1>2. ASSUME NEW w \in Worker, WaitCheck(w) PROVE Inv'
  <2> USE <1>2, <1>a, <1>b DEF WaitCheck, Goto
  <2>1. TypeOK'
    BY DEF TypeOK, Locations
  <2>2. MutexOwner'
    BY DEF TypeOK, MutexOwner, Section
  <2>3. Places'
    BY DEF TypeOK, Places, Busy, Idling, Stopped
  <2>4. StopState'
    BY DEF TypeOK, StopState, Places, Busy, Idling, Stopped
  <2>5. NoSleeperAfterStop'
    BY DEF TypeOK, NoSleeperAfterStop, StopState, Stopped
  <2>6. OnePlace'
    BY NothingMoves DEF TypeOK, Carrying
  <2> QED
    BY <2>1, <2>2, <2>3, <2>4, <2>5, <2>6 DEF Inv
<1>3. ASSUME NEW w \in Worker, WaitBlock(w) PROVE Inv'
  <2> USE <1>3, <1>a, <1>b DEF WaitBlock, Goto
  <2>1. TypeOK'
    BY DEF TypeOK, Locations
  <2>2. MutexOwner'
    BY DEF TypeOK, MutexOwner, Section
  <2>3. Places'
    BY DEF TypeOK, Places, Busy, Idling, Stopped
  <2>4. StopState'
    BY DEF TypeOK, StopState, Places, Busy, Idling, Stopped
  <2>5. NoSleeperAfterStop'
    BY DEF TypeOK, NoSleeperAfterStop, StopState, Stopped
  <2>6. OnePlace'
    BY NothingMoves DEF TypeOK, Carrying
  <2> QED
    BY <2>1, <2>2, <2>3, <2>4, <2>5, <2>6 DEF Inv
<1>4. ASSUME NEW w \in Worker, SpuriousWakeup(w) PROVE Inv'
  <2> USE <1>4, <1>a, <1>b DEF SpuriousWakeup, Goto
  <2>1. TypeOK'
    BY DEF TypeOK, Locations
  <2>2. MutexOwner'
    BY DEF TypeOK, MutexOwner, Section
  <2>3. Places'
    BY DEF TypeOK, Places, Busy, Idling, Stopped
  <2>4. StopState'
    BY DEF TypeOK, StopState, Places, Busy, Idling, Stopped
  <2>5. NoSleeperAfterStop'
    BY DEF TypeOK, NoSleeperAfterStop, StopState, Stopped
  <2>6. OnePlace'
    BY NothingMoves DEF TypeOK, Carrying
  <2> QED
    BY <2>1, <2>2, <2>3, <2>4, <2>5, <2>6 DEF Inv
<1>5. ASSUME NEW w \in Worker, Exit(w) PROVE Inv'
  <2> USE <1>5, <1>a, <1>b DEF Exit, Goto
  <2>1. TypeOK'
    BY DEF TypeOK, Locations
  <2>2. MutexOwner'
    BY DEF TypeOK, MutexOwner, Section
  <2>3. Places'
    BY DEF TypeOK, Places, Busy, Idling, Stopped
  <2>4. StopState'
    BY DEF TypeOK, StopState, Places, Busy, Idling, Stopped
  <2>5. NoSleeperAfterStop'
    BY DEF TypeOK, NoSleeperAfterStop, StopState, Stopped
  <2>6. OnePlace'
    BY NothingMoves DEF TypeOK, Carrying
  <2> QED
    BY <2>1, <2>2, <2>3, <2>4, <2>5, <2>6 DEF Inv
<1>6. ASSUME NEW w \in Worker, Take(w) PROVE Inv'
  <2> USE <1>6, <1>a, <1>b DEF Take, Goto
  <2>1. /\ tasks' \in Seq(Task)
        /\ 1 \in DOMAIN tasks /\ tasks[1] \in Task
        /\ running' = [running EXCEPT ![w] = tasks[1]]
        /\ \A i \in DOMAIN tasks' : /\ i + 1 \in DOMAIN tasks /\ i + 1 # 1
                                    /\ tasks'[i] = tasks[i + 1] /\ i \in Nat
    BY QueueTail DEF TypeOK
  <2>2. TypeOK'
    BY <2>1 DEF TypeOK, Locations
  <2>3. MutexOwner'
    BY DEF TypeOK, MutexOwner, Section
  <2>4. Places'
    BY <2>1 DEF TypeOK, Places, Busy, Idling, Stopped
  <2>5. StopState'
    BY DEF TypeOK, StopState, MutexOwner, Section, Places
  <2>6. NoSleeperAfterStop'
    BY DEF TypeOK, NoSleeperAfterStop
  <2>7. OnePlace'
    <3>1. Queued' \subseteq Queued \ {tasks[1]} /\ tasks[1] \in Queued
      BY <2>1 DEF OnePlace, Queued
    <3>2. \A i, j \in DOMAIN tasks' : tasks'[i] = tasks'[j] => i = j
      BY <2>1 DEF OnePlace
    <3>3. /\ running'[w] = tasks[1]
          /\ \A u \in Worker \ {w} : running'[u] = running[u]
      BY <2>1 DEF TypeOK
    <3>4. \A t \in Thread : Carrying(t)' => Carrying(t) /\ arg'[t] = arg[t]
      BY DEF TypeOK, Carrying
    <3>5. \A u \in Worker : running'[u] # Null =>
             /\ running'[u] \in offered \ (ready \cup refused)
             /\ running'[u] \notin Queued'
             /\ \A v \in Worker \ {u} : running'[v] # running'[u]
      BY <3>1, <3>3 DEF OnePlace
    <3>6. \A t \in Thread : Carrying(t)' =>
             /\ arg'[t] \in offered \ (ready \cup refused \cup Queued')
             /\ \A u \in Worker : running'[u] # arg'[t]
             /\ \A u \in Thread \ {t} : Carrying(u)' => arg'[u] # arg'[t]
      BY <3>1, <3>3, <3>4 DEF OnePlace
    <3> QED
      BY <3>1, <3>2, <3>5, <3>6 DEF OnePlace
  <2> QED
    BY <2>2, <2>3, <2>4, <2>5, <2>6, <2>7 DEF Inv
<1>7. ASSUME NEW w \in Worker, Finish(w) PROVE Inv'
  <2> USE <1>7, <1>a, <1>b DEF Finish, Goto
  <2>1. running[w] \in Task
    BY DEF TypeOK, Places, Busy, Idling
  <2>2. TypeOK'
    BY <2>1 DEF TypeOK, Locations
  <2>3. MutexOwner'
    BY DEF TypeOK, MutexOwner, Section
  <2>4. Places'
    BY DEF TypeOK, Places, Busy, Idling, Stopped
  <2>5. StopState'
    BY DEF TypeOK, StopState
  <2>6. NoSleeperAfterStop'
    BY DEF TypeOK, NoSleeperAfterStop
  <2>7. OnePlace'
    <3>1. Queued' = Queued
      BY DEF Queued
    <3>2. /\ running'[w] = Null
          /\ \A u \in Worker \ {w} : running'[u] = running[u] /\ running[u] # running[w]
          /\ running[w] \notin Queued /\ running[w] \in offered \ refused
      BY <2>1 DEF TypeOK, OnePlace
    <3>3. \A t \in Thread : Carrying(t)' => Carrying(t) /\ arg'[t] = arg[t]
      BY DEF TypeOK, Carrying
    <3>4. \A u \in Worker : running'[u] # Null =>
             /\ running'[u] \in offered \ (ready' \cup refused)
             /\ running'[u] \notin Queued'
             /\ \A v \in Worker \ {u} : running'[v] # running'[u]
      BY <3>1, <3>2 DEF OnePlace
    <3>5. \A t \in Thread : Carrying(t)' =>
             /\ arg'[t] \in offered \ (ready' \cup refused \cup Queued')
             /\ \A u \in Worker : running'[u] # arg'[t]
             /\ \A u \in Thread \ {t} : Carrying(u)' => arg'[u] # arg'[t]
      <4>1. \A t \in Thread : Carrying(t) => arg[t] # running[w] /\ arg[t] # Null
        BY DEF OnePlace, Places, Carrying
      <4> QED
        BY <3>1, <3>2, <3>3, <4>1 DEF OnePlace
    <3> QED
      BY <3>1, <3>2, <3>4, <3>5 DEF OnePlace
  <2> QED
    BY <2>2, <2>3, <2>4, <2>5, <2>6, <2>7 DEF Inv
<1>8. ASSUME NEW t \in Thread, EnqueueBegin(t) PROVE Inv'
  <2> USE <1>8, <1>a, <1>b DEF EnqueueBegin, Goto
  <2>1. PICK x \in Task \ offered :
          arg' = [arg EXCEPT ![t] = x] /\ offered' = offered \cup {x}
    OBVIOUS
  <2>2. TypeOK'
    BY <2>1 DEF TypeOK, Locations
  <2>3. MutexOwner'
    BY DEF TypeOK, MutexOwner, Section
  <2>4. Places'
    BY <2>1 DEF TypeOK, Places, Busy, Idling, Stopped
  <2>5. StopState'
    BY DEF TypeOK, StopState, Places, Busy, Idling, Stopped
  <2>6. NoSleeperAfterStop'
    BY DEF TypeOK, NoSleeperAfterStop
  <2>7. OnePlace'
    <3>1. Queued' = Queued
      BY DEF Queued
    <3>2. \A u \in Thread \ {t} : Carrying(u)' => Carrying(u) /\ arg'[u] = arg[u]
      BY <2>1 DEF TypeOK, Carrying
    <3>3. arg'[t] = x
      BY <2>1 DEF TypeOK
    <3> QED
      BY <2>1, <3>1, <3>2, <3>3 DEF OnePlace
  <2> QED
    BY <2>2, <2>3, <2>4, <2>5, <2>6, <2>7 DEF Inv
<1>9. ASSUME NEW t \in Thread, EnqueueLock(t) PROVE Inv'
  <2> USE <1>9, <1>a, <1>b DEF EnqueueLock, Goto
  <2>1. TypeOK'
    BY DEF TypeOK, Locations
  <2>2. MutexOwner'
    BY DEF TypeOK, MutexOwner, Section
  <2>3. Places'
    BY DEF TypeOK, Places, Busy, Idling, Stopped
  <2>4. StopState'
    BY DEF TypeOK, StopState, Places, Busy, Idling, Stopped
  <2>5. NoSleeperAfterStop'
    BY DEF TypeOK, NoSleeperAfterStop, StopState, Stopped
  <2>6. OnePlace'
    BY NothingMoves DEF TypeOK, Carrying
  <2> QED
    BY <2>1, <2>2, <2>3, <2>4, <2>5, <2>6 DEF Inv
<1>10. ASSUME NEW t \in Thread, EnqueuePush(t) PROVE Inv'
  <2> USE <1>10, <1>a, <1>b DEF EnqueuePush, Goto
  <2>1. arg[t] \in Task /\ Carrying(t)
    BY DEF TypeOK, Places, Carrying
  <2>2. /\ tasks' \in Seq(Task)
        /\ DOMAIN tasks' = DOMAIN tasks \cup {Len(tasks) + 1}
        /\ Len(tasks) + 1 \notin DOMAIN tasks
        /\ tasks'[Len(tasks) + 1] = arg[t]
        /\ \A i \in DOMAIN tasks : tasks'[i] = tasks[i]
    BY <2>1, QueueAppend DEF TypeOK
  <2>3. TypeOK'
    BY <2>2 DEF TypeOK, Locations
  <2>4. MutexOwner'
    BY DEF TypeOK, MutexOwner, Section
  <2>5. Places'
    BY DEF TypeOK, Places, Busy, Idling, Stopped
  <2>6. \A w \in Worker : w # t => pc[w] # "block"
    BY DEF MutexOwner, Section
  <2>7. StopState'
    BY <2>6 DEF TypeOK, StopState, Places, Busy, Idling, Stopped
  <2>8. NoSleeperAfterStop'
    BY DEF TypeOK, NoSleeperAfterStop
  <2>9. OnePlace'
    <3>1. Queued' = Queued \cup {arg[t]}
      BY <2>2 DEF Queued
    <3>2. arg[t] \in offered \ (ready \cup refused \cup Queued)
      BY <2>1 DEF OnePlace
    <3>3. \A i, j \in DOMAIN tasks' : tasks'[i] = tasks'[j] => i = j
      BY <2>2, <3>2 DEF OnePlace, Queued
    <3>4. \A u \in Thread : Carrying(u)' => u # t /\ Carrying(u) /\ arg'[u] = arg[u]
      BY DEF TypeOK, Carrying
    <3>5. \A w \in Worker : running[w] # arg[t]
      BY <2>1 DEF OnePlace
    <3>6. \A u \in Thread : Carrying(u)' =>
             /\ arg'[u] \in offered \ (ready \cup refused \cup Queued')
             /\ \A w \in Worker : running[w] # arg'[u]
             /\ \A v \in Thread \ {u} : Carrying(v)' => arg'[v] # arg'[u]
      BY <2>1, <3>1, <3>4 DEF OnePlace
    <3> QED
      BY <3>1, <3>2, <3>3, <3>5, <3>6 DEF OnePlace
  <2> QED
    BY <2>3, <2>4, <2>5, <2>7, <2>8, <2>9 DEF Inv
<1>11. ASSUME NEW t \in Thread, EnqueueThrow(t) PROVE Inv'
  <2> USE <1>11, <1>a, <1>b DEF EnqueueThrow, Goto
  <2>1. arg[t] \in Task /\ Carrying(t) /\ t \in Worker
    BY DEF TypeOK, Places, Carrying, StopState, Stopped
  <2>2. TypeOK'
    BY <2>1 DEF TypeOK, Locations
  <2>3. MutexOwner'
    BY DEF TypeOK, MutexOwner, Section
  <2>4. Places'
    BY <2>1 DEF TypeOK, Places, Busy, Idling, Stopped
  <2>5. StopState'
    BY <2>1 DEF TypeOK, StopState
  <2>6. NoSleeperAfterStop'
    BY <2>1 DEF TypeOK, NoSleeperAfterStop
  <2>7. OnePlace'
    <3>1. Queued' = Queued
      BY DEF Queued
    <3>2. \A u \in Thread : Carrying(u)' => u # t /\ Carrying(u) /\ arg'[u] = arg[u]
      BY DEF TypeOK, Carrying
    <3>3. /\ arg[t] \in offered \ (ready \cup Queued)
          /\ \A w \in Worker : running[w] # arg[t]
          /\ \A u \in Thread \ {t} : Carrying(u) => arg[u] # arg[t]
      BY <2>1 DEF OnePlace
    <3> QED
      BY <3>1, <3>2, <3>3 DEF OnePlace
  <2> QED
    BY <2>2, <2>3, <2>4, <2>5, <2>6, <2>7 DEF Inv
<1>12. ASSUME NEW t \in Thread, EnqueueNotify(t) PROVE Inv'
  <2> USE <1>12, <1>a, <1>b DEF EnqueueNotify, Goto, Blocked
  <2>1. /\ pc' \in [Thread -> Locations]
        /\ pc'[t] = Return(t)
        /\ \A u \in Thread \ {t} : \/ pc'[u] = pc[u]
                                   \/ /\ u \in Worker /\ pc[u] = "blocked"
                                      /\ pc'[u] = "lock"
    BY DEF TypeOK, Return, Locations
  <2>2. TypeOK'
    BY <2>1 DEF TypeOK
  <2>3. MutexOwner'
    BY <2>1 DEF TypeOK, MutexOwner, Section, Return
  <2>4. Places'
    BY <2>1 DEF TypeOK, Places, Busy, Idling, Stopped, Return
  <2>5. StopState'
    BY <2>1 DEF StopState, Places, Busy, Idling, Stopped, Return
  <2>6. NoSleeperAfterStop'
    BY <2>1 DEF NoSleeperAfterStop, Return
  <2>7. OnePlace'
    BY <2>1, NothingMoves DEF TypeOK, Carrying, Return
  <2> QED
    BY <2>2, <2>3, <2>4, <2>5, <2>6, <2>7 DEF Inv
<1>13. CASE GetBegin
  <2> USE <1>13, <1>a, <1>b DEF GetBegin, Goto
  <2>1. TypeOK'
    BY DEF TypeOK, Locations
  <2>2. MutexOwner'
    BY DEF TypeOK, MutexOwner, Section
  <2>3. Places'
    BY DEF TypeOK, Places, Busy, Idling, Stopped
  <2>4. StopState'
    BY DEF TypeOK, StopState, Places, Busy, Idling, Stopped
  <2>5. NoSleeperAfterStop'
    BY DEF TypeOK, NoSleeperAfterStop, StopState, Stopped
  <2>6. OnePlace'
    BY NothingMoves DEF TypeOK, Carrying
  <2> QED
    BY <2>1, <2>2, <2>3, <2>4, <2>5, <2>6 DEF Inv
<1>14. CASE GetReturn
  <2> USE <1>14, <1>a, <1>b DEF GetReturn, Goto
  <2>1. TypeOK'
    BY DEF TypeOK, Locations
  <2>2. MutexOwner'
    BY DEF TypeOK, MutexOwner, Section
  <2>3. Places'
    BY DEF TypeOK, Places, Busy, Idling, Stopped
  <2>4. StopState'
    BY DEF TypeOK, StopState, Places, Busy, Idling, Stopped
  <2>5. NoSleeperAfterStop'
    BY DEF TypeOK, NoSleeperAfterStop, StopState, Stopped
  <2>6. OnePlace'
    BY NothingMoves DEF TypeOK, Carrying
  <2> QED
    BY <2>1, <2>2, <2>3, <2>4, <2>5, <2>6 DEF Inv
<1>15. CASE DestroyBegin
  <2> USE <1>15, <1>a, <1>b DEF DestroyBegin, Goto
  <2>1. TypeOK'
    BY DEF TypeOK, Locations
  <2>2. MutexOwner'
    BY DEF TypeOK, MutexOwner, Section
  <2>3. Places'
    BY DEF TypeOK, Places, Busy, Idling, Stopped
  <2>4. StopState'
    BY DEF TypeOK, StopState, Places, Busy, Idling, Stopped
  <2>5. NoSleeperAfterStop'
    BY DEF TypeOK, NoSleeperAfterStop, StopState, Stopped
  <2>6. OnePlace'
    BY NothingMoves DEF TypeOK, Carrying
  <2> QED
    BY <2>1, <2>2, <2>3, <2>4, <2>5, <2>6 DEF Inv
<1>16. CASE StopLock
  <2> USE <1>16, <1>a, <1>b DEF StopLock, Goto
  <2>1. TypeOK'
    BY DEF TypeOK, Locations
  <2>2. MutexOwner'
    BY DEF TypeOK, MutexOwner, Section
  <2>3. Places'
    BY DEF TypeOK, Places, Busy, Idling, Stopped
  <2>4. StopState'
    BY DEF TypeOK, StopState, Places, Busy, Idling, Stopped
  <2>5. NoSleeperAfterStop'
    BY DEF TypeOK, NoSleeperAfterStop, StopState, Stopped
  <2>6. OnePlace'
    BY NothingMoves DEF TypeOK, Carrying
  <2> QED
    BY <2>1, <2>2, <2>3, <2>4, <2>5, <2>6 DEF Inv
<1>17. CASE StopSet
  <2> USE <1>17, <1>a, <1>b DEF StopSet, Goto
  <2>1. TypeOK'
    BY DEF TypeOK, Locations
  <2>2. MutexOwner'
    BY DEF TypeOK, MutexOwner, Section
  <2>3. Places'
    BY DEF TypeOK, Places, Busy, Idling, Stopped
  <2>4. StopState'
    BY DEF TypeOK, StopState, Places, Busy, Idling, Stopped, MutexOwner, Section
  <2>5. NoSleeperAfterStop'
    BY DEF TypeOK, NoSleeperAfterStop, StopState, Stopped
  <2>6. OnePlace'
    BY NothingMoves DEF TypeOK, Carrying
  <2> QED
    BY <2>1, <2>2, <2>3, <2>4, <2>5, <2>6 DEF Inv
<1>18. CASE StopNotify
  <2> USE <1>18, <1>a, <1>b DEF StopNotify, Blocked
  <2>1. /\ pc' \in [Thread -> Locations]
        /\ pc'[Owner] = "join"
        /\ \A w \in Worker : \/ pc'[w] = pc[w] /\ pc[w] # "blocked"
                             \/ pc[w] = "blocked" /\ pc'[w] = "lock"
    BY DEF TypeOK, Locations
  <2>2. \A u \in Thread : u = Owner \/ u \in Worker
    OBVIOUS
  <2>3. TypeOK'
    BY <2>1 DEF TypeOK
  <2>4. MutexOwner'
    BY <2>1, <2>2 DEF TypeOK, MutexOwner, Section
  <2>5. Places'
    BY <2>1, <2>2 DEF Places, Busy, Idling, Stopped
  <2>6. StopState'
    BY <2>1 DEF StopState, Stopped
  <2>7. NoSleeperAfterStop'
    BY <2>1 DEF NoSleeperAfterStop, StopState, Stopped
  <2>8. OnePlace'
    BY <2>1, <2>2, NothingMoves DEF Carrying
  <2> QED
    BY <2>3, <2>4, <2>5, <2>6, <2>7, <2>8 DEF Inv
<1>19. CASE Join
  <2> USE <1>19, <1>a, <1>b DEF Join, Goto
  <2>1. TypeOK'
    BY DEF TypeOK, Locations
  <2>2. MutexOwner'
    BY DEF TypeOK, MutexOwner, Section
  <2>3. Places'
    BY DEF TypeOK, Places, Busy, Idling, Stopped
  <2>4. StopState'
    BY DEF TypeOK, StopState, Places, Busy, Idling, Stopped
  <2>5. NoSleeperAfterStop'
    BY DEF TypeOK, NoSleeperAfterStop, StopState, Stopped
  <2>6. OnePlace'
    BY NothingMoves DEF TypeOK, Carrying
  <2> QED
    BY <2>1, <2>2, <2>3, <2>4, <2>5, <2>6 DEF Inv
<1>20. CASE UNCHANGED vars
  <2> USE <1>20, <1>a DEF vars
  <2>1. TypeOK' /\ MutexOwner' /\ NoSleeperAfterStop'
    BY DEF TypeOK, MutexOwner, NoSleeperAfterStop
  <2>2. Places' /\ StopState'
    BY DEF Places, StopState
  <2>3. OnePlace'
    BY NothingMoves DEF Carrying
  <2> QED
    BY <2>1, <2>2, <2>3 DEF Inv
<1> QED
  BY <1>1, <1>2, <1>3, <1>4, <1>5, <1>6, <1>7, <1>8, <1>9, <1>10, <1>11, <1>12, <1>13, <1>14, <1>15, <1>16, <1>17, <1>18, <1>19, <1>20
  DEF Next, WorkerStep, EnqueueStep, OwnerStep, OwnerCall, Terminated

-----------------------------------------------------------------------------
(* Inv holds in every reachable state.                                      *)
THEOREM InvHolds == Spec => []Inv
  BY InitInv, InvNext, PTL DEF Spec

(* Every variable keeps its type; no worker runs a task that is not there.  *)
THEOREM TypeCorrect == Spec => []TypeOK
<1>1. Inv => TypeOK
  BY DEF Inv
<1> QED
  BY <1>1, InvHolds, PTL

(* When the destructor joins, no worker sleeps or is going to: the joins    *)
(* do not wait for a wakeup that nobody sends.                              *)
THEOREM NobodySleepsThroughStop == Spec => []NoSleeperAfterStop
<1>1. Inv => NoSleeperAfterStop
  BY DEF Inv
<1> QED
  BY <1>1, InvHolds, PTL

-----------------------------------------------------------------------------
(* No task waits beside a sleeping worker                                   *)

FinitelyMany ==
  /\ IsFiniteSet(Notifying) /\ IsFiniteSet(Coming)
  /\ Cardinality(Notifying) \in Nat /\ Cardinality(Coming) \in Nat

LEMMA Counted == FinitelyMany
<1>1. IsFiniteSet(Thread)
  BY PoolAssumption, FS_AddElement DEF Thread
<1>2. Notifying \subseteq Thread /\ Coming \subseteq Worker
  BY DEF Notifying, Coming
<1>3. IsFiniteSet(Notifying) /\ IsFiniteSet(Coming)
  BY <1>1, <1>2, PoolAssumption, FS_Subset
<1> QED
  BY <1>3, FS_CardinalityType DEF FinitelyMany

(* The notifications still to come and the workers awake, together.         *)
Slack == Cardinality(Notifying) + Cardinality(Coming)

LEMMA ConservingNext == Inv /\ WorkConserving /\ [Next]_vars => WorkConserving'
<1> SUFFICES ASSUME Inv, WorkConserving, [Next]_vars PROVE WorkConserving'
  OBVIOUS
<1> USE PoolAssumption
<1>a. /\ TypeOK /\ Places /\ StopState
      /\ Owner \in Thread /\ Worker \subseteq Thread /\ Owner \notin Worker
      /\ \A t \in Thread : t # Owner => t \in Worker
      /\ \A t \in Thread : pc[t] \in Locations
  BY DEF Inv, TypeOK, Thread
<1>b. /\ IsFiniteSet(Notifying) /\ IsFiniteSet(Coming)
      /\ Cardinality(Notifying) \in Nat /\ Cardinality(Coming) \in Nat
      /\ Slack \in Nat
  BY Counted DEF FinitelyMany, Slack
<1>c. Len(tasks) \in Nat /\ (Blocked # {} => Len(tasks) <= Slack)
  BY <1>a DEF TypeOK, WorkConserving, Slack
<1>d. Cardinality(Notifying)' \in Nat /\ Cardinality(Coming)' \in Nat
  <2>1. FinitelyMany'
    BY Counted, PTL
  <2> QED
    BY <2>1 DEF FinitelyMany
<1>e. ASSUME tasks' = <<>> PROVE WorkConserving'
  BY <1>d, <1>e DEF WorkConserving
<1>f. ASSUME tasks' = tasks, Blocked' \subseteq Blocked,
             Notifying' = Notifying, Coming' = Coming
      PROVE  WorkConserving'
  BY <1>c, <1>f DEF WorkConserving, Slack
<1>g. ASSUME NEW w \in Worker, tasks' = tasks, Blocked' \subseteq Blocked,
             Notifying' = Notifying, Coming' = Coming \cup {w}
      PROVE  WorkConserving'
  <2>1. Cardinality(Coming') = IF w \in Coming THEN Cardinality(Coming)
                               ELSE Cardinality(Coming) + 1
    BY <1>b, <1>g, FS_AddElement
  <2> QED
    BY <1>b, <1>c, <1>d, <1>g, <2>1 DEF WorkConserving, Slack
<1>1. ASSUME NEW w \in Worker, WorkerLock(w) PROVE WorkConserving'
  <2>1. /\ tasks' = tasks /\ Blocked' = Blocked
        /\ Notifying' = Notifying /\ Coming' = Coming
    BY <1>1, <1>a DEF WorkerLock, Goto, TypeOK, Blocked, Notifying, Coming
  <2> QED
    BY <2>1, <1>f
<1>2. ASSUME NEW w \in Worker, WaitCheck(w) \/ WaitBlock(w) \/ Exit(w)
      PROVE  WorkConserving'
  BY <1>2, <1>a, <1>e DEF WaitCheck, WaitBlock, Exit, StopState
<1>3. ASSUME NEW w \in Worker, SpuriousWakeup(w) \/ Finish(w)
      PROVE  WorkConserving'
  <2>1. /\ tasks' = tasks /\ Blocked' \subseteq Blocked
        /\ Notifying' = Notifying /\ Coming' = Coming \cup {w}
    BY <1>3, <1>a DEF SpuriousWakeup, Finish, Goto, TypeOK, Blocked, Notifying,
       Coming
  <2> QED
    BY <2>1, <1>g
<1>4. ASSUME NEW w \in Worker, Take(w) PROVE WorkConserving'
  <2>1. /\ Blocked' = Blocked /\ Notifying' = Notifying
        /\ Coming' = Coming \ {w} /\ w \in Coming
    BY <1>4, <1>a DEF Take, Goto, TypeOK, Blocked, Notifying, Coming
  <2>2. Cardinality(Coming') = Cardinality(Coming) - 1
    BY <2>1, <1>b, FS_RemoveElement
  <2>3. Len(tasks') = Len(tasks) - 1
    BY <1>4, <1>a DEF Take, TypeOK
  <2> QED
    BY <1>b, <1>c, <2>1, <2>2, <2>3 DEF WorkConserving, Slack
<1>5. ASSUME NEW t \in Thread, EnqueueBegin(t) \/ EnqueueLock(t) \/ EnqueueThrow(t)
      PROVE  WorkConserving'
  <2>1. /\ tasks' = tasks /\ Blocked' = Blocked
        /\ Notifying' = Notifying /\ Coming' = Coming
    BY <1>5, <1>a DEF EnqueueBegin, EnqueueLock, EnqueueThrow, Goto, TypeOK,
       Blocked, Notifying, Coming
  <2> QED
    BY <2>1, <1>f
<1>6. ASSUME NEW t \in Thread, EnqueuePush(t) PROVE WorkConserving'
  <2>1. /\ Blocked' = Blocked /\ Coming' = Coming
        /\ Notifying' = Notifying \cup {t} /\ t \notin Notifying
    BY <1>6, <1>a DEF EnqueuePush, Goto, TypeOK, Blocked, Notifying, Coming
  <2>2. Cardinality(Notifying') = Cardinality(Notifying) + 1
    BY <2>1, <1>b, FS_AddElement
  <2>3. Len(tasks') = Len(tasks) + 1
    <3>1. arg[t] \in Task /\ tasks \in Seq(Task)
      BY <1>6, <1>a DEF EnqueuePush, TypeOK, Places
    <3> QED
      BY <1>6, <3>1 DEF EnqueuePush
  <2> QED
    BY <1>b, <1>c, <2>1, <2>2, <2>3 DEF WorkConserving, Slack
<1>7. ASSUME NEW t \in Thread, EnqueueNotify(t) PROVE WorkConserving'
  <2>1. tasks' = tasks /\ t \in Notifying /\ Return(t) \notin {"blocked", "lock", "check"}
        /\ Return(t) # "enq_notify"
    BY <1>7 DEF EnqueueNotify, Notifying, Return
  <2>2. CASE Blocked = {} /\ pc' = [pc EXCEPT ![t] = Return(t)]
    <3>1. Blocked' = {}
      BY <1>a, <2>1, <2>2 DEF TypeOK, Blocked
    <3> QED
      BY <3>1 DEF WorkConserving
  <2>3. ASSUME NEW w \in Blocked,
               pc' = [pc EXCEPT ![t] = Return(t), ![w] = "lock"]
        PROVE  WorkConserving'
    <3>1. w \in Worker /\ w # t /\ w \in Thread /\ pc[w] = "blocked" /\ w \notin Coming
      BY <1>a, <2>1 DEF Blocked, Notifying, Coming
    <3>2. \A u \in Thread : pc'[u] = IF u = w THEN "lock"
                                     ELSE IF u = t THEN Return(t) ELSE pc[u]
      BY <1>a, <2>3, <3>1 DEF TypeOK
    <3>3. /\ Blocked' \subseteq Blocked /\ Notifying' = Notifying \ {t}
          /\ Coming' = Coming \cup {w}
      <4>1. Blocked' \subseteq Blocked
        BY <1>a, <2>1, <3>2 DEF Blocked
      <4>2. Notifying' = Notifying \ {t}
        BY <2>1, <3>1, <3>2 DEF Notifying
      <4>3. t \notin Coming
        BY <2>1 DEF Notifying, Coming
      <4>4. Coming' = Coming \cup {w}
        BY <1>a, <2>1, <3>1, <3>2, <4>3 DEF Coming
      <4> QED
        BY <4>1, <4>2, <4>4
    <3>4. /\ Cardinality(Notifying') = Cardinality(Notifying) - 1
          /\ Cardinality(Coming') = Cardinality(Coming) + 1
      BY <1>b, <2>1, <3>1, <3>3, FS_AddElement, FS_RemoveElement
    <3> QED
      BY <1>b, <1>c, <2>1, <3>3, <3>4 DEF WorkConserving, Slack
  <2> QED
    BY <1>7, <2>2, <2>3 DEF EnqueueNotify, Goto
<1>8. CASE GetBegin \/ GetReturn \/ DestroyBegin \/ StopLock \/ StopSet \/ Join
  <2>1. /\ tasks' = tasks /\ Blocked' = Blocked
        /\ Notifying' = Notifying /\ Coming' = Coming
    BY <1>8, <1>a DEF GetBegin, GetReturn, DestroyBegin, StopLock, StopSet, Join,
       Goto, TypeOK, Blocked, Notifying, Coming
  <2> QED
    BY <2>1, <1>f
<1>9. CASE StopNotify
  <2>1. Blocked' = {}
    BY <1>9, <1>a DEF StopNotify, Blocked
  <2> QED
    BY <2>1 DEF WorkConserving
<1>10. CASE UNCHANGED vars
  BY <1>10, <1>f DEF vars, Blocked, Notifying, Coming
<1> QED
  BY <1>1, <1>2, <1>3, <1>4, <1>5, <1>6, <1>7, <1>8, <1>9, <1>10
  DEF Next, WorkerStep, EnqueueStep, OwnerStep, OwnerCall, Terminated

(* However many workers there are, a task never waits beside a sleeping     *)
(* worker without a notification or an awake worker on its way to it.       *)
THEOREM PoolConservesWork == Spec => []WorkConserving
<1>1. Init => WorkConserving
  BY PoolAssumption DEF Init, WorkConserving, Blocked, Thread
<1> QED
  BY <1>1, ConservingNext, InvHolds, PTL DEF Spec

-----------------------------------------------------------------------------
(* The pool implements TaskPool                                             *)

RunningTasks == {x \in Task : \E w \in Worker : running[w] = x}

StatusTable ==
  \A x \in Task :
    StatusOf(x) = IF x \in ready THEN "done"
                  ELSE IF x \in refused THEN "refused"
                  ELSE IF x \in Queued THEN "pending"
                  ELSE IF x \in RunningTasks THEN "running"
                  ELSE "new"

LEMMA StatusIs == Inv => StatusTable
<1> SUFFICES ASSUME Inv, NEW x \in Task
             PROVE  StatusOf(x) = IF x \in ready THEN "done"
                                  ELSE IF x \in refused THEN "refused"
                                  ELSE IF x \in Queued THEN "pending"
                                  ELSE IF x \in RunningTasks THEN "running"
                                  ELSE "new"
  BY DEF StatusTable
<1> x # Null /\ OnePlace
  BY PoolAssumption DEF Inv
<1>1. x \in ready => x \notin refused /\ x \notin Queued /\ x \notin RunningTasks
  BY DEF OnePlace, RunningTasks
<1>2. x \in refused => x \notin Queued /\ x \notin RunningTasks
  BY DEF OnePlace, RunningTasks
<1>3. x \in Queued => x \notin RunningTasks
  BY DEF OnePlace, RunningTasks
<1> QED
  BY <1>1, <1>2, <1>3 DEF StatusOf, Queued, RunningTasks

LEMMA StatusIsNext == Inv' => StatusTable'
  BY StatusIs, PTL

(* A task whose place does not change keeps its status.                     *)
LEMMA SameStatus ==
  ASSUME Inv, Inv', NEW x \in Task,
         (x \in ready) <=> (x \in ready'),
         (x \in refused) <=> (x \in refused'),
         (x \in Queued) <=> (x \in Queued'),
         (x \in RunningTasks) <=> (x \in RunningTasks')
  PROVE  StatusOf(x)' = StatusOf(x)
  BY StatusIs, StatusIsNext DEF StatusTable

(* A worker that is about to take a task leaves room for it to run.         *)
LEMMA RoomToRun ==
  ASSUME Inv, NEW w \in Worker, running[w] = Null
  PROVE  Cardinality(RunningTasks) < Cardinality(Worker)
<1> DEFINE B == {u \in Worker \ {w} : running[u] # Null}
           f == [u \in B |-> running[u]]
<1>1. IsFiniteSet(Worker) /\ Cardinality(Worker) \in Nat
  BY PoolAssumption, FS_CardinalityType
<1>2. IsFiniteSet(Worker \ {w}) /\ Cardinality(Worker \ {w}) = Cardinality(Worker) - 1
  BY <1>1, FS_RemoveElement
<1>3. IsFiniteSet(B) /\ Cardinality(B) <= Cardinality(Worker) - 1
  BY <1>2, FS_Subset
<1>4. f \in Surjection(B, RunningTasks)
  BY PoolAssumption DEF Surjection, RunningTasks, Inv, TypeOK
<1>5. IsFiniteSet(RunningTasks) /\ Cardinality(RunningTasks) <= Cardinality(B)
  BY <1>3, <1>4, FS_Surjection
<1> QED
  BY <1>1, <1>3, <1>5, FS_CardinalityType

Status == [t \in Task |-> StatusOf(t)]

(* Steps that neither move a task nor touch stop are invisible to TaskPool. *)
LEMMA Invisible ==
  ASSUME Inv, Inv', UNCHANGED <<tasks, running, ready, refused, stop>>,
         (pc[Owner] = "gone") <=> (pc'[Owner] = "gone")
  PROVE  UNCHANGED TP!vars
<1>1. Queued' = Queued /\ RunningTasks' = RunningTasks
  BY DEF Queued, RunningTasks
<1>2. \A x \in Task : StatusOf(x)' = StatusOf(x)
  BY <1>1, SameStatus
<1>3. Phase' = Phase
  BY DEF Phase
<1> QED
  BY <1>2, <1>3 DEF TP!vars

LEMMA StepRefines == Inv /\ Inv' /\ [Next]_vars => [TP!Next]_(TP!vars)
<1> SUFFICES ASSUME Inv, Inv', [Next]_vars PROVE [TP!Next]_(TP!vars)
  OBVIOUS
<1> USE PoolAssumption
<1>a. TypeOK /\ Places /\ StopState /\ OnePlace
  BY DEF Inv
<1>b. /\ Owner \in Thread /\ Worker \subseteq Thread /\ Owner \notin Worker
      /\ \A t \in Thread : t # Null /\ (t # Owner => t \in Worker)
      /\ \A t \in Task : t # Null
  BY DEF Thread
<1>1. ASSUME NEW w \in Worker,
             WorkerLock(w) \/ WaitCheck(w) \/ WaitBlock(w) \/ SpuriousWakeup(w)
               \/ Exit(w)
      PROVE  UNCHANGED TP!vars
  BY <1>1, <1>a, <1>b, Invisible
  DEF TypeOK, WorkerLock, WaitCheck, WaitBlock, SpuriousWakeup, Exit, Goto
<1>2. ASSUME NEW w \in Worker, Take(w) PROVE TP!Next
  <2> USE <1>2, <1>a, <1>b DEF Take, Goto
  <2>0. PICK x \in Task : x = tasks[1]
    BY QueueTail DEF TypeOK
  <2>1. x = tasks[1] /\ x \in Queued /\ x = Head(tasks)
    BY <2>0, QueueTail DEF TypeOK, Queued
  <2>2. Queued' = Queued \ {x}
    <3>1. \A i \in DOMAIN tasks : i # 1 => i - 1 \in DOMAIN tasks' /\ tasks'[i - 1] = tasks[i]
      BY DEF TypeOK
    <3>2. \A i \in DOMAIN tasks' : /\ i + 1 \in DOMAIN tasks /\ i + 1 # 1
                                   /\ tasks'[i] = tasks[i + 1] /\ i \in Nat
      BY QueueTail DEF TypeOK
    <3>3. 1 \in DOMAIN tasks
      BY QueueTail DEF TypeOK
    <3>4. Queued' \subseteq Queued \ {x}
      <4> SUFFICES ASSUME NEW i \in DOMAIN tasks'
                   PROVE  tasks'[i] \in Queued /\ tasks'[i] # x
        BY DEF Queued
      <4>1. i + 1 \in DOMAIN tasks /\ i + 1 # 1 /\ tasks'[i] = tasks[i + 1]
        BY <3>2
      <4>2. tasks[i + 1] # tasks[1]
        BY <3>3, <4>1 DEF OnePlace
      <4>3. tasks[i + 1] \in Queued
        BY <4>1 DEF Queued
      <4> QED
        BY <2>1, <4>1, <4>2, <4>3
    <3>5. Queued \ {x} \subseteq Queued'
      BY <2>1, <3>1 DEF Queued
    <3> QED
      BY <3>4, <3>5
  <2>3. running[w] = Null
    BY DEF Places, Busy
  <2>4. RunningTasks' = RunningTasks \cup {x}
    BY <2>1, <2>3 DEF RunningTasks, TypeOK
  <2>5. \A y \in Task : y # x => StatusOf(y)' = StatusOf(y)
    BY <2>2, <2>4, SameStatus
  <2>6. x \notin ready /\ x \notin refused /\ x \notin Queued' /\ x \in RunningTasks'
    BY <2>1, <2>2, <2>4 DEF OnePlace
  <2>7. StatusOf(x)' = "running"
    BY <2>1, <2>6, StatusIsNext DEF StatusTable
  <2>8. Status' = [Status EXCEPT ![x] = "running"]
    BY <2>1, <2>5, <2>7 DEF Status
  <2>9. {t \in Task : Status[t] = "running"} \subseteq RunningTasks
    BY StatusIs DEF StatusTable, Status
  <2>10. Cardinality({t \in Task : Status[t] = "running"}) < Cardinality(Worker)
    <3>1. Cardinality(RunningTasks) < Cardinality(Worker)
      BY <2>3, RoomToRun
    <3>2. IsFiniteSet(RunningTasks)
      BY FS_Subset DEF RunningTasks
    <3>3. Cardinality({t \in Task : Status[t] = "running"}) <= Cardinality(RunningTasks)
      BY <2>9, <3>2, FS_Subset
    <3> QED
      BY <2>9, <3>1, <3>2, <3>3, FS_Subset, FS_CardinalityType
  <2>11. Phase' = Phase
    BY DEF Phase, TypeOK
  <2>12. Cardinality(TP!Running) < Cardinality(Worker)
    BY <2>10 DEF TP!Running, Status
  <2>13. TP!Start(x)
    <3>1. tasks # <<>> /\ x = Head(tasks) /\ tasks' = Tail(tasks)
      BY <2>1
    <3>2. \A S : TP!Cardinality(S) = Cardinality(S)
      BY DEF TP!Cardinality, Cardinality
    <3> HIDE <1>2
    <3> QED
      BY <2>8, <2>11, <2>12, <3>1, <3>2 DEF TP!Start, Status
  <2> QED
    BY <2>13 DEF TP!Next
<1>3. ASSUME NEW w \in Worker, Finish(w) PROVE TP!Next
  <2> USE <1>3, <1>a, <1>b DEF Finish, Goto
  <2>0. PICK x \in Task : x = running[w]
    BY DEF Places, Idling, TypeOK
  <2>1. x = running[w] /\ x \in RunningTasks
    BY <2>0 DEF RunningTasks
  <2>2. x \notin ready /\ x \notin refused /\ x \notin Queued
    BY <2>1 DEF OnePlace
  <2>3. Queued' = Queued /\ \A y \in Task : y # x => (y \in RunningTasks' <=> y \in RunningTasks)
    BY <2>1 DEF Queued, RunningTasks, TypeOK
  <2>4. \A y \in Task : y # x => StatusOf(y)' = StatusOf(y)
    BY <2>1, <2>3, SameStatus
  <2>5. StatusOf(x) = "running" /\ StatusOf(x)' = "done"
    BY <2>1, <2>2, StatusIs, StatusIsNext DEF StatusTable
  <2>6. Status' = [Status EXCEPT ![x] = "done"]
    BY <2>1, <2>4, <2>5 DEF Status
  <2>7. Phase' = Phase
    BY DEF Phase, TypeOK
  <2>8. TP!Finish(x)
    BY <2>1, <2>5, <2>6, <2>7 DEF TP!Finish, Status
  <2> QED
    BY <2>1, <2>8 DEF TP!Next
<1>4. ASSUME NEW t \in Thread, EnqueueBegin(t) \/ EnqueueLock(t)
      PROVE  UNCHANGED TP!vars
  BY <1>4, <1>a, <1>b, Invisible DEF TypeOK, EnqueueBegin, EnqueueLock, Goto
<1>5. ASSUME NEW t \in Thread, EnqueuePush(t) PROVE TP!Next
  <2> USE <1>5, <1>a, <1>b DEF EnqueuePush, Goto
  <2>0. PICK x \in Task : x = arg[t]
    BY DEF TypeOK, Places
  <2>1. x = arg[t] /\ x \notin ready /\ x \notin refused /\ x \notin Queued
        /\ x \notin RunningTasks
    BY <2>0 DEF OnePlace, Carrying, RunningTasks
  <2>2. Queued' = Queued \cup {x} /\ RunningTasks' = RunningTasks
    BY <2>1, QueueAppend DEF TypeOK, Queued, RunningTasks
  <2>3. \A y \in Task : y # x => StatusOf(y)' = StatusOf(y)
    BY <2>1, <2>2, SameStatus
  <2>4. StatusOf(x) = "new" /\ StatusOf(x)' = "pending"
    BY <2>1, <2>2, StatusIs, StatusIsNext DEF StatusTable
  <2>5. Status' = [Status EXCEPT ![x] = "pending"]
    BY <2>1, <2>3, <2>4 DEF Status
  <2>6. Phase = "open" /\ Phase' = "open"
    BY DEF Phase, TypeOK, StopState, Stopped
  <2>7. TP!Accept(x)
    BY <2>1, <2>4, <2>5, <2>6 DEF TP!Accept, Status
  <2> QED
    BY <2>1, <2>7 DEF TP!Next
<1>6. ASSUME NEW t \in Thread, EnqueueThrow(t) PROVE TP!Next
  <2> USE <1>6, <1>a, <1>b DEF EnqueueThrow, Goto
  <2>0. PICK x \in Task : x = arg[t]
    BY DEF TypeOK, Places
  <2>1. x = arg[t] /\ x \notin ready /\ x \notin refused /\ x \notin Queued
        /\ x \notin RunningTasks
    BY <2>0 DEF OnePlace, Carrying, RunningTasks
  <2>2. Queued' = Queued /\ RunningTasks' = RunningTasks
    BY DEF Queued, RunningTasks
  <2>3. \A y \in Task : y # x => StatusOf(y)' = StatusOf(y)
    BY <2>1, <2>2, SameStatus
  <2>4. StatusOf(x) = "new" /\ StatusOf(x)' = "refused"
    BY <2>1, <2>2, StatusIs, StatusIsNext DEF StatusTable
  <2>5. Status' = [Status EXCEPT ![x] = "refused"]
    BY <2>1, <2>3, <2>4 DEF Status
  <2>6. t \in Worker /\ pc[Owner] # "gone"
    BY DEF StopState, Stopped
  <2>7. Phase = "closing" /\ Phase' = "closing"
    BY <2>6 DEF Phase, TypeOK
  <2>8. TP!Refuse(x)
    BY <2>1, <2>4, <2>5, <2>7 DEF TP!Refuse, Status
  <2> QED
    BY <2>1, <2>8 DEF TP!Next
<1>7. ASSUME NEW t \in Thread, EnqueueNotify(t) PROVE UNCHANGED TP!vars
  <2>1. (pc[Owner] = "gone") <=> (pc'[Owner] = "gone")
    BY <1>7, <1>a, <1>b DEF TypeOK, EnqueueNotify, Goto, Return, Blocked
  <2> QED
    BY <1>7, <2>1, Invisible DEF EnqueueNotify
<1>8. ASSUME GetBegin \/ GetReturn \/ DestroyBegin \/ StopLock \/ StopNotify
      PROVE  UNCHANGED TP!vars
  <2>1. (pc[Owner] = "gone") <=> (pc'[Owner] = "gone")
    BY <1>8, <1>a, <1>b DEF TypeOK, GetBegin, GetReturn, DestroyBegin, StopLock,
       StopNotify, Goto
  <2> QED
    BY <1>8, <2>1, Invisible DEF GetBegin, GetReturn, DestroyBegin, StopLock, StopNotify
<1>9. ASSUME StopSet PROVE TP!Next
  <2> USE <1>9, <1>a, <1>b DEF StopSet, Goto
  <2>1. Queued' = Queued /\ RunningTasks' = RunningTasks
    BY DEF Queued, RunningTasks
  <2>2. \A y \in Task : StatusOf(y)' = StatusOf(y)
    BY <2>1, SameStatus
  <2>3. Phase = "open" /\ Phase' = "closing"
    BY DEF Phase, TypeOK, StopState, Stopped
  <2>4. TP!Close
    BY <2>2, <2>3 DEF TP!Close
  <2> QED
    BY <2>4 DEF TP!Next
<1>10. ASSUME Join PROVE TP!Next
  <2> USE <1>10, <1>a, <1>b DEF Join, Goto
  <2>1. Queued' = Queued /\ RunningTasks' = RunningTasks
    BY DEF Queued, RunningTasks
  <2>2. \A y \in Task : StatusOf(y)' = StatusOf(y)
    BY <2>1, SameStatus
  <2>3. Phase = "closing" /\ Phase' = "closed"
    BY DEF Phase, TypeOK, StopState, Stopped
  <2>4. RunningTasks = {}
    BY DEF RunningTasks, Places, Busy
  <2>5. {t \in Task : Status[t] = "running"} = {}
    BY <2>4, StatusIs DEF StatusTable, Status
  <2>6. tasks = <<>>
    BY DEF StopState
  <2>7. TP!Closed
    BY <2>2, <2>3, <2>5, <2>6 DEF TP!Closed, TP!Running, Status
  <2> QED
    BY <2>7 DEF TP!Next
<1>11. CASE UNCHANGED vars
  BY <1>11, Invisible DEF vars
<1>12. ASSUME Terminated PROVE UNCHANGED TP!vars
  BY <1>12, Invisible DEF Terminated, vars
<1> QED
  BY <1>1, <1>2, <1>3, <1>4, <1>5, <1>6, <1>7, <1>8, <1>9, <1>10, <1>11, <1>12
  DEF Next, WorkerStep, EnqueueStep, OwnerStep, OwnerCall

LEMMA InitRefines == Init => TP!Init
  BY PoolAssumption DEF Init, TP!Init, StatusOf, Phase, Thread

(* ThreadPool implements TaskPool: accepted tasks start once, in order, and *)
(* have all finished when the destructor returns.                           *)
THEOREM PoolRefines == Spec => ImplementsTaskPool
  BY InvHolds, InitRefines, StepRefines, PTL DEF Spec, ImplementsTaskPool, TP!Spec
=============================================================================
