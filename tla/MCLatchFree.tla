----------------------------- MODULE MCLatchFree -----------------------------
(***************************************************************************)
(* The structures of src/latch-free: SpscRing, LockFreeQueue between one   *)
(* producer and one consumer, which is what it can serve, and              *)
(* LockFreeStack.  program says which of them the threads share; the       *)
(* others stay as they are.                                                *)
(***************************************************************************)
EXTENDS SpscRing

CONSTANTS
  p, c,         \* the producer and the consumer of the list queue
  QueueNode,    \* Node of LockFreeQueue
  StackThread,  \* Thread and Node of LockFreeStack
  StackNode,
  Default, Wild, MaxSpurious

VARIABLES
  program,
  qPc, qData, qNext, qLive, qHead, qTail, qVal, qNew, qOld, qChain,
  sPc, sData, sNext, sLive, sHead, sNode, sSucc, sSpurious, sChain

queueVars ==
  <<qPc, qData, qNext, qLive, qHead, qTail, qVal, qNew, qOld, qChain>>
stackVars ==
  <<sPc, sData, sNext, sLive, sHead, sNode, sSucc, sSpurious, sChain>>
mcVars == <<program, vars, queueVars, stackVars>>

ListQueue ==
  INSTANCE LockFreeQueue WITH
    Producer <- {p}, Consumer <- {c}, Node <- QueueNode,
    pc <- qPc, data <- qData, next <- qNext, live <- qLive, head <- qHead,
    tail <- qTail, val <- qVal, new <- qNew, old <- qOld, chain <- qChain

(* head is null at first, as from C++20 on; see LockFreeStack.              *)
Stack ==
  INSTANCE LockFreeStack WITH
    Thread <- StackThread, Node <- StackNode, InitialHead <- {Null},
    pc <- sPc, data <- sData, next <- sNext, live <- sLive, head <- sHead,
    node <- sNode, succ <- sSucc, spurious <- sSpurious, chain <- sChain

ASSUME QueueConstants == ListQueue!LockFreeAssumption
ASSUME StackConstants == Stack!StackAssumption

(* One address for the first dummy node: addresses are interchangeable.     *)
MCInit ==
  /\ Init /\ ListQueue!Init /\ Stack!Init
  /\ qHead = CHOOSE n \in QueueNode : TRUE
  /\ program \in {"ring", "queue", "stack"}

Run(name) == program = name /\ UNCHANGED program

MCNext ==
  \/ Run("ring") /\ Next /\ UNCHANGED <<queueVars, stackVars>>
  \/ Run("queue") /\ ListQueue!Next /\ UNCHANGED <<vars, stackVars>>
  \/ Run("stack") /\ Stack!Next /\ UNCHANGED <<vars, queueVars>>

(* The fairness of LockFreeStack.                                           *)
StackProgress ==
  Run("stack") /\ Stack!Progress /\ UNCHANGED <<vars, queueVars>>

MCSpec == MCInit /\ [][MCNext]_mcVars /\ WF_mcVars(StackProgress)

-----------------------------------------------------------------------------
(* See LockFreeQueue: no access through a dangling or wild pointer, and     *)
(* none to one node from both ends.                                         *)
QueueNoBadAccess == ListQueue!NoBadAccess

(* See LockFreeQueue: a first-in-first-out queue, one call at a time.       *)
QueueImplementsLinQueue == ListQueue!ImplementsLinQueue

(* See LockFreeStack: no element is lost or popped twice.                   *)
StackListIntact == Stack!ListIntact

(* See LockFreeStack: a last-in-first-out stack, one call at a time.        *)
ImplementsLinStack == Stack!ImplementsLinStack

(* See LockFreeStack: some call always returns.                             *)
LockFree == Stack!LockFree
=============================================================================
