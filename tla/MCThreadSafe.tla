----------------------------- MODULE MCThreadSafe -----------------------------
(***************************************************************************)
(* The structures of src/thread-safe that lock their parts one by one:     *)
(* ConcurrentList and ConcurrentMap.  program says which of them the       *)
(* threads share; the other one stays as it is.                            *)
(***************************************************************************)
EXTENDS ConcurrentList

CONSTANTS
  n1, n2, a, b,  \* the nodes that are in the list at first, and their values
  TableThread,   \* Thread, Key, Bucket and Hash of ConcurrentMap
  Key,
  Bucket,
  Hash

VARIABLES
  program,
  mapPc, mapOp, mapKey, mapVal, mapIt, mapData, mapReaders, mapWriter

mapVars ==
  <<mapPc, mapOp, mapKey, mapVal, mapIt, mapData, mapReaders, mapWriter>>
mcVars == <<program, vars, mapVars>>

(* Two nodes have been pushed on the list before the threads start.         *)
MCInitial == <<n1, n2>>
MCContent ==
  [n \in Node |-> CASE n = n1 -> a [] n = n2 -> b [] OTHER -> Null]

(* All keys share a bucket, where alone they can disturb each other.        *)
MCHash == [k \in Key |-> CHOOSE bkt \in Bucket : TRUE]

Table ==
  INSTANCE ConcurrentMap WITH
    Thread <- TableThread,
    pc <- mapPc, op <- mapOp, key <- mapKey, val <- mapVal, it <- mapIt,
    data <- mapData, readers <- mapReaders, writer <- mapWriter

ASSUME TableConstants == Table!MapAssumption

MCInit == Init /\ Table!Init /\ program \in {"list", "table"}

Run(name) == program = name /\ UNCHANGED program

(* A step of thread t inside a call.                                        *)
ListStep(t) == Run("list") /\ Step(t) /\ UNCHANGED mapVars

MCNext ==
  \/ Run("list") /\ Next /\ UNCHANGED mapVars
  \/ Run("table") /\ Table!Next /\ UNCHANGED vars

(* The fairness of ConcurrentList.                                          *)
MCSpec ==
  MCInit /\ [][MCNext]_mcVars /\ \A t \in Thread : WF_mcVars(ListStep(t))

-----------------------------------------------------------------------------
(* gets, sets and erases of the table take effect at once: see              *)
(* ConcurrentMap.                                                           *)
ImplementsLinMap == Table!ImplementsLinMap
=============================================================================
