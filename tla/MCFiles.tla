------------------------------- MODULE MCFiles -------------------------------
(***************************************************************************)
(* The programs that make system calls, and the disk manager that does     *)
(* without: PosixWritableFile, UringWrite, EventLoop and BlockMemory.      *)
(* program says which of them is running; the others stay as they are.     *)
(***************************************************************************)
EXTENDS PosixWritableFile

CONSTANTS
  Thread, MaxBlock, Value, Zero,  \* of BlockMemory
  Blocks, MaxUringErrors,         \* of UringWrite
  Chunk, BufferSize               \* of EventLoop

VARIABLES
  program,
  memPc, memOp, memId, memBuffer, memData, memMutex, memReaders, memWriter,
  api, uPc, offset, seen, requests, cqes, cached, uDurable, uFailed, uErrors,
  input, closed, ticks, evs, echoed, due

memVars ==
  <<memPc, memOp, memId, memBuffer, memData, memMutex, memReaders, memWriter>>
uringVars ==
  <<api, uPc, offset, seen, requests, cqes, cached, uDurable, uFailed, uErrors>>
loopVars == <<input, closed, ticks, evs, echoed, due>>
mcVars == <<program, vars, memVars, uringVars, loopVars>>

Memory ==
  INSTANCE BlockMemory WITH
    pc <- memPc, op <- memOp, id <- memId, buffer <- memBuffer,
    data <- memData, mutex <- memMutex, readers <- memReaders,
    writer <- memWriter

Uring ==
  INSTANCE UringWrite WITH
    MaxErrors <- MaxUringErrors, pc <- uPc, durable <- uDurable,
    failed <- uFailed, errors <- uErrors

Loop == INSTANCE EventLoop

ASSUME MemoryConstants == Memory!MemoryAssumption
ASSUME UringConstants == Uring!WriteAssumption
ASSUME LoopConstants == Loop!LoopAssumption

MCInit ==
  /\ Init /\ Memory!Init /\ Uring!Init /\ Loop!Init
  /\ program \in {"file", "memory", "uring", "loop"}
  /\ program # "uring" => api = "uring"

Run(name) == program = name /\ UNCHANGED program

MCNext ==
  \/ /\ Run("file") /\ Next
     /\ UNCHANGED <<memVars, uringVars, loopVars>>
  \/ /\ Run("memory") /\ Memory!Next
     /\ UNCHANGED <<vars, uringVars, loopVars>>
  \/ /\ Run("uring") /\ Uring!Next
     /\ UNCHANGED <<vars, memVars, loopVars>>
  \/ /\ Run("loop") /\ Loop!Next
     /\ UNCHANGED <<vars, memVars, uringVars>>

(* The fairness of the components: a call, or the loop, goes on if it can.  *)
FileStep ==
  /\ Run("file") /\ Continue
  /\ UNCHANGED <<memVars, uringVars, loopVars>>
MemoryStep(t) ==
  /\ Run("memory") /\ Memory!Step(t)
  /\ UNCHANGED <<vars, uringVars, loopVars>>
LoopStep ==
  /\ Run("loop") /\ Loop!LoopStep
  /\ UNCHANGED <<vars, memVars, uringVars>>

MCSpec ==
  /\ MCInit /\ [][MCNext]_mcVars
  /\ WF_mcVars(FileStep) /\ WF_mcVars(LoopStep)
  /\ \A t \in Thread : WF_mcVars(MemoryStep(t))

-----------------------------------------------------------------------------
(* See BlockMemory: no block is read torn or half made.                     *)
ImplementsLinMap == Memory!ImplementsLinMap

(* See PosixWritableFile and BlockMemory: no call retries, or waits for a   *)
(* lock, for ever.                                                          *)
AllCallsReturn == CallsReturn /\ Memory!CallsReturn

(* See UringWrite: what a power failure can cost.                           *)
OnlyNewestAtRisk == Uring!OnlyNewestAtRisk

(* See EventLoop: whatever is typed is written in the end.                  *)
InputEchoed == Loop!InputEchoed
=============================================================================
