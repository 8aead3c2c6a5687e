------------------------------ MODULE UringWrite ------------------------------
(***************************************************************************)
(* bench_write of src/liburing/uring-io.cpp and of sync-io.cpp: a file is  *)
(* written block by block, and each block is to be on the disk before the  *)
(* next one.  io_uring gets the write and the fsync as two requests that   *)
(* nothing orders; the results of completions are not looked at.  The      *)
(* kernel, which executes requests and writes back at any time, is         *)
(* external.                                                               *)
(***************************************************************************)
EXTENDS Naturals, FiniteSets

CONSTANTS
  Blocks,    \* limit_size / BUF_SIZE
  MaxErrors  \* bound: how many calls and requests fail

WriteAssumption == Blocks \in Nat \ {0} /\ MaxErrors \in Nat

VARIABLES
  api,       \* the program: "uring" or "sync"
  pc,        \* where it is: "write", "fsync", "wait", "done" or "error"
  offset,    \* the block it is at
  seen,      \* i: the completions it has waited for at this offset
  requests,  \* the requests the kernel has not executed
  cqes,      \* the completions the program has not seen
  cached,    \* the blocks the file has, in memory
  durable,   \* the blocks that survive a power failure
  failed,    \* the blocks whose write, or writing back, has failed
  errors     \* failures so far

writeVars ==
  <<api, pc, offset, seen, requests, cqes, cached, durable, failed, errors>>

(* The file is opened with O_TRUNC.                                         *)
Init ==
  /\ api \in {"uring", "sync"}
  /\ pc = "write" /\ offset = 0 /\ seen = 0
  /\ requests = {} /\ cqes = 0
  /\ cached = {} /\ durable = {} /\ failed = {} /\ errors = 0

Error == errors < MaxErrors /\ errors' = errors + 1

(* The program with io_uring: two requests are submitted.                   *)
Submit(kind, to) ==
  /\ api = "uring"
  /\ pc = kind
  /\ pc' = to
  /\ requests' = requests \cup {[kind |-> kind, block |-> offset]}
  /\ UNCHANGED <<api, offset, seen, cqes, cached, durable, failed, errors>>

SubmitWrite == Submit("write", "fsync")
SubmitFsync == Submit("fsync", "wait")

Advance ==
  /\ offset' = offset + 1
  /\ pc' = IF offset + 1 = Blocks THEN "done" ELSE "write"

(* Mutant of WaitCqe: one completion is waited for.                         *)
WaitCqeOnce ==
  /\ pc = "wait"
  /\ cqes > 0
  /\ cqes' = cqes - 1
  /\ Advance
  /\ UNCHANGED <<api, seen, requests, cached, durable, failed, errors>>

(* io_uring_wait_cqe and io_uring_cqe_seen, twice.                          *)
WaitCqe ==
  /\ pc = "wait"
  /\ cqes > 0
  /\ cqes' = cqes - 1
  /\ \/ seen = 0 /\ seen' = 1 /\ UNCHANGED <<pc, offset>>
     \/ seen = 1 /\ seen' = 0 /\ Advance
  /\ UNCHANGED <<api, requests, cached, durable, failed, errors>>

(* io_uring_wait_cqe fails, and bench_write returns.                        *)
WaitError ==
  /\ pc = "wait"
  /\ Error
  /\ pc' = "error"
  /\ UNCHANGED <<api, offset, seen, requests, cqes, cached, durable, failed>>

(* The kernel executes a request, in any order.  A failure is a completion, *)
(* too; what an fsync fails to write back may never be.                     *)
Execute(r) ==
  /\ requests' = requests \ {r}
  /\ cqes' = cqes + 1
  /\ \/ /\ r.kind = "write"
        /\ cached' = cached \cup {r.block}
        /\ UNCHANGED <<durable, failed, errors>>
     \/ /\ r.kind = "fsync"
        /\ durable' = durable \cup cached
        /\ UNCHANGED <<cached, failed, errors>>
     \/ /\ Error
        /\ failed' = failed \cup IF r.kind = "write" THEN {r.block}
                                ELSE cached \ durable
        /\ UNCHANGED <<cached, durable>>
  /\ UNCHANGED <<api, pc, offset, seen>>

(* The kernel writes a block back on its own.                               *)
WriteBack(b) ==
  /\ durable' = durable \cup {b}
  /\ UNCHANGED <<api, pc, offset, seen, requests, cqes, cached, failed, errors>>

(* The program without: write and fdatasync, the first of which that fails  *)
(* ends it.                                                                 *)
SyncWrite ==
  /\ api = "sync"
  /\ pc = "write"
  /\ \/ cached' = cached \cup {offset} /\ pc' = "fsync" /\ UNCHANGED errors
     \/ Error /\ pc' = "error" /\ UNCHANGED cached
  /\ UNCHANGED <<api, offset, seen, requests, cqes, durable, failed>>

SyncFsync ==
  /\ api = "sync"
  /\ pc = "fsync"
  /\ \/ durable' = durable \cup cached /\ Advance /\ UNCHANGED errors
     \/ Error /\ pc' = "error" /\ UNCHANGED <<durable, offset>>
  /\ UNCHANGED <<api, seen, requests, cqes, cached, failed>>

(* bench_write has returned.                                                *)
Returned ==
  /\ pc \in {"done", "error"}
  /\ UNCHANGED writeVars

Next ==
  \/ SubmitWrite \/ SubmitFsync \/ WaitCqe \/ WaitError
  \/ (\E r \in requests : Execute(r))
  \/ (\E b \in cached \ durable : WriteBack(b))
  \/ SyncWrite \/ SyncFsync
  \/ Returned

Spec == Init /\ [][Next]_writeVars

-----------------------------------------------------------------------------
(* Properties                                                               *)

(* Whatever order the kernel chooses, a power failure costs at most the     *)
(* block that is being written and, with io_uring, the one before it, whose *)
(* fsync may have come before its write; and blocks the kernel has failed   *)
(* to write, which only the program without io_uring notices.               *)
OnlyNewestAtRisk ==
  /\ \A b \in 0 .. offset - 1 : b \in cached \cup failed
  /\ \A b \in 0 .. offset - 1 :
       \/ b = offset - 1 /\ api = "uring"
       \/ b \in durable \cup failed
  /\ api = "sync" => failed = {}
=============================================================================
