-------------------------- MODULE PosixWritableFile --------------------------
(***************************************************************************)
(* PosixWritableFile of src/disk/leveldb/env_posix.cpp: a write buffer in  *)
(* front of a file descriptor.  One action per system call; the code in    *)
(* between runs in one thread and nobody can observe it.                   *)
(*                                                                         *)
(* The bytes handed to Append are numbered 1, 2, 3, ... in order, so that  *)
(* lost, repeated and reordered bytes can be told apart.  write may write  *)
(* less than asked, be interrupted or fail; the machine may crash, which   *)
(* takes what fsync has not made durable.                                  *)
(***************************************************************************)
EXTENDS Naturals, Sequences

CONSTANTS
  BUFFER_SIZE,    \* bytes the buffer holds
  MaxBytes,       \* bound: bytes appended in all
  MaxInterrupts,  \* bound: how often write is interrupted
  MaxErrors,      \* bound: how often a system call fails on an open file
  Null            \* no call

ASSUME FileAssumption ==
  /\ BUFFER_SIZE \in Nat \ {0}
  /\ {MaxBytes, MaxInterrupts, MaxErrors} \subseteq Nat

VARIABLES
  pc,          \* the system call that comes next, or "idle"
  op,          \* the call in progress: Append, Flush, Sync, Close, or the
               \* destructor
  buf,         \* the pos_ bytes in buf_
  out,         \* the bytes WriteUnbuffered has yet to write
  direct,      \* whether they are the rest of a large Append, not buf_
  rest,        \* the bytes of an Append that did not fit into the buffer
  fd,          \* fd_: "open", or "closed" (-1)
  file,        \* the content of the file
  durable,     \* how many bytes of it fsync has made durable
  appended,    \* how many bytes have been handed to Append
  failing,     \* the call in progress is going to answer an error
  failed,      \* history: some call has answered an error
  synced,      \* history: the bytes appended before the last good Sync
  interrupts,  \* interruptions so far
  errors       \* failures so far

callVars == <<op, out, direct, rest>>
diskVars == <<file, durable>>
vars == <<pc, callVars, diskVars, buf, fd, appended, failing, failed, synced,
          interrupts, errors>>

Lesser(m, n) == IF m < n THEN m ELSE n
Bytes(m, n) == [i \in 1 .. n |-> m + i]
First(s, n) == SubSeq(s, 1, n)
From(s, n) == SubSeq(s, n + 1, Len(s))

Init ==
  /\ pc = "idle" /\ op = Null /\ failing = FALSE /\ failed = FALSE
  /\ buf = <<>> /\ out = <<>> /\ rest = <<>> /\ direct = FALSE
  /\ fd = "open"
  /\ file = <<>> /\ durable = 0
  /\ appended = 0 /\ synced = 0
  /\ interrupts = 0 /\ errors = 0

(* A call returns the status Ok(TRUE) or an error.                          *)
Answer(ok) ==
  /\ pc' = "idle" /\ op' = Null
  /\ out' = <<>> /\ rest' = <<>> /\ direct' = FALSE
  /\ failing' = FALSE
  /\ failed' = (failed \/ ~ok)

Enter(name) ==
  /\ op' = name
  /\ UNCHANGED <<failing, failed>>

(* FlushBuffer calls WriteUnbuffered(buf_, pos_).                           *)
FlushBuffer(b) ==
  /\ pc' = "write"
  /\ out' = b
  /\ direct' = FALSE

-----------------------------------------------------------------------------
(* The calls                                                                *)

(* Append fits as much as possible into buf_; if something is left over it  *)
(* flushes the buffer, else it is done.                                     *)
AppendData(n) ==
  LET data == Bytes(appended, n)
      copy == Lesser(n, BUFFER_SIZE - Len(buf))
  IN  /\ pc = "idle"
      /\ appended + n <= MaxBytes
      /\ appended' = appended + n
      /\ buf' = buf \o First(data, copy)
      /\ \/ /\ copy = n
            /\ Answer(TRUE)
         \/ /\ copy < n
            /\ Enter("Append")
            /\ rest' = From(data, copy)
            /\ FlushBuffer(buf')
      /\ UNCHANGED <<diskVars, fd, synced, interrupts, errors>>

(* Flush, Sync and Close start by flushing the buffer.                      *)
Begin(name) ==
  /\ pc = "idle"
  /\ Enter(name)
  /\ FlushBuffer(buf)
  /\ UNCHANGED <<buf, rest, diskVars, fd, appended, synced, interrupts, errors>>

(* The destructor closes the file if nobody has.                            *)
Destroy ==
  /\ fd = "open"
  /\ Begin("Destroy")

DestroyClosed ==
  /\ pc = "idle" /\ fd = "closed"
  /\ pc' = "gone"
  /\ UNCHANGED <<callVars, buf, diskVars, fd, appended, failing, failed, synced,
                 interrupts, errors>>

-----------------------------------------------------------------------------
(* WriteUnbuffered                                                          *)

(* Mutant of Write: a short write is taken for a complete one.              *)
WriteAll ==
  /\ pc = "write" /\ out # <<>> /\ fd = "open"
  /\ \E k \in 1 .. Len(out) :
       /\ file' = file \o First(out, k)
       /\ out' = <<>>
  /\ UNCHANGED <<pc, op, direct, rest, buf, durable, fd, appended, failing, failed,
                 synced, interrupts, errors>>

(* write takes some of the bytes, and the loop goes on behind them.         *)
Write ==
  /\ pc = "write" /\ out # <<>> /\ fd = "open"
  /\ \E k \in 1 .. Len(out) :
       /\ file' = file \o First(out, k)
       /\ out' = From(out, k)
  /\ UNCHANGED <<pc, op, direct, rest, buf, durable, fd, appended, failing, failed,
                 synced, interrupts, errors>>

(* EINTR: nothing was written, write is called again.                       *)
WriteInterrupted ==
  /\ pc = "write" /\ out # <<>> /\ fd = "open"
  /\ interrupts < MaxInterrupts
  /\ interrupts' = interrupts + 1
  /\ UNCHANGED <<pc, callVars, buf, diskVars, fd, appended, failing, failed, synced,
                 errors>>

(* A system call fails: on a closed descriptor always (EBADF).              *)
Fails ==
  \/ fd = "closed" /\ UNCHANGED errors
  \/ fd = "open" /\ errors < MaxErrors /\ errors' = errors + 1

(* What the call does when WriteUnbuffered has returned from FlushBuffer,   *)
(* which has set pos_ to 0, or from Append's own large write.               *)
Close(ok) ==
  /\ pc' = "close"
  /\ failing' = ~ok
  /\ UNCHANGED <<callVars, failed>>

(* Mutant of WriteFailed: pos_ is reset only if the buffer was written.     *)
WriteFailedKeeps ==
  /\ pc = "write" /\ out # <<>>
  /\ Fails
  /\ \/ op \in {"Append", "Flush", "Sync"} /\ Answer(FALSE)
     \/ op \in {"Close", "Destroy"} /\ Close(FALSE)
  /\ UNCHANGED <<buf, diskVars, fd, appended, synced, interrupts>>

(* Mutant of WriteFailed: every error is taken for an interruption.         *)
WriteFailedRetries ==
  /\ pc = "write" /\ out # <<>>
  /\ Fails
  /\ UNCHANGED <<pc, callVars, buf, diskVars, fd, appended, failing, failed, synced,
                 interrupts>>

(* The error is passed on; what was in the buffer and not written is gone.  *)
WriteFailed ==
  /\ pc = "write" /\ out # <<>>
  /\ Fails
  /\ buf' = <<>>
  /\ \/ op \in {"Append", "Flush", "Sync"} /\ Answer(FALSE)
     \/ op \in {"Close", "Destroy"} /\ Close(FALSE)
  /\ UNCHANGED <<diskVars, fd, appended, synced, interrupts>>

(* Mutant of Written: Sync returns as soon as the buffer is written.        *)
WrittenNoSync ==
  /\ pc = "write" /\ out = <<>>
  /\ buf' = IF op = "Append" /\ Len(rest) < BUFFER_SIZE THEN rest ELSE <<>>
  /\ \/ op \in {"Append", "Flush", "Sync"} /\ Answer(TRUE)
     \/ op \in {"Close", "Destroy"} /\ Close(TRUE)
  /\ synced' = IF op = "Sync" /\ ~failed THEN appended ELSE synced
  /\ UNCHANGED <<diskVars, fd, appended, interrupts, errors>>

(* Everything is written: an Append keeps a small rest in the buffer and    *)
(* writes a large one directly.                                             *)
Written ==
  /\ pc = "write" /\ out = <<>>
  /\ \/ /\ op = "Flush" \/ (op = "Append" /\ direct)
        /\ buf' = <<>>
        /\ Answer(TRUE)
     \/ /\ op = "Append" /\ ~direct /\ Len(rest) < BUFFER_SIZE
        /\ buf' = rest
        /\ Answer(TRUE)
     \/ /\ op = "Append" /\ ~direct /\ Len(rest) >= BUFFER_SIZE
        /\ buf' = <<>>
        /\ out' = rest /\ rest' = <<>> /\ direct' = TRUE
        /\ UNCHANGED <<pc, op, failing, failed>>
     \/ /\ op = "Sync"
        /\ buf' = <<>>
        /\ pc' = "fsync"
        /\ UNCHANGED <<callVars, failing, failed>>
     \/ /\ op \in {"Close", "Destroy"}
        /\ buf' = <<>>
        /\ Close(TRUE)
  /\ UNCHANGED <<diskVars, fd, appended, synced, interrupts, errors>>

-----------------------------------------------------------------------------
(* SyncFd                                                                   *)

Fsync ==
  /\ pc = "fsync" /\ fd = "open"
  /\ durable' = Len(file)
  /\ synced' = IF failed THEN synced ELSE appended
  /\ Answer(TRUE)
  /\ UNCHANGED <<buf, file, fd, appended, interrupts, errors>>

FsyncFailed ==
  /\ pc = "fsync"
  /\ Fails
  /\ Answer(FALSE)
  /\ UNCHANGED <<buf, diskVars, fd, appended, synced, interrupts>>

(* The end of Close: ::close, whose failure is reported if nothing failed   *)
(* before, and fd_ = -1 in any case.                                        *)
CloseFd ==
  /\ pc = "close"
  /\ fd' = "closed"
  /\ \/ /\ op = "Close"
        /\ \/ fd = "open" /\ Answer(~failing) /\ UNCHANGED errors
           \/ Fails /\ Answer(FALSE)
     \/ /\ op = "Destroy"
        /\ pc' = "gone"
        /\ UNCHANGED <<callVars, failing, failed, errors>>
  /\ UNCHANGED <<buf, diskVars, appended, synced, interrupts>>

(* The machine stops: of the file, what is durable stays, and some of the   *)
(* rest may.                                                                *)
Crash ==
  /\ pc # "crashed"
  /\ \E n \in durable .. Len(file) : file' = First(file, n)
  /\ pc' = "crashed"
  /\ UNCHANGED <<callVars, buf, durable, fd, appended, failing, failed, synced,
                 interrupts, errors>>

-----------------------------------------------------------------------------
Call ==
  \/ \E n \in 0 .. MaxBytes : AppendData(n)
  \/ \E name \in {"Flush", "Sync", "Close"} : Begin(name)
  \/ Destroy \/ DestroyClosed

Continue ==
  Write \/ WriteInterrupted \/ WriteFailed \/ Written
  \/ Fsync \/ FsyncFailed \/ CloseFd

Stopped == pc \in {"gone", "crashed"} /\ UNCHANGED vars

Next == Call \/ Continue \/ Crash \/ Stopped

(* A call that has begun goes on until it returns.                          *)
Spec == Init /\ [][Next]_vars /\ WF_vars(Continue)

-----------------------------------------------------------------------------
(* The values of the variables; pos_ never exceeds BUFFER_SIZE.             *)
TypeOK ==
  /\ pc \in {"idle", "write", "fsync", "close", "gone", "crashed"}
  /\ op \in {"Append", "Flush", "Sync", "Close", "Destroy", Null}
  /\ \A s \in {buf, out, rest, file} : s \in Seq(1 .. MaxBytes)
  /\ Len(buf) <= BUFFER_SIZE
  /\ direct \in BOOLEAN
  /\ fd \in {"open", "closed"}
  /\ durable \in 0 .. MaxBytes
  /\ appended \in 0 .. MaxBytes
  /\ failing \in BOOLEAN /\ failed \in BOOLEAN
  /\ synced \in 0 .. MaxBytes
  /\ interrupts \in 0 .. MaxInterrupts
  /\ errors \in 0 .. MaxErrors

(* The bytes that are on their way to the file, in the order they will get  *)
(* there if nothing fails.                                                  *)
Pending == IF pc = "write" THEN out \o rest ELSE buf

Alive == pc \notin {"gone", "crashed"}

(* No byte enters the file twice or ahead of an earlier one, whichever      *)
(* writes are short, interrupted or fail, and whatever is called after an   *)
(* error; a failure can only leave bytes out.  Nothing is written behind    *)
(* buf_ (TypeOK).                                                           *)
InOrder ==
  LET all == IF Alive THEN file \o Pending ELSE file
  IN  /\ TypeOK
      /\ \A i, j \in 1 .. Len(all) : i < j => all[i] < all[j]

(* As long as no call has answered an error nothing is lost: the file, the  *)
(* write in progress and the buffer are all the bytes appended so far.      *)
NothingLost ==
  Alive /\ ~failed /\ ~failing => file \o Pending = Bytes(0, appended)

(* What was appended before a successful Sync, with no error before it, is  *)
(* in the file after any crash.                                             *)
SyncedSurvives ==
  /\ Len(file) >= synced
  /\ First(file, synced) = Bytes(0, synced)

(* Every call returns: a short or interrupted write is repeated, but one    *)
(* that fails is not.                                                       *)
CallsReturn == (pc \in {"write", "fsync", "close"}) ~> (pc \in {"idle", "gone", "crashed"})
=============================================================================
