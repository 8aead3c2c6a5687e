----------------------------- MODULE BlockMemory -----------------------------
(***************************************************************************)
(* DiskManagerUnlimitedMemory of src/disk/bustub/disk_manager_memory.cpp:  *)
(* a table of blocks that grows on demand under mutex_, each block under a *)
(* std::shared_mutex of its own.  A call lets go of the table only when it *)
(* holds the block.                                                        *)
(*                                                                         *)
(* A block is copied in two halves, so that a torn copy can be told from a *)
(* whole one.  Entries are shared pointers: growing the table moves them,  *)
(* never the blocks, so a block is identified by its number.  A negative   *)
(* number is refused by ReadBlock and left to the caller by WriteBlock; no *)
(* caller modelled uses one.                                               *)
(***************************************************************************)
EXTENDS Naturals, Sequences

CONSTANTS
  Thread,
  MaxBlock,  \* bound: the largest block number
  Value,     \* what a block is filled with
  Zero,      \* what a new block is filled with
  Null       \* no block, no thread, no value

MemoryAssumption ==
  /\ MaxBlock \in Nat
  /\ Zero \notin Value
  /\ Null \notin Value \cup Thread \cup {Zero}
  /\ Null \notin (Value \cup {Zero}) \X (Value \cup {Zero})

VARIABLES
  pc,       \* where each thread is in a call
  op,       \* the call it is in: "read" or "write"
  id,       \* block_id
  buffer,   \* block_data, two halves; Null where nothing has been read
  data,     \* data_: the blocks from 0 on, Null for an empty pointer
  mutex,    \* the thread that holds mutex_
  readers,  \* the threads that hold each block's lock shared
  writer    \* the thread that holds it, or Null

callVars == <<op, id, buffer>>
lockVars == <<mutex, readers, writer>>
vars == <<pc, callVars, data, lockVars>>

Id == 0 .. MaxBlock
Whole(x) == <<x, x>>
Goto(t, l) == pc' = [pc EXCEPT ![t] = l]

(* data_[i], which the code reads only if i < data_.size().                 *)
Entry(i) == data[i + 1]
Exists(i) == i < Len(data) /\ Entry(i) # Null

Init ==
  /\ pc = [t \in Thread |-> "idle"]
  /\ op = [t \in Thread |-> Null]
  /\ id = [t \in Thread |-> 0]
  /\ buffer = [t \in Thread |-> Whole(Null)]
  /\ data = <<>>
  /\ mutex = Null
  /\ readers = [i \in Id |-> {}]
  /\ writer = [i \in Id |-> Null]

Begin(t) ==
  /\ pc[t] = "idle"
  /\ \E i \in Id : id' = [id EXCEPT ![t] = i]
  /\ \/ op' = [op EXCEPT ![t] = "read"] /\ UNCHANGED buffer
     \/ /\ op' = [op EXCEPT ![t] = "write"]
        /\ \E v \in Value : buffer' = [buffer EXCEPT ![t] = Whole(v)]
  /\ Goto(t, "table")
  /\ UNCHANGED <<data, lockVars>>

LockTable(t) ==
  /\ pc[t] = "table"
  /\ mutex = Null
  /\ mutex' = t
  /\ Goto(t, "lookup")
  /\ UNCHANGED <<callVars, data, readers, writer>>

(* WriteBlock: the table grows, and the block is made, filled with zeros.   *)
Grow(t) ==
  /\ pc[t] = "lookup"
  /\ op[t] = "write"
  /\ LET size == IF id[t] < Len(data) THEN Len(data) ELSE id[t] + 1
     IN  data' = [n \in 1 .. size |->
                    IF n = id[t] + 1 /\ ~Exists(id[t]) THEN Whole(Zero)
                    ELSE IF n <= Len(data) THEN data[n] ELSE Null]
  /\ Goto(t, "page")
  /\ UNCHANGED <<callVars, lockVars>>

(* ReadBlock finds the block.                                               *)
Lookup(t) ==
  /\ pc[t] = "lookup"
  /\ op[t] = "read"
  /\ Exists(id[t])
  /\ Goto(t, "page")
  /\ UNCHANGED <<callVars, data, lockVars>>

(* Mutant of NotExist: mutex_ stays locked.                                 *)
NotExistLocked(t) ==
  /\ pc[t] = "lookup"
  /\ op[t] = "read"
  /\ ~Exists(id[t])
  /\ Goto(t, "done")
  /\ UNCHANGED <<callVars, data, lockVars>>

(* ReadBlock finds no block and leaves block_data alone.                    *)
NotExist(t) ==
  /\ pc[t] = "lookup"
  /\ op[t] = "read"
  /\ ~Exists(id[t])
  /\ mutex' = Null
  /\ Goto(t, "done")
  /\ UNCHANGED <<callVars, data, readers, writer>>

(* The block's lock is taken, exclusively by WriteBlock.                    *)
TakePage(t) ==
  /\ writer[id[t]] = Null
  /\ \/ /\ op[t] = "read"
        /\ readers' = [readers EXCEPT ![id[t]] = @ \cup {t}]
        /\ UNCHANGED writer
     \/ /\ op[t] = "write"
        /\ readers[id[t]] = {}
        /\ writer' = [writer EXCEPT ![id[t]] = t]
        /\ UNCHANGED readers

(* Mutant of LockPage: mutex_ is released first.                            *)
LockPageLate(t) ==
  \/ /\ pc[t] = "page"
     /\ mutex = t
     /\ mutex' = Null
     /\ UNCHANGED <<pc, callVars, data, readers, writer>>
  \/ /\ pc[t] = "page"
     /\ mutex # t
     /\ TakePage(t)
     /\ Goto(t, "first")
     /\ UNCHANGED <<callVars, data, mutex>>

(* The block's lock is taken, then mutex_ is released.                      *)
LockPage(t) ==
  /\ pc[t] = "page"
  /\ TakePage(t)
  /\ mutex' = Null
  /\ Goto(t, "first")
  /\ UNCHANGED <<callVars, data>>

(* memcpy of one half.                                                      *)
CopyHalf(t, h) ==
  \/ /\ op[t] = "read"
     /\ buffer' = [buffer EXCEPT ![t][h] = Entry(id[t])[h]]
     /\ UNCHANGED data
  \/ /\ op[t] = "write"
     /\ data' = [data EXCEPT ![id[t] + 1][h] = buffer[t][h]]
     /\ UNCHANGED buffer

CopyFirst(t) ==
  /\ pc[t] = "first"
  /\ CopyHalf(t, 1)
  /\ Goto(t, "second")
  /\ UNCHANGED <<op, id, lockVars>>

(* The second half is copied and the block's lock released.                 *)
CopySecond(t) ==
  /\ pc[t] = "second"
  /\ CopyHalf(t, 2)
  /\ readers' = [readers EXCEPT ![id[t]] = @ \ {t}]
  /\ writer' = [writer EXCEPT ![id[t]] = IF @ = t THEN Null ELSE @]
  /\ Goto(t, "done")
  /\ UNCHANGED <<op, id, mutex>>

Return(t) ==
  /\ pc[t] = "done"
  /\ Goto(t, "idle")
  /\ op' = [op EXCEPT ![t] = Null]
  /\ id' = [id EXCEPT ![t] = 0]
  /\ buffer' = [buffer EXCEPT ![t] = Whole(Null)]
  /\ UNCHANGED <<data, lockVars>>

Step(t) ==
  \/ LockTable(t) \/ Grow(t) \/ Lookup(t) \/ NotExist(t) \/ LockPage(t)
  \/ CopyFirst(t) \/ CopySecond(t) \/ Return(t)

Next == \E t \in Thread : Begin(t) \/ Step(t)

Spec == Init /\ [][Next]_vars

(* A thread that is in a call and can go on does so.                        *)
FairSpec == Spec /\ \A t \in Thread : WF_vars(Step(t))

-----------------------------------------------------------------------------
(* Properties                                                               *)

(* A block is what its writer is going to make of it as soon as the writer  *)
(* holds its lock; before, it is as if it were not there.                   *)
Contents ==
  [i \in Id |->
     IF ~Exists(i) THEN Null
     ELSE IF writer[i] # Null THEN buffer[writer[i]][1]
     ELSE IF Entry(i) = Whole(Zero) THEN Null
     ELSE Entry(i)[1]]

(* A read takes effect when its block is locked; whoever holds that lock    *)
(* has not changed it before the copy is complete.                          *)
CallOf(t) ==
  LET c(st, v) == [st |-> st, key |-> id[t], val |-> v]
      answer == IF op[t] = "write" THEN buffer[t][1]
                ELSE IF pc[t] = "done"
                     THEN IF buffer[t][1] = buffer[t][2] THEN buffer[t][1]
                          ELSE Zero
                     ELSE Entry(id[t])[1]
  IN  CASE pc[t] = "idle" -> [st |-> "idle", key |-> Null, val |-> Null]
        [] pc[t] \in {"first", "second", "done"} -> c("ret", answer)
        [] pc[t] \in {"table", "lookup", "page"} /\ op[t] = "read" -> c("get", Null)
        [] OTHER -> c("set", buffer[t][1])

LM == INSTANCE LinMap WITH
        Key <- Id, map <- Contents, call <- [t \in Thread |-> CallOf(t)]

(* Every read answers, in one piece, what the last write before it has      *)
(* written, or that there is no block: never a mixture of two writes, nor   *)
(* the zeros of a block whose first write is under way.                     *)
ImplementsLinMap == LM!Spec

(* Though a call waits for a block while it holds the table, which every    *)
(* other call needs, calls keep returning.                                  *)
CallsReturn ==
  (\E t \in Thread : pc[t] # "idle") ~> (\E t \in Thread : pc[t] = "done")
=============================================================================
