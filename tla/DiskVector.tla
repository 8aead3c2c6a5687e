------------------------------ MODULE DiskVector ------------------------------
(***************************************************************************)
(* DiskVector<T> of src/disk/vector/disk_vector.h: the elements of a file, *)
(* read and written in place through one std::fstream, by a process that   *)
(* may be killed at any time and started again.                            *)
(*                                                                         *)
(* A get behind the end of the file leaves eofbit and failbit set.  get,   *)
(* put and size never clear them, and a stream in this state does nothing: *)
(* it drops every later put and answers every later get with whatever was  *)
(* on the stack (Garbage).                                                 *)
(***************************************************************************)
EXTENDS Naturals, Sequences

CONSTANTS
  MaxSize,   \* bound: the positions used are below it
  Value,
  Zero,      \* what a gap in a file reads as
  Garbage    \* the content of an uninitialised variable

VectorAssumption ==
  /\ MaxSize \in Nat
  /\ Garbage \notin Value \cup {Zero}

VARIABLES
  file,      \* the elements in the file
  buffer,    \* the element in the stream's put area, as <<pos, value>>, or <<>>
  failed,    \* io_.fail()
  putting,   \* the put in progress, as <<pos, value>>, or <<>>
  kept,      \* history: the last value put at each position, Zero if none
  count,     \* history: one more than the highest position of a put
  missed     \* history: the program has read an element that is not there
             \* since it opened the vector; nothing is promised of later puts

streamVars == <<file, buffer, failed>>
promiseVars == <<kept, count, missed>>
diskVars == <<streamVars, putting, promiseVars>>

Position == 0 .. MaxSize - 1

(* The elements s after writing v at pos, gaps filled with zeros.           *)
Written(s, pos, v) ==
  [n \in 1 .. IF pos < Len(s) THEN Len(s) ELSE pos + 1 |->
     IF n = pos + 1 THEN v ELSE IF n <= Len(s) THEN s[n] ELSE Zero]

(* The file after flush or seekp, which empty the put area.                 *)
Synced == IF buffer = <<>> THEN file ELSE Written(file, buffer[1], buffer[2])

(* The constructor finds no file, and creates it.                           *)
Init ==
  /\ file = <<>> /\ buffer = <<>> /\ failed = FALSE
  /\ putting = <<>>
  /\ kept = [pos \in Position |-> Zero] /\ count = 0 /\ missed = FALSE

(* put: seekp and write.                                                    *)
Put(pos, v) ==
  /\ putting = <<>>
  /\ putting' = <<pos, v>>
  /\ file' = IF failed THEN file ELSE Synced
  /\ buffer' = IF failed THEN buffer ELSE <<pos, v>>
  /\ UNCHANGED <<failed, promiseVars>>

(* What is promised when put returns.                                       *)
Promise(pos, v) ==
  IF missed THEN UNCHANGED promiseVars
  ELSE /\ kept' = [kept EXCEPT ![pos] = v]
       /\ count' = IF pos < count THEN count ELSE pos + 1
       /\ UNCHANGED missed

(* Mutant of Flush: put returns without.                                    *)
FlushLeftOut ==
  /\ putting # <<>>
  /\ putting' = <<>>
  /\ UNCHANGED streamVars
  /\ Promise(putting[1], putting[2])

(* put: flush, after which it returns.                                      *)
Flush ==
  /\ putting # <<>>
  /\ putting' = <<>>
  /\ file' = Synced /\ buffer' = <<>> /\ UNCHANGED failed
  /\ Promise(putting[1], putting[2])

(* What get(pos) answers.                                                   *)
Answer(pos) ==
  IF failed \/ pos >= Len(Synced) THEN Garbage ELSE Synced[pos + 1]

Get(pos) ==
  /\ putting = <<>>
  /\ file' = Synced /\ buffer' = <<>>
  /\ failed' = (failed \/ pos >= Len(Synced))
  /\ missed' = (missed \/ pos >= count)
  /\ UNCHANGED <<putting, kept, count>>

(* Another DiskVector opens the file: as it exists, without truncation.     *)
Opened ==
  /\ buffer' = <<>> /\ failed' = FALSE
  /\ putting' = <<>>
  /\ missed' = FALSE
  /\ UNCHANGED <<kept, count>>

(* The vector is destroyed, which flushes, and opened again.                *)
Reopen ==
  /\ putting = <<>>
  /\ file' = Synced
  /\ Opened

(* The process is killed, maybe within put, and another one opens the file. *)
Killed == UNCHANGED file /\ Opened

Next ==
  \/ \E pos \in Position : Get(pos) \/ \E v \in Value : Put(pos, v)
  \/ Flush \/ Reopen \/ Killed

Spec == Init /\ [][Next]_diskVars

-----------------------------------------------------------------------------
(* Properties                                                               *)

(* The file holds, for every position, the last value that was put there    *)
(* and zeros in the gaps, over any number of reopenings and wherever a      *)
(* process was killed; and get answers it.  Only reading an element that is *)
(* not there costs something: every put that follows, until the vector is   *)
(* opened again, but not what was put before; and until then no get answers *)
(* an old value for one that was dropped.                                   *)
VectorPersists ==
  /\ Len(file) = count
  /\ \A pos \in 0 .. count - 1 : file[pos + 1] = kept[pos]
  /\ putting = <<>> =>
       \A pos \in Position :
         Answer(pos) = IF missed \/ pos >= count THEN Garbage ELSE kept[pos]
=============================================================================
