--------------------------- MODULE ParallelProduct ---------------------------
(***************************************************************************)
(* TEST_PARALLEL_SPARSE_MATRIX of                                          *)
(* src/parallel-sparse-matrix/parallel-sparse-matrix.cpp: the main thread  *)
(* fills a matrix, hands one task for each row to a thread pool, waits for *)
(* the futures and destroys its variables, the pool before the matrix that *)
(* the tasks have a pointer to.  The futures are read inside assert: built *)
(* with NDEBUG, main waits for none of them.  The pool is TaskPool, which  *)
(* ThreadPool implements.                                                  *)
(* The rest of this specification is a program that works on matrices in   *)
(* one thread.                                                             *)
(***************************************************************************)
EXTENDS SparseMatrix

CONSTANTS
  Shared,   \* the matrix a of the test
  Workers   \* threads of the pool

ASSUME ProductAssumption ==
  /\ Shared \in Name
  /\ Workers \in Nat \ {0}

VARIABLES
  pc,       \* of the main thread
  row,      \* the row whose task it enqueues or whose future it waits for
  x,        \* the vector, copied into every task
  y,        \* the futures: what the tasks have returned
  pending, status, phase  \* of the pool

poolVars == <<pending, status, phase>>
vars == <<base, mat, pc, row, x, y, poolVars>>

Task == UNION {0 .. m - 1 : m \in Sizes}
Pool == INSTANCE TaskPool WITH Width <- Workers

Start ==
  /\ Init
  /\ Pool!Init
  /\ pc = "fill" /\ row = 0 /\ x = Null
  /\ y = [t \in Task |-> Null]

(* The matrices change only while no task can read them.                    *)
Fill ==
  /\ pc = "fill"
  /\ MatrixStep(IF base = 0 THEN {Shared} ELSE Name)
  /\ UNCHANGED <<pc, row, x, y, poolVars>>

Prepare ==
  /\ pc = "fill" /\ base = 0
  /\ mat[Shared] # Null
  /\ \E v \in [0 .. mat[Shared].n - 1 -> T] : x' = v
  /\ pc' = "enqueue"
  /\ UNCHANGED <<base, mat, row, y, poolVars>>

(* The main thread goes through the rows.                                   *)
NextRow(then) ==
  IF row + 1 = mat[Shared].m THEN row' = 0 /\ pc' = then
  ELSE row' = row + 1 /\ UNCHANGED pc

(* The last one is followed by the asserts, if there are any.               *)
Enqueue ==
  /\ pc = "enqueue"
  /\ Pool!Accept(row)
  /\ NextRow("get") \/ NextRow("unread")
  /\ UNCHANGED <<base, mat, x, y>>

(* Mutant of GetResult: the main thread does not wait for the task.         *)
GetEarly ==
  /\ pc = "get"
  /\ NextRow("leave")
  /\ UNCHANGED <<base, mat, x, y, poolVars>>

(* y[row].get() waits for the task.                                         *)
GetResult ==
  /\ pc = "get"
  /\ status[row] = "done"
  /\ NextRow("leave")
  /\ UNCHANGED <<base, mat, x, y, poolVars>>

(* The futures, x and the pool are destroyed, in this order.                *)
Leave ==
  /\ pc \in {"leave", "unread"}
  /\ \/ Pool!Close /\ UNCHANGED pc
     \/ Pool!Closed /\ pc' = "left"
  /\ UNCHANGED <<base, mat, row, x, y>>

(* The matrix is destroyed; mat keeps its last content.                     *)
Destroy ==
  /\ pc = "left" /\ pc' = "gone"
  /\ UNCHANGED <<base, mat, row, x, y, poolVars>>

Work(t) ==
  /\ \/ Pool!Start(t) /\ UNCHANGED y
     \/ Pool!Finish(t) /\ y' = [y EXCEPT ![t] = MultiplyRow(mat[Shared], mat[Shared].base + t, x)]
  /\ UNCHANGED <<base, mat, pc, row, x>>

Gone == pc = "gone" /\ UNCHANGED vars

Next ==
  \/ Fill \/ Prepare \/ Enqueue \/ GetResult \/ Leave \/ Destroy \/ Gone
  \/ \E t \in Task : Work(t)

Spec == Start /\ [][Next]_vars

-----------------------------------------------------------------------------
(* The rows whose futures have been waited for.                             *)
Got ==
  CASE pc = "get" -> 0 .. row - 1
    [] pc = "leave" -> 0 .. mat[Shared].m - 1
    [] OTHER -> {}

(* The product with a vector is that of the array, computed in one go or,   *)
(* however the pool schedules the tasks, row by row: what the asserts of    *)
(* the tests say of one matrix each.  And no task is left behind: when the  *)
(* matrix is destroyed none waits or runs, though main may have waited for  *)
(* no future.                                                               *)
ProductsRight ==
  /\ \A z \in Name :
       mat[z] # Null =>
         \A v \in [0 .. mat[z].n - 1 -> T] :
           MultiplyVector(mat[z], v)
             = [i \in 0 .. mat[z].m - 1 |-> Dense!RowTimes(Content(mat[z]), i, v)]
  /\ \A t \in Got : y[t] = Dense!RowTimes(Content(mat[Shared]), t, x)
  /\ pc = "gone" => \A t \in Task : status[t] \notin {"pending", "running"}
=============================================================================
