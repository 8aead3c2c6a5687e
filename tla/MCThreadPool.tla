---------------------------- MODULE MCThreadPool ----------------------------
(* Instances of ThreadPool for TLC.                                         *)
EXTENDS ThreadPool

CONSTANTS t1, t2, t3, t4

(* The owner enqueues t1 and t2; t1 enqueues t3 from its worker, t3 t4.     *)
MCParent ==
  [t \in Task |-> CASE t = t3 -> t1 [] t = t4 -> t3 [] OTHER -> Owner]
=============================================================================
