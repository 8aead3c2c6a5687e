-------------------------------- MODULE Sums --------------------------------
(***************************************************************************)
(* The sum a loop accumulates: a = T(); for (...) a = a + f[k].            *)
(***************************************************************************)
EXTENDS Integers

(* f[0] + ... + f[n - 1]                                                    *)
Total(f, n) ==
  LET total[k \in 0 .. n] == IF k = 0 THEN 0 ELSE total[k - 1] + f[k - 1]
  IN  total[n]
=============================================================================
