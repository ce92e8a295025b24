-------------------------------- MODULE Sums --------------------------------
(***************************************************************************)
(* Finite sums of integers: what SQL's SUM(amount) returns over the rows   *)
(* numbered 1 .. n.  Written with a recursive function, so that theorems   *)
(* can be proved about it (see Ledger_proofs).                               *)
(***************************************************************************)
EXTENDS Integers

\* The function that maps each i in 0 .. n to f[1] + ... + f[i].
RunningTotal(f, n) ==
  LET total[i \in 0 .. n] == IF i = 0 THEN 0 ELSE total[i - 1] + f[i]
  IN  total

Total(f, n) == RunningTotal(f, n)[n]
=============================================================================
