----------------------------- MODULE MCWatchdog -----------------------------
(* Instances of Watchdog for TLC: at most two transactions, two SSH ports, *)
(* a window of two ticks.                                                  *)
EXTENDS Watchdog, TLC

TxnSymmetry == Permutations(Txns)
=============================================================================
