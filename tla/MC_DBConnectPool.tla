-------------------------- MODULE MC_DBConnectPool --------------------------
(* The instance of DBConnectPool for TLC.  The runs give it fewer          *)
(* connections than threads, so that threads wait.                         *)
EXTENDS DBConnectPool, TLC

Symmetry == Permutations(Threads)
=============================================================================
