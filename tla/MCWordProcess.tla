----------------------------- MODULE MCWordProcess -----------------------------
(* Model checking of WordProcess: one pid is as good as another.           *)
EXTENDS WordProcess, TLC

PidSymmetry == Permutations(Pids)
=============================================================================
