--------------------------- MODULE MCProfileCache ---------------------------
(* Instances of ProfileCache for TLC.                                      *)
EXTENDS ProfileCache, TLC

\* Processes differ only by name: sound for the runs without liveness.
ProcSymmetry == Permutations(Procs)
=============================================================================
