---------------------------- MODULE MCRemoteJobs ----------------------------
(* Instances of RemoteJobs for TLC.                                        *)
EXTENDS RemoteJobs, TLC

\* Jobs differ only by name: sound for the runs without liveness.
JobSymmetry == Permutations(Jobs)
=============================================================================
