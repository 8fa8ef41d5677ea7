---------------------------- MODULE MCSshConfig -----------------------------
(* Instances of SshConfig for TLC.                                         *)
EXTENDS SshConfig, TLC

\* Runs, and addresses, differ only by name.
Symmetry == Permutations(Runs) \cup Permutations(Addresses)

\* Every property but the type invariant is about states without a lost update,
\* and torn is never reset: TLC need not go on from a state with one.
Untorn == ~torn
=============================================================================
