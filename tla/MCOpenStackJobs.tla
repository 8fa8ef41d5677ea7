-------------------------- MODULE MCOpenStackJobs ---------------------------
(* Instances of OpenStackJobs for TLC.                                     *)
EXTENDS OpenStackJobs
=============================================================================
