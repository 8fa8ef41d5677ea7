-------------------------- MODULE MCOpenStackHosts --------------------------
(* Instances of OpenStackHosts for TLC.  Liveness is checked, so the runs  *)
(* are not declared symmetric.                                             *)
EXTENDS OpenStackHosts
=============================================================================
