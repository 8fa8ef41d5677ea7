---------------------------- MODULE JobVerdicts -----------------------------
(***************************************************************************)
(* What an executor promises the scheduler, whatever the transport: each   *)
(* submission of a job gets at most one verdict, success is final, and     *)
(* when it is given the outputs are complete in the working directory and  *)
(* nobody writes them any more.                                            *)
(***************************************************************************)
EXTENDS Naturals

CONSTANTS Jobs, Restartable, MaxAttempts

VARIABLES
  attempt,  \* submissions of each job
  verdict,  \* what was reported for the latest one
  outputs   \* what is in the working directory

vars == <<attempt, verdict, outputs>>

Init == /\ attempt = [j \in Jobs |-> 0]
        /\ verdict = [j \in Jobs |-> "none"]
        /\ outputs = [j \in Jobs |-> "none"]

Pending(j) == attempt[j] > 0 /\ verdict[j] = "none"

\* A job is submitted, or again after an error.
Submit(j) ==
  /\ \/ attempt[j] = 0
     \/ verdict[j] = "error" /\ j \in Restartable /\ attempt[j] < MaxAttempts
  /\ attempt' = [attempt EXCEPT ![j] = @ + 1]
  /\ verdict' = [verdict EXCEPT ![j] = "none"]
  /\ UNCHANGED outputs

\* Outputs reach the working directory before the verdict, never after it.
Deliver(j) ==
  /\ Pending(j)
  /\ \E o \in {"partial", "whole"} : outputs' = [outputs EXCEPT ![j] = o]
  /\ UNCHANGED <<attempt, verdict>>

Succeed(j) ==
  /\ Pending(j) /\ outputs[j] = "whole"
  /\ verdict' = [verdict EXCEPT ![j] = "success"]
  /\ UNCHANGED <<attempt, outputs>>

\* A delivery that breaks off may have replaced some outputs, or all.
Fail(j) ==
  /\ Pending(j)
  /\ verdict' = [verdict EXCEPT ![j] = "error"]
  /\ \E o \in {outputs[j], "partial", "whole"} : outputs' = [outputs EXCEPT ![j] = o]
  /\ UNCHANGED attempt

Next == \E j \in Jobs : Submit(j) \/ Deliver(j) \/ Succeed(j) \/ Fail(j)

Spec == Init /\ [][Next]_vars
=============================================================================
