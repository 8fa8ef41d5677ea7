-------------------------- MODULE EnvironmentStore --------------------------
(***************************************************************************)
(* What the profile cache promises the rules that share an environment: it *)
(* is built by one caller at a time, never again once it is ready, and a   *)
(* caller that gets a profile gets a ready one.                            *)
(***************************************************************************)
CONSTANT Procs

VARIABLES
  call,   \* the state of each process's call
  ready   \* has the environment been built

vars == <<call, ready>>

Calls == {"none", "asking", "building", "has", "failed"}

Init == call = [p \in Procs |-> "none"] /\ ready = FALSE

Becomes(p, state) == call' = [call EXCEPT ![p] = state]

Ask(p) == call[p] \in {"none", "failed"} /\ Becomes(p, "asking") /\ UNCHANGED ready

Build(p) ==
  /\ call[p] = "asking" /\ ~ready
  /\ \A q \in Procs : call[q] # "building"
  /\ Becomes(p, "building")
  /\ UNCHANGED ready

Built(p) == call[p] = "building" /\ ready' = TRUE /\ Becomes(p, "has")

Reuse(p) == call[p] = "asking" /\ ready /\ Becomes(p, "has") /\ UNCHANGED ready

\* The build failed, the user interrupted the call or the process was killed.
Fail(p) == /\ call[p] \in {"asking", "building", "has"}
           /\ Becomes(p, "failed")
           /\ UNCHANGED ready

Done(p) == call[p] = "has" /\ Becomes(p, "none") /\ UNCHANGED ready

Next == \E p \in Procs : Ask(p) \/ Build(p) \/ Built(p) \/ Reuse(p) \/ Fail(p)
                         \/ Done(p)

Spec == Init /\ [][Next]_vars
=============================================================================
