--------------------------- MODULE OpenStackHosts ---------------------------
(***************************************************************************)
(* The rented worker: OpenStackHosts.acquire and release as runs of one    *)
(* workflow call them, and the reaper that deletes expired servers.        *)
(*                                                                         *)
(* The cloud is shared by everybody and each call of its API may fail      *)
(* before or after it took effect.  Between two calls other runs and the   *)
(* reaper act, so a list of servers is stale as soon as it is returned.    *)
(* A run asks for at most one server: the run names it, as run8 does.      *)
(* KeyboardInterrupt in a cloud call is one of the call's failures, since  *)
(* acquire and _delete_ids catch BaseException.                            *)
(***************************************************************************)
EXTENDS Naturals, FiniteSets

CONSTANTS
  Runs,       \* runs of the workflow, one after another or at once
  Policies,   \* values of on_existing the runs may be given
  Keeps,      \* values of keep the runs may be given
  Quota,      \* servers the project may have
  Life,       \* max_hours plus a quarter of an hour, in ticks
  MaxTime,    \* last tick of the clock (bound)
  MaxErrors,  \* failed calls (bound)
  Faults      \* which of the events below may happen

FaultKinds == {"boot", "crash", "late", "interrupt", "lookup"}

ASSUME ConstantsAssumption ==
  /\ Policies \subseteq {"fail", "delete", "adopt"}
  /\ Keeps \subseteq {"never", "on-failure", "always"}
  /\ Quota \in Nat /\ Life \in Nat /\ MaxTime \in Nat /\ MaxErrors \in Nat
  /\ Faults \subseteq FaultKinds

VARIABLES
  \* the runs
  pc,        \* where each run stands
  policy,    \* settings.on_existing
  keep,      \* settings.keep
  expiry,    \* the sgo-expires the run computed when acquire began
  target,    \* the local `server' of acquire: at most one
  ids,       \* server_ids
  todo,      \* what the current call of _delete_ids has not visited
  lost,      \* lookup_error
  \* the cloud
  server,    \* of each server: none, late (accepted, not listed), up or gone
  owner,     \* its sgo-run metadata
  expires,   \* its sgo-expires metadata
  now,
  errors,
  reap,      \* the expired servers the reaper has still to delete
  \* history
  told,      \* servers the user was told of, by id or by name
  missed,    \* servers the clean-up of acquire could not see, or gave up on
  claimed    \* servers listed by a run that was to adopt or delete them

runVars == <<pc, policy, keep, expiry, target, ids, todo, lost>>
cloudVars == <<server, owner, expires>>
history == <<told, missed, claimed>>
vars == <<runVars, cloudVars, now, errors, reap, history>>
settings == <<policy, keep, expiry>>

Acquiring == {"list", "predelete", "adopt", "quota", "create", "boot",
              "lookup", "undo"}
Active == Acquiring \cup {"using", "failed", "release"}
PcStates == Active \cup {"idle", "kept", "released", "error", "crashed"}

Up == {s \in Runs : server[s] = "up"}     \* what list_servers returns

Init ==
  /\ pc = [r \in Runs |-> "idle"]
  /\ policy = [r \in Runs |-> "fail"]
  /\ keep = [r \in Runs |-> "never"]
  /\ expiry = [r \in Runs |-> 0]
  /\ target = [r \in Runs |-> {}]
  /\ ids = [r \in Runs |-> {}]
  /\ todo = [r \in Runs |-> {}]
  /\ lost = [r \in Runs |-> FALSE]
  /\ server = [s \in Runs |-> "none"]
  /\ owner = [s \in Runs |-> s]
  /\ expires = [s \in Runs |-> 0]
  /\ now = 0
  /\ errors = 0
  /\ reap = {}
  /\ told = {}
  /\ missed = {}
  /\ claimed = {}

Goto(r, label) == pc' = [pc EXCEPT ![r] = label]
Raise(r) == Goto(r, "lookup")
Ok == UNCHANGED errors
Error == errors < MaxErrors /\ errors' = errors + 1

-----------------------------------------------------------------------------
(* acquire                                                                 *)

\* A run starts with its settings and reaches acquire.  The expiry is fixed
\* here, before anything is asked of the cloud.
Begin(r) ==
  /\ pc[r] = "idle"
  /\ now + Life <= MaxTime
  /\ expiry' = [expiry EXCEPT ![r] = now + Life]
  /\ \E p \in Policies : policy' = [policy EXCEPT ![r] = p]
  /\ \E k \in Keeps : keep' = [keep EXCEPT ![r] = k]
  /\ Goto(r, "list")
  /\ UNCHANGED <<target, ids, todo, lost, cloudVars, now, errors, reap, history>>

\* Mutation: the existing servers are taken whatever the policy.
ListExisting_Always(r) ==
  /\ pc[r] = "list" /\ Ok
  /\ ids' = [ids EXCEPT ![r] = Up]
  /\ todo' = [todo EXCEPT ![r] = Up]
  /\ Goto(r, "predelete")
  /\ UNCHANGED <<settings, target, lost, cloudVars, now, reap, history>>

\* _preflight, _existing and what _handle_existing decides on the list.
ListExisting(r) ==
  /\ pc[r] = "list"
  /\ \/ Error /\ Raise(r) /\ UNCHANGED <<target, ids, todo, claimed>>
     \/ /\ Ok /\ Up = {}
        /\ Goto(r, "quota") /\ UNCHANGED <<target, ids, todo, claimed>>
     \/ /\ Ok /\ Up # {}
        /\ \/ policy[r] = "fail"
           \/ policy[r] = "adopt" /\ Cardinality(Up) # 1
        /\ Raise(r) /\ UNCHANGED <<target, ids, todo, claimed>>
     \/ /\ Ok /\ Up # {} /\ policy[r] = "delete"
        /\ ids' = [ids EXCEPT ![r] = Up]
        /\ todo' = [todo EXCEPT ![r] = Up]
        /\ claimed' = claimed \cup Up
        /\ Goto(r, "predelete") /\ UNCHANGED target
     \/ /\ Ok /\ Cardinality(Up) = 1 /\ policy[r] = "adopt"
        /\ ids' = [ids EXCEPT ![r] = Up]
        /\ claimed' = claimed \cup Up
        /\ Goto(r, "adopt") /\ UNCHANGED <<target, todo>>
  /\ UNCHANGED <<settings, lost, cloudVars, now, reap, told, missed>>

\* Mutation: the server keeps its own expiry, extended.
Adopt_Extends(r) ==
  /\ pc[r] = "adopt"
  /\ Ok /\ ids[r] \subseteq Up
  /\ owner' = [s \in Runs |-> IF s \in ids[r] THEN r ELSE owner[s]]
  /\ expires' = [s \in Runs |->
                   IF s \in ids[r] THEN expires[s] + Life ELSE expires[s]]
  /\ target' = [target EXCEPT ![r] = ids[r]]
  /\ Goto(r, "boot")
  /\ UNCHANGED <<settings, ids, todo, lost, server, now, reap, history>>

\* The metadata is replaced in one call, on a server that may be gone.
Adopt(r) ==
  LET tagged == /\ owner' = [s \in Runs |-> IF s \in ids[r] THEN r ELSE owner[s]]
                /\ expires' = [s \in Runs |->
                                 IF s \in ids[r] THEN expiry[r] ELSE expires[s]]
  IN /\ pc[r] = "adopt"
     /\ \/ /\ Ok /\ ids[r] \subseteq Up /\ tagged
           /\ target' = [target EXCEPT ![r] = ids[r]]
           /\ Goto(r, "boot")
        \/ /\ Ok /\ ~(ids[r] \subseteq Up) /\ Raise(r)
           /\ UNCHANGED <<owner, expires, target>>
        \/ /\ Error /\ Raise(r)
           /\ tagged \/ UNCHANGED <<owner, expires>>
           /\ UNCHANGED target
     /\ UNCHANGED <<settings, ids, todo, lost, server, now, reap, history>>

CheckQuota(r) ==
  /\ pc[r] = "quota"
  /\ \/ Ok /\ Cardinality(Up) + 1 <= Quota /\ Goto(r, "create")
     \/ Ok /\ Cardinality(Up) + 1 > Quota /\ Raise(r)
     \/ Error /\ Raise(r)
  /\ UNCHANGED <<settings, target, ids, todo, lost, cloudVars, now, reap, history>>

\* Mutation: the new server carries no expiry.
Create_NoExpiry(r) ==
  /\ pc[r] = "create"
  /\ Ok /\ Goto(r, "boot")
  /\ server' = [server EXCEPT ![r] = "up"]
  /\ expires' = [expires EXCEPT ![r] = MaxTime + 1]
  /\ target' = [target EXCEPT ![r] = {r}]
  /\ ids' = [ids EXCEPT ![r] = {r}]
  /\ UNCHANGED <<settings, todo, lost, owner, now, reap, history>>

\* create_server: done, refused, or accepted with the reply lost; an accepted
\* request may also be listed only later.
Create(r) ==
  /\ pc[r] = "create"
  /\ \/ /\ Ok /\ Goto(r, "boot")
        /\ server' = [server EXCEPT ![r] = "up"]
        /\ expires' = [expires EXCEPT ![r] = expiry[r]]
        /\ target' = [target EXCEPT ![r] = {r}]
        /\ ids' = [ids EXCEPT ![r] = {r}]
     \/ Error /\ Raise(r) /\ UNCHANGED <<server, expires, target, ids>>
     \/ \E state \in {"up"} \cup (IF "late" \in Faults THEN {"late"} ELSE {}) :
          /\ Error /\ Raise(r)
          /\ server' = [server EXCEPT ![r] = state]
          /\ expires' = [expires EXCEPT ![r] = expiry[r]]
          /\ UNCHANGED <<target, ids>>
  /\ UNCHANGED <<settings, todo, lost, owner, now, reap, history>>

\* wait_for_server, then _wait_for_ssh until the boot timeout.
Boot(r) ==
  /\ pc[r] = "boot"
  /\ \/ target[r] \subseteq Up /\ Ok /\ Goto(r, "using")
     \/ ~(target[r] \subseteq Up) /\ Ok /\ Raise(r)
     \/ "boot" \in Faults /\ Ok /\ Raise(r)
     \/ Error /\ Raise(r)
  /\ UNCHANGED <<settings, target, ids, todo, lost, cloudVars, now, reap, history>>

Mine(r) == {s \in Up : owner[s] = r \/ s = r}

Undo(r, found) ==
  /\ ids' = [ids EXCEPT ![r] = found \cup target[r]]
  /\ todo' = [todo EXCEPT ![r] = found \cup target[r]]
  /\ Goto(r, "undo")

\* Mutation: a create that raised is taken for one that created nothing.
LookUp_Skipped(r) ==
  /\ pc[r] = "lookup"
  /\ todo' = [todo EXCEPT ![r] = ids[r]]
  /\ Goto(r, "undo") /\ Ok
  /\ UNCHANGED <<settings, target, ids, lost, cloudVars, now, reap, history>>

\* except BaseException: with no id known, ask the cloud, three times at most.
\* A second Ctrl-C here is not caught: the clean-up does not happen.
LookUp(r) ==
  /\ pc[r] = "lookup"
  /\ \/ ids[r] # {} /\ Ok /\ Undo(r, ids[r]) /\ UNCHANGED <<lost, missed>>
     \/ ids[r] = {} /\ Ok /\ Undo(r, Mine(r)) /\ UNCHANGED lost
        /\ missed' = missed \cup {s \in {r} : server[s] = "late"}
     \/ "lookup" \in Faults /\ ids[r] = {} /\ Ok /\ Undo(r, {}) /\ UNCHANGED missed
        /\ lost' = [lost EXCEPT ![r] = TRUE]
     \/ "interrupt" \in Faults /\ ids[r] = {} /\ Ok
        /\ Goto(r, "failed") /\ UNCHANGED <<ids, todo, lost>>
        /\ missed' = missed \cup {s \in {r} : server[s] \in {"up", "late"}}
  /\ UNCHANGED <<settings, target, cloudVars, now, reap, told, claimed>>

-----------------------------------------------------------------------------
(* _delete_ids, called at three places                                     *)

\* The loop goes on after a failure; an id stays until its server is gone.
DeleteOne(r) ==
  /\ pc[r] \in {"predelete", "undo", "release"}
  /\ \E s \in todo[r] :
       /\ todo' = [todo EXCEPT ![r] = @ \ {s}]
       /\ \/ Ok /\ server' = [server EXCEPT ![s] = "gone"]
             /\ ids' = [ids EXCEPT ![r] = @ \ {s}]
          \/ /\ Error /\ UNCHANGED ids
             /\ server' \in {server, [server EXCEPT ![s] = "gone"]}
  /\ UNCHANGED <<pc, settings, target, lost, owner, expires, now, reap, history>>

\* The existing servers are gone, or acquire fails.
PreDeleteEnd(r) ==
  /\ pc[r] = "predelete" /\ todo[r] = {}
  /\ IF ids[r] = {} THEN Goto(r, "quota") ELSE Raise(r)
  /\ UNCHANGED <<settings, target, ids, todo, lost, cloudVars, now, errors,
                 reap, history>>

\* acquire raises; its message names what may be left.
UndoEnd(r) ==
  /\ pc[r] = "undo" /\ todo[r] = {}
  /\ told' = told \cup ids[r] \cup (IF lost[r] /\ ids[r] = {} THEN {r} ELSE {})
  /\ Goto(r, "failed")
  /\ UNCHANGED <<settings, target, ids, todo, lost, cloudVars, now, errors,
                 reap, missed, claimed>>

-----------------------------------------------------------------------------
(* release, called by the executor's shutdown                              *)

Release(r) ==
  \E failed \in IF pc[r] = "failed" THEN {TRUE} ELSE BOOLEAN :
    LET keeping == keep[r] = "always" \/ (keep[r] = "on-failure" /\ failed)
    IN /\ pc[r] \in {"using", "failed"}
       /\ Goto(r, IF keeping THEN "kept" ELSE "release")
       /\ todo' = [todo EXCEPT ![r] = IF keeping THEN {} ELSE ids[r]]
       /\ told' = IF keeping THEN told \cup ids[r] ELSE told
       /\ UNCHANGED <<settings, target, ids, lost, cloudVars, now, errors,
                      reap, missed, claimed>>

ReleaseEnd(r) ==
  /\ pc[r] = "release" /\ todo[r] = {}
  /\ Goto(r, IF ids[r] = {} THEN "released" ELSE "error")
  /\ told' = told \cup ids[r]
  /\ UNCHANGED <<settings, target, ids, todo, lost, cloudVars, now, errors,
                 reap, missed, claimed>>

\* The controller is killed.
Crash(r) ==
  /\ "crash" \in Faults
  /\ pc[r] \in Active
  /\ Goto(r, "crashed")
  /\ UNCHANGED <<settings, target, ids, todo, lost, cloudVars, now, errors,
                 reap, history>>

-----------------------------------------------------------------------------
(* The cloud, the clock and the reaper                                     *)

\* A request that was accepted with its reply lost gets its server.
Appear(s) ==
  /\ server[s] = "late"
  /\ server' = [server EXCEPT ![s] = "up"]
  /\ UNCHANGED <<runVars, owner, expires, now, errors, reap, history>>

Tick ==
  /\ now < MaxTime
  /\ now' = now + 1
  /\ UNCHANGED <<runVars, cloudVars, errors, reap, history>>

Expired == {s \in Up : expires[s] <= now}

\* Mutation: the comparison is the wrong way round.
ReapList_Wrong ==
  /\ reap = {}
  /\ reap' = {s \in Up : expires[s] > now}
  /\ UNCHANGED <<runVars, cloudVars, now, errors, history>>

\* One invocation: the list is made once and walked.
ReapList ==
  /\ reap = {} /\ Expired # {}
  /\ reap' = Expired
  /\ UNCHANGED <<runVars, cloudVars, now, errors, history>>

\* A failure, or a server that is still listed, ends the invocation.
ReapDelete ==
  /\ \E s \in reap :
       \/ Ok /\ server' = [server EXCEPT ![s] = "gone"] /\ reap' = reap \ {s}
       \/ /\ Error /\ reap' = {}
          /\ server' \in {server, [server EXCEPT ![s] = "gone"]}
  /\ UNCHANGED <<runVars, owner, expires, now, history>>

-----------------------------------------------------------------------------
Step(r) ==
  \/ ListExisting(r) \/ Adopt(r) \/ CheckQuota(r) \/ Create(r) \/ Boot(r)
  \/ LookUp(r) \/ DeleteOne(r) \/ PreDeleteEnd(r) \/ UndoEnd(r)
  \/ Release(r) \/ ReleaseEnd(r)

Next ==
  \/ \E r \in Runs : Begin(r) \/ Step(r) \/ Crash(r) \/ Appear(r)
  \/ Tick
  \/ ReapList
  \/ ReapDelete

\* Time passes and the reaper is run again and again, as cron does; nothing is
\* promised of the runs, which may be killed or stay in use.
Fairness == WF_vars(Tick) /\ WF_vars(ReapList) /\ WF_vars(ReapDelete)
            /\ \A s \in Runs : WF_vars(Appear(s))

Spec == Init /\ [][Next]_vars
FairSpec == Spec /\ Fairness

-----------------------------------------------------------------------------
(* Properties                                                              *)

TypeOK ==
  /\ pc \in [Runs -> PcStates]
  /\ policy \in [Runs -> Policies \cup {"fail"}]
  /\ keep \in [Runs -> Keeps \cup {"never"}]
  /\ expiry \in [Runs -> 0..MaxTime]
  /\ target \in [Runs -> SUBSET Runs]
  /\ ids \in [Runs -> SUBSET Runs]
  /\ todo \in [Runs -> SUBSET Runs]
  /\ lost \in [Runs -> BOOLEAN]
  /\ server \in [Runs -> {"none", "late", "up", "gone"}]
  /\ owner \in [Runs -> Runs]
  /\ expires \in [Runs -> 0..MaxTime]
  /\ now \in 0..MaxTime
  /\ errors \in 0..MaxErrors
  /\ reap \subseteq Runs
  /\ told \subseteq Runs
  /\ missed \subseteq Runs
  /\ claimed \subseteq Runs

\* Somebody answers for the server: the user was told of it, a run that has
\* not ended, or was killed, has its id, or its run is about to look it up, or
\* to name it because the lookup failed.
Accounted(s) ==
  \/ s \in told
  \/ \E r \in Runs : s \in ids[r] /\ pc[r] \in Active \cup {"crashed"}
  \/ pc[s] \in {"lookup", "crashed"}
  \/ pc[s] = "undo" /\ lost[s]

\* "Resolve by run metadata/name before propagating so no failed boot is left
\* billing": a server that exists or will exist is never one that nobody
\* answers for, whatever failed in acquire or release.  Two exceptions remain:
\* a server listed only after the lookup, a lookup cut short by Ctrl-C.
NoOrphan ==
  \A s \in Runs : server[s] \in {"up", "late"} => Accounted(s) \/ s \in missed

\* on_existing = fail preserves the existing instance: such a run never has
\* the id of a server it did not create, so its clean-up cannot delete one.
FailPreservesOthers ==
  \A r \in Runs : policy[r] = "fail" => ids[r] \subseteq {r}

\* The server a run created stays while the run uses it, up to its expiry,
\* unless a later run was configured to adopt or delete it.
RunKeepsServer ==
  \A r \in Runs :
    pc[r] = "using" /\ r \in target[r] /\ now < expires[r] /\ r \notin claimed
      => server[r] = "up"

\* Expiry still applies: whatever the runs do, keep or forget, every server
\* is deleted in the end.
EveryServerGoes == \A s \in Runs : server[s] # "none" ~> server[s] = "gone"
=============================================================================
