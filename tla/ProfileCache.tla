---------------------------- MODULE ProfileCache ----------------------------
(***************************************************************************)
(* One environment directory of the persistent Guix profile cache, shared  *)
(* by every Snakemake process that resolves to the same environment hash:  *)
(* GuixEnv._ensure_cached_profile and the helpers it calls.                *)
(*                                                                         *)
(* A caller looks for the `.complete' marker and a `profile' link that     *)
(* resolves.  If either is missing it competes for the lock directory, and *)
(* the winner runs `guix package' on a temporary profile, renames it into  *)
(* place and writes the marker.  Every file operation is a step, because   *)
(* other processes read the same directory without the lock.               *)
(***************************************************************************)
EXTENDS Naturals, FiniteSets

CONSTANTS
  Procs,       \* the processes that use the environment
  MaxCalls,    \* calls of _ensure_cached_profile per process (bound)
  MaxBreaks,   \* profiles lost to something outside the program (bound)
  Faults       \* which of the faults below may happen

FaultKinds == {"guix", "mark", "release", "interrupt", "crash", "remove"}

ASSUME ConstantsAssumption ==
  /\ MaxCalls \in Nat \ {0}
  /\ MaxBreaks \in Nat
  /\ Faults \subseteq FaultKinds

VARIABLES
  pc,          \* where each process stands in the procedure
  site,        \* which of the three calls of _profile_complete is running
  outcome,     \* what the call returns once the lock is released
  calls,       \* calls made by each process
  envdir,      \* does the environment directory exist
  lock,        \* does the `.lock' directory exist
  marker,      \* does `.complete' exist
  profile,     \* the realization the `profile' link names, or NoProfile
  temps,       \* realizations still under their `.tmp-profile-X' name
  links,       \* realizations whose `.tmp-profile-X-1-link' exists
  gone,        \* history: realizations lost to the outside
  complete,    \* history: a usable profile was marked and not lost since
  stray        \* history: a call ended and left the lock directory behind

vars == <<pc, site, outcome, calls, envdir, lock, marker, profile, temps,
          links, gone, complete, stray>>

historyVars == <<gone, complete, stray>>
dirVars == <<envdir, lock, marker, profile, temps, links>>

\* A realization is named by the call that makes it: its temporary profile
\* carries a fresh uuid.
Realizations == Procs \X (0..MaxCalls)
NoProfile == <<>>
Id(p) == <<p, calls[p]>>

Waiting == {"marker", "resolve", "unlink", "mkenv", "mklock"}
Taken == "taken"   \* os.mkdir has returned, the try block is not entered
InTry == {"guix", "publish", "published"}   \* the try block of _realize_profile
Working == InTry \cup {"clean", "abort", "mark"}
Ended == {"idle", "using", "failed", "crashed"}
PcStates == Waiting \cup Working \cup Ended \cup {Taken, "unlock"}

\* p runs between os.mkdir(lock_path) and the rmtree in the finally clause.
Holds(p) ==
  \/ pc[p] \in Working \cup {Taken, "unlock"}
  \/ pc[p] \in {"marker", "resolve", "unlink"} /\ site[p] = "held"

\* `profile' is a relative link to the generation link of its realization.
Resolves == profile \in links

Init ==
  /\ pc = [p \in Procs |-> "idle"]
  /\ site = [p \in Procs |-> "fast"]
  /\ outcome = [p \in Procs |-> "ok"]
  /\ calls = [p \in Procs |-> 0]
  /\ envdir = FALSE
  /\ lock = FALSE
  /\ marker = FALSE
  /\ profile = NoProfile
  /\ temps = {}
  /\ links = {}
  /\ gone = {}
  /\ complete = FALSE
  /\ stray = FALSE

Goto(p, label) == pc' = [pc EXCEPT ![p] = label]

-----------------------------------------------------------------------------
(* _profile_complete                                                       *)

\* What follows an incomplete answer, and a complete one, at each call site.
\* Mutation: the answer under the lock leads nowhere.
AfterIncomplete_Lost(s) ==
  CASE s = "fast" -> "mkenv" [] s = "loop" -> "mklock" [] s = "held" -> "end"

AfterIncomplete(s) ==
  CASE s = "fast" -> "mkenv" [] s = "loop" -> "mklock" [] s = "held" -> "clean"
AfterComplete(s) == IF s = "held" THEN "unlock" ELSE "using"

CheckMarker(p) ==
  /\ pc[p] = "marker"
  /\ Goto(p, IF marker THEN "resolve" ELSE AfterIncomplete(site[p]))
  /\ UNCHANGED <<site, outcome, calls, dirVars, historyVars>>

ResolveProfile(p) ==
  /\ pc[p] = "resolve"
  /\ Goto(p, IF Resolves THEN AfterComplete(site[p]) ELSE "unlink")
  /\ outcome' = IF Resolves THEN [outcome EXCEPT ![p] = "ok"] ELSE outcome
  /\ UNCHANGED <<site, calls, dirVars, historyVars>>

\* The marker is removed by name: whatever marker is there now.
UnlinkMarker(p) ==
  /\ pc[p] = "unlink"
  /\ marker' = FALSE
  /\ Goto(p, AfterIncomplete(site[p]))
  /\ UNCHANGED <<site, outcome, calls, envdir, lock, profile, temps, links,
                 historyVars>>

-----------------------------------------------------------------------------
(* _ensure_cached_profile                                                  *)

Begin(p) ==
  /\ pc[p] \in {"idle", "failed"}
  /\ calls[p] < MaxCalls
  /\ calls' = [calls EXCEPT ![p] = @ + 1]
  /\ site' = [site EXCEPT ![p] = "fast"]
  /\ Goto(p, "marker")
  /\ UNCHANGED <<outcome, dirVars, historyVars>>

MakeEnvDir(p) ==
  /\ pc[p] = "mkenv"
  /\ envdir' = TRUE
  /\ site' = [site EXCEPT ![p] = "loop"]
  /\ Goto(p, "marker")
  /\ UNCHANGED <<outcome, calls, lock, marker, profile, temps, links, historyVars>>

\* Mutation: os.makedirs(lock_path, exist_ok=True).
AcquireLock_ExistOk(p) ==
  /\ pc[p] = "mklock" /\ envdir
  /\ lock' = TRUE
  /\ Goto(p, Taken)
  /\ UNCHANGED <<site, outcome, calls, envdir, marker, profile, temps, links,
                 historyVars>>

AcquireLock(p) ==
  /\ pc[p] = "mklock"
  /\ envdir /\ ~lock
  /\ lock' = TRUE
  /\ Goto(p, Taken)
  /\ UNCHANGED <<site, outcome, calls, envdir, marker, profile, temps, links,
                 historyVars>>

\* Mutation: no second look at the marker once the lock is held.
EnterTry_NoRecheck(p) ==
  /\ pc[p] = Taken
  /\ site' = [site EXCEPT ![p] = "held"]
  /\ Goto(p, "clean")
  /\ UNCHANGED <<outcome, calls, dirVars, historyVars>>

\* The try block whose finally clause removes the lock begins one statement
\* after os.mkdir, with the second look at the marker.
EnterTry(p) ==
  /\ pc[p] = Taken
  /\ site' = [site EXCEPT ![p] = "held"]
  /\ Goto(p, "marker")
  /\ UNCHANGED <<outcome, calls, dirVars, historyVars>>

\* FileExistsError: sleep and go round the loop.
LockBusy(p) ==
  /\ pc[p] = "mklock"
  /\ envdir /\ lock
  /\ Goto(p, "marker")
  /\ UNCHANGED <<site, outcome, calls, dirVars, historyVars>>

\* FileNotFoundError is not caught: the directory went away while waiting.
LockParentMissing(p) ==
  /\ pc[p] = "mklock"
  /\ ~envdir
  /\ Goto(p, "failed")
  /\ UNCHANGED <<site, outcome, calls, dirVars, historyVars>>

\* Mutation: generation links are not skipped.
CleanStale_AllLinks(p) ==
  /\ pc[p] = "clean"
  /\ links' = {} /\ temps' = {}
  /\ Goto(p, "guix")
  /\ UNCHANGED <<site, outcome, calls, envdir, lock, marker, profile, historyVars>>

\* _cleanup_stale_temp_profiles: every temporary profile goes with its
\* generation link; a generation link alone is left, it may be `profile'.
CleanStale(p) ==
  /\ pc[p] = "clean"
  /\ links' = links \ temps
  /\ temps' = {}
  /\ Goto(p, "guix")
  /\ UNCHANGED <<site, outcome, calls, envdir, lock, marker, profile, historyVars>>

GuixPackage(p) ==
  /\ pc[p] = "guix"
  /\ temps' = temps \cup {Id(p)}
  /\ links' = links \cup {Id(p)}
  /\ Goto(p, "publish")
  /\ UNCHANGED <<site, outcome, calls, envdir, lock, marker, profile, historyVars>>

\* A non-zero exit, with or without the links already made.
GuixPackageFails(p) ==
  /\ pc[p] = "guix"
  /\ "guix" \in Faults
  /\ \E made \in {{}, {Id(p)}} : /\ temps' = temps \cup made
                                 /\ links' = links \cup made
  /\ Goto(p, "abort")
  /\ UNCHANGED <<site, outcome, calls, envdir, lock, marker, profile, historyVars>>

Publish(p) ==
  /\ pc[p] = "publish"
  /\ profile' = Id(p)
  /\ temps' = temps \ {Id(p)}
  /\ Goto(p, "published")
  /\ UNCHANGED <<site, outcome, calls, envdir, lock, marker, links, historyVars>>

LeaveTry(p) ==
  /\ pc[p] = "published"
  /\ Goto(p, "mark")
  /\ UNCHANGED <<site, outcome, calls, dirVars, historyVars>>

\* Mutation: the handler does not re-raise.
Abort_Swallows(p) ==
  /\ pc[p] = "abort"
  /\ temps' = temps \ {Id(p)} /\ links' = links \ {Id(p)}
  /\ Goto(p, "mark")
  /\ UNCHANGED <<site, outcome, calls, envdir, lock, marker, profile, historyVars>>

\* Mutation: the lock is released on success only, not in a finally clause.
Abort_KeepsLock(p) ==
  /\ pc[p] = "abort"
  /\ temps' = temps \ {Id(p)} /\ links' = links \ {Id(p)}
  /\ outcome' = [outcome EXCEPT ![p] = "failed"]
  /\ Goto(p, "failed")
  /\ UNCHANGED <<site, calls, envdir, lock, marker, profile, historyVars>>

\* except BaseException: remove everything named after the temporary profile.
Abort(p) ==
  /\ pc[p] = "abort"
  /\ temps' = temps \ {Id(p)}
  /\ links' = links \ {Id(p)}
  /\ outcome' = [outcome EXCEPT ![p] = "failed"]
  /\ Goto(p, "unlock")
  /\ UNCHANGED <<site, calls, envdir, lock, marker, profile, historyVars>>

WriteMarker(p) ==
  /\ pc[p] = "mark"
  /\ marker' = TRUE
  /\ complete' = Resolves
  /\ outcome' = [outcome EXCEPT ![p] = "ok"]
  /\ Goto(p, "unlock")
  /\ UNCHANGED <<site, calls, envdir, lock, profile, temps, links, gone, stray>>

WriteMarkerFails(p) ==
  /\ pc[p] = "mark"
  /\ "mark" \in Faults
  /\ outcome' = [outcome EXCEPT ![p] = "failed"]
  /\ Goto(p, "unlock")
  /\ UNCHANGED <<site, calls, dirVars, historyVars>>

ReleaseLock(p) ==
  /\ pc[p] = "unlock"
  /\ lock' = FALSE
  /\ Goto(p, IF outcome[p] = "ok" THEN "using" ELSE "failed")
  /\ UNCHANGED <<site, outcome, calls, envdir, marker, profile, temps, links,
                 historyVars>>

\* rmtree(ignore_errors=True): an error leaves the directory, untold.
ReleaseLockFails(p) ==
  /\ pc[p] = "unlock"
  /\ "release" \in Faults
  /\ stray' = TRUE
  /\ Goto(p, IF outcome[p] = "ok" THEN "using" ELSE "failed")
  /\ UNCHANGED <<site, outcome, calls, dirVars, gone, complete>>

\* The command that runs in the profile has ended.
Finish(p) ==
  /\ pc[p] = "using"
  /\ Goto(p, "idle")
  /\ UNCHANGED <<site, outcome, calls, dirVars, historyVars>>

-----------------------------------------------------------------------------
(* The environment                                                         *)

\* What the clean-up that p is running is about to remove.
Doomed(p) ==
  CASE pc[p] = "clean" -> temps [] pc[p] = "abort" -> {Id(p)} [] OTHER -> {}

\* A clean-up that is cut short has removed some links and left others.
CutShort(p) ==
  \E t, l \in SUBSET Doomed(p) : temps' = temps \ t /\ links' = links \ l

\* KeyboardInterrupt where a handler or the finally clause still runs.
Interrupt(p) ==
  /\ "interrupt" \in Faults
  /\ pc[p] \in Waiting \cup Working
  /\ outcome' = [outcome EXCEPT ![p] = "failed"]
  /\ CutShort(p)
  /\ Goto(p, IF pc[p] \in InTry THEN "abort"
             ELSE IF Holds(p) THEN "unlock" ELSE "failed")
  /\ UNCHANGED <<site, calls, envdir, lock, marker, profile, historyVars>>

\* KeyboardInterrupt between os.mkdir and the try, or in the removal of the
\* lock itself, before or after it took effect: nothing else removes it.
InterruptUnguarded(p) ==
  /\ "interrupt" \in Faults
  /\ pc[p] \in {Taken, "unlock"}
  /\ outcome' = [outcome EXCEPT ![p] = "failed"]
  /\ lock' \in IF pc[p] = Taken THEN {lock} ELSE {lock, FALSE}
  /\ stray' = lock'
  /\ Goto(p, "failed")
  /\ UNCHANGED <<site, calls, envdir, marker, profile, temps, links, gone,
                 complete>>

\* The process is killed: no handler runs, the lock directory stays.
Crash(p) ==
  /\ "crash" \in Faults
  /\ pc[p] \notin Ended
  /\ CutShort(p)
  /\ stray' = (stray \/ Holds(p))
  /\ Goto(p, "crashed")
  /\ UNCHANGED <<site, outcome, calls, envdir, lock, marker, profile, gone,
                 complete>>

\* The realization `profile' names is lost to something outside the program.
Break ==
  /\ Resolves
  /\ Cardinality(gone) < MaxBreaks
  /\ links' = links \ {profile}
  /\ gone' = gone \cup {profile}
  /\ complete' = FALSE
  /\ UNCHANGED <<pc, site, outcome, calls, envdir, lock, marker, profile,
                 temps, stray>>

\* The user removes the environment directory.  Nobody is running in the
\* profile or realizing it; others may be waiting for a dead lock holder.
RemoveEnv ==
  /\ "remove" \in Faults
  /\ envdir
  /\ \A p \in Procs : ~Holds(p) /\ pc[p] # "using"
  /\ envdir' = FALSE
  /\ lock' = FALSE
  /\ marker' = FALSE
  /\ profile' = NoProfile
  /\ temps' = {}
  /\ links' = {}
  /\ complete' = FALSE
  /\ stray' = FALSE
  /\ UNCHANGED <<pc, site, outcome, calls, gone>>

\* The steps of a call in progress.
Step(p) ==
  \/ CheckMarker(p) \/ ResolveProfile(p) \/ UnlinkMarker(p)
  \/ MakeEnvDir(p) \/ AcquireLock(p) \/ EnterTry(p) \/ LockBusy(p)
  \/ LockParentMissing(p)
  \/ CleanStale(p) \/ GuixPackage(p) \/ GuixPackageFails(p)
  \/ Publish(p) \/ LeaveTry(p) \/ Abort(p)
  \/ WriteMarker(p) \/ WriteMarkerFails(p) \/ ReleaseLock(p) \/ ReleaseLockFails(p)

Next ==
  \/ \E p \in Procs : Begin(p) \/ Step(p) \/ Finish(p)
                      \/ Interrupt(p) \/ InterruptUnguarded(p) \/ Crash(p)
  \/ Break
  \/ RemoveEnv

\* A process that is not killed keeps running; no outside event is promised.
Fairness == \A p \in Procs : WF_vars(Step(p))

Spec == Init /\ [][Next]_vars
FairSpec == Spec /\ Fairness

-----------------------------------------------------------------------------
(* Properties                                                              *)

TypeOK ==
  /\ pc \in [Procs -> PcStates]
  /\ site \in [Procs -> {"fast", "loop", "held"}]
  /\ outcome \in [Procs -> {"ok", "failed"}]
  /\ calls \in [Procs -> 0..MaxCalls]
  /\ envdir \in BOOLEAN
  /\ lock \in BOOLEAN
  /\ marker \in BOOLEAN
  /\ profile \in Realizations \cup {NoProfile}
  /\ temps \subseteq Realizations
  /\ links \subseteq Realizations
  /\ gone \subseteq Realizations
  /\ complete \in BOOLEAN
  /\ stray \in BOOLEAN

\* The lock directory serializes the critical section: two processes are
\* never both past os.mkdir(lock_path), and whoever is has the directory.
MutualExclusion ==
  /\ \A p, q \in Procs : Holds(p) /\ Holds(q) => p = q
  /\ \A p \in Procs : Holds(p) => lock

\* A marker is never left beside a profile that does not resolve, whatever
\* realization failed, was interrupted or was killed at any point: only an
\* outside loss of that very realization can make the two disagree.
MarkerSound == marker => profile \in links \cup gone

\* "every later rule ... reuses the completed profile directly, skipping
\* realization": no call starts `guix package' while a profile that was
\* completed, and not lost since, is there to be used.
ReuseCompleted == \A p \in Procs : pc[p] = "guix" => ~complete

\* The profile a rule's command runs in keeps resolving while it runs, even
\* if another process is realizing the environment again in the same
\* directory: the clean-up of stale profiles must not take it away.
UsersKeepProfile ==
  \A p \in Procs : pc[p] = "using" => profile \in links \cup gone

\* How a caller appears to the rest of the workflow.
CallState(p) ==
  CASE pc[p] = "idle" -> "none"
    [] pc[p] = "using" -> "has"
    [] pc[p] \in {"failed", "crashed"} -> "failed"
    [] pc[p] = "unlock" -> IF outcome[p] = "ok" THEN "has" ELSE "failed"
    [] pc[p] \in Working -> "building"
    [] OTHER -> "asking"

Store == INSTANCE EnvironmentStore
           WITH call <- [p \in Procs |-> CallState(p)], ready <- complete

\* Every rule that shares an environment sees it built once: all the file
\* operations together behave like a store that is built by one caller at a
\* time and reused from then on.
StoreSpec == Store!Spec

\* A lock directory that no caller holds is one of the four that the code
\* cannot release: its owner was killed, or interrupted between os.mkdir and
\* the try or in the removal itself, or the removal failed unseen.  No error
\* of guix or of the marker, and no interrupt anywhere else, leaves one.
LockExplained == lock => stray \/ \E p \in Procs : Holds(p)

\* Every call of _ensure_cached_profile ends, with a profile or an error, as
\* long as no such lock is left: then later calls poll it without a limit.
EveryCallEnds ==
  \A p \in Procs : pc[p] \notin Ended ~> pc[p] \in Ended \/ stray
=============================================================================
