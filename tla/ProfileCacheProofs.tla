------------------------ MODULE ProfileCacheProofs -------------------------
(***************************************************************************)
(* Proofs about ProfileCache, for any number of processes, of calls, of    *)
(* losses and for every set of faults.                                     *)
(***************************************************************************)
EXTENDS ProfileCache, FiniteSetTheorems, TLAPS

\* A clean-up that is cut short removes nothing but what it was to remove.
LEMMA CutShortSpares ==
  ASSUME NEW p \in Procs, CutShort(p)
  PROVE  /\ links' \subseteq links /\ temps' \subseteq temps
         /\ (links' = links /\ temps' = temps) \/ pc[p] \in {"clean", "abort"}
         /\ pc[p] = "clean" => links \ temps \subseteq links'
         /\ pc[p] = "abort" => links \ {Id(p)} \subseteq links'
  BY DEF CutShort, Doomed

LEMMA TypeCorrectInit == Init => TypeOK
<1> SUFFICES ASSUME Init PROVE TypeOK
  OBVIOUS
<1>1. 0 \in 0..MaxCalls
  BY ConstantsAssumption
<1>2. pc \in [Procs -> PcStates]
  BY DEF Init, PcStates, Ended
<1>3. calls \in [Procs -> 0..MaxCalls]
  BY <1>1 DEF Init
<1>4. QED
  BY <1>2, <1>3 DEF Init, TypeOK

LEMMA TypeCorrectStep == TypeOK /\ [Next]_vars => TypeOK'
<1> SUFFICES ASSUME TypeOK, [Next]_vars PROVE TypeOK'
  OBVIOUS
<1> USE ConstantsAssumption DEF TypeOK, PcStates, Ended, Waiting, Working,
        InTry, Goto, dirVars, historyVars, Taken
<1>1. ASSUME NEW p \in Procs, Begin(p) PROVE TypeOK'
  BY <1>1 DEF Begin
<1>2. ASSUME NEW p \in Procs, CheckMarker(p) PROVE TypeOK'
  BY <1>2 DEF CheckMarker, AfterIncomplete
<1>3. ASSUME NEW p \in Procs, ResolveProfile(p) PROVE TypeOK'
  BY <1>3 DEF ResolveProfile, AfterComplete
<1>4. ASSUME NEW p \in Procs, UnlinkMarker(p) PROVE TypeOK'
  BY <1>4 DEF UnlinkMarker, AfterIncomplete
<1>5. ASSUME NEW p \in Procs, MakeEnvDir(p) PROVE TypeOK'
  BY <1>5 DEF MakeEnvDir
<1>6. ASSUME NEW p \in Procs,
             AcquireLock(p) \/ EnterTry(p) \/ LockBusy(p) \/ LockParentMissing(p)
      PROVE TypeOK'
  BY <1>6 DEF AcquireLock, EnterTry, LockBusy, LockParentMissing
<1>7. ASSUME NEW p \in Procs, CleanStale(p) PROVE TypeOK'
  BY <1>7 DEF CleanStale
<1>8. ASSUME NEW p \in Procs,
             GuixPackage(p) \/ GuixPackageFails(p) \/ Publish(p)
      PROVE TypeOK'
  <2>1. Id(p) \in Realizations
    BY DEF Id, Realizations
  <2>2. QED
    BY <1>8, <2>1 DEF GuixPackage, GuixPackageFails, Publish
<1>9. ASSUME NEW p \in Procs, LeaveTry(p) \/ Abort(p) PROVE TypeOK'
  BY <1>9 DEF LeaveTry, Abort
<1>10. ASSUME NEW p \in Procs, WriteMarker(p) \/ WriteMarkerFails(p)
       PROVE TypeOK'
  <2>1. Resolves \in BOOLEAN
    BY DEF Resolves
  <2>2. QED
    BY <1>10, <2>1 DEF WriteMarker, WriteMarkerFails
<1>11. ASSUME NEW p \in Procs, ReleaseLock(p) \/ ReleaseLockFails(p) \/ Finish(p)
       PROVE TypeOK'
  BY <1>11 DEF ReleaseLock, ReleaseLockFails, Finish
<1>12. ASSUME NEW p \in Procs, Interrupt(p) \/ InterruptUnguarded(p) \/ Crash(p)
       PROVE TypeOK'
  <2>1. (stray \/ Holds(p)) \in BOOLEAN
    BY DEF Holds
  <2>2. QED
    BY <1>12, <2>1, CutShortSpares DEF Interrupt, InterruptUnguarded, Crash
<1>13. ASSUME Break PROVE TypeOK'
  BY <1>13 DEF Break, Resolves
<1>14. ASSUME RemoveEnv PROVE TypeOK'
  BY <1>14 DEF RemoveEnv
<1>15. CASE UNCHANGED vars
  BY <1>15 DEF vars
<1>20. QED
  BY <1>1, <1>2, <1>3, <1>4, <1>5, <1>6, <1>7, <1>8, <1>9, <1>10, <1>11,
     <1>12, <1>13, <1>14, <1>15 DEF Next, Step

\* TypeOK: every variable keeps its type.
THEOREM TypeCorrect == Spec => []TypeOK
  BY TypeCorrectInit, TypeCorrectStep, PTL DEF Spec

-----------------------------------------------------------------------------
(***************************************************************************)
(* Mutual exclusion and the soundness of the marker.  Neither is inductive *)
(* alone: a marker is sound because only a lock holder writes one, after   *)
(* it found none, and its own realization is linked by then.               *)
(***************************************************************************)

\* Only the loop attempts to take the lock.
LockedFromLoop == \A p \in Procs : pc[p] = "mklock" => site[p] = "loop"

\* Whoever works in the directory has found it, or made it, unmarked.
WorkingUnmarked == \A p \in Procs : pc[p] \in Working => ~marker

\* The realization on its way to `profile', or there, has its link.
RealizationLinked ==
  \A p \in Procs :
    /\ pc[p] = "publish" => Id(p) \in links \cup gone
    /\ pc[p] \in {"published", "mark"} => profile \in links \cup gone

SafetyInv ==
  /\ TypeOK
  /\ MutualExclusion
  /\ LockedFromLoop
  /\ WorkingUnmarked
  /\ RealizationLinked
  /\ MarkerSound

LEMMA SafetyInvInit == Init => SafetyInv
<1> SUFFICES ASSUME Init PROVE SafetyInv
  OBVIOUS
<1>1. TypeOK
  BY TypeCorrectInit
<1>2. \A p \in Procs : pc[p] = "idle"
  BY DEF Init
<1>3. QED
  BY <1>1, <1>2 DEF Init, SafetyInv, MutualExclusion, Holds, LockedFromLoop, WorkingUnmarked,
     RealizationLinked, MarkerSound, Working, InTry, Taken

LEMMA SafetyInvStep == SafetyInv /\ [Next]_vars => SafetyInv'
<1> SUFFICES ASSUME SafetyInv, [Next]_vars PROVE SafetyInv'
  OBVIOUS
<1>0. TypeOK'
  BY TypeCorrectStep DEF SafetyInv
<1> USE DEF SafetyInv, TypeOK, MutualExclusion, Holds, LockedFromLoop, WorkingUnmarked,
        RealizationLinked, MarkerSound, Working, InTry, Goto, dirVars, historyVars, Taken
<1>1. ASSUME NEW p \in Procs, Begin(p) PROVE SafetyInv'
  BY <1>0, <1>1 DEF Begin, Id
<1>2. ASSUME NEW p \in Procs, CheckMarker(p) PROVE SafetyInv'
  BY <1>0, <1>2 DEF CheckMarker, AfterIncomplete, Id
<1>3. ASSUME NEW p \in Procs, ResolveProfile(p) PROVE SafetyInv'
  BY <1>0, <1>3 DEF ResolveProfile, AfterComplete, Id
<1>4. ASSUME NEW p \in Procs, UnlinkMarker(p) PROVE SafetyInv'
  BY <1>0, <1>4 DEF UnlinkMarker, AfterIncomplete, Id
<1>5. ASSUME NEW p \in Procs, MakeEnvDir(p) PROVE SafetyInv'
  BY <1>0, <1>5 DEF MakeEnvDir, Id
<1>6. ASSUME NEW p \in Procs, AcquireLock(p) \/ EnterTry(p) PROVE SafetyInv'
  BY <1>0, <1>6 DEF AcquireLock, EnterTry, Id
<1>7. ASSUME NEW p \in Procs, LockBusy(p) \/ LockParentMissing(p)
      PROVE SafetyInv'
  BY <1>0, <1>7 DEF LockBusy, LockParentMissing, Id
<1>8. ASSUME NEW p \in Procs, CleanStale(p) PROVE SafetyInv'
  BY <1>0, <1>8 DEF CleanStale, Id
<1>9. ASSUME NEW p \in Procs, GuixPackage(p) PROVE SafetyInv'
  BY <1>0, <1>9 DEF GuixPackage, Id
<1>10. ASSUME NEW p \in Procs, GuixPackageFails(p) PROVE SafetyInv'
  BY <1>0, <1>10 DEF GuixPackageFails, Id
<1>11. ASSUME NEW p \in Procs, Publish(p) PROVE SafetyInv'
  BY <1>0, <1>11 DEF Publish, Id
<1>12. ASSUME NEW p \in Procs, LeaveTry(p) PROVE SafetyInv'
  BY <1>0, <1>12 DEF LeaveTry, Id
<1>13. ASSUME NEW p \in Procs, Abort(p) PROVE SafetyInv'
  BY <1>0, <1>13 DEF Abort, Id
<1>14. ASSUME NEW p \in Procs, WriteMarker(p) PROVE SafetyInv'
  <2>1. \A q \in Procs : q # p => ~Holds(q)
    BY <1>14 DEF WriteMarker
  <2>2. \A q \in Procs : pc'[q] \notin Working
    BY <1>14, <2>1 DEF WriteMarker
  <2>3. MutualExclusion' /\ LockedFromLoop' /\ MarkerSound'
    BY <1>14 DEF WriteMarker
  <2>4. QED
    BY <1>0, <2>2, <2>3
<1>15. ASSUME NEW p \in Procs, WriteMarkerFails(p) PROVE SafetyInv'
  BY <1>0, <1>15 DEF WriteMarkerFails, Id
<1>16. ASSUME NEW p \in Procs, ReleaseLock(p) \/ ReleaseLockFails(p)
       PROVE SafetyInv'
  BY <1>0, <1>16 DEF ReleaseLock, ReleaseLockFails, Id
<1>17. ASSUME NEW p \in Procs, Finish(p) PROVE SafetyInv'
  BY <1>0, <1>17 DEF Finish, Id
<1>18. ASSUME NEW p \in Procs, Interrupt(p) PROVE SafetyInv'
  BY <1>0, <1>18, CutShortSpares DEF Interrupt, Id, Waiting
<1>19. ASSUME NEW p \in Procs, InterruptUnguarded(p) PROVE SafetyInv'
  <2>1. \A q \in Procs : ~Holds(q)'
    BY <1>19 DEF InterruptUnguarded
  <2>2. QED
    BY <1>0, <1>19, <2>1 DEF InterruptUnguarded, Id
<1>24. ASSUME NEW p \in Procs, Crash(p) PROVE SafetyInv'
  BY <1>0, <1>24, CutShortSpares DEF Crash, Id
<1>20. ASSUME Break PROVE SafetyInv'
  BY <1>0, <1>20 DEF Break, Id
<1>21. ASSUME RemoveEnv PROVE SafetyInv'
  BY <1>0, <1>21 DEF RemoveEnv, Id
<1>22. CASE UNCHANGED vars
  BY <1>0, <1>22 DEF vars, Id
<1>23. QED
  BY <1>1, <1>2, <1>3, <1>4, <1>5, <1>6, <1>7, <1>8, <1>9, <1>10, <1>11,
     <1>12, <1>13, <1>14, <1>15, <1>16, <1>17, <1>18, <1>19, <1>20, <1>21,
     <1>22, <1>24 DEF Next, Step

\* MutualExclusion: no two callers of _ensure_cached_profile are between
\* os.mkdir of the lock and its removal at once, for any number of them.
THEOREM MutualExclusionHolds == Spec => []MutualExclusion
<1>1. SafetyInv => MutualExclusion
  BY DEF SafetyInv
<1>2. QED
  BY SafetyInvInit, SafetyInvStep, <1>1, PTL DEF Spec

\* MarkerSound: failures, interrupts and kills never leave a marker beside a
\* profile that does not resolve.
THEOREM MarkerSoundHolds == Spec => []MarkerSound
<1>1. SafetyInv => MarkerSound
  BY DEF SafetyInv
<1>2. QED
  BY SafetyInvInit, SafetyInvStep, <1>1, PTL DEF Spec

-----------------------------------------------------------------------------
(***************************************************************************)
(* Reuse.  It holds as long as nothing outside takes a profile away: then  *)
(* no reader ever finds a marker without its profile, so none removes the  *)
(* marker another process has just written.                                *)
(***************************************************************************)

NothingTaken == MaxBreaks = 0 /\ "remove" \notin Faults

ReuseInv ==
  /\ SafetyInv
  /\ gone = {}
  /\ complete => marker
  /\ \A p \in Procs : pc[p] # "unlink" /\ (pc[p] = "resolve" => marker)

LEMMA ReuseInvStep ==
  ASSUME NothingTaken PROVE ReuseInv /\ [Next]_vars => ReuseInv'
<1> SUFFICES ASSUME ReuseInv, [Next]_vars PROVE ReuseInv'
  OBVIOUS
<1>0. SafetyInv'
  BY SafetyInvStep DEF ReuseInv
<1> USE DEF ReuseInv, TypeOK, Goto, dirVars, historyVars, Taken
<1>t. TypeOK /\ WorkingUnmarked /\ MarkerSound
  BY DEF SafetyInv
<1>1. ASSUME NEW p \in Procs, Begin(p) \/ MakeEnvDir(p) \/ AcquireLock(p) \/ EnterTry(p)
      PROVE ReuseInv'
  BY <1>0, <1>1, <1>t DEF Begin, MakeEnvDir, AcquireLock, EnterTry
<1>2. ASSUME NEW p \in Procs, CheckMarker(p) PROVE ReuseInv'
  BY <1>0, <1>2, <1>t DEF CheckMarker, AfterIncomplete
<1>3. ASSUME NEW p \in Procs, ResolveProfile(p) \/ UnlinkMarker(p)
      PROVE ReuseInv'
  <2>1. ResolveProfile(p) /\ Resolves
    BY <1>3, <1>t DEF ResolveProfile, UnlinkMarker, MarkerSound, Resolves
  <2>2. QED
    BY <1>0, <2>1, <1>t DEF ResolveProfile, AfterComplete
<1>4. ASSUME NEW p \in Procs,
             LockBusy(p) \/ LockParentMissing(p) \/ CleanStale(p)
             \/ GuixPackage(p) \/ GuixPackageFails(p) \/ Publish(p)
      PROVE ReuseInv'
  BY <1>0, <1>4, <1>t DEF LockBusy, LockParentMissing, CleanStale,
     GuixPackage, GuixPackageFails, Publish
<1>5. ASSUME NEW p \in Procs,
             LeaveTry(p) \/ Abort(p) \/ WriteMarker(p)
             \/ WriteMarkerFails(p) \/ ReleaseLock(p) \/ ReleaseLockFails(p)
             \/ Finish(p)
      PROVE ReuseInv'
  BY <1>0, <1>5, <1>t DEF LeaveTry, Abort, WriteMarker, WriteMarkerFails,
     ReleaseLock, ReleaseLockFails, Finish
<1>6. ASSUME NEW p \in Procs, Interrupt(p) \/ InterruptUnguarded(p) \/ Crash(p)
      PROVE ReuseInv'
  <2>1. /\ marker' = marker /\ complete' = complete /\ gone' = gone
        /\ \E label \in {"abort", "unlock", "failed", "crashed"} : Goto(p, label)
    BY <1>6 DEF Interrupt, InterruptUnguarded, Crash
  <2>2. QED
    BY <1>0, <1>t, <2>1
<1>7. ~Break
  BY FS_EmptySet DEF Break, NothingTaken
<1>8. ~RemoveEnv
  BY DEF RemoveEnv, NothingTaken
<1>9. CASE UNCHANGED vars
  BY <1>0, <1>9 DEF vars
<1>10. QED
  BY <1>1, <1>2, <1>3, <1>4, <1>5, <1>6, <1>7, <1>8, <1>9 DEF Next, Step

\* ReuseCompleted: if no profile is lost to the outside, a profile once
\* completed is never realized again, whatever fails or is killed.
THEOREM ReuseCompletedHolds ==
  ASSUME NothingTaken PROVE Spec => []ReuseCompleted
<1>1. Init => ReuseInv
  BY SafetyInvInit DEF Init, ReuseInv
<1>2. ReuseInv => ReuseCompleted
  BY DEF ReuseInv, SafetyInv, WorkingUnmarked, ReuseCompleted, Working, InTry
<1>3. QED
  BY <1>1, <1>2, ReuseInvStep, PTL DEF Spec

-----------------------------------------------------------------------------
(***************************************************************************)
(* The users of a profile.  A re-realization takes no link away from them: *)
(* the realization that `profile' names is never among the temporary ones, *)
(* nor is it the one a failing process throws away.  The second half needs *)
(* that no interrupt hits between the rename and the end of the try block. *)
(***************************************************************************)

NoInterrupt == "interrupt" \notin Faults

\* The call of p has not renamed its realization to `profile'.
Unpublished(p) ==
  pc[p] \in Waiting \cup {Taken, "clean", "guix", "publish", "abort"}

UsersInv ==
  /\ SafetyInv
  /\ profile \notin temps
  /\ \A p \in Procs : \A c \in 0..MaxCalls : profile = <<p, c>> => c <= calls[p]
  /\ \A p \in Procs : Unpublished(p) => profile # Id(p)
  /\ \A p \in Procs : pc[p] = "unlock" /\ outcome[p] = "ok"
                     => profile \in links \cup gone
  /\ UsersKeepProfile

LEMMA NoProfileIsNone == \A p, c : NoProfile # <<p, c>>
  BY DEF NoProfile

LEMMA UsersInvInit == Init => UsersInv
<1> SUFFICES ASSUME Init PROVE UsersInv
  OBVIOUS
<1>1. SafetyInv
  BY SafetyInvInit
<1>2. \A p \in Procs : pc[p] = "idle"
  BY DEF Init
<1>3. QED
  BY <1>1, <1>2, NoProfileIsNone DEF Init, UsersInv, UsersKeepProfile,
     Unpublished, Waiting, Taken

LEMMA UsersInvStep ==
  ASSUME NoInterrupt PROVE UsersInv /\ [Next]_vars => UsersInv'
<1> SUFFICES ASSUME UsersInv, [Next]_vars PROVE UsersInv'
  OBVIOUS
<1>0. SafetyInv'
  BY SafetyInvStep DEF UsersInv
<1> USE DEF UsersInv, UsersKeepProfile, Unpublished, Waiting, Goto, dirVars, historyVars, Taken
<1>t. TypeOK /\ MutualExclusion /\ RealizationLinked
  BY DEF SafetyInv
<1>1. ASSUME NEW p \in Procs, Begin(p) PROVE UsersInv'
  <2>1. profile # <<p, calls[p] + 1>>
    BY <1>1, <1>t, ConstantsAssumption DEF Begin, TypeOK
  <2>2. QED
    BY <1>0, <1>1, <2>1, <1>t, ConstantsAssumption DEF Begin, Id, TypeOK
<1>2. ASSUME NEW p \in Procs,
             CheckMarker(p) \/ MakeEnvDir(p) \/ AcquireLock(p) \/ EnterTry(p)
      PROVE UsersInv'
  BY <1>0, <1>2, <1>t DEF CheckMarker, MakeEnvDir, AcquireLock, EnterTry,
     AfterIncomplete, Id, TypeOK
<1>3. ASSUME NEW p \in Procs, ResolveProfile(p) \/ UnlinkMarker(p)
      PROVE UsersInv'
  BY <1>0, <1>3, <1>t DEF ResolveProfile, UnlinkMarker, AfterIncomplete,
     AfterComplete, Resolves, Id, TypeOK
<1>4. ASSUME NEW p \in Procs,
             LockBusy(p) \/ LockParentMissing(p) \/ CleanStale(p)
      PROVE UsersInv'
  BY <1>0, <1>4, <1>t DEF LockBusy, LockParentMissing, CleanStale, Id, TypeOK
<1>5. ASSUME NEW p \in Procs, GuixPackage(p) \/ GuixPackageFails(p)
      PROVE UsersInv'
  BY <1>0, <1>5, <1>t DEF GuixPackage, GuixPackageFails, Id, TypeOK
<1>6. ASSUME NEW p \in Procs, Publish(p) PROVE UsersInv'
  BY <1>0, <1>6, <1>t DEF Publish, Id, TypeOK, RealizationLinked
<1>7. ASSUME NEW p \in Procs, Abort(p) PROVE UsersInv'
  BY <1>0, <1>7, <1>t DEF Abort, Id, TypeOK
<1>8. ASSUME NEW p \in Procs,
             LeaveTry(p) \/ WriteMarker(p) \/ WriteMarkerFails(p)
      PROVE UsersInv'
  BY <1>0, <1>8, <1>t DEF LeaveTry, WriteMarker, WriteMarkerFails, Id, TypeOK,
     RealizationLinked
<1>9. ASSUME NEW p \in Procs,
             ReleaseLock(p) \/ ReleaseLockFails(p) \/ Finish(p) \/ Crash(p)
      PROVE UsersInv'
  BY <1>0, <1>9, <1>t, CutShortSpares DEF ReleaseLock, ReleaseLockFails, Finish,
     Crash, Id, TypeOK
<1>10. ASSUME NEW p \in Procs PROVE ~Interrupt(p) /\ ~InterruptUnguarded(p)
  BY DEF Interrupt, InterruptUnguarded, NoInterrupt
<1>11. ASSUME Break PROVE UsersInv'
  BY <1>0, <1>11, <1>t DEF Break, Id, TypeOK
<1>12. ASSUME RemoveEnv PROVE UsersInv'
  BY <1>0, <1>12, <1>t, NoProfileIsNone DEF RemoveEnv, Id, TypeOK, Holds
<1>13. CASE UNCHANGED vars
  BY <1>0, <1>13 DEF vars, Id
<1>14. QED
  BY <1>1, <1>2, <1>3, <1>4, <1>5, <1>6, <1>7, <1>8, <1>9, <1>10, <1>11,
     <1>12, <1>13 DEF Next, Step

\* UsersKeepProfile: without keyboard interrupts, no failure, kill, loss or
\* removal makes the profile of a running command dangle through the program.
THEOREM UsersKeepProfileHolds ==
  ASSUME NoInterrupt PROVE Spec => []UsersKeepProfile
<1>1. UsersInv => UsersKeepProfile
  BY DEF UsersInv
<1>2. QED
  BY <1>1, UsersInvInit, UsersInvStep, PTL DEF Spec

-----------------------------------------------------------------------------
(***************************************************************************)
(* Refinement.  As long as nothing outside takes a profile away, the lock, *)
(* the marker, the links and their order implement EnvironmentStore.       *)
(***************************************************************************)

StoreInv == ReuseInv /\ (marker => complete)

LEMMA StoreInvStep ==
  ASSUME NothingTaken PROVE StoreInv /\ [Next]_vars => StoreInv'
<1> SUFFICES ASSUME StoreInv, [Next]_vars PROVE StoreInv'
  OBVIOUS
<1>0. ReuseInv'
  BY ReuseInvStep DEF StoreInv
<1> USE DEF StoreInv
<1>1. ASSUME NEW p \in Procs, WriteMarker(p) PROVE StoreInv'
  <2>1. Resolves /\ complete' = Resolves
    BY <1>0, <1>1 DEF ReuseInv, SafetyInv, MarkerSound, WriteMarker, Resolves
  <2>2. QED
    BY <1>0, <2>1
<1>2. ASSUME NEW p \in Procs, UnlinkMarker(p) PROVE StoreInv'
  BY <1>0, <1>2 DEF UnlinkMarker
<1>3. ASSUME NEW p \in Procs,
             \/ Begin(p) \/ CheckMarker(p) \/ ResolveProfile(p) \/ MakeEnvDir(p)
             \/ AcquireLock(p) \/ EnterTry(p) \/ LockBusy(p) \/ LockParentMissing(p)
             \/ CleanStale(p) \/ GuixPackage(p) \/ GuixPackageFails(p)
             \/ Publish(p) \/ LeaveTry(p) \/ Abort(p) \/ WriteMarkerFails(p)
             \/ ReleaseLock(p) \/ ReleaseLockFails(p) \/ Finish(p)
             \/ Interrupt(p) \/ InterruptUnguarded(p) \/ Crash(p)
      PROVE StoreInv'
  <2>1. marker' = marker /\ complete' = complete
    BY <1>3 DEF Begin, CheckMarker, ResolveProfile, MakeEnvDir, AcquireLock,
       EnterTry, LockBusy, LockParentMissing, CleanStale, GuixPackage,
       GuixPackageFails, Publish, LeaveTry, Abort, WriteMarkerFails, ReleaseLock,
       ReleaseLockFails, Finish, Interrupt, InterruptUnguarded, Crash, dirVars,
       historyVars
  <2>2. QED
    BY <1>0, <2>1
<1>4. ~Break
  BY FS_EmptySet DEF Break, NothingTaken, ReuseInv
<1>5. ~RemoveEnv
  BY DEF RemoveEnv, NothingTaken
<1>6. CASE UNCHANGED vars
  BY <1>0, <1>6 DEF vars, dirVars, historyVars
<1>7. QED
  BY <1>1, <1>2, <1>3, <1>4, <1>5, <1>6 DEF Next, Step

\* A step of p changes what the others see of p alone.
LEMMA CallStateOfOthers ==
  ASSUME TypeOK, NEW p \in Procs, NEW label, Goto(p, label),
         \A q \in Procs \ {p} : outcome'[q] = outcome[q]
  PROVE  Store!Becomes(p, CallState(p)')
<1>1. \A q \in Procs \ {p} : pc'[q] = pc[q]
  BY DEF TypeOK, Goto
<1>2. \A q \in Procs \ {p} : CallState(q)' = CallState(q)
  BY <1>1 DEF CallState
<1>3. QED
  BY <1>2 DEF Store!Becomes

LEMMA StoreStep ==
  ASSUME NothingTaken
  PROVE  StoreInv /\ StoreInv' /\ [Next]_vars => [Store!Next]_(Store!vars)
<1> SUFFICES ASSUME StoreInv, StoreInv', [Next]_vars
             PROVE  [Store!Next]_(Store!vars)
  OBVIOUS
<1>t. TypeOK /\ MutualExclusion /\ SafetyInv
  BY DEF StoreInv, ReuseInv, SafetyInv
<1> DEFINE Same == Store!vars' = Store!vars
<1>s. ASSUME NEW p \in Procs, Store!Becomes(p, CallState(p)),
             complete' = complete
      PROVE  Same
  BY <1>s DEF Store!Becomes, Store!vars
<1> HIDE DEF Same
<1> USE DEF TypeOK, Working, InTry, Waiting, Taken, historyVars
<1>1. ASSUME NEW p \in Procs, Begin(p) PROVE Store!Ask(p)
  <2>1. CallState(p) \in {"none", "failed"} /\ CallState(p)' = "asking"
    BY <1>1, <1>t DEF Begin, Goto, CallState
  <2>2. Store!Becomes(p, "asking") /\ complete' = complete
    BY <1>1, <1>t, <2>1, CallStateOfOthers DEF Begin
  <2>3. QED
    BY <2>1, <2>2 DEF Store!Ask
<1>2. ASSUME NEW p \in Procs, CheckMarker(p) PROVE Same \/ Store!Build(p)
  <2>1. CallState(p) = "asking" /\ complete' = complete
    BY <1>2, <1>t DEF CheckMarker, CallState
  <2>2. Store!Becomes(p, CallState(p)')
    BY <1>2, <1>t, CallStateOfOthers DEF CheckMarker
  <2>3. CASE ~marker /\ site[p] = "held"
    <3>1. CallState(p)' = "building" /\ ~complete
      BY <1>2, <1>t, <2>3 DEF CheckMarker, AfterIncomplete, Goto, StoreInv,
         ReuseInv, CallState
    <3>2. \A q \in Procs : CallState(q) # "building"
      <4>1. Holds(p) /\ pc[p] = "marker"
        BY <1>2, <2>3 DEF CheckMarker, Holds
      <4>2. ASSUME NEW q \in Procs, pc[q] \in Working PROVE FALSE
        BY <4>1, <4>2, <1>t DEF MutualExclusion, Holds
      <4>3. QED
        BY <4>2 DEF CallState
    <3>3. QED
      BY <2>1, <2>2, <3>1, <3>2 DEF Store!Build
  <2>4. CASE marker \/ site[p] # "held"
    <3>1. CallState(p)' = "asking"
      BY <1>2, <1>t, <2>4 DEF CheckMarker, AfterIncomplete, Goto, CallState
    <3>2. QED
      BY <2>1, <2>2, <3>1, <1>s
  <2>5. QED
    BY <2>3, <2>4
<1>3. ASSUME NEW p \in Procs, ResolveProfile(p) PROVE Store!Reuse(p)
  <2>1. Resolves /\ complete
    BY <1>3, <1>t DEF ResolveProfile, StoreInv, ReuseInv, Goto
  <2>2. CallState(p) = "asking" /\ CallState(p)' = "has" /\ complete' = complete
    BY <1>3, <1>t, <2>1 DEF ResolveProfile, AfterComplete, Goto,
       CallState
  <2>3. Store!Becomes(p, "has")
    BY <1>3, <1>t, <2>2, CallStateOfOthers DEF ResolveProfile
  <2>4. QED
    BY <2>1, <2>2, <2>3 DEF Store!Reuse
<1>4. ASSUME NEW p \in Procs,
             \/ MakeEnvDir(p) \/ AcquireLock(p) \/ EnterTry(p) \/ LockBusy(p)
             \/ UnlinkMarker(p) \/ CleanStale(p) \/ GuixPackage(p)
             \/ GuixPackageFails(p) \/ Publish(p) \/ LeaveTry(p)
             \/ ReleaseLock(p) \/ ReleaseLockFails(p)
      PROVE  Same
  <2>0. pc[p] # "unlink"
    BY DEF StoreInv, ReuseInv
  <2>1. CallState(p)' = CallState(p) /\ complete' = complete
    BY <1>4, <1>t, <2>0 DEF MakeEnvDir, AcquireLock, EnterTry, LockBusy,
       UnlinkMarker, CleanStale, GuixPackage, GuixPackageFails, Publish,
       LeaveTry, ReleaseLock, ReleaseLockFails, Goto, CallState
  <2>2. Store!Becomes(p, CallState(p)')
    BY <1>4, <1>t, CallStateOfOthers DEF MakeEnvDir, AcquireLock, EnterTry,
       LockBusy, UnlinkMarker, CleanStale, GuixPackage, GuixPackageFails,
       Publish, LeaveTry, ReleaseLock, ReleaseLockFails
  <2>3. QED
    BY <2>1, <2>2, <1>s
<1>5. ASSUME NEW p \in Procs,
             LockParentMissing(p) \/ Abort(p) \/ WriteMarkerFails(p)
      PROVE  Store!Fail(p)
  <2>1. /\ CallState(p) \in {"asking", "building"} /\ CallState(p)' = "failed"
        /\ complete' = complete
    BY <1>5, <1>t DEF LockParentMissing, Abort, WriteMarkerFails, Goto,
       CallState
  <2>2. Store!Becomes(p, CallState(p)')
    BY <1>5, <1>t, CallStateOfOthers DEF LockParentMissing, Abort,
       WriteMarkerFails
  <2>3. QED
    BY <2>1, <2>2 DEF Store!Fail
<1>6. ASSUME NEW p \in Procs, WriteMarker(p) PROVE Store!Built(p)
  <2>1. CallState(p) = "building" /\ CallState(p)' = "has" /\ complete'
    BY <1>6, <1>t DEF WriteMarker, Goto, StoreInv, CallState
  <2>2. Store!Becomes(p, "has")
    BY <1>6, <1>t, <2>1, CallStateOfOthers DEF WriteMarker
  <2>3. QED
    BY <2>1, <2>2 DEF Store!Built
<1>7. ASSUME NEW p \in Procs, Finish(p) PROVE Store!Done(p)
  <2>1. CallState(p) = "has" /\ CallState(p)' = "none" /\ complete' = complete
    BY <1>7, <1>t DEF Finish, Goto, CallState
  <2>2. Store!Becomes(p, "none")
    BY <1>7, <1>t, <2>1, CallStateOfOthers DEF Finish
  <2>3. QED
    BY <2>1, <2>2 DEF Store!Done
<1>8. ASSUME NEW p \in Procs, Interrupt(p) \/ InterruptUnguarded(p) \/ Crash(p)
      PROVE  Same \/ Store!Fail(p)
  <2>1. Store!Becomes(p, CallState(p)') /\ complete' = complete
    BY <1>8, <1>t, CallStateOfOthers DEF Interrupt, InterruptUnguarded, Crash
  <2>2. \/ CallState(p)' = CallState(p)
        \/ /\ CallState(p) \in {"asking", "building", "has"}
           /\ CallState(p)' = "failed"
    BY <1>8, <1>t DEF Interrupt, InterruptUnguarded, Crash, Goto, Ended, PcStates,
       CallState
  <2>3. QED
    BY <2>1, <2>2, <1>s DEF Store!Fail
<1>9. ~Break /\ ~RemoveEnv
  BY FS_EmptySet DEF Break, RemoveEnv, NothingTaken, StoreInv, ReuseInv
<1>10. CASE UNCHANGED vars
  BY <1>10 DEF vars, Same, Store!vars, CallState
<1>11. QED
  BY <1>1, <1>2, <1>3, <1>4, <1>5, <1>6, <1>7, <1>8, <1>9, <1>10
     DEF Next, Step, Same, Store!Next

\* StoreSpec: if no profile is lost to the outside, the cache behaves like a
\* store that is built once, by one caller, and then only read, for any number
\* of callers and whatever fails, is interrupted or is killed.
THEOREM StoreImplemented == ASSUME NothingTaken PROVE Spec => StoreSpec
<1>1. Init => StoreInv
  BY SafetyInvInit DEF Init, StoreInv, ReuseInv
<1>2. ASSUME Init PROVE Store!Init
  <2>1. \A p \in Procs : CallState(p) = "none"
    BY <1>2 DEF Init, CallState, Working, InTry
  <2>2. QED
    BY <1>2, <2>1 DEF Init, Store!Init
<1>3. QED
  BY <1>1, <1>2, StoreInvStep, StoreStep, PTL DEF Spec, StoreSpec, Store!Spec

-----------------------------------------------------------------------------
(***************************************************************************)
(* The lock directory.  Callers poll it without a time limit, so a lock    *)
(* that nobody will remove stops them for good.                            *)
(***************************************************************************)

\* A process that holds the lock holds it after a step of its own, or has
\* removed it, or has left it behind.
HoldsOn(p) == Holds(p) => Holds(p)' \/ ~lock' \/ stray'

LEMMA HoldsOnByOthers ==
  ASSUME TypeOK, NEW p \in Procs, NEW label, Goto(p, label),
         \A q \in Procs \ {p} : site'[q] = site[q], HoldsOn(p),
         lock' => lock \/ Holds(p)', stray /\ lock' => stray', LockExplained
  PROVE  LockExplained'
<1>1. \A q \in Procs \ {p} : pc'[q] = pc[q]
  BY DEF TypeOK, Goto
<1>2. \A q \in Procs \ {p} : Holds(q) => Holds(q)'
  BY <1>1 DEF Holds
<1>3. QED
  BY <1>2 DEF LockExplained, HoldsOn

\* A lock left behind stays the only one: nobody holds it any more.
StrayUnheld == stray => lock /\ \A p \in Procs : ~Holds(p)

LockInv == SafetyInv /\ StrayUnheld /\ LockExplained

LEMMA LockInvStep == LockInv /\ [Next]_vars => LockInv'
<1> SUFFICES ASSUME LockInv, [Next]_vars PROVE LockInv'
  OBVIOUS
<1>s. SafetyInv'
  BY SafetyInvStep DEF LockInv
<1>t. TypeOK /\ LockedFromLoop /\ MutualExclusion /\ LockExplained /\ StrayUnheld
  BY DEF LockInv, SafetyInv
<1> USE DEF Holds, HoldsOn, Working, InTry, Goto, dirVars, historyVars, Taken
<1>1. ASSUME NEW p \in Procs,
             \/ Begin(p) \/ CheckMarker(p) \/ ResolveProfile(p) \/ UnlinkMarker(p)
             \/ Finish(p)
      PROVE  LockExplained' /\ StrayUnheld'
  <2>1. PICK label : Goto(p, label)
    BY <1>1 DEF Begin, CheckMarker, ResolveProfile, UnlinkMarker, Finish
  <2>2. /\ \A q \in Procs \ {p} : site'[q] = site[q]
        /\ lock' = lock /\ HoldsOn(p) /\ stray' = stray
    BY <1>1, <1>t DEF TypeOK, Begin, CheckMarker, ResolveProfile, UnlinkMarker, Finish,
       AfterIncomplete, AfterComplete
  <2>3. Holds(p)' => Holds(p)
    BY <1>1, <1>t DEF TypeOK, Begin, CheckMarker, ResolveProfile, UnlinkMarker, Finish,
       AfterIncomplete, AfterComplete
  <2>5. \A q \in Procs \ {p} : pc'[q] = pc[q]
    BY <1>t, <2>1 DEF TypeOK
  <2>6. StrayUnheld'
    BY <1>t, <2>2, <2>3, <2>5 DEF StrayUnheld
  <2>4. QED
    BY <1>t, <2>1, <2>2, <2>6, HoldsOnByOthers
<1>2. ASSUME NEW p \in Procs,
             \/ MakeEnvDir(p) \/ AcquireLock(p) \/ LockBusy(p) \/ LockParentMissing(p)
             \/ CleanStale(p) \/ GuixPackage(p) \/ GuixPackageFails(p) \/ Publish(p)
      PROVE  LockExplained' /\ StrayUnheld'
  <2>1. PICK label : Goto(p, label)
    BY <1>2 DEF MakeEnvDir, AcquireLock, LockBusy, LockParentMissing, CleanStale, GuixPackage,
       GuixPackageFails, Publish
  <2>2. /\ \A q \in Procs \ {p} : site'[q] = site[q]
        /\ (lock' => lock \/ Holds(p)') /\ HoldsOn(p) /\ stray' = stray
    BY <1>2, <1>t DEF TypeOK, MakeEnvDir, AcquireLock, LockBusy, LockParentMissing, CleanStale,
       GuixPackage, GuixPackageFails, Publish, LockedFromLoop
  <2>3. StrayUnheld'
    BY <1>2, <1>t DEF TypeOK, MakeEnvDir, AcquireLock, LockBusy, LockParentMissing, CleanStale,
       GuixPackage, GuixPackageFails, Publish, LockedFromLoop, StrayUnheld
  <2>4. QED
    BY <1>t, <2>1, <2>2, <2>3, HoldsOnByOthers
<1>3. ASSUME NEW p \in Procs,
             \/ LeaveTry(p) \/ Abort(p) \/ WriteMarker(p) \/ WriteMarkerFails(p)
             \/ ReleaseLock(p) \/ ReleaseLockFails(p)
      PROVE  LockExplained' /\ StrayUnheld'
  <2>1. PICK label : Goto(p, label)
    BY <1>3 DEF LeaveTry, Abort, WriteMarker, WriteMarkerFails, ReleaseLock, ReleaseLockFails
  <2>2. /\ \A q \in Procs \ {p} : site'[q] = site[q]
        /\ (lock' => lock) /\ HoldsOn(p) /\ (stray => stray')
    BY <1>3, <1>t DEF TypeOK, LeaveTry, Abort, WriteMarker, WriteMarkerFails, ReleaseLock,
       ReleaseLockFails
  <2>3. Holds(p) /\ lock
    BY <1>3, <1>t DEF LeaveTry, Abort, WriteMarker, WriteMarkerFails, ReleaseLock,
       ReleaseLockFails, MutualExclusion
  <2>4. ~stray /\ \A q \in Procs \ {p} : ~Holds(q)
    BY <2>3, <1>t DEF StrayUnheld, MutualExclusion
  <2>5. StrayUnheld'
    BY <1>3, <1>t, <2>3, <2>4 DEF TypeOK, LeaveTry, Abort, WriteMarker, WriteMarkerFails,
       ReleaseLock, ReleaseLockFails, StrayUnheld
  <2>6. QED
    BY <1>t, <2>1, <2>2, <2>5, HoldsOnByOthers
<1>4. ASSUME NEW p \in Procs, Interrupt(p) \/ InterruptUnguarded(p) \/ Crash(p)
      PROVE  LockExplained' /\ StrayUnheld'
  <2>1. PICK label : Goto(p, label)
    BY <1>4 DEF Interrupt, InterruptUnguarded, Crash
  <2>2. /\ \A q \in Procs \ {p} : site'[q] = site[q]
        /\ (lock' => lock) /\ HoldsOn(p) /\ (stray /\ lock' => stray')
    <3>1. CASE Interrupt(p)
      BY <1>t, <3>1 DEF TypeOK, Interrupt, Waiting
    <3>2. CASE InterruptUnguarded(p)
      BY <1>t, <3>2 DEF TypeOK, InterruptUnguarded
    <3>3. CASE Crash(p)
      BY <1>t, <3>3 DEF TypeOK, Crash
    <3>4. QED
      BY <1>4, <3>1, <3>2, <3>3
  <2>3. Holds(p) => ~stray /\ lock /\ \A q \in Procs \ {p} : ~Holds(q)
    BY <1>t DEF StrayUnheld, MutualExclusion
  <2>4. StrayUnheld'
    <3>1. \A q \in Procs \ {p} : pc'[q] = pc[q]
      BY <1>t, <2>1 DEF TypeOK
    <3>2. CASE Interrupt(p)
      <4>1. stray' = stray /\ lock' = lock /\ (Holds(p)' => Holds(p))
        BY <1>t, <3>2 DEF TypeOK, Interrupt, Waiting
      <4>2. QED
        BY <1>t, <2>2, <3>1, <4>1 DEF StrayUnheld
    <3>3. CASE InterruptUnguarded(p) \/ Crash(p)
      <4>1. ~Holds(p)'
        BY <1>t, <3>3 DEF TypeOK, InterruptUnguarded, Crash
      <4>2. stray' => lock' /\ (stray \/ Holds(p))
        BY <1>t, <2>3, <3>3 DEF TypeOK, InterruptUnguarded, Crash, StrayUnheld
      <4>3. QED
        BY <1>t, <2>2, <2>3, <3>1, <4>1, <4>2 DEF StrayUnheld
    <3>4. QED
      BY <1>4, <3>2, <3>3
  <2>5. QED
    BY <1>t, <2>1, <2>2, <2>4, HoldsOnByOthers
<1>5. CASE Break \/ UNCHANGED vars
  <2>1. pc' = pc /\ site' = site /\ lock' = lock /\ stray' = stray
    BY <1>5 DEF Break, vars
  <2>2. QED
    BY <1>s, <1>t, <2>1 DEF LockInv, LockExplained, StrayUnheld
<1>6. CASE RemoveEnv
  <2>1. ~lock' /\ ~stray'
    BY <1>6 DEF RemoveEnv
  <2>2. QED
    BY <1>s, <2>1 DEF LockInv, LockExplained, StrayUnheld
<1>7. ASSUME NEW p \in Procs, EnterTry(p) PROVE LockExplained' /\ StrayUnheld'
  <2>1. Holds(p) /\ Holds(p)' /\ lock' = lock /\ stray' = stray
    BY <1>7, <1>t DEF TypeOK, EnterTry
  <2>2. ~stray'
    BY <1>t, <2>1 DEF StrayUnheld
  <2>3. QED
    BY <2>1, <2>2 DEF LockExplained, StrayUnheld
<1>8. QED
  BY <1>s, <1>1, <1>2, <1>3, <1>4, <1>5, <1>6, <1>7 DEF Next, Step, LockInv

\* LockExplained: a lock directory that no caller holds was left by a kill,
\* by an interrupt between os.mkdir and the try or in the removal, or by a
\* removal that failed unseen; nothing else that fails leaves one.
THEOREM LockExplainedHolds == Spec => []LockExplained
<1>1. Init => LockInv
  BY SafetyInvInit DEF Init, LockInv, LockExplained, StrayUnheld
<1>2. LockInv => LockExplained
  BY DEF LockInv
<1>3. QED
  BY <1>1, <1>2, LockInvStep, PTL DEF Spec

\* Realizations and marker writes that fail, with nobody killed or
\* interrupted, never leave a lock: the safety half of EveryCallEnds, for any
\* number of callers and calls.
THEOREM NoStaleLock ==
  ASSUME Faults \subseteq {"guix", "mark", "remove"}
  PROVE  Spec => [](lock => \E p \in Procs : Holds(p))
<1>1. Init => ~stray
  BY DEF Init
<1>2. ASSUME ~stray, [Next]_vars PROVE ~stray'
  <2> USE DEF dirVars, historyVars
  <2>1. ASSUME NEW p \in Procs, Begin(p) \/ Step(p) \/ Finish(p) PROVE ~stray'
    BY <1>2, <2>1 DEF Begin, Step, Finish, CheckMarker, ResolveProfile, UnlinkMarker,
       MakeEnvDir, AcquireLock, EnterTry, LockBusy, LockParentMissing, CleanStale,
       GuixPackage, GuixPackageFails, Publish, LeaveTry, Abort, WriteMarker,
       WriteMarkerFails, ReleaseLock, ReleaseLockFails
  <2>2. ASSUME NEW p \in Procs
        PROVE  ~Interrupt(p) /\ ~InterruptUnguarded(p) /\ ~Crash(p)
    BY DEF Interrupt, InterruptUnguarded, Crash
  <2>3. CASE Break \/ RemoveEnv \/ UNCHANGED vars
    BY <1>2, <2>3 DEF Break, RemoveEnv, vars
  <2>4. QED
    BY <1>2, <2>1, <2>2, <2>3 DEF Next
<1>3. LockExplained /\ ~stray => (lock => \E p \in Procs : Holds(p))
  BY DEF LockExplained
<1>4. QED
  BY <1>1, <1>2, <1>3, LockExplainedHolds, PTL DEF Spec
=============================================================================
