------------------------ MODULE OpenStackHostsProofs ------------------------
(***************************************************************************)
(* Proofs about OpenStackHosts, for any number of runs, every quota, life  *)
(* of a server and set of faults, and for any number of failing calls.     *)
(***************************************************************************)
EXTENDS OpenStackHosts, TLAPS

LEMMA TypeCorrectInit == Init => TypeOK
BY ConstantsAssumption DEF Init, TypeOK, PcStates, Active

\* The clock and the count of errors stay within their bounds.
LEMMA Bounded ==
  ASSUME errors \in 0..MaxErrors, Ok \/ Error
  PROVE  errors' \in 0..MaxErrors
BY ConstantsAssumption DEF Ok, Error

LEMMA TypeCorrectStep == TypeOK /\ [Next]_vars => TypeOK'
<1> SUFFICES ASSUME TypeOK, [Next]_vars PROVE TypeOK'
  OBVIOUS
<1> USE DEF TypeOK, PcStates, Active, Acquiring, Goto, Raise, settings,
            cloudVars, history, runVars
<1>1. ASSUME NEW r \in Runs, Begin(r) PROVE TypeOK'
  BY <1>1, ConstantsAssumption DEF Begin
<1>2. ASSUME NEW r \in Runs, ListExisting(r) PROVE TypeOK'
  BY <1>2, Bounded DEF ListExisting, Up
<1>3. ASSUME NEW r \in Runs, Adopt(r) PROVE TypeOK'
  <2>1. owner' \in [Runs -> Runs] /\ expires' \in [Runs -> 0..MaxTime]
    BY <1>3 DEF Adopt
  <2>2. QED
    BY <1>3, <2>1, Bounded DEF Adopt
<1>4. ASSUME NEW r \in Runs, CheckQuota(r) PROVE TypeOK'
  BY <1>4, Bounded DEF CheckQuota
<1>5. ASSUME NEW r \in Runs, Create(r) PROVE TypeOK'
  <2>1. /\ server' \in [Runs -> {"none", "late", "up", "gone"}]
        /\ expires' \in [Runs -> 0..MaxTime]
        /\ pc' \in [Runs -> PcStates]
    <3>1. server' \in [Runs -> {"none", "late", "up", "gone"}]
      BY <1>5 DEF Create
    <3>2. expires' \in [Runs -> 0..MaxTime]
      BY <1>5 DEF Create
    <3>3. pc' \in [Runs -> PcStates]
      BY <1>5 DEF Create
    <3>4. QED
      BY <3>1, <3>2, <3>3
  <2>2. target' \in [Runs -> SUBSET Runs] /\ ids' \in [Runs -> SUBSET Runs]
        /\ UNCHANGED <<policy, keep, expiry, todo, lost, owner, now, reap,
                       told, missed, claimed>>
    <3>1. target' \in [Runs -> SUBSET Runs]
      BY <1>5 DEF Create
    <3>2. ids' \in [Runs -> SUBSET Runs]
      BY <1>5 DEF Create
    <3>3. UNCHANGED <<policy, keep, expiry, todo, lost, owner, now, reap,
                      told, missed, claimed>>
      BY <1>5 DEF Create
    <3>4. QED
      BY <3>1, <3>2, <3>3
  <2>3. errors' \in 0..MaxErrors
    BY <1>5, Bounded DEF Create
  <2>4. QED
    BY <2>1, <2>2, <2>3
<1>6. ASSUME NEW r \in Runs, Boot(r) PROVE TypeOK'
  BY <1>6, Bounded DEF Boot
<1>7. ASSUME NEW r \in Runs, LookUp(r) PROVE TypeOK'
  <2>1. pc' \in [Runs -> PcStates] /\ lost' \in [Runs -> BOOLEAN]
        /\ missed' \subseteq Runs
    BY <1>7 DEF LookUp, Undo
  <2>2. Mine(r) \subseteq Runs
    BY DEF Mine, Up
  <2>3. ids' \in [Runs -> SUBSET Runs] /\ todo' \in [Runs -> SUBSET Runs]
    BY <1>7, <2>2 DEF LookUp, Undo
  <2>4. errors' = errors
        /\ UNCHANGED <<policy, keep, expiry, target, server, owner, expires,
                       now, reap, told, claimed>>
    BY <1>7 DEF LookUp, Ok
  <2>5. QED
    BY <2>1, <2>3, <2>4
<1>8. ASSUME NEW r \in Runs, DeleteOne(r) PROVE TypeOK'
  BY <1>8, Bounded DEF DeleteOne
<1>9. ASSUME NEW r \in Runs, PreDeleteEnd(r) \/ UndoEnd(r) PROVE TypeOK'
  BY <1>9 DEF PreDeleteEnd, UndoEnd
<1>10. ASSUME NEW r \in Runs, Release(r) PROVE TypeOK'
  <2>1. PICK keeping \in BOOLEAN :
          /\ pc' = [pc EXCEPT ![r] = IF keeping THEN "kept" ELSE "release"]
          /\ todo' = [todo EXCEPT ![r] = IF keeping THEN {} ELSE ids[r]]
          /\ told' = IF keeping THEN told \cup ids[r] ELSE told
    BY <1>10 DEF Release
  <2>2. pc' \in [Runs -> PcStates] /\ todo' \in [Runs -> SUBSET Runs]
        /\ told' \subseteq Runs
    BY <2>1
  <2>3. UNCHANGED <<policy, keep, expiry, target, ids, lost, server, owner,
                    expires, now, errors, reap, missed, claimed>>
    BY <1>10 DEF Release
  <2>4. QED
    BY <2>2, <2>3
<1>15. ASSUME NEW r \in Runs, ReleaseEnd(r) PROVE TypeOK'
  BY <1>15 DEF ReleaseEnd
<1>11. ASSUME NEW r \in Runs, Crash(r) \/ Appear(r) PROVE TypeOK'
  BY <1>11 DEF Crash, Appear
<1>12. ASSUME Tick \/ ReapList \/ ReapDelete PROVE TypeOK'
  BY <1>12, Bounded, ConstantsAssumption DEF Tick, ReapList, ReapDelete, Expired, Up
<1>13. CASE UNCHANGED vars
  BY <1>13 DEF vars
<1>14. QED
  BY <1>1, <1>2, <1>3, <1>4, <1>5, <1>6, <1>7, <1>8, <1>9, <1>10, <1>11,
     <1>12, <1>13, <1>15 DEF Next, Step

\* TypeOK: no expiry lies beyond the clock, and ids name servers only.
THEOREM TypeCorrect == Spec => []TypeOK
BY TypeCorrectInit, TypeCorrectStep, PTL DEF Spec

-----------------------------------------------------------------------------
(***************************************************************************)
(* What a run knows.  Before it asks for a server there is none of its     *)
(* name; the local variable of acquire names a server whose id it has.     *)
(***************************************************************************)

Unasked == {"idle", "list", "predelete", "adopt", "quota", "create"}

NotYetCreated == \A r \in Runs : pc[r] \in Unasked => server[r] = "none"

IdsKnown ==
  \A r \in Runs :
    /\ pc[r] \in Unasked => target[r] = {}
    /\ pc[r] \in {"idle", "list", "quota", "create"} => ids[r] = {}
    /\ pc[r] \in {"boot", "lookup"} => target[r] \subseteq ids[r]

\* Whoever has the id of a server has seen it, and it may be gone since.
Seen ==
  \A r, s \in Runs : s \in ids[r] \cup todo[r] \cup target[r] \cup reap
                    => server[s] \in {"up", "gone"}

SightInv == TypeOK /\ NotYetCreated /\ Seen

LEMMA SightInvInit == Init => SightInv
BY TypeCorrectInit DEF Init, SightInv, NotYetCreated, Seen

LEMMA SightInvStep == SightInv /\ [Next]_vars => SightInv'
<1> SUFFICES ASSUME SightInv, [Next]_vars PROVE SightInv'
  OBVIOUS
<1>0. TypeOK'
  BY TypeCorrectStep DEF SightInv
<1> USE DEF SightInv, NotYetCreated, Seen, TypeOK, Unasked, Goto, Raise,
            settings, cloudVars, history, runVars
<1>1. ASSUME NEW r \in Runs, Begin(r) PROVE SightInv'
  BY <1>0, <1>1 DEF Begin
<1>2. ASSUME NEW r \in Runs, ListExisting(r) PROVE SightInv'
  BY <1>0, <1>2 DEF ListExisting, Up
<1>3. ASSUME NEW r \in Runs, Adopt(r) PROVE SightInv'
  BY <1>0, <1>3 DEF Adopt
<1>4. ASSUME NEW r \in Runs, CheckQuota(r) PROVE SightInv'
  BY <1>0, <1>4 DEF CheckQuota
<1>5. ASSUME NEW r \in Runs, Create(r) PROVE SightInv'
  <2>1. pc[r] = "create" /\ UNCHANGED <<todo, reap>>
    BY <1>5 DEF Create
  <2>2. \/ /\ server' = [server EXCEPT ![r] = "up"]
           /\ target' = [target EXCEPT ![r] = {r}]
           /\ ids' = [ids EXCEPT ![r] = {r}]
        \/ /\ \E state \in {"none", "up", "late"} :
                server' = [server EXCEPT ![r] = state]
           /\ UNCHANGED <<target, ids>>
    BY <1>5, <2>1 DEF Create
  <2>3. \E label \in {"boot", "lookup"} : pc' = [pc EXCEPT ![r] = label]
    BY <1>5 DEF Create
  <2>4. NotYetCreated'
    BY <2>1, <2>2, <2>3
  <2>5. Seen'
    BY <2>1, <2>2
  <2>6. QED
    BY <1>0, <2>4, <2>5
<1>6. ASSUME NEW r \in Runs, Boot(r) PROVE SightInv'
  BY <1>0, <1>6 DEF Boot
<1>7. ASSUME NEW r \in Runs, LookUp(r) PROVE SightInv'
  BY <1>0, <1>7 DEF LookUp, Undo, Mine, Up
<1>8. ASSUME NEW r \in Runs, DeleteOne(r) PROVE SightInv'
  BY <1>0, <1>8 DEF DeleteOne
<1>9. ASSUME NEW r \in Runs, PreDeleteEnd(r) \/ UndoEnd(r) PROVE SightInv'
  BY <1>0, <1>9 DEF PreDeleteEnd, UndoEnd
<1>10. ASSUME NEW r \in Runs, Release(r) PROVE SightInv'
  BY <1>0, <1>10 DEF Release
<1>11. ASSUME NEW r \in Runs, ReleaseEnd(r) \/ Crash(r) \/ Appear(r) PROVE SightInv'
  BY <1>0, <1>11 DEF ReleaseEnd, Crash, Appear, Active, Acquiring
<1>12. ASSUME Tick \/ ReapList PROVE SightInv'
  BY <1>0, <1>12 DEF Tick, ReapList, Expired, Up
<1>13. ASSUME ReapDelete PROVE SightInv'
  BY <1>0, <1>13 DEF ReapDelete
<1>14. CASE UNCHANGED vars
  BY <1>0, <1>14 DEF vars
<1>15. QED
  BY <1>1, <1>2, <1>3, <1>4, <1>5, <1>6, <1>7, <1>8, <1>9, <1>10, <1>11,
     <1>12, <1>13, <1>14 DEF Next, Step

\* The run of the server itself answers for it: it was killed, it has the id,
\* or it has no id and will look the server up, or name it.
Answers(s) ==
  \/ pc[s] = "crashed"
  \/ pc[s] \in {"boot", "using", "release", "lookup", "undo"} /\ s \in ids[s]
  \/ pc[s] = "lookup" /\ ids[s] = {}
  \/ pc[s] = "undo" /\ lost[s] /\ ids[s] = {}

Answered ==
  \A s \in Runs :
    server[s] \in {"up", "late"} => s \in told \/ s \in missed \/ Answers(s)

KnowledgeInv == SightInv /\ IdsKnown /\ Answered

LEMMA KnowledgeInvInit == Init => KnowledgeInv
BY SightInvInit DEF Init, KnowledgeInv, IdsKnown, Answered

LEMMA KnowledgeInvStep == KnowledgeInv /\ [Next]_vars => KnowledgeInv'
<1> SUFFICES ASSUME KnowledgeInv, [Next]_vars PROVE KnowledgeInv'
  OBVIOUS
<1>0. SightInv' /\ TypeOK /\ NotYetCreated /\ TypeOK'
  BY SightInvStep DEF KnowledgeInv, SightInv
<1> USE DEF KnowledgeInv, NotYetCreated, IdsKnown, Answered, Answers, TypeOK,
            Unasked, Goto, Raise, settings, cloudVars, history, runVars
<1>1. ASSUME NEW r \in Runs, Begin(r) PROVE KnowledgeInv'
  BY <1>0, <1>1 DEF Begin
<1>2. ASSUME NEW r \in Runs, ListExisting(r) PROVE KnowledgeInv'
  BY <1>0, <1>2 DEF ListExisting
<1>3. ASSUME NEW r \in Runs, Adopt(r) PROVE KnowledgeInv'
  <2>1. pc[r] = "adopt" /\ UNCHANGED <<server, ids, told, missed, lost>>
    BY <1>3 DEF Adopt
  <2>2. \/ pc' = [pc EXCEPT ![r] = "boot"] /\ target' = [target EXCEPT ![r] = ids[r]]
        \/ pc' = [pc EXCEPT ![r] = "lookup"] /\ target' = target
    BY <1>3 DEF Adopt
  <2>3. IdsKnown'
    BY <1>0, <2>1, <2>2
  <2>4. Answered'
    BY <1>0, <2>1, <2>2
  <2>5. QED
    BY <1>0, <2>3, <2>4
<1>4. ASSUME NEW r \in Runs, CheckQuota(r) PROVE KnowledgeInv'
  BY <1>0, <1>4 DEF CheckQuota
<1>5. ASSUME NEW r \in Runs, Create(r) PROVE KnowledgeInv'
  <2>1. pc[r] = "create" /\ UNCHANGED <<told, missed, lost>>
    BY <1>5 DEF Create
  <2>2. \/ /\ pc' = [pc EXCEPT ![r] = "boot"]
           /\ target' = [target EXCEPT ![r] = {r}]
           /\ ids' = [ids EXCEPT ![r] = {r}]
        \/ pc' = [pc EXCEPT ![r] = "lookup"] /\ UNCHANGED <<target, ids>>
    BY <1>5 DEF Create
  <2>3. \A s \in Runs \ {r} : server'[s] = server[s]
    BY <1>0, <1>5 DEF Create
  <2>4. IdsKnown'
    BY <1>0, <2>1, <2>2
  <2>5. Answered'
    <3>1. Answers(r)'
      BY <1>0, <2>1, <2>2
    <3>2. \A s \in Runs \ {r} : Answers(s) => Answers(s)'
      BY <1>0, <2>1, <2>2
    <3>3. QED
      BY <2>1, <2>3, <3>1, <3>2
  <2>6. QED
    BY <1>0, <2>4, <2>5
<1>6. ASSUME NEW r \in Runs, Boot(r) PROVE KnowledgeInv'
  <2>1. /\ UNCHANGED <<server, ids, target, told, missed, lost>>
        /\ \E label \in {"using", "lookup"} : pc' = [pc EXCEPT ![r] = label]
        /\ pc[r] = "boot"
    BY <1>6 DEF Boot
  <2>2. QED
    BY <1>0, <2>1
<1>7. ASSUME NEW r \in Runs, LookUp(r) PROVE KnowledgeInv'
  BY <1>0, <1>7 DEF LookUp, Undo, Mine, Up
<1>8. ASSUME NEW r \in Runs, DeleteOne(r) PROVE KnowledgeInv'
  <2>1. PICK d \in todo[r] :
          /\ server' \in {server, [server EXCEPT ![d] = "gone"]}
          /\ todo' = [todo EXCEPT ![r] = @ \ {d}]
          /\ \/ ids' = ids
             \/ /\ server' = [server EXCEPT ![d] = "gone"]
                /\ ids' = [ids EXCEPT ![r] = @ \ {d}]
    BY <1>8 DEF DeleteOne
  <2>2. pc[r] \in {"predelete", "undo", "release"}
        /\ UNCHANGED <<pc, target, lost, reap, told, missed>>
    BY <1>8 DEF DeleteOne
  <2>3. IdsKnown'
    BY <1>0, <2>1, <2>2
  <2>4. ASSUME NEW s \in Runs, server'[s] \in {"up", "late"},
               s \notin told, s \notin missed
        PROVE  Answers(s)'
    <3>1. Answers(s)
      BY <1>0, <2>1, <2>2, <2>4
    <3>2. ids'[s] = ids[s] \/ (ids'[s] = ids[s] \ {d} /\ d # s)
      BY <1>0, <2>1, <2>2, <2>4
    <3>3. QED
      BY <2>2, <3>1, <3>2
  <2>5. QED
    BY <1>0, <2>2, <2>3, <2>4
<1>9. ASSUME NEW r \in Runs, PreDeleteEnd(r) \/ UndoEnd(r) PROVE KnowledgeInv'
  BY <1>0, <1>9 DEF PreDeleteEnd, UndoEnd
<1>10. ASSUME NEW r \in Runs, Release(r) PROVE KnowledgeInv'
  <2>1. PICK keeping \in BOOLEAN :
          /\ pc' = [pc EXCEPT ![r] = IF keeping THEN "kept" ELSE "release"]
          /\ told' = IF keeping THEN told \cup ids[r] ELSE told
    BY <1>10 DEF Release
  <2>2. pc[r] \in {"using", "failed"} /\ UNCHANGED <<server, ids, target, lost, missed>>
    BY <1>10 DEF Release
  <2>3. QED
    BY <1>0, <2>1, <2>2
<1>15. ASSUME NEW r \in Runs, ReleaseEnd(r) PROVE KnowledgeInv'
  BY <1>0, <1>15 DEF ReleaseEnd
<1>11. ASSUME NEW r \in Runs, Crash(r) \/ Appear(r) PROVE KnowledgeInv'
  BY <1>0, <1>11 DEF Crash, Appear, Active, Acquiring
<1>12. ASSUME Tick \/ ReapList PROVE KnowledgeInv'
  BY <1>0, <1>12 DEF Tick, ReapList
<1>16. ASSUME ReapDelete PROVE KnowledgeInv'
  <2>1. PICK d \in reap : server' \in {server, [server EXCEPT ![d] = "gone"]}
    BY <1>16 DEF ReapDelete
  <2>2. reap' \subseteq reap /\ UNCHANGED <<pc, target, ids, todo, lost, told, missed>>
    BY <1>16 DEF ReapDelete
  <2>3. IdsKnown'
    BY <1>0, <2>1, <2>2
  <2>4. Answered'
    BY <1>0, <2>1, <2>2
  <2>5. QED
    BY <1>0, <2>3, <2>4
<1>13. CASE UNCHANGED vars
  BY <1>0, <1>13 DEF vars
<1>14. QED
  BY <1>1, <1>2, <1>3, <1>4, <1>5, <1>6, <1>7, <1>8, <1>9, <1>10, <1>11,
     <1>12, <1>13, <1>15, <1>16 DEF Next, Step

\* NoOrphan: whatever calls fail in acquire and release, with or without
\* effect, every server is known to somebody or was out of the lookup's sight.
THEOREM NoOrphanHolds == Spec => []NoOrphan
<1>1. KnowledgeInv => NoOrphan
  BY DEF KnowledgeInv, Answered, Answers, NoOrphan, Accounted, Active, Acquiring
<1>2. QED
  BY <1>1, KnowledgeInvInit, KnowledgeInvStep, PTL DEF Spec

-----------------------------------------------------------------------------
(***************************************************************************)
(* Other runs' servers.  A run has the id of a server it did not create    *)
(* only if it listed it to adopt or delete it.                             *)
(***************************************************************************)

OthersClaimed ==
  /\ \A r, s \in Runs : s # r /\ s \in ids[r] \cup todo[r] \cup target[r]
                        => s \in claimed
  /\ \A s \in Runs : owner[s] # s => s \in claimed
  /\ \A r \in Runs : pc[r] = "adopt" => ids[r] \subseteq claimed

\* What the reaper has in its list had expired, unless it was adopted since.
ReapExpired == \A s \in reap : expires[s] <= now \/ s \in claimed

ClaimInv == SightInv /\ OthersClaimed /\ ReapExpired /\ RunKeepsServer

LEMMA ClaimInvInit == Init => ClaimInv
BY SightInvInit DEF Init, ClaimInv, OthersClaimed, ReapExpired, RunKeepsServer

\* The claims: no step takes one back, or lets a run have an unclaimed server.
LEMMA OthersClaimedStep ==
  TypeOK /\ OthersClaimed /\ [Next]_vars => OthersClaimed' /\ claimed \subseteq claimed'
<1> SUFFICES ASSUME TypeOK, OthersClaimed, [Next]_vars
             PROVE  OthersClaimed' /\ claimed \subseteq claimed'
  OBVIOUS
<1> USE DEF TypeOK, OthersClaimed, Goto, Raise, settings, cloudVars, history, runVars
<1>1. ASSUME NEW r \in Runs, Begin(r) PROVE OthersClaimed' /\ claimed \subseteq claimed'
  BY <1>1 DEF Begin
<1>2. ASSUME NEW r \in Runs, ListExisting(r)
      PROVE  OthersClaimed' /\ claimed \subseteq claimed'
  <2>1. PICK label \in {"lookup", "quota", "predelete", "adopt"} :
          pc' = [pc EXCEPT ![r] = label]
          /\ (label = "adopt" => ids'[r] \subseteq claimed')
    BY <1>2 DEF ListExisting
  <2>2. \/ UNCHANGED <<ids, todo, claimed>>
        \/ /\ ids' = [ids EXCEPT ![r] = Up]
           /\ todo' \in {todo, [todo EXCEPT ![r] = Up]}
           /\ claimed' = claimed \cup Up
    BY <1>2 DEF ListExisting
  <2>3. UNCHANGED <<target, owner>>
    BY <1>2 DEF ListExisting
  <2>4. claimed \subseteq claimed'
    BY <2>2
  <2>5. \A q, s \in Runs : s # q /\ s \in ids'[q] \cup todo'[q] \cup target'[q]
                          => s \in claimed'
    BY <2>2, <2>3
  <2>6. \A q \in Runs : pc'[q] = "adopt" => ids'[q] \subseteq claimed'
    BY <2>1, <2>2
  <2>7. QED
    BY <2>3, <2>4, <2>5, <2>6
<1>3. ASSUME NEW r \in Runs, Adopt(r) PROVE OthersClaimed' /\ claimed \subseteq claimed'
  BY <1>3 DEF Adopt
<1>4. ASSUME NEW r \in Runs, CheckQuota(r)
      PROVE  OthersClaimed' /\ claimed \subseteq claimed'
  BY <1>4 DEF CheckQuota
<1>5. ASSUME NEW r \in Runs, Create(r) PROVE OthersClaimed' /\ claimed \subseteq claimed'
  BY <1>5 DEF Create
<1>6. ASSUME NEW r \in Runs, Boot(r) PROVE OthersClaimed' /\ claimed \subseteq claimed'
  BY <1>6 DEF Boot
<1>7. ASSUME NEW r \in Runs, LookUp(r) PROVE OthersClaimed' /\ claimed \subseteq claimed'
  BY <1>7 DEF LookUp, Undo, Mine, Up
<1>8. ASSUME NEW r \in Runs, DeleteOne(r)
      PROVE  OthersClaimed' /\ claimed \subseteq claimed'
  BY <1>8 DEF DeleteOne
<1>9. ASSUME NEW r \in Runs, PreDeleteEnd(r) \/ UndoEnd(r)
      PROVE  OthersClaimed' /\ claimed \subseteq claimed'
  BY <1>9 DEF PreDeleteEnd, UndoEnd
<1>10. ASSUME NEW r \in Runs, Release(r)
       PROVE  OthersClaimed' /\ claimed \subseteq claimed'
  BY <1>10 DEF Release
<1>11. ASSUME NEW r \in Runs, ReleaseEnd(r) \/ Crash(r) \/ Appear(r)
       PROVE  OthersClaimed' /\ claimed \subseteq claimed'
  BY <1>11 DEF ReleaseEnd, Crash, Appear
<1>12. CASE Tick \/ ReapList \/ ReapDelete
  BY <1>12 DEF Tick, ReapList, ReapDelete
<1>13. CASE UNCHANGED vars
  BY <1>13 DEF vars
<1>14. QED
  BY <1>1, <1>2, <1>3, <1>4, <1>5, <1>6, <1>7, <1>8, <1>9, <1>10, <1>11,
     <1>12, <1>13 DEF Next, Step

LEMMA ReapExpiredStep == ClaimInv /\ [Next]_vars => ReapExpired'
<1> SUFFICES ASSUME ClaimInv, [Next]_vars PROVE ReapExpired'
  OBVIOUS
<1>0. /\ TypeOK /\ NotYetCreated /\ Seen /\ OthersClaimed /\ ReapExpired
      /\ claimed \subseteq claimed'
  BY OthersClaimedStep DEF ClaimInv, SightInv
<1> USE DEF ReapExpired, settings, cloudVars, history, runVars
<1>1. ASSUME NEW r \in Runs, Adopt(r) PROVE ReapExpired'
  <2>1. \A s \in Runs : s \in ids[r] \/ expires'[s] = expires[s]
    BY <1>0, <1>1 DEF Adopt, TypeOK
  <2>2. pc[r] = "adopt" /\ UNCHANGED <<reap, now, claimed>>
    BY <1>1 DEF Adopt
  <2>3. QED
    BY <1>0, <2>1, <2>2 DEF OthersClaimed, TypeOK
<1>2. ASSUME NEW r \in Runs, Create(r) PROVE ReapExpired'
  <2>1. r \notin reap
    BY <1>0, <1>2 DEF Create, NotYetCreated, Unasked, Seen
  <2>2. \A s \in Runs \ {r} : expires'[s] = expires[s]
    BY <1>0, <1>2 DEF Create, TypeOK
  <2>3. UNCHANGED <<reap, now, claimed>>
    BY <1>2 DEF Create
  <2>4. QED
    BY <1>0, <2>1, <2>2, <2>3 DEF TypeOK
<1>3. CASE Tick
  BY <1>0, <1>3 DEF Tick, TypeOK
<1>4. CASE ReapList \/ ReapDelete
  BY <1>0, <1>4 DEF ReapList, ReapDelete, Expired, Up
<1>5. CASE UNCHANGED <<reap, expires, now>>
  BY <1>0, <1>5
<1>6. ASSUME NEW r \in Runs,
             Begin(r) \/ ListExisting(r) \/ CheckQuota(r) \/ Boot(r) \/ LookUp(r)
             \/ DeleteOne(r) \/ PreDeleteEnd(r) \/ UndoEnd(r) \/ Release(r)
             \/ ReleaseEnd(r) \/ Crash(r) \/ Appear(r)
      PROVE  UNCHANGED <<reap, expires, now>>
  BY <1>6 DEF Begin, ListExisting, CheckQuota, Boot, LookUp, DeleteOne,
     PreDeleteEnd, UndoEnd, Release, ReleaseEnd, Crash, Appear
<1>7. QED
  BY <1>1, <1>2, <1>3, <1>4, <1>5, <1>6 DEF Next, Step, vars

LEMMA ClaimInvStep == ClaimInv /\ [Next]_vars => ClaimInv'
<1> SUFFICES ASSUME ClaimInv, [Next]_vars PROVE ClaimInv'
  OBVIOUS
<1>0. /\ TypeOK /\ NotYetCreated /\ Seen /\ OthersClaimed /\ ReapExpired
      /\ RunKeepsServer
  BY DEF ClaimInv, SightInv
<1>a. TypeOK' /\ SightInv' /\ OthersClaimed' /\ claimed \subseteq claimed' /\ ReapExpired'
  BY <1>0, TypeCorrectStep, SightInvStep, OthersClaimedStep, ReapExpiredStep DEF ClaimInv
<1> SUFFICES ASSUME NEW s \in Runs, pc'[s] = "using", s \in target'[s],
                    now' < expires'[s], s \notin claimed'
             PROVE  server'[s] = "up"
  BY <1>a DEF ClaimInv, RunKeepsServer
<1>b. s \notin claimed
  BY <1>a
<1>c. server[s] # "up" => ~(pc[s] = "using" /\ s \in target[s] /\ now < expires[s])
  BY <1>0, <1>b DEF RunKeepsServer
<1> USE DEF TypeOK, Goto, Raise, settings, cloudVars, history, runVars
<1>1. ASSUME NEW r \in Runs, Boot(r) PROVE server'[s] = "up"
  <2>1. UNCHANGED <<server, target, now, expires>>
    BY <1>1 DEF Boot
  <2>2. CASE pc[s] = "using"
    BY <1>c, <2>1, <2>2
  <2>3. CASE pc[s] # "using"
    BY <1>0, <1>1, <2>1, <2>3 DEF Boot, Up
  <2>4. QED
    BY <2>2, <2>3
<1>2. ASSUME NEW r \in Runs, DeleteOne(r) PROVE server'[s] = "up"
  <2>1. PICK d \in todo[r] : server' \in {server, [server EXCEPT ![d] = "gone"]}
    BY <1>2 DEF DeleteOne
  <2>2. UNCHANGED <<pc, target, now, expires>>
        /\ pc[r] \in {"predelete", "undo", "release"}
    BY <1>2 DEF DeleteOne
  <2>3. d # s
    BY <1>0, <1>b, <2>2 DEF OthersClaimed
  <2>4. QED
    BY <1>0, <1>c, <2>1, <2>2, <2>3
<1>3. CASE ReapDelete
  <2>1. PICK d \in reap : server' \in {server, [server EXCEPT ![d] = "gone"]}
    BY <1>3 DEF ReapDelete
  <2>2. UNCHANGED <<pc, target, now, expires>>
    BY <1>3 DEF ReapDelete
  <2>3. d # s
    BY <1>0, <1>b, <2>2 DEF ReapExpired
  <2>4. QED
    BY <1>0, <1>c, <2>1, <2>2, <2>3
<1>4. ASSUME NEW r \in Runs, Adopt(r) PROVE server'[s] = "up"
  <2>1. pc[r] = "adopt" /\ pc'[r] # "using" /\ UNCHANGED <<server, now>>
    BY <1>0, <1>4 DEF Adopt
  <2>2. expires'[s] = expires[s]
    BY <1>0, <1>4, <1>b DEF Adopt, OthersClaimed
  <2>3. s # r /\ pc'[s] = pc[s] /\ target'[s] = target[s]
    BY <1>0, <1>4, <2>1 DEF Adopt
  <2>4. QED
    BY <1>c, <2>1, <2>2, <2>3
<1>5. ASSUME NEW r \in Runs, Create(r) PROVE server'[s] = "up"
  <2>1. pc'[r] # "using" /\ UNCHANGED now
    BY <1>0, <1>5 DEF Create
  <2>2. s # r /\ pc'[s] = pc[s] /\ target'[s] = target[s] /\ server'[s] = server[s]
        /\ expires'[s] = expires[s]
    BY <1>0, <1>5, <2>1 DEF Create
  <2>3. QED
    BY <1>c, <2>1, <2>2
<1>6. CASE Tick
  BY <1>0, <1>c, <1>6 DEF Tick
<1>7. ASSUME NEW r \in Runs, Appear(r) PROVE server'[s] = "up"
  BY <1>0, <1>c, <1>7 DEF Appear
<1>8. ASSUME NEW r \in Runs,
             Begin(r) \/ ListExisting(r) \/ CheckQuota(r) \/ LookUp(r)
             \/ PreDeleteEnd(r) \/ UndoEnd(r) \/ Release(r) \/ ReleaseEnd(r) \/ Crash(r)
      PROVE  server'[s] = "up"
  <2>1. UNCHANGED <<target, now, server, expires>>
    BY <1>8 DEF Begin, ListExisting, CheckQuota, LookUp, PreDeleteEnd, UndoEnd,
       Release, ReleaseEnd, Crash
  <2>2. \E label \in PcStates \ {"using"} : pc' = [pc EXCEPT ![r] = label]
    BY <1>8 DEF Begin, ListExisting, CheckQuota, LookUp, Undo, PreDeleteEnd,
       UndoEnd, Release, ReleaseEnd, Crash, PcStates, Active, Acquiring
  <2>3. QED
    BY <1>0, <1>c, <2>1, <2>2
<1>9. CASE ReapList
  BY <1>c, <1>9 DEF ReapList
<1>10. CASE UNCHANGED vars
  BY <1>c, <1>10 DEF vars
<1>11. QED
  BY <1>1, <1>2, <1>3, <1>4, <1>5, <1>6, <1>7, <1>8, <1>9, <1>10 DEF Next, Step

\* RunKeepsServer: neither another run, nor the reaper with its stale list,
\* deletes the server of a run that uses it, before its expiry.
THEOREM RunKeepsServerHolds == Spec => []RunKeepsServer
<1>1. ClaimInv => RunKeepsServer
  BY DEF ClaimInv
<1>2. QED
  BY <1>1, ClaimInvInit, ClaimInvStep, PTL DEF Spec

-----------------------------------------------------------------------------
(***************************************************************************)
(* The policy.  The lookup of a run goes by run id and name, so a run that *)
(* was not to adopt anything finds its own server only: nobody else tags a *)
(* server with its id.                                                     *)
(***************************************************************************)

FailAlone ==
  \A r \in Runs :
    /\ policy[r] = "fail" => ids[r] \subseteq {r} /\ target[r] \subseteq {r}
    /\ pc[r] = "adopt" => policy[r] = "adopt"
    /\ \A s \in Runs : owner[s] = r /\ s # r
                       => policy[r] = "adopt" /\ pc[r] # "idle"

PolicyInv == TypeOK /\ IdsKnown /\ FailAlone

LEMMA PolicyInvStep == KnowledgeInv /\ PolicyInv /\ [Next]_vars => PolicyInv'
<1> SUFFICES ASSUME KnowledgeInv, PolicyInv, [Next]_vars PROVE PolicyInv'
  OBVIOUS
<1>0. /\ TypeOK /\ TypeOK' /\ IdsKnown /\ IdsKnown' /\ FailAlone
  BY TypeCorrectStep, KnowledgeInvStep DEF PolicyInv, KnowledgeInv
<1> SUFFICES FailAlone'
  BY <1>0 DEF PolicyInv
<1> USE DEF TypeOK, FailAlone, Goto, Raise, settings, cloudVars, history, runVars
<1>1. ASSUME NEW r \in Runs, Begin(r) PROVE FailAlone'
  <2>1. ids[r] = {} /\ target[r] = {} /\ pc[r] = "idle"
    BY <1>0, <1>1 DEF Begin, IdsKnown, Unasked
  <2>2. /\ UNCHANGED <<ids, target, owner>>
        /\ pc' = [pc EXCEPT ![r] = "list"]
        /\ \A q \in Runs \ {r} : policy'[q] = policy[q]
    BY <1>0, <1>1 DEF Begin
  <2>3. QED
    BY <1>0, <2>1, <2>2
<1>2. ASSUME NEW r \in Runs, ListExisting(r) PROVE FailAlone'
  <2>1. UNCHANGED <<policy, target, owner>> /\ pc[r] = "list"
    BY <1>2 DEF ListExisting
  <2>2. PICK label \in {"lookup", "quota", "predelete", "adopt"} :
          pc' = [pc EXCEPT ![r] = label]
          /\ (label = "adopt" => policy[r] = "adopt")
    BY <1>2 DEF ListExisting
  <2>3. ids' = ids \/ (policy[r] # "fail" /\ ids' = [ids EXCEPT ![r] = Up])
    BY <1>2 DEF ListExisting
  <2>4. QED
    BY <1>0, <2>1, <2>2, <2>3
<1>3. ASSUME NEW r \in Runs, Adopt(r) PROVE FailAlone'
  <2>1. pc[r] = "adopt" /\ policy[r] = "adopt" /\ UNCHANGED <<policy, ids>>
    BY <1>0, <1>3 DEF Adopt
  <2>2. \A s \in Runs : owner'[s] = owner[s] \/ owner'[s] = r
    BY <1>0, <1>3 DEF Adopt
  <2>3. \E label \in {"boot", "lookup"} : pc' = [pc EXCEPT ![r] = label]
    BY <1>3 DEF Adopt
  <2>4. target' = target \/ target' = [target EXCEPT ![r] = ids[r]]
    BY <1>3 DEF Adopt
  <2>5. QED
    BY <1>0, <2>1, <2>2, <2>3, <2>4
<1>4. ASSUME NEW r \in Runs, Create(r) PROVE FailAlone'
  <2>1. \/ target' = [target EXCEPT ![r] = {r}] /\ ids' = [ids EXCEPT ![r] = {r}]
        \/ UNCHANGED <<target, ids>>
    BY <1>4 DEF Create
  <2>2. UNCHANGED <<policy, owner>>
    BY <1>4 DEF Create
  <2>3. \E label \in {"boot", "lookup"} : pc' = [pc EXCEPT ![r] = label]
    BY <1>4 DEF Create
  <2>4. QED
    BY <1>0, <2>1, <2>2, <2>3
<1>5. ASSUME NEW r \in Runs, LookUp(r) PROVE FailAlone'
  <2>1. UNCHANGED <<policy, owner, target>>
    BY <1>5 DEF LookUp
  <2>2. \E label \in {"undo", "failed"} : pc' = [pc EXCEPT ![r] = label]
    BY <1>5 DEF LookUp, Undo
  <2>3. PICK found \in SUBSET Runs :
          /\ found \subseteq ids[r] \cup Mine(r)
          /\ ids' = ids \/ ids' = [ids EXCEPT ![r] = found \cup target[r]]
    <3>1. ids' = ids \/ \E found \in {ids[r], Mine(r), {}} :
                          ids' = [ids EXCEPT ![r] = found \cup target[r]]
      BY <1>5 DEF LookUp, Undo
    <3>2. ids[r] \subseteq Runs /\ Mine(r) \subseteq Runs
      BY <1>0 DEF Mine, Up
    <3>3. QED
      BY <3>1, <3>2
  <2>4. policy[r] = "fail" => Mine(r) \subseteq {r}
    BY <1>0 DEF Mine, Up
  <2>5. \A q \in Runs : policy[q] = "fail" => ids'[q] \subseteq {q}
    <3>1. \A q \in Runs \ {r} : ids'[q] = ids[q]
      BY <1>0, <2>3
    <3>2. ids'[r] \subseteq ids[r] \cup Mine(r) \cup target[r]
      BY <1>0, <2>3
    <3>3. policy[r] = "fail" => ids'[r] \subseteq {r}
      BY <1>0, <2>4, <3>2
    <3>4. QED
      BY <1>0, <3>1, <3>3
  <2>6. QED
    BY <1>0, <2>1, <2>2, <2>5
<1>6. ASSUME NEW r \in Runs, DeleteOne(r) PROVE FailAlone'
  <2>1. UNCHANGED <<pc, policy, owner, target>>
    BY <1>6 DEF DeleteOne
  <2>2. \A q \in Runs : ids'[q] \subseteq ids[q]
    BY <1>0, <1>6 DEF DeleteOne
  <2>3. QED
    BY <1>0, <2>1, <2>2
<1>7. ASSUME NEW r \in Runs,
             CheckQuota(r) \/ Boot(r) \/ PreDeleteEnd(r) \/ UndoEnd(r)
             \/ Release(r) \/ ReleaseEnd(r) \/ Crash(r)
      PROVE  FailAlone'
  <2>1. UNCHANGED <<policy, owner, target, ids>>
    BY <1>7 DEF CheckQuota, Boot, PreDeleteEnd, UndoEnd, Release, ReleaseEnd, Crash
  <2>2. \E label \in PcStates \ {"idle", "adopt"} : pc' = [pc EXCEPT ![r] = label]
    BY <1>7 DEF CheckQuota, Boot, PreDeleteEnd, UndoEnd, Release, ReleaseEnd, Crash,
       PcStates, Active, Acquiring
  <2>3. QED
    BY <1>0, <2>1, <2>2
<1>8. CASE UNCHANGED <<pc, policy, owner, target, ids>>
  BY <1>0, <1>8
<1>9. ASSUME (\E r \in Runs : Appear(r)) \/ Tick \/ ReapList \/ ReapDelete
      PROVE  UNCHANGED <<pc, policy, owner, target, ids>>
  BY <1>9 DEF Appear, Tick, ReapList, ReapDelete
<1>10. QED
  BY <1>1, <1>2, <1>3, <1>4, <1>5, <1>6, <1>7, <1>8, <1>9 DEF Next, Step, vars

\* FailPreservesOthers: a run with on_existing = fail never holds the id of a
\* server it did not create, so no clean-up of its own deletes one.
THEOREM FailPreservesOthersHolds == Spec => []FailPreservesOthers
<1>1. Init => KnowledgeInv /\ PolicyInv
  BY KnowledgeInvInit, TypeCorrectInit DEF Init, PolicyInv, IdsKnown, FailAlone
<1>2. PolicyInv => FailPreservesOthers
  BY DEF PolicyInv, FailAlone, FailPreservesOthers
<1>3. QED
  BY <1>1, <1>2, KnowledgeInvStep, PolicyInvStep, PTL DEF Spec
=============================================================================
