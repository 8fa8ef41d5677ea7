------------------------- MODULE PublicationProofs --------------------------
(***************************************************************************)
(* Proofs about Publication, for every sequence of outputs and for any     *)
(* number of retrievals and of failing steps.                              *)
(***************************************************************************)
EXTENDS Publication, TLAPS

PcStates == {"idle", "check", "copy", "rename", "swap", "restore", "drop",
             "cleanup", "done", "published", "failed"}

\* The indices of the outputs, and that two of them are of two paths.
LEMMA Indices ==
  /\ Last \in Nat \ {0}
  /\ DOMAIN Outputs = 1..Last
  /\ \A i \in 1..Last : Outputs[i] \in Paths
  /\ \A p \in Paths : \E i \in 1..Last : p = Outputs[i]
  /\ \A i, j \in 1..Last : Outputs[i] = Outputs[j] => i = j
<1>1. Outputs \in Seq(Paths) /\ Outputs # <<>>
  BY OutputsAssumption DEF Paths
<1>2. DOMAIN Outputs = 1..Last /\ Last \in Nat \ {0}
  BY <1>1 DEF Last
<1>3. QED
  BY <1>2, OutputsAssumption DEF Paths

\* What may lie at a path.
LEMMA EntryTypes ==
  /\ Nothing \in Entries
  /\ \A k \in Kinds : Old(k) \in Entries
  /\ \A k \in Kinds, v \in 0..MaxCalls, w, m \in BOOLEAN :
       Entry(k, v, w, k = "dir", m) \in Entries
BY ConstantsAssumption DEF Nothing, Old, Entry, Entries

\* The index stays among the outputs, and is the first one in a new phase.
LEMMA AdvanceStays ==
  ASSUME at \in 1..Last, NEW phase, NEW after, Advance(phase, after)
  PROVE  /\ at' \in 1..Last
         /\ \/ pc' = phase /\ at < Last /\ at' = at + 1
            \/ pc' = after /\ at = Last /\ at' = 1
BY Indices DEF Advance

\* A failing step is counted.
LEMMA ErrorBounded ==
  ASSUME errors \in 0..MaxErrors, Ok \/ Error PROVE errors' \in 0..MaxErrors
BY ConstantsAssumption DEF Ok, Error

\* What the clean-up leaves of a temporary: itself, or some of its files.
LEMMA CleanupEffect ==
  ASSUME TypeOK, Cleanup
  PROVE  /\ temp' \in [Paths -> Entries] /\ stuck' \subseteq Paths
         /\ stuck \subseteq stuck'
         /\ \A p \in Paths : \/ temp'[p] = Nothing
                            \/ /\ temp[p] # Nothing /\ temp'[p].mixed = temp[p].mixed
                               /\ p \in stuck' \/ p \notin pending
<1>1. temp \in [Paths -> Entries] /\ stuck \subseteq Paths /\ pending \subseteq Paths
  BY DEF TypeOK
<1>2. \A entry \in Entries : \A e \in Unremoved(entry) :
        e \in Entries /\ (e # Nothing => entry # Nothing) /\ e.mixed = entry.mixed
  <2> SUFFICES ASSUME NEW entry \in Entries, NEW e \in Unremoved(entry)
               PROVE  e \in Entries /\ (e # Nothing => entry # Nothing)
                      /\ e.mixed = entry.mixed
    OBVIOUS
  <2>1. e = entry \/ (IsDir(entry) /\ e = [entry EXCEPT !.whole = FALSE])
    BY DEF Unremoved
  <2>2. /\ [entry EXCEPT !.whole = FALSE] \in Entries
        /\ [entry EXCEPT !.whole = FALSE].mixed = entry.mixed
    BY DEF Entries
  <2>3. IsDir(entry) => entry # Nothing
    BY DEF IsDir, Nothing, Entry
  <2>4. QED
    BY <2>1, <2>2, <2>3
<1>3. CASE stuck' = stuck /\ temp' = [p \in Paths |-> IF p \in pending THEN Nothing
                                                    ELSE temp[p]]
  BY <1>1, <1>3, EntryTypes
<1>4. ASSUME NEW k \in 1..Last, Outputs[k] \in pending,
             NEW left, left \subseteq pending, Outputs[k] \in left,
             NEW entry \in Unremoved(temp[Outputs[k]]), stuck' = stuck \cup left,
             temp' = [p \in Paths |-> CASE p = Outputs[k] -> entry
                                        [] p \in pending \ left -> Nothing
                                        [] OTHER -> temp[p]]
      PROVE  /\ temp' \in [Paths -> Entries] /\ stuck' \subseteq Paths
             /\ stuck \subseteq stuck'
             /\ \A p \in Paths :
                  \/ temp'[p] = Nothing
                  \/ /\ temp[p] # Nothing /\ temp'[p].mixed = temp[p].mixed
                     /\ p \in stuck' \/ p \notin pending
  <2>1. Outputs[k] \in Paths
    BY Indices
  <2>2. entry \in Entries /\ (entry # Nothing => temp[Outputs[k]] # Nothing)
        /\ entry.mixed = temp[Outputs[k]].mixed
    BY <1>1, <1>2, <1>4, <2>1
  <2>3. \A p \in Paths : temp'[p] = IF p = Outputs[k] THEN entry
                                    ELSE IF p \in pending \ left THEN Nothing
                                    ELSE temp[p]
    BY <1>4
  <2>4. \A p \in Paths : temp'[p] \in Entries
    BY <1>1, <2>2, <2>3, EntryTypes
  <2>5. temp' \in [Paths -> Entries]
    <3>1. temp' = [p \in Paths |-> temp'[p]]
      BY <1>4
    <3>2. QED
      BY <2>4, <3>1
  <2>6. QED
    BY <1>1, <1>4, <2>2, <2>3, <2>5
<1>5. CASE ~(stuck' = stuck /\ temp' = [p \in Paths |-> IF p \in pending THEN Nothing
                                                      ELSE temp[p]])
  <2>1. PICK k \in 1..Last :
          /\ Outputs[k] \in pending
          /\ LET left == {Outputs[i] : i \in k..Last} \cap pending
             IN \E entry \in Unremoved(temp[Outputs[k]]) :
                  /\ temp' = [p \in Paths |->
                        CASE p = Outputs[k] -> entry
                          [] p \in pending \ left -> Nothing
                          [] OTHER -> temp[p]]
                  /\ stuck' = stuck \cup left
    BY <1>5 DEF Cleanup
  <2> DEFINE left == {Outputs[i] : i \in k..Last} \cap pending
  <2>2. Outputs[k] \in left /\ left \subseteq pending
    BY <2>1, Indices
  <2>3. PICK entry \in Unremoved(temp[Outputs[k]]) :
          /\ temp' = [p \in Paths |->
                CASE p = Outputs[k] -> entry
                  [] p \in pending \ left -> Nothing
                  [] OTHER -> temp[p]]
          /\ stuck' = stuck \cup left
    BY <2>1
  <2> HIDE DEF left
  <2>4. QED
    BY <1>4, <2>1, <2>2, <2>3
<1>6. QED
  BY <1>3, <1>5

LEMMA TypeCorrectInit == Init => TypeOK
BY Indices, EntryTypes, ConstantsAssumption DEF Init, TypeOK

LEMMA TypeCorrectStep == TypeOK /\ [Next]_vars => TypeOK'
<1> SUFFICES ASSUME TypeOK, [Next]_vars PROVE TypeOK'
  OBVIOUS
<1> USE ConstantsAssumption DEF TypeOK, Ok, Error, Raise, fs
<1>0. Out \in Paths /\ Last \in Nat \ {0}
  BY Indices DEF Out
<1>1. CASE Begin
  BY <1>0, <1>1 DEF Begin
<1>2. CASE Check
  BY <1>0, <1>2 DEF Check
<1>3. CASE Copy
  <2>1. \A w \in BOOLEAN : Rsynced(w) \in Entries
    BY <1>0, EntryTypes DEF Rsynced, IsDir
  <2>2. temp' \in [Paths -> Entries]
    BY <1>0, <1>3, <2>1 DEF Copy
  <2>3. pc' \in {"copy", "rename", "cleanup"} /\ at' \in 1..Last
        /\ errors' \in 0..MaxErrors
    BY <1>3, AdvanceStays, ErrorBounded DEF Copy
  <2>4. pending' \subseteq Paths /\ UNCHANGED <<kind, calls, target, backup, stuck>>
    BY <1>0, <1>3 DEF Copy
  <2>5. QED
    BY <2>2, <2>3, <2>4
<1>4. CASE Rename
  BY <1>0, <1>4, EntryTypes DEF Rename, Advance
<1>5. CASE SetAside
  BY <1>0, <1>5, EntryTypes DEF SetAside
<1>6. CASE Swap
  BY <1>0, <1>6, EntryTypes DEF Swap
<1>7. CASE Restore
  BY <1>0, <1>7, EntryTypes DEF Restore
<1>8. CASE DropBackup
  <2>1. [backup[Out] EXCEPT !.whole = FALSE] \in Entries
    BY <1>0 DEF Entries
  <2>2. backup' \in [Paths -> Entries]
    BY <1>0, <1>8, <2>1, EntryTypes DEF DropBackup
  <2>3. pc' \in {"rename", "done", "cleanup"} /\ at' \in 1..Last
        /\ errors' \in 0..MaxErrors
    BY <1>8, AdvanceStays, ErrorBounded DEF DropBackup
  <2>4. QED
    BY <1>8, <2>2, <2>3 DEF DropBackup
<1>9. CASE Cleanup
  <2>1. temp' \in [Paths -> Entries] /\ stuck' \subseteq Paths
    BY <1>9, CleanupEffect
  <2>2. QED
    BY <1>9, <2>1, ErrorBounded DEF Cleanup
<1>10. CASE UNCHANGED vars
  BY <1>10 DEF vars
<1>11. QED
  BY <1>1, <1>2, <1>3, <1>4, <1>5, <1>6, <1>7, <1>8, <1>9, <1>10 DEF Next

\* TypeOK: the index never leaves the list of outputs, whatever phase fails.
THEOREM TypeCorrect == Spec => []TypeOK
BY TypeCorrectInit, TypeCorrectStep, PTL DEF Spec

-----------------------------------------------------------------------------
(***************************************************************************)
(* Where every output is.  While the outputs are renamed one after the     *)
(* other, those before the index are published and the others are copied   *)
(* completely; a directory that is being replaced is in its backup.        *)
(***************************************************************************)

\* This run's version of output i is at its temporary path.
Copied(i) ==
  LET e == temp[Outputs[i]] IN
    e.version = calls /\ e.whole /\ e.kind = kind[Outputs[i]]

\* This run's version of output i is at its path, and no longer beside it.
Placed(i) ==
  /\ LET e == target[Outputs[i]] IN
       e.version = calls /\ e.whole /\ e.kind = kind[Outputs[i]]
  /\ temp[Outputs[i]] = Nothing

\* An output is recorded when its turn comes.
CopiesMade ==
  /\ pc = "check" => at = 1 /\ pending = {}
  /\ pc = "copy" => /\ \A i \in 1..(at - 1) : Copied(i)
                    /\ \A i \in at..Last : Outputs[i] \notin pending

\* The output at the index is published once its backup is being removed.
Renamed ==
  /\ pc \in {"rename", "swap", "restore"}
       => /\ \A i \in 1..(at - 1) : Placed(i)
          /\ \A i \in at..Last : Copied(i)
  /\ pc = "drop" => /\ \A i \in 1..at : Placed(i)
                    /\ \A i \in (at + 1)..Last : Copied(i)
  /\ pc \in {"done", "published"} => \A i \in 1..Last : Placed(i)

InBackup ==
  pc \in {"swap", "restore"}
    => target[Out].kind = "none" /\ backup[Out].kind = "dir" /\ backup[Out].whole

\* A temporary path holds something only if its name has been recorded, or if
\* a clean-up could not remove it.
TemporariesRecorded ==
  /\ \A p \in Paths : temp[p] = Nothing \/ p \in pending \cup stuck
  /\ pc \in {"idle", "check", "published", "failed"}
       => \A p \in Paths : temp[p] = Nothing \/ p \in stuck

\* Only a temporary that was left is copied over.
MixedStuck ==
  \A p \in Paths : temp[p].mixed \/ target[p].mixed \/ backup[p].mixed
                   => p \in stuck

PublicationInv ==
  /\ TypeOK
  /\ TargetsWhole
  /\ CopiesMade
  /\ Renamed
  /\ InBackup
  /\ TemporariesRecorded
  /\ MixedStuck

LEMMA PublicationInvInit == Init => PublicationInv
<1> SUFFICES ASSUME Init PROVE PublicationInv
  OBVIOUS
<1>1. TargetsWhole /\ MixedStuck
  BY DEF Init, TargetsWhole, MixedStuck, Nothing, Old, Entry
<1>2. QED
  BY <1>1, TypeCorrectInit DEF Init, PublicationInv, CopiesMade, Renamed,
     InBackup, TemporariesRecorded

\* A step that changes no file and ends the phase, or starts with the copies.
LEMMA QuietStep ==
  ASSUME PublicationInv, TypeOK', UNCHANGED <<target, temp, backup, stuck>>,
         \/ pc' \in {"cleanup", "failed"} /\ pending' = pending
         \/ /\ pc' = "check" /\ at' = 1 /\ pending' = {}
            /\ pc \in {"idle", "failed"},
         pc' = "failed" => pc = "check"
  PROVE  PublicationInv'
BY DEF PublicationInv, TargetsWhole, CopiesMade, Renamed, InBackup,
       TemporariesRecorded, MixedStuck

\* What lies beside an output when its turn comes was left by a clean-up.
LEMMA MixedStep ==
  ASSUME PublicationInv, [Next]_vars
  PROVE  MixedStuck' /\ stuck \subseteq stuck'
<1>1. /\ TypeOK /\ MixedStuck /\ ~Nothing.mixed
      /\ Out \in Paths /\ Out = Outputs[at] /\ at \in 1..Last
  BY Indices DEF PublicationInv, TypeOK, Out, Nothing, Entry
<1>2. CASE Copy
  <2>1. /\ UNCHANGED <<target, backup, stuck>>
        /\ \/ temp' = temp
           \/ \E w \in BOOLEAN : temp' = [temp EXCEPT ![Out] = Rsynced(w)]
    BY <1>2 DEF Copy
  <2>2. IsDir(temp[Out]) => Out \in stuck
    <3>1. Out \notin pending
      BY <1>1, <1>2 DEF Copy, PublicationInv, CopiesMade
    <3>2. ~IsDir(Nothing)
      BY DEF IsDir, Nothing, Entry
    <3>3. QED
      BY <1>1, <3>1, <3>2 DEF PublicationInv, TemporariesRecorded
  <2>3. \A w \in BOOLEAN : Rsynced(w).mixed => Out \in stuck
    BY <2>2 DEF Rsynced, Entry
  <2>4. QED
    BY <1>1, <2>1, <2>3 DEF MixedStuck, TypeOK
<1>3. CASE Rename
  BY <1>1, <1>3 DEF Rename, MixedStuck, TypeOK
<1>4. CASE SetAside
  BY <1>1, <1>4 DEF SetAside, fs, MixedStuck, TypeOK
<1>5. CASE Swap
  BY <1>1, <1>5 DEF Swap, MixedStuck, TypeOK
<1>6. CASE Restore
  BY <1>1, <1>6 DEF Restore, MixedStuck, TypeOK
<1>7. CASE DropBackup
  <2>1. [backup[Out] EXCEPT !.whole = FALSE].mixed = backup[Out].mixed
    BY <1>1 DEF TypeOK, Entries
  <2>2. QED
    BY <1>1, <1>7, <2>1 DEF DropBackup, MixedStuck, TypeOK
<1>8. CASE Cleanup
  <2>1. /\ stuck \subseteq stuck' /\ UNCHANGED <<target, backup>>
        /\ \A p \in Paths : temp'[p] = Nothing \/ temp'[p].mixed = temp[p].mixed
    BY <1>1, <1>8, CleanupEffect DEF Cleanup
  <2>2. QED
    BY <1>1, <2>1 DEF MixedStuck
<1>9. CASE Begin \/ Check \/ UNCHANGED vars
  BY <1>1, <1>9 DEF Begin, Check, vars, fs, MixedStuck
<1>10. QED
  BY <1>2, <1>3, <1>4, <1>5, <1>6, <1>7, <1>8, <1>9 DEF Next

\* The output at the index takes its place, by one rename or by the swap.
LEMMA Placing ==
  ASSUME PublicationInv, pc \in {"rename", "swap"},
         target' = [target EXCEPT ![Out] = temp[Out]],
         temp' = [temp EXCEPT ![Out] = Nothing],
         UNCHANGED <<pending, kind, calls, stuck>>
  PROVE  /\ TargetsWhole'
         /\ \A i \in 1..at : Placed(i)'
         /\ \A i \in (at + 1)..Last : Copied(i)'
         /\ \A p \in Paths : temp'[p] = Nothing \/ p \in pending' \cup stuck'
<1>1. at \in 1..Last /\ Out \in Paths /\ Out = Outputs[at]
  BY Indices DEF PublicationInv, TypeOK, Out
<1>2. \A i \in 1..Last : i # at => Outputs[i] # Out /\ Outputs[i] \in Paths
  BY <1>1, Indices
<1>3. /\ \A i \in 1..(at - 1) : Placed(i)
      /\ \A i \in (at + 1)..Last : Copied(i)
      /\ Copied(at)
  BY <1>1, Indices DEF PublicationInv, Renamed
<1>4. TargetsWhole'
  BY <1>1, <1>3 DEF PublicationInv, TargetsWhole, TypeOK, Copied
<1>5. \A i \in 1..Last : i # at => target'[Outputs[i]] = target[Outputs[i]]
                                 /\ temp'[Outputs[i]] = temp[Outputs[i]]
  BY <1>2 DEF PublicationInv, TypeOK
<1>6. \A i \in 1..Last : i = at => Placed(i)'
  BY <1>1, <1>3 DEF PublicationInv, TypeOK, Copied, Placed
<1>7. \A i \in 1..at : Placed(i)'
  BY <1>1, <1>3, <1>5, <1>6, Indices DEF Placed
<1>8. \A i \in (at + 1)..Last : Copied(i)'
  BY <1>1, <1>3, <1>5, Indices DEF Copied
<1>9. \A p \in Paths : temp'[p] = Nothing \/ p \in pending' \cup stuck'
  BY <1>1 DEF PublicationInv, TypeOK, TemporariesRecorded
<1>10. QED
  BY <1>4, <1>7, <1>8, <1>9

LEMMA PublicationInvStep == PublicationInv /\ [Next]_vars => PublicationInv'
<1> SUFFICES ASSUME PublicationInv, [Next]_vars PROVE PublicationInv'
  OBVIOUS
<1>0. TypeOK /\ TypeOK' /\ MixedStuck'
  BY TypeCorrectStep, MixedStep DEF PublicationInv
<1>a. at \in 1..Last /\ Out \in Paths /\ Out = Outputs[at]
  BY <1>0, Indices DEF TypeOK, Out
<1>b. \A i \in 1..Last : i # at => Outputs[i] # Out /\ Outputs[i] \in Paths
  BY <1>a, Indices
<1>1. CASE Begin
  <2>1. /\ UNCHANGED <<target, temp, backup, stuck>> /\ pc' = "check" /\ at' = 1
        /\ pending' = {} /\ pc \in {"idle", "failed"}
    BY <1>1 DEF Begin, fs
  <2>2. QED
    BY <1>0, <2>1, QuietStep
<1>2. CASE Check
  BY <1>0, <1>2, Indices DEF Check, fs, PublicationInv, TargetsWhole, CopiesMade,
     Renamed, InBackup, TemporariesRecorded
<1>3. CASE Copy
  <2>1. PICK w \in BOOLEAN : temp' \in {temp, [temp EXCEPT ![Out] = Rsynced(w)]}
    BY <1>3 DEF Copy
  <2>2. TargetsWhole' /\ InBackup' /\ pc' \in {"copy", "rename", "cleanup"}
    <3>1. pc' \in {"copy", "rename", "cleanup"} /\ UNCHANGED target
      BY <1>3, <1>a, AdvanceStays DEF Copy, Raise
    <3>2. QED
      BY <3>1 DEF PublicationInv, TargetsWhole, InBackup
  <2>3. TemporariesRecorded'
    BY <1>0, <1>3, <1>a, <2>1, <2>2 DEF Copy, PublicationInv, TemporariesRecorded, TypeOK
  <2>4. CASE pc' = "cleanup"
    BY <1>0, <2>2, <2>3, <2>4 DEF PublicationInv, CopiesMade, Renamed
  <2>5. CASE pc' # "cleanup"
    <3>1. temp' = [temp EXCEPT ![Out] = Rsynced(TRUE)] /\ Advance("copy", "rename")
          /\ UNCHANGED <<kind, calls>>
      BY <1>3, <2>5 DEF Copy, Raise
    <3>2. \A i \in 1..at : Copied(i)'
      BY <1>0, <1>3, <1>a, <1>b, <3>1
      DEF Copy, Copied, Rsynced, Entry, PublicationInv, CopiesMade, TypeOK
    <3>3. \A i \in (at + 1)..Last : Outputs[i] \notin pending'
      <4>1. pending' = pending \cup {Out}
        BY <1>3, <2>5 DEF Copy, Raise
      <4>2. \A i \in at..Last : Outputs[i] \notin pending
        BY <1>3 DEF Copy, PublicationInv, CopiesMade
      <4>3. \A i \in (at + 1)..Last : i \in at..Last /\ i \in 1..Last /\ i # at
        BY <1>a, Indices
      <4>4. QED
        BY <1>b, <4>1, <4>2, <4>3
    <3>4. CopiesMade' /\ Renamed'
      BY <1>a, <3>1, <3>2, <3>3, AdvanceStays DEF CopiesMade, Renamed
    <3>5. QED
      BY <1>0, <2>2, <2>3, <3>4 DEF PublicationInv
  <2>6. QED
    BY <2>4, <2>5
<1>4. CASE Rename
  <2>1. CASE pc' = "cleanup"
    BY <1>0, <1>4, <2>1, QuietStep, AdvanceStays DEF Rename, Raise, TypeOK
  <2>2. CASE pc' # "cleanup"
    <3>1. /\ target' = [target EXCEPT ![Out] = temp[Out]]
          /\ temp' = [temp EXCEPT ![Out] = Nothing]
          /\ Advance("rename", "done") /\ pc = "rename"
          /\ UNCHANGED <<pending, kind, calls, backup, stuck>>
      BY <1>4, <2>2 DEF Rename, Raise
    <3>2. Renamed'
      BY <1>a, <3>1, Placing, AdvanceStays, Indices DEF Renamed
    <3>3. QED
      BY <1>0, <1>a, <3>1, <3>2, Placing, AdvanceStays
      DEF PublicationInv, CopiesMade, InBackup, TemporariesRecorded
  <2>3. QED
    BY <2>1, <2>2
<1>5. CASE SetAside
  <2>1. CASE pc' = "cleanup"
    BY <1>0, <1>5, <2>1, QuietStep DEF SetAside, fs, Raise, TypeOK
  <2>2. CASE pc' # "cleanup"
    <3>1. /\ backup' = [backup EXCEPT ![Out] = target[Out]]
          /\ target' = [target EXCEPT ![Out] = Nothing]
          /\ pc = "rename" /\ pc' = "swap" /\ IsDir(target[Out])
          /\ UNCHANGED <<at, pending, kind, calls, temp, stuck>>
      BY <1>5, <2>2 DEF SetAside, Raise
    <3>2. \A i \in 1..Last : Copied(i) => Copied(i)'
      BY <3>1 DEF Copied
    <3>3. \A i \in 1..(at - 1) : Placed(i)'
      BY <1>a, <1>b, <3>1, Indices DEF PublicationInv, Renamed, Placed, TypeOK
    <3>4. Renamed'
      BY <1>a, <3>1, <3>2, <3>3, Indices DEF PublicationInv, Renamed
    <3>5. TargetsWhole' /\ InBackup'
      BY <1>0, <1>a, <3>1
      DEF PublicationInv, TypeOK, TargetsWhole, InBackup, Out, Nothing, Entry, IsDir
    <3>6. QED
      BY <1>0, <3>1, <3>4, <3>5 DEF PublicationInv, CopiesMade, TemporariesRecorded
  <2>3. QED
    BY <2>1, <2>2
<1>6. CASE Swap
  <2>1. CASE pc' = "restore"
    BY <1>0, <1>6, <2>1
    DEF Swap, PublicationInv, TypeOK, TargetsWhole, CopiesMade, Renamed,
        InBackup, TemporariesRecorded, Copied, Placed, Out
  <2>2. CASE pc' # "restore"
    <3>1. /\ target' = [target EXCEPT ![Out] = temp[Out]]
          /\ temp' = [temp EXCEPT ![Out] = Nothing]
          /\ pc = "swap" /\ pc' = "drop"
          /\ UNCHANGED <<at, pending, kind, calls, backup, stuck>>
      BY <1>6, <2>2 DEF Swap
    <3>2. QED
      BY <1>0, <3>1, Placing
      DEF PublicationInv, CopiesMade, Renamed, InBackup, TemporariesRecorded
  <2>3. QED
    BY <2>1, <2>2
<1>7. CASE Restore
  BY <1>0, <1>7, <1>a
  DEF Restore, Raise, PublicationInv, TypeOK, TargetsWhole, CopiesMade, Renamed,
      InBackup, TemporariesRecorded
<1>8. CASE DropBackup
  <2>1. /\ UNCHANGED <<pending, kind, calls, target, temp, stuck>>
        /\ \/ Advance("rename", "done")
           \/ pc' = "cleanup" /\ at' = at
        /\ pc = "drop"
    BY <1>8 DEF DropBackup, Raise
  <2>2. \A i \in 1..Last : (Placed(i) => Placed(i)') /\ (Copied(i) => Copied(i)')
    BY <2>1 DEF Placed, Copied
  <2>3. (\A i \in 1..at : Placed(i)') /\ (\A i \in (at + 1)..Last : Copied(i)')
    BY <1>a, <2>1, <2>2, Indices DEF PublicationInv, Renamed
  <2>4. Renamed'
    BY <1>a, <2>1, <2>3, AdvanceStays, Indices DEF Renamed
  <2>5. QED
    BY <1>0, <1>a, <2>1, <2>4, AdvanceStays
    DEF PublicationInv, TargetsWhole, CopiesMade, InBackup, TemporariesRecorded
<1>9. CASE Cleanup
  <2>1. /\ \A p \in Paths : \/ temp'[p] = Nothing
                            \/ temp[p] # Nothing /\ (p \in stuck' \/ p \notin pending)
        /\ stuck \subseteq stuck'
    <3>1. TypeOK /\ Cleanup
      BY <1>0, <1>9
    <3>2. QED
      BY ONLY <3>1, CleanupEffect
  <2>2. /\ UNCHANGED <<pending, kind, calls, target, backup>>
        /\ pc' \in {"published", "failed"} /\ (pc' = "published" => pc = "done")
    BY <1>9 DEF Cleanup
  <2>3. \A i \in 1..Last : Placed(i) => Placed(i)'
    BY <2>1, <2>2, Indices DEF Placed
  <2>4. \A p \in Paths : temp'[p] = Nothing \/ p \in stuck'
    BY <2>1 DEF PublicationInv, TemporariesRecorded
  <2>5. QED
    BY <1>0, <2>2, <2>3, <2>4
    DEF PublicationInv, TargetsWhole, CopiesMade, Renamed, InBackup,
        TemporariesRecorded
<1>10. CASE UNCHANGED vars
  BY <1>0, <1>10 DEF vars, PublicationInv, TargetsWhole, CopiesMade, Renamed,
     InBackup, TemporariesRecorded, Copied, Placed, Out
<1>11. QED
  BY <1>1, <1>2, <1>3, <1>4, <1>5, <1>6, <1>7, <1>8, <1>9, <1>10 DEF Next

-----------------------------------------------------------------------------
\* TargetsWhole: a copy that breaks off never reaches the path of an output,
\* nor does a backup that was only partly removed.
THEOREM TargetsWholeHolds == Spec => []TargetsWhole
<1>1. PublicationInv => TargetsWhole
  BY DEF PublicationInv
<1>2. QED
  BY <1>1, PublicationInvInit, PublicationInvStep, PTL DEF Spec

\* PublishedAll: a retrieval that returns has put every output of this run at
\* its path, whatever earlier retrievals left behind, and files of an earlier
\* one among it only where a clean-up had failed to remove a temporary.
THEOREM PublishedAllHolds == Spec => []PublishedAll
<1>1. PublicationInv => PublishedAll
  BY Indices DEF PublicationInv, Renamed, Placed, MixedStuck, PublishedAll
<1>2. QED
  BY <1>1, PublicationInvInit, PublicationInvStep, PTL DEF Spec

\* NoTemporaryLeft: a retrieval that returns has left no temporary, and one
\* that failed only such as its own clean-up, or an earlier one, could not
\* remove.
THEOREM NoTemporaryLeftHolds == Spec => []NoTemporaryLeft
<1>1. PublicationInv => NoTemporaryLeft
  BY Indices DEF PublicationInv, Renamed, Placed, TemporariesRecorded,
     NoTemporaryLeft
<1>2. QED
  BY <1>1, PublicationInvInit, PublicationInvStep, PTL DEF Spec

\* A target changes in the phase of the renames only.
LEMMA TargetChanges ==
  ASSUME PublicationInv, [Next]_vars, target' # target
  PROVE  pc \in {"rename", "swap", "restore"}
BY DEF Next, vars, fs, Begin, Check, Copy, Rename, SetAside, Swap, Restore,
       DropBackup, Cleanup

\* NothingBeforeAllCopied: the first target changes after the last copy has
\* been made.
THEOREM NothingBeforeAllCopiedHolds == Spec => NothingBeforeAllCopied
<1>1. ASSUME PublicationInv, [Next]_vars, target' # target, NEW p \in Paths
      PROVE  \/ temp[p].version = calls /\ temp[p].whole /\ temp[p].kind # "none"
             \/ target[p].version = calls /\ target[p].whole
  <2>1. PICK i \in 1..Last : p = Outputs[i]
    BY Indices
  <2>2. Placed(i) \/ Copied(i)
    BY <1>1, TargetChanges, Indices DEF PublicationInv, TypeOK, Renamed
  <2>3. kind[p] \in {"file", "dir"}
    BY <1>1, ConstantsAssumption DEF PublicationInv, TypeOK
  <2>4. QED
    BY <2>1, <2>2, <2>3 DEF Placed, Copied
<1>2. PublicationInv /\ [Next]_vars
        => [target' # target =>
              \A p \in Paths :
                \/ temp[p].version = calls /\ temp[p].whole /\ temp[p].kind # "none"
                \/ target[p].version = calls /\ target[p].whole]_vars
  BY <1>1
<1>3. QED
  BY <1>2, PublicationInvInit, PublicationInvStep, PTL
  DEF Spec, NothingBeforeAllCopied

\* NothingLost: what was at a path, or in its backup, is not lost before the
\* new version is there, in any sequence of failing retrievals.
THEOREM NothingLostHolds == Spec => NothingLost
<1>1. ASSUME PublicationInv, [Next]_vars, NEW p \in Paths,
             target[p].kind # "none" \/ backup[p].kind # "none"
      PROVE  target'[p].kind # "none" \/ backup'[p].kind # "none"
  <2>1. at \in 1..Last /\ Out \in Paths /\ Out = Outputs[at]
    BY <1>1, Indices DEF PublicationInv, TypeOK, Out
  <2>2. kind[Out] \in {"file", "dir"}
    BY <1>1, <2>1, ConstantsAssumption DEF PublicationInv, TypeOK
  <2>3. CASE Rename \/ Swap
    <3>1. temp[Out].kind # "none"
      BY <1>1, <2>1, <2>2, <2>3, Indices
      DEF Rename, Swap, PublicationInv, Renamed, Copied
    <3>2. QED
      BY <1>1, <2>1, <2>3, <3>1 DEF Rename, Swap, PublicationInv, TypeOK
  <2>4. CASE SetAside
    BY <1>1, <2>1, <2>4 DEF SetAside, fs, IsDir, PublicationInv, TypeOK
  <2>5. CASE Restore
    BY <1>1, <2>1, <2>5 DEF Restore, PublicationInv, InBackup, TypeOK
  <2>6. CASE DropBackup
    <3>1. target[Out].kind # "none"
      BY <1>1, <2>1, <2>2, <2>6, Indices
      DEF DropBackup, PublicationInv, Renamed, Placed
    <3>2. QED
      BY <1>1, <2>1, <2>6, <3>1 DEF DropBackup, PublicationInv, TypeOK
  <2>7. CASE UNCHANGED <<target, backup>>
    BY <1>1, <2>7
  <2>8. QED
    BY <1>1, <2>3, <2>4, <2>5, <2>6, <2>7
    DEF Next, vars, fs, Begin, Check, Copy, Cleanup
<1>2. PublicationInv /\ [Next]_vars
        => [\A p \in Paths :
              target[p].kind # "none" \/ backup[p].kind # "none"
                => target'[p].kind # "none" \/ backup'[p].kind # "none"]_vars
  BY <1>1
<1>3. QED
  BY <1>2, PublicationInvInit, PublicationInvStep, PTL DEF Spec, NothingLost
=============================================================================
