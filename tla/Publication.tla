---------------------------- MODULE Publication -----------------------------
(***************************************************************************)
(* Transport.retrieve_outputs: the outputs of a job are copied beside      *)
(* their targets in the working directory, then renamed into place one     *)
(* after the other; a directory that replaces a directory goes through a   *)
(* backup.  Any step may fail, and a failure leaves through the finally    *)
(* clause.  A job that failed may be run and retrieved again by the same   *)
(* process, which uses the same temporary and backup names.                *)
(***************************************************************************)
EXTENDS Naturals, Sequences, FiniteSets

CONSTANTS
  Outputs,   \* the declared outputs, in order: a sequence of distinct paths
  Kinds,     \* what an output or an existing target may be
  MaxCalls,  \* retrievals of the job by one process (bound)
  MaxErrors  \* steps that fail (bound)

ASSUME ConstantsAssumption ==
  /\ Kinds \subseteq {"file", "dir"}
  /\ MaxCalls \in Nat /\ MaxErrors \in Nat

\* _safe_paths keeps each path once; without a path the call does nothing.
ASSUME OutputsAssumption ==
  /\ Outputs \in Seq({Outputs[i] : i \in DOMAIN Outputs})
  /\ Outputs # <<>>
  /\ \A i, j \in DOMAIN Outputs : Outputs[i] = Outputs[j] => i = j

VARIABLES
  pc,      \* where retrieve_outputs stands
  at,      \* index of the output being copied or renamed
  pending, \* outputs whose temporary name has been recorded
  kind,    \* what each output is on the worker
  calls,   \* retrievals so far: the version of the outputs on the worker
  target,  \* what is at the target's path
  temp,    \* what is at the temporary path
  backup,  \* what is at the backup path
  errors,
  stuck    \* history: outputs whose temporary a failing clean-up has left

vars == <<pc, at, pending, kind, calls, target, temp, backup, errors, stuck>>
fs == <<target, temp, backup>>

Paths == {Outputs[i] : i \in DOMAIN Outputs}
Last == Len(Outputs)
Out == Outputs[at]

\* Something at a path: the version of its content, whether all of it is
\* there, whether it lies in a directory of the output's name inside, and
\* whether files of an earlier version may be among it.
Entry(k, v, whole, nested, mixed) ==
  [kind |-> k, version |-> v, whole |-> whole, nested |-> nested,
   mixed |-> mixed]
Nothing == Entry("none", 0, TRUE, FALSE, FALSE)
Old(k) == Entry(k, 0, TRUE, FALSE, FALSE)
IsDir(entry) == entry.kind = "dir"

Init ==
  /\ pc = "idle"
  /\ at = 1
  /\ pending = {}
  /\ kind \in [Paths -> Kinds]
  /\ calls = 0
  /\ target \in [Paths -> {Nothing} \cup {Old(k) : k \in Kinds}]
  /\ temp = [p \in Paths |-> Nothing]
  /\ backup = [p \in Paths |-> Nothing]
  /\ errors = 0
  /\ stuck = {}

Ok == UNCHANGED errors
Error == errors < MaxErrors /\ errors' = errors + 1
Raise == pc' = "cleanup"

\* Mutation: the index is not reset for the next phase.
Advance_NoReset(phase, after) ==
  at' = at + 1 /\ pc' = IF at < Last THEN phase ELSE after

\* Mutation: the first copy is renamed before the others are made.
Advance_Eager(phase, after) ==
  IF at < Last /\ phase # "copy" THEN pc' = phase /\ at' = at + 1
  ELSE pc' = after /\ at' = 1

\* The next output, or the next phase after the last one.
Advance(phase, after) ==
  IF at < Last THEN pc' = phase /\ at' = at + 1 ELSE pc' = after /\ at' = 1

-----------------------------------------------------------------------------
\* The job has run (again) and its outputs are tested on the worker.
Begin ==
  /\ pc \in {"idle", "failed"}
  /\ calls < MaxCalls
  /\ calls' = calls + 1
  /\ pc' = "check"
  /\ at' = 1
  /\ pending' = {}
  /\ UNCHANGED <<kind, fs, errors, stuck>>

\* A failure here is before the try block.
Check ==
  /\ pc = "check"
  /\ \/ Ok /\ pc' = "copy"
     \/ Error /\ pc' = "failed"
  /\ UNCHANGED <<at, pending, kind, calls, fs, stuck>>

\* rsync -a without --relative, --delete and a trailing slash: a file is copied
\* to the name given; a directory is copied into a directory of that name,
\* which is made if need be, and what is there already stays.
Rsynced(whole) ==
  Entry(kind[Out], calls, whole, kind[Out] = "dir", IsDir(temp[Out]))

\* Mutation: the outputs are copied to their targets.
Copy_InPlace ==
  /\ pc = "copy"
  /\ pending' = pending \cup {Out}
  /\ \/ /\ Ok /\ target' = [target EXCEPT ![Out] = Rsynced(TRUE)]
        /\ Advance("copy", "rename")
     \/ /\ Error /\ Raise /\ UNCHANGED at
        /\ target' = [target EXCEPT ![Out] = Rsynced(FALSE)]
  /\ UNCHANGED <<kind, calls, temp, backup, stuck>>

\* Mutation: the temporary is recorded once it has been made.
Copy_RecordsLate ==
  /\ pc = "copy"
  /\ \/ /\ Ok /\ temp' = [temp EXCEPT ![Out] = Rsynced(TRUE)]
        /\ pending' = pending \cup {Out}
        /\ Advance("copy", "rename")
     \/ /\ Error /\ Raise /\ UNCHANGED <<at, pending>>
        /\ temp' = [temp EXCEPT ![Out] = Rsynced(FALSE)]
  /\ UNCHANGED <<kind, calls, target, backup, stuck>>

\* Nothing is recorded if the target's directory cannot be made; a copy that
\* fails may leave a part of it.
Copy ==
  /\ pc = "copy"
  /\ \/ /\ Ok /\ temp' = [temp EXCEPT ![Out] = Rsynced(TRUE)]
        /\ pending' = pending \cup {Out}
        /\ Advance("copy", "rename")
     \/ /\ Error /\ Raise /\ UNCHANGED at
        /\ \/ UNCHANGED <<pending, temp>>
           \/ /\ pending' = pending \cup {Out}
              /\ temp' \in {temp, [temp EXCEPT ![Out] = Rsynced(FALSE)]}
  /\ UNCHANGED <<kind, calls, target, backup, stuck>>

\* os.replace works from a file to anything but a directory, and from a
\* directory to nothing or to an empty directory, which no entry here is.
Replaceable(from, to) == to.kind = "none" \/ (~IsDir(from) /\ ~IsDir(to))

Rename ==
  /\ pc = "rename"
  /\ ~(IsDir(temp[Out]) /\ IsDir(target[Out]))
  /\ \/ /\ Ok /\ Replaceable(temp[Out], target[Out])
        /\ target' = [target EXCEPT ![Out] = temp[Out]]
        /\ temp' = [temp EXCEPT ![Out] = Nothing]
        /\ Advance("rename", "done")
     \/ /\ Ok /\ ~Replaceable(temp[Out], target[Out])
        /\ Raise /\ UNCHANGED <<at, target, temp>>
     \/ Error /\ Raise /\ UNCHANGED <<at, target, temp>>
  /\ UNCHANGED <<pending, kind, calls, backup, stuck>>

\* A directory replaces a directory: first the old one goes to the backup.
SetAside ==
  /\ pc = "rename"
  /\ IsDir(temp[Out]) /\ IsDir(target[Out])
  /\ \/ /\ Ok /\ backup[Out].kind = "none"
        /\ backup' = [backup EXCEPT ![Out] = target[Out]]
        /\ target' = [target EXCEPT ![Out] = Nothing]
        /\ pc' = "swap"
     \/ Ok /\ backup[Out].kind # "none" /\ Raise /\ UNCHANGED fs
     \/ Error /\ Raise /\ UNCHANGED fs
  /\ UNCHANGED <<at, pending, kind, calls, temp, stuck>>

\* Mutation: the backup is removed in a finally clause.
Swap_AlwaysDrops ==
  /\ pc = "swap"
  /\ pc' = "drop"
  /\ \/ /\ Ok
        /\ target' = [target EXCEPT ![Out] = temp[Out]]
        /\ temp' = [temp EXCEPT ![Out] = Nothing]
     \/ Error /\ UNCHANGED <<target, temp>>
  /\ UNCHANGED <<at, pending, kind, calls, backup, stuck>>

Swap ==
  /\ pc = "swap"
  /\ \/ /\ Ok /\ pc' = "drop"
        /\ target' = [target EXCEPT ![Out] = temp[Out]]
        /\ temp' = [temp EXCEPT ![Out] = Nothing]
     \/ Error /\ pc' = "restore" /\ UNCHANGED <<target, temp>>
  /\ UNCHANGED <<at, pending, kind, calls, backup, stuck>>

\* Mutation: the handler does not raise again.
Restore_Swallows ==
  /\ pc = "restore"
  /\ Ok /\ Advance("rename", "done")
  /\ target' = [target EXCEPT ![Out] = backup[Out]]
  /\ backup' = [backup EXCEPT ![Out] = Nothing]
  /\ UNCHANGED <<pending, kind, calls, temp, stuck>>

\* The handler puts the old directory back, if it can.
Restore ==
  /\ pc = "restore"
  /\ \/ /\ Ok
        /\ target' = [target EXCEPT ![Out] = backup[Out]]
        /\ backup' = [backup EXCEPT ![Out] = Nothing]
     \/ Error /\ UNCHANGED <<target, backup>>
  /\ Raise
  /\ UNCHANGED <<at, pending, kind, calls, temp, stuck>>

\* rmtree of the backup; what cannot be removed stays.
DropBackup ==
  /\ pc = "drop"
  /\ \/ /\ Ok /\ backup' = [backup EXCEPT ![Out] = Nothing]
        /\ Advance("rename", "done")
     \/ /\ Error /\ Raise /\ UNCHANGED at
        /\ backup' = [backup EXCEPT ![Out].whole = FALSE]
  /\ UNCHANGED <<pending, kind, calls, target, temp, stuck>>

\* A tree that cannot be removed may have lost some of its files.
Unremoved(entry) ==
  {entry} \cup (IF IsDir(entry) THEN {[entry EXCEPT !.whole = FALSE]} ELSE {})

\* The finally clause removes what is left of the recorded temporaries, in
\* order.  A removal that fails keeps this one and those after it, and its
\* error is what the caller gets, also of a retrieval that was done.
Cleanup ==
  /\ pc \in {"cleanup", "done"}
  /\ \/ /\ Ok /\ UNCHANGED stuck
        /\ temp' = [p \in Paths |-> IF p \in pending THEN Nothing ELSE temp[p]]
        /\ pc' = IF pc = "done" THEN "published" ELSE "failed"
     \/ /\ Error /\ pc' = "failed"
        /\ \E k \in {i \in 1..Last : Outputs[i] \in pending} :
             LET left == {Outputs[i] : i \in k..Last} \cap pending
             IN \E entry \in Unremoved(temp[Outputs[k]]) :
                  /\ temp' = [p \in Paths |->
                        CASE p = Outputs[k] -> entry
                          [] p \in pending \ left -> Nothing
                          [] OTHER -> temp[p]]
                  /\ stuck' = stuck \cup left
  /\ UNCHANGED <<at, pending, kind, calls, target, backup>>

Next == \/ Begin \/ Check \/ Copy \/ Rename \/ SetAside \/ Swap \/ Restore
        \/ DropBackup \/ Cleanup

Spec == Init /\ [][Next]_vars

-----------------------------------------------------------------------------
(* Properties                                                              *)

Entries == [kind : {"none", "file", "dir"}, version : 0..MaxCalls,
            whole : BOOLEAN, nested : BOOLEAN, mixed : BOOLEAN]

TypeOK ==
  /\ pc \in {"idle", "check", "copy", "rename", "swap", "restore", "drop",
             "cleanup", "done", "published", "failed"}
  /\ at \in 1..Last
  /\ pending \subseteq Paths
  /\ kind \in [Paths -> Kinds]
  /\ calls \in 0..MaxCalls
  /\ target \in [Paths -> Entries]
  /\ temp \in [Paths -> Entries]
  /\ backup \in [Paths -> Entries]
  /\ errors \in 0..MaxErrors
  /\ stuck \subseteq Paths

\* "failed second transfer does not publish first output": a target changes
\* only once every output has been copied completely.
NothingBeforeAllCopied ==
  [][target' # target =>
       \A p \in Paths :
         \/ temp[p].version = calls /\ temp[p].whole /\ temp[p].kind # "none"
         \/ target[p].version = calls /\ target[p].whole]_vars

\* Nothing incomplete is ever seen at the path of an output.
TargetsWhole == \A p \in Paths : target[p].whole

\* What was at a path is there or in its backup until something newer is
\* there: no failure, nor two in a row, loses both.
NothingLost ==
  [][\A p \in Paths :
       target[p].kind # "none" \/ backup[p].kind # "none"
         => target'[p].kind # "none" \/ backup'[p].kind # "none"]_vars

\* A call that returns has published the outputs of this run, all of them and
\* nothing else: files of an earlier run may be among a directory only if the
\* clean-up of an earlier call could not remove that output's temporary.
PublishedAll ==
  pc = "published" => \A p \in Paths : /\ target[p].version = calls
                                       /\ target[p].kind = kind[p]
                                       /\ target[p].mixed => p \in stuck

\* A call that returns leaves no temporary beside the targets, and one that
\* fails only those its clean-up, or an earlier one's, could not remove.
NoTemporaryLeft ==
  /\ pc = "published" => \A p \in Paths : temp[p] = Nothing
  /\ pc = "failed" => \A p \in Paths : temp[p] = Nothing \/ p \in stuck

\* A directory output replaces the existing directory: its files are at the
\* paths they have on the worker.
DirectoryAsOnWorker ==
  pc = "published" => \A p \in Paths : ~target[p].nested
=============================================================================
