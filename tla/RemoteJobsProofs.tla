-------------------------- MODULE RemoteJobsProofs --------------------------
(***************************************************************************)
(* Proofs about RemoteJobs, for any number of jobs, workers, submissions   *)
(* and lost commands, every timeout and every set of faults.               *)
(***************************************************************************)
EXTENDS RemoteJobs, SequenceTheorems, FiniteSetTheorems, TLAPS

-----------------------------------------------------------------------------
(* What the updates of the sequences of processes do.                      *)

LEMMA SetProcEffect ==
  ASSUME proc \in [Jobs -> Seq(Process)], NEW j \in Jobs, NEW i \in DOMAIN proc[j],
         NEW f \in Process, SetProc(j, i, f)
  PROVE  /\ proc' \in [Jobs -> Seq(Process)]
         /\ \A k \in Jobs : DOMAIN proc'[k] = DOMAIN proc[k]
         /\ \A k \in Jobs : \A m \in DOMAIN proc[k] :
              proc'[k][m] = IF k = j /\ m = i THEN f ELSE proc[k][m]
<1>1. [proc[j] EXCEPT ![i] = f] \in Seq(Process)
  BY ExceptSeq
<1>2. proc' = [proc EXCEPT ![j] = [proc[j] EXCEPT ![i] = f]]
  BY DEF SetProc
<1>3. QED
  BY <1>1, <1>2

LEMMA SpawnEffect ==
  ASSUME proc \in [Jobs -> Seq(Process)], NEW j \in Jobs, Spawn(j), NEW h \in Hosts,
         h = host[j], dir[<<h, j>>].staged \in BOOLEAN
  PROVE  /\ proc' \in [Jobs -> Seq(Process)]
         /\ \A k \in Jobs \ {j} : proc'[k] = proc[k]
         /\ Len(proc[j]) \in Nat /\ DOMAIN proc[j] = 1..Len(proc[j])
         /\ Len(proc'[j]) = Len(proc[j]) + 1
         /\ DOMAIN proc'[j] = 1..(Len(proc[j]) + 1)
         /\ \A m \in DOMAIN proc[j] : proc'[j][m] = proc[j][m]
         /\ proc'[j][Len(proc[j]) + 1] = [host |-> h, phase |-> "born", ok |-> FALSE,
                           here |-> TRUE, term |-> FALSE,
                           inputs |-> dir[<<h, j>>].staged]
<1> DEFINE p == [host |-> h, phase |-> "born", ok |-> FALSE,
                 here |-> TRUE, term |-> FALSE,
                           inputs |-> dir[<<h, j>>].staged]
<1>1. p \in Process
  BY DEF Process
<1>2. proc' = [proc EXCEPT ![j] = Append(proc[j], p)]
  BY DEF Spawn, D
<1>3. proc[j] \in Seq(Process)
  OBVIOUS
<1> HIDE DEF p
<1>4. /\ Append(proc[j], p) \in Seq(Process)
      /\ Len(Append(proc[j], p)) = Len(proc[j]) + 1
      /\ \A m \in 1..Len(proc[j]) : Append(proc[j], p)[m] = proc[j][m]
      /\ Append(proc[j], p)[Len(proc[j]) + 1] = p
  BY <1>1, <1>3
<1>5. QED
  BY <1>2, <1>3, <1>4 DEF p

\* A rewriting of the processes one by one: by rm -rf, or by SIGTERM.
LEMMA MappedEffect ==
  ASSUME proc \in [Jobs -> Seq(Process)], NEW P \in [Jobs -> Seq(Process)],
         \A k \in Jobs : DOMAIN P[k] = DOMAIN proc[k]
  PROVE  \A k \in Jobs : Len(P[k]) = Len(proc[k])
BY LenProperties

-----------------------------------------------------------------------------
(* Types.                                                                  *)

\* The stages of the polling thread in which it handles a job.
Handling == {"exit", "pid", "unreachable", "timeout", "failed", "cleanup",
             "retrieve", "discard", "report"}

\* A thread that works on a job has one, and one that does not has none.
ThreadsTyped ==
  /\ IF sub.stage = "idle" THEN sub.job = NoJob ELSE sub.job \in Jobs
  /\ poll.stage \in Handling => poll.job \in Jobs
  /\ poll.stage \in {"sleep", "next"} => poll.job = NoJob
  /\ poll.stage = "sleep" => poll.todo = {} /\ poll.kept = {}

\* A pid file names a process that was launched.
PidTyped ==
  \A h \in Hosts, j \in Jobs : dir[<<h, j>>].pid # 0
                               => dir[<<h, j>>].pid \in DOMAIN proc[j]

TypeInv == TypeOK /\ ThreadsTyped /\ PidTyped

Dirs == [made : BOOLEAN, incoming : {"none", "empty", "full"}, staged : BOOLEAN,
         pid : Nat, exit : {"none", "0", "1"}]
Subs == [job : Jobs \cup {NoJob}, stage : SubStages]
Polls == [stage : PollStages, job : Jobs \cup {NoJob}, todo : SUBSET Jobs,
          kept : SUBSET Jobs]

LEMMA HostsFacts == /\ 0 \in Hosts
                    /\ \A h \in Hosts : (h + 1) % NHosts \in Hosts
BY ConstantsAssumption DEF Hosts

LEMMA TypeInvInit == Init => TypeInv
<1> SUFFICES ASSUME Init PROVE TypeInv
  OBVIOUS
<1>1. proc \in [Jobs -> Seq(Process)]
  BY DEF Init
<1>2. dir \in [Hosts \X Jobs -> Dirs]
  BY DEF Init, Dirs, Fresh
<1>3. since \in [Jobs -> {NoTimer} \cup (0..Timeout)] /\ losses \in 0..MaxLosses
      /\ attempt \in [Jobs -> 0..MaxAttempts] /\ host \in [Jobs -> Hosts] /\ next \in Hosts
  BY HostsFacts, ConstantsAssumption DEF Init
<1>4. TypeOK
  BY <1>1, <1>2, <1>3 DEF Init, TypeOK, Dirs, SubStages, PollStages
<1>5. PidTyped
  BY DEF Init, PidTyped, Fresh
<1>6. QED
  BY <1>4, <1>5 DEF Init, TypeInv, ThreadsTyped, Handling

\* The commands over ssh: what they may do to the count of losses.
LEMMA LossesBounded ==
  ASSUME TypeOK, NEW h, Answers(h) \/ NoAnswer(h) \/ UNCHANGED losses
  PROVE  losses' \in 0..MaxLosses
BY ConstantsAssumption DEF TypeOK, Answers, NoAnswer

\* What a step of the submission leaves alone, and what it does to the threads:
\* the job stays under submission, with the failure noted when an error is
\* raised, or it is handed to the polling thread.
SubmissionKept ==
  UNCHANGED <<attempt, verdict, host, next, poll, since, local, mode, heard,
              unlisted, down>>
StaysSubmitted ==
  \E st \in SubStages \ {"idle"} :
    /\ sub' = [sub EXCEPT !.stage = st] /\ active' = active
    /\ IF st = "raised" THEN failed' = TRUE ELSE failed' = failed
    /\ sub.stage \notin {"idle", "raised"}
    /\ sub.stage = "launch" => st \in {"await", "raised"}
    /\ sub.stage = "await" => st = "raised"
HandedOver ==
  /\ sub.stage = "await" /\ dir[D(sub.job)].pid # 0
  /\ active' = active \cup {sub.job} /\ sub' = [job |-> NoJob, stage |-> "idle"]
  /\ failed' = failed

LEMMA SubmissionThreads ==
  ASSUME Submission
  PROVE  SubmissionKept /\ (StaysSubmitted \/ HandedOver)
<1> USE DEF SubmissionKept, StaysSubmitted, subOnly, SubTo, Raise, SubStages
<1>1. CASE Prepare
  BY <1>1 DEF Prepare
<1>2. CASE MakeIncoming
  BY <1>2 DEF MakeIncoming
<1>3. CASE RsyncInputs
  BY <1>3 DEF RsyncInputs
<1>4. CASE MoveInputs
  BY <1>4 DEF MoveInputs
<1>5. CASE LinkCache
  BY <1>5 DEF LinkCache
<1>6. CASE Launch
  BY <1>6 DEF Launch
<1>7. CASE LaunchReply
  BY <1>7 DEF LaunchReply, HandedOver
<1>8. QED
  BY <1>1, <1>2, <1>3, <1>4, <1>5, <1>6, <1>7 DEF Submission

\* A directory whose pid and exit file are left alone.
PidAndExitKept ==
  /\ dir' \in [Hosts \X Jobs -> Dirs]
  /\ \A e \in Hosts \X Jobs : dir'[e].pid = dir[e].pid /\ dir'[e].exit = dir[e].exit

LEMMA DirUpdate ==
  ASSUME dir \in [Hosts \X Jobs -> Dirs], NEW d \in Hosts \X Jobs
  PROVE  /\ dir' = dir => PidAndExitKept
         /\ dir' = [dir EXCEPT ![d].made = TRUE] => PidAndExitKept
         /\ dir' = [dir EXCEPT ![d].incoming = "full"] => PidAndExitKept
         /\ dir' = [dir EXCEPT ![d].made = TRUE,
                               ![d].incoming = IF @ = "none" THEN "empty" ELSE @]
              => PidAndExitKept
         /\ dir' = [dir EXCEPT ![d].staged = TRUE, ![d].incoming = "none"]
              => PidAndExitKept
<1> USE DEF PidAndExitKept, Dirs
<1>1. dir' = dir => PidAndExitKept
  OBVIOUS
<1>2. ASSUME dir' = [dir EXCEPT ![d].made = TRUE]
      PROVE  PidAndExitKept
  <2> DEFINE f == [dir[d] EXCEPT !.made = TRUE]
  <2>1. f \in Dirs /\ f.pid = dir[d].pid /\ f.exit = dir[d].exit
    OBVIOUS
  <2>2. dir' = [dir EXCEPT ![d] = f]
    BY <1>2
  <2> HIDE DEF f
  <2>3. QED
    BY <2>1, <2>2
<1>3. dir' = [dir EXCEPT ![d].incoming = "full"] => PidAndExitKept
  OBVIOUS
<1>4. ASSUME dir' = [dir EXCEPT ![d].made = TRUE,
                                ![d].incoming = IF @ = "none" THEN "empty" ELSE @]
      PROVE  PidAndExitKept
  <2> DEFINE f == [dir[d] EXCEPT !.made = TRUE,
                      !.incoming = IF @ = "none" THEN "empty" ELSE @]
  <2>1. f \in Dirs /\ f.pid = dir[d].pid /\ f.exit = dir[d].exit
    OBVIOUS
  <2>2. dir' = [dir EXCEPT ![d] = f]
    BY <1>4
  <2> HIDE DEF f
  <2>3. QED
    BY <2>1, <2>2
<1>5. ASSUME dir' = [dir EXCEPT ![d].staged = TRUE, ![d].incoming = "none"]
      PROVE  PidAndExitKept
  <2> DEFINE f == [dir[d] EXCEPT !.staged = TRUE, !.incoming = "none"]
  <2>1. f \in Dirs /\ f.pid = dir[d].pid /\ f.exit = dir[d].exit
    OBVIOUS
  <2>2. dir' = [dir EXCEPT ![d] = f]
    BY <1>5
  <2> HIDE DEF f
  <2>3. QED
    BY <2>1, <2>2
<1>6. QED
  BY <1>1, <1>2, <1>3, <1>4, <1>5

\* What it does to the worker: only the launch starts a process, and neither
\* pid nor exit file is written.
LEMMA SubmissionWorker ==
  ASSUME TypeInv, Submission
  PROVE  /\ sub.job \in Jobs /\ sub.stage # "idle"
         /\ PidAndExitKept
         /\ proc' = proc \/ (Spawn(sub.job) /\ sub.stage = "launch"
                             /\ sub'.stage \in {"await", "raised"})
         /\ losses' \in 0..MaxLosses
<1> DEFINE d == D(sub.job)
<1>1. TypeOK /\ ThreadsTyped /\ dir \in [Hosts \X Jobs -> Dirs]
  BY DEF TypeInv, TypeOK, Dirs
<1>2. sub.stage # "idle" /\ sub.job \in Jobs
  BY <1>1 DEF Submission, Prepare, MakeIncoming, RsyncInputs, MoveInputs, LinkCache,
     Launch, LaunchReply, ThreadsTyped
<1>3. d \in Hosts \X Jobs
  BY <1>1, <1>2 DEF TypeOK, D
<1>4. losses' \in 0..MaxLosses
  BY <1>1, LossesBounded DEF Submission, Prepare, MakeIncoming, RsyncInputs,
     MoveInputs, LinkCache, Launch, LaunchReply, Update, UpdateError
<1>5. CASE Prepare \/ LinkCache \/ LaunchReply
  BY <1>1, <1>2, <1>3, <1>4, <1>5, DirUpdate DEF Prepare, LinkCache, LaunchReply, subOnly
<1>6. CASE MakeIncoming
  <2>1. /\ \/ dir' = dir
           \/ dir' = [dir EXCEPT ![d].made = TRUE,
                                 ![d].incoming = IF @ = "none" THEN "empty" ELSE @]
        /\ proc' = proc
    BY <1>6 DEF MakeIncoming, Update, UpdateError, subOnly
  <2>2. PidAndExitKept
    BY <2>1, <1>1, <1>3, DirUpdate
  <2>3. QED
    BY <2>1, <2>2, <1>2, <1>4
<1>7. CASE RsyncInputs
  <2>1. (dir' = dir \/ dir' = [dir EXCEPT ![d].incoming = "full"]) /\ proc' = proc
    BY <1>7 DEF RsyncInputs, Update, UpdateError, subOnly
  <2>2. PidAndExitKept
    BY <2>1, <1>1, <1>3, DirUpdate
  <2>3. QED
    BY <2>1, <2>2, <1>2, <1>4
<1>8. CASE MoveInputs
  <2>1. /\ \/ dir' = dir
           \/ dir' = [dir EXCEPT ![d].staged = TRUE, ![d].incoming = "none"]
        /\ proc' = proc
    BY <1>8 DEF MoveInputs, Update, UpdateError, subOnly
  <2>2. PidAndExitKept
    BY <2>1, <1>1, <1>3, DirUpdate
  <2>3. QED
    BY <2>1, <2>2, <1>2, <1>4
<1>9. CASE Launch
  <2>1. /\ \/ dir' = dir /\ proc' = proc
           \/ Spawn(sub.job) /\ sub'.stage \in {"await", "raised"}
        /\ sub.stage = "launch"
    BY <1>1, <1>9 DEF Launch, SubTo, Raise, TypeOK
  <2>2. PidAndExitKept
    BY <2>1, <1>1, <1>3, DirUpdate DEF Spawn
  <2>3. QED
    BY <1>1, <2>1, <2>2, <1>2, <1>4
<1>10. QED
  BY <1>5, <1>6, <1>7, <1>8, <1>9 DEF Submission

LEMMA SubmissionTyped == TypeInv /\ Submission => TypeInv'
<1> SUFFICES ASSUME TypeInv, Submission PROVE TypeInv'
  OBVIOUS
<1>1. TypeOK /\ ThreadsTyped /\ PidTyped /\ dir \in [Hosts \X Jobs -> Dirs]
  BY DEF TypeInv, TypeOK, Dirs
<1>2. /\ sub.job \in Jobs /\ dir' \in [Hosts \X Jobs -> Dirs]
      /\ \A e \in Hosts \X Jobs : dir'[e].pid = dir[e].pid
      /\ proc' = proc \/ Spawn(sub.job)
      /\ losses' \in 0..MaxLosses
  BY SubmissionWorker DEF PidAndExitKept
<1>3. /\ sub' \in Subs /\ failed' \in BOOLEAN /\ active' \subseteq Jobs
      /\ IF sub'.stage = "idle" THEN sub'.job = NoJob ELSE sub'.job \in Jobs
  <2>1. CASE HandedOver
    BY <2>1, <1>1, <1>2 DEF TypeOK, Subs, HandedOver, SubStages
  <2>2. CASE StaysSubmitted
    <3>1. PICK st \in SubStages \ {"idle"} :
             /\ sub' = [sub EXCEPT !.stage = st] /\ active' = active
             /\ failed' = TRUE \/ failed' = failed
      BY <2>2 DEF StaysSubmitted
    <3>2. sub \in Subs /\ active \subseteq Jobs /\ failed \in BOOLEAN
      BY <1>1 DEF TypeOK, Subs
    <3>3. QED
      BY <3>1, <3>2, <1>2 DEF Subs
  <2>3. QED
    BY <2>1, <2>2, SubmissionThreads
<1>4. proc' \in [Jobs -> Seq(Process)] /\ \A k \in Jobs : DOMAIN proc[k] \subseteq DOMAIN proc'[k]
  <2>1. CASE proc' = proc
    BY <1>1, <2>1 DEF TypeOK
  <2>2. ASSUME NEW j \in Jobs, Spawn(j)
        PROVE  /\ proc' \in [Jobs -> Seq(Process)]
               /\ \A k \in Jobs : DOMAIN proc[k] \subseteq DOMAIN proc'[k]
    <3>1. host[j] \in Hosts /\ proc \in [Jobs -> Seq(Process)]
          /\ dir[<<host[j], j>>].staged \in BOOLEAN
      BY <1>1 DEF TypeOK, Dirs
    <3>2. PICK h \in Hosts : h = host[j]
      BY <3>1
    <3>3. /\ proc' \in [Jobs -> Seq(Process)]
          /\ \A k \in Jobs \ {j} : proc'[k] = proc[k]
          /\ Len(proc[j]) \in Nat /\ DOMAIN proc[j] = 1..Len(proc[j])
          /\ DOMAIN proc'[j] = 1..(Len(proc[j]) + 1)
      BY <2>2, <3>1, <3>2, SpawnEffect
    <3>4. DOMAIN proc[j] \subseteq DOMAIN proc'[j]
      BY <3>3
    <3>5. QED
      BY <3>3, <3>4
  <2>3. QED
    BY <1>2, <2>1, <2>2
<1>5. PidTyped'
  BY <1>1, <1>2, <1>4 DEF PidTyped
<1>6. TypeOK'
  BY <1>1, <1>2, <1>3, <1>4, SubmissionThreads DEF TypeOK, SubmissionKept, Dirs, Subs
<1>7. ThreadsTyped'
  BY <1>1, <1>3, SubmissionThreads DEF ThreadsTyped, SubmissionKept
<1>8. QED
  BY <1>5, <1>6, <1>7 DEF TypeInv

\* A step of a process: it keeps the pid files naming processes.
LEMMA WorkerTyped ==
  ASSUME TypeInv, NEW j \in Jobs, NEW i \in DOMAIN proc[j],
         ProcStart(j, i) \/ ProcEnd(j, i) \/ ProcKilled(j, i)
  PROVE  TypeInv'
<1>1. TypeOK /\ ThreadsTyped /\ PidTyped /\ dir \in [Hosts \X Jobs -> Dirs]
      /\ proc \in [Jobs -> Seq(Process)]
  BY DEF TypeInv, TypeOK, Dirs
<1>2. proc[j][i] \in Process /\ i \in Nat /\ i # 0
  BY <1>1, ElementOfSeq, LenProperties
<1>3. PICK f \in Process : SetProc(j, i, f)
  <2>1. CASE ProcStart(j, i)
    BY <2>1, <1>2 DEF ProcStart, Process
  <2>2. CASE ProcEnd(j, i)
    <3>1. PICK ok \in BOOLEAN : LET good == ok /\ proc[j][i].inputs /\ proc[j][i].here
             IN SetProc(j, i, [proc[j][i] EXCEPT !.phase = "done", !.ok = good])
      BY <2>2 DEF ProcEnd
    <3>2. QED
      BY <3>1, <1>2 DEF Process
  <2>3. CASE ProcKilled(j, i)
    BY <2>3, <1>2 DEF ProcKilled, Process
  <2>4. QED
    BY <2>1, <2>2, <2>3
<1>4. /\ proc' \in [Jobs -> Seq(Process)]
      /\ \A k \in Jobs : DOMAIN proc'[k] = DOMAIN proc[k]
  BY <1>1, <1>3, SetProcEffect
<1> DEFINE d == <<proc[j][i].host, j>>
<1>5. d \in Hosts \X Jobs
  BY <1>2 DEF Process
<1>6. /\ UNCHANGED <<ctlVars, netVars>>
      /\ \/ dir' = dir
         \/ dir' = [dir EXCEPT ![d].pid = i]
         \/ \E e \in {"0", "1"} : dir' = [dir EXCEPT ![d].exit = e]
  <2>1. CASE ProcStart(j, i)
    BY <2>1 DEF ProcStart
  <2>2. CASE ProcEnd(j, i)
    <3>1. PICK ok \in BOOLEAN : LET good == ok /\ proc[j][i].inputs /\ proc[j][i].here
             IN dir' = IF proc[j][i].here
                       THEN [dir EXCEPT ![d].exit = IF good THEN "0" ELSE "1"]
                       ELSE dir
      BY <2>2 DEF ProcEnd
    <3>2. UNCHANGED <<ctlVars, netVars>>
      BY <2>2 DEF ProcEnd
    <3>3. QED
      BY <3>1, <3>2
  <2>3. CASE ProcKilled(j, i)
    BY <2>3 DEF ProcKilled
  <2>4. QED
    BY <2>1, <2>2, <2>3
<1> HIDE DEF d
<1>7. dir' \in [Hosts \X Jobs -> Dirs] /\ PidTyped'
  <2>1. CASE dir' = dir
    BY <2>1, <1>1, <1>4 DEF PidTyped
  <2>2. CASE dir' = [dir EXCEPT ![d].pid = i]
    <3>1. \A e \in Hosts \X Jobs : dir'[e] = IF e = d THEN [dir[d] EXCEPT !.pid = i]
                                             ELSE dir[e]
      BY <2>2, <1>1, <1>5
    <3>2. [dir[d] EXCEPT !.pid = i] \in Dirs
      <4>1. dir[d] \in Dirs
        BY <1>1, <1>5
      <4>2. i \in Nat
        BY <1>2
      <4>3. QED
        BY <4>1, <4>2 DEF Dirs
    <3>3. dir' \in [Hosts \X Jobs -> Dirs]
      BY <2>2, <3>1, <3>2, <1>1, <1>5
    <3>4. ASSUME NEW h \in Hosts, NEW k \in Jobs, dir'[<<h, k>>].pid # 0
          PROVE  dir'[<<h, k>>].pid \in DOMAIN proc'[k]
      <4>1. CASE <<h, k>> = d
        <5>1. k = j
          BY <4>1 DEF d
        <5>2. dir'[<<h, k>>] = [dir[d] EXCEPT !.pid = i] /\ dir[d] \in Dirs
          BY <4>1, <3>1, <1>1, <1>5
        <5>3. dir'[<<h, k>>].pid = i
          BY <5>2 DEF Dirs
        <5>4. QED
          BY <5>1, <5>3, <1>4
      <4>2. CASE <<h, k>> # d
        BY <4>2, <1>1, <1>4, <3>1, <3>4 DEF PidTyped
      <4>3. QED
        BY <4>1, <4>2
    <3>5. QED
      BY <3>3, <3>4 DEF PidTyped
  <2>3. CASE \E e \in {"0", "1"} : dir' = [dir EXCEPT ![d].exit = e]
    <3>1. PICK c \in {"0", "1"} : dir' = [dir EXCEPT ![d].exit = c]
      BY <2>3
    <3>2. \A e \in Hosts \X Jobs : dir'[e] = IF e = d THEN [dir[d] EXCEPT !.exit = c]
                                             ELSE dir[e]
      BY <3>1, <1>1, <1>5
    <3>3. [dir[d] EXCEPT !.exit = c] \in Dirs /\ [dir[d] EXCEPT !.exit = c].pid = dir[d].pid
      BY <1>1, <1>5 DEF Dirs
    <3>4. dir' \in [Hosts \X Jobs -> Dirs]
      BY <3>1, <3>2, <3>3, <1>1, <1>5
    <3>5. QED
      BY <1>1, <1>4, <3>2, <3>3, <3>4 DEF PidTyped
  <2>4. QED
    BY <1>6, <2>1, <2>2, <2>3
<1>8. TypeOK' /\ ThreadsTyped'
  BY <1>1, <1>4, <1>6, <1>7 DEF TypeOK, ThreadsTyped, ctlVars, netVars, Dirs
<1>9. QED
  BY <1>7, <1>8 DEF TypeInv

\* A sequence of processes rewritten one by one is one.
LEMMA RewrittenTyped ==
  ASSUME NEW s \in Seq(Process), NEW f, DOMAIN f = DOMAIN s,
         \A m \in DOMAIN s : f[m] \in Process, f = [m \in DOMAIN s |-> f[m]]
  PROVE  f \in Seq(Process) /\ Len(f) = Len(s)
<1>1. Len(s) \in Nat /\ DOMAIN s = 1..Len(s)
  BY LenProperties
<1>2. [m \in 1..Len(s) |-> f[m]] \in Seq(Process)
  BY <1>1, IsASeq
<1>3. f \in Seq(Process)
  BY <1>1, <1>2
<1>4. QED
  BY <1>1, <1>3, LenProperties

\* What rm -rf leaves: the processes of the directory, in an unlinked one.
LEMMA RemovedEffect ==
  ASSUME TypeInv, NEW j \in Jobs, Removed(j)
  PROVE  /\ proc' \in [Jobs -> Seq(Process)] /\ dir' \in [Hosts \X Jobs -> Dirs]
         /\ \A k \in Jobs : DOMAIN proc'[k] = DOMAIN proc[k]
         /\ \A k \in Jobs : \A m \in DOMAIN proc[k] :
              proc'[k][m] = IF k = j THEN [proc[j][m] EXCEPT
                                       !.here = @ /\ proc[j][m].host # host[j]]
                            ELSE proc[k][m]
         /\ \A e \in Hosts \X Jobs : dir'[e] = IF e = <<host[j], j>> THEN Fresh ELSE dir[e]
         /\ PidTyped'
<1>1. /\ proc \in [Jobs -> Seq(Process)] /\ dir \in [Hosts \X Jobs -> Dirs]
      /\ host[j] \in Hosts /\ PidTyped
  BY DEF TypeInv, TypeOK, Dirs
<1> DEFINE f == [m \in DOMAIN proc[j] |->
                  [proc[j][m] EXCEPT !.here = @ /\ proc[j][m].host # host[j]]]
<1>2. proc' = [proc EXCEPT ![j] = f] /\ dir' = [dir EXCEPT ![<<host[j], j>>] = Fresh]
  <2>1. proc' = [proc EXCEPT ![j] = f]
    BY DEF Removed
  <2>2. dir' = [dir EXCEPT ![<<host[j], j>>] = Fresh]
    BY DEF Removed, D
  <2>3. QED
    BY <2>1, <2>2
<1>3. proc[j] \in Seq(Process) /\ \A m \in DOMAIN proc[j] : proc[j][m] \in Process
  BY <1>1, ElementOfSeq, LenProperties
<1>4. \A m \in DOMAIN proc[j] : f[m] \in Process
  BY <1>3 DEF Process
<1>5. DOMAIN f = DOMAIN proc[j] /\ f = [m \in DOMAIN proc[j] |-> f[m]]
  OBVIOUS
<1>6. \A m \in DOMAIN proc[j] : f[m] = [proc[j][m] EXCEPT
                                     !.here = @ /\ proc[j][m].host # host[j]]
  OBVIOUS
<1> HIDE DEF f
<1>7. f \in Seq(Process)
  BY <1>3, <1>4, <1>5, RewrittenTyped
<1>8. Fresh \in Dirs /\ Fresh.pid = 0
  BY DEF Fresh, Dirs
<1>9. /\ proc' \in [Jobs -> Seq(Process)]
      /\ \A k \in Jobs : proc'[k] = IF k = j THEN f ELSE proc[k]
      /\ dir' \in [Hosts \X Jobs -> Dirs]
      /\ \A e \in Hosts \X Jobs : dir'[e] = IF e = <<host[j], j>> THEN Fresh ELSE dir[e]
  BY <1>1, <1>2, <1>7, <1>8
<1>10. \A k \in Jobs : DOMAIN proc'[k] = DOMAIN proc[k]
  BY <1>9, <1>5
<1>11. PidTyped'
  BY <1>1, <1>8, <1>9, <1>10 DEF PidTyped
<1>12. \A k \in Jobs : \A m \in DOMAIN proc[k] :
              proc'[k][m] = IF k = j THEN [proc[j][m] EXCEPT
                                       !.here = @ /\ proc[j][m].host # host[j]]
                            ELSE proc[k][m]
  BY <1>9, <1>6
<1>13. QED
  BY <1>9, <1>10, <1>11, <1>12

\* The same, for the job whose directory it was and for the others.
LEMMA RemovedForJob ==
  ASSUME TypeInv, NEW j \in Jobs, Removed(j), NEW k \in Jobs
  PROVE  /\ DOMAIN proc'[k] = DOMAIN proc[k]
         /\ k # j => /\ \A m \in DOMAIN proc[k] : proc'[k][m] = proc[k][m]
                     /\ \A h \in Hosts : dir'[<<h, k>>] = dir[<<h, k>>]
         /\ \A m \in DOMAIN proc[k] : /\ proc'[k][m].host = proc[k][m].host
                                      /\ proc'[k][m].phase = proc[k][m].phase
                                      /\ proc'[k][m].ok = proc[k][m].ok
                                      /\ proc'[k][m].term = proc[k][m].term
         /\ dir'[<<host[j], j>>].exit = "none"
         /\ \A h \in Hosts \ {host[j]} : dir'[<<h, j>>] = dir[<<h, j>>]
<1>1. proc \in [Jobs -> Seq(Process)] /\ host[j] \in Hosts
  BY DEF TypeInv, TypeOK
<1>2. \A m \in DOMAIN proc[k] : proc[k][m] \in Process
  BY <1>1, ElementOfSeq, LenProperties
<1>3. /\ DOMAIN proc'[k] = DOMAIN proc[k]
      /\ \A m \in DOMAIN proc[k] : \/ proc'[k][m] = proc[k][m]
                                   \/ /\ k = j
                                      /\ \E b \in BOOLEAN : proc'[k][m] =
                                           [proc[k][m] EXCEPT !.here = b]
  <2>1. /\ DOMAIN proc'[k] = DOMAIN proc[k]
        /\ \A m \in DOMAIN proc[k] :
              proc'[k][m] = IF k = j THEN [proc[j][m] EXCEPT
                                       !.here = @ /\ proc[j][m].host # host[j]]
                            ELSE proc[k][m]
    BY RemovedEffect
  <2>2. QED
    BY <2>1
<1>4. \A e \in Hosts \X Jobs : dir'[e] = IF e = <<host[j], j>> THEN Fresh ELSE dir[e]
  BY RemovedEffect
<1>5. \A m \in DOMAIN proc[k] : /\ proc'[k][m].host = proc[k][m].host
                                /\ proc'[k][m].phase = proc[k][m].phase
                                /\ proc'[k][m].ok = proc[k][m].ok
                                /\ proc'[k][m].term = proc[k][m].term
  BY <1>2, <1>3 DEF Process
<1>6. dir'[<<host[j], j>>].exit = "none" /\ \A h \in Hosts \ {host[j]} : dir'[<<h, j>>] = dir[<<h, j>>]
  BY <1>1, <1>4 DEF Fresh
<1>7. k # j => \A h \in Hosts : dir'[<<h, k>>] = dir[<<h, k>>]
  BY <1>4
<1>8. QED
  BY <1>3, <1>5, <1>6, <1>7

\* What SIGTERM does: some processes that are alive have been sent it, and
\* nothing else is different.
LEMMA TerminateEffect ==
  ASSUME TypeInv, NEW hit, Terminate(hit)
  PROVE  /\ proc' \in [Jobs -> Seq(Process)] /\ dir' = dir
         /\ \A k \in Jobs : DOMAIN proc'[k] = DOMAIN proc[k]
         /\ \A k \in Jobs : \A m \in DOMAIN proc[k] :
              \/ proc'[k][m] = proc[k][m]
              \/ /\ Alive(proc[k][m])
                 /\ proc'[k][m] = [proc[k][m] EXCEPT !.term = TRUE]
         /\ PidTyped'
<1>1. proc \in [Jobs -> Seq(Process)] /\ PidTyped
  BY DEF TypeInv, TypeOK
<1> DEFINE g(k) == [i \in DOMAIN proc[k] |->
                      IF k \in hit /\ i = dir[D(k)].pid /\ Alive(proc[k][i])
                      THEN [proc[k][i] EXCEPT !.term = TRUE] ELSE proc[k][i]]
<1>2. proc' = [k \in Jobs |-> g(k)] /\ dir' = dir
  BY DEF Terminate
<1>3. ASSUME NEW k \in Jobs
      PROVE  /\ g(k) \in Seq(Process) /\ DOMAIN g(k) = DOMAIN proc[k]
             /\ \A m \in DOMAIN proc[k] :
                  \/ g(k)[m] = proc[k][m]
                  \/ /\ Alive(proc[k][m])
                     /\ g(k)[m] = [proc[k][m] EXCEPT !.term = TRUE]
  <2>1. proc[k] \in Seq(Process) /\ \A m \in DOMAIN proc[k] : proc[k][m] \in Process
    BY <1>1, ElementOfSeq, LenProperties
  <2>2. \A m \in DOMAIN proc[k] : [proc[k][m] EXCEPT !.term = TRUE] \in Process
    BY <2>1 DEF Process
  <2>3. \A m \in DOMAIN proc[k] :
                  \/ g(k)[m] = proc[k][m]
                  \/ /\ Alive(proc[k][m])
                     /\ g(k)[m] = [proc[k][m] EXCEPT !.term = TRUE]
    OBVIOUS
  <2>4. DOMAIN g(k) = DOMAIN proc[k] /\ g(k) = [m \in DOMAIN proc[k] |-> g(k)[m]]
    OBVIOUS
  <2> HIDE DEF g
  <2>5. \A m \in DOMAIN proc[k] : g(k)[m] \in Process
    BY <2>1, <2>2, <2>3
  <2>6. g(k) \in Seq(Process)
    BY <2>1, <2>4, <2>5, RewrittenTyped
  <2>7. QED
    BY <2>3, <2>4, <2>6
<1> HIDE DEF g
<1>4. proc' \in [Jobs -> Seq(Process)] /\ \A k \in Jobs : proc'[k] = g(k)
  BY <1>2, <1>3
<1>5. PidTyped'
  BY <1>1, <1>2, <1>3, <1>4 DEF PidTyped
<1>6. QED
  BY <1>2, <1>3, <1>4, <1>5

\* The moves of the polling thread, and the types they keep.
LEMMA PollMoves ==
  ASSUME poll \in Polls, poll.job \in Jobs
  PROVE  /\ \A st \in PollStages : PollTo(st) =>
              /\ poll' \in Polls /\ poll'.stage = st
              /\ poll'.job = poll.job /\ poll'.todo = poll.todo /\ poll'.kept = poll.kept
         /\ Drop => /\ poll' \in Polls /\ poll'.stage = "next" /\ poll'.job = NoJob
                    /\ poll'.todo = poll.todo /\ poll'.kept = poll.kept
         /\ Keep => /\ poll' \in Polls /\ poll'.stage = "next" /\ poll'.job = NoJob
                    /\ poll'.todo = poll.todo /\ poll'.kept = poll.kept \cup {poll.job}
<1> USE DEF Polls, PollStages
<1>1. ASSUME NEW st \in PollStages, PollTo(st)
      PROVE  /\ poll' \in Polls /\ poll'.stage = st
             /\ poll'.job = poll.job /\ poll'.todo = poll.todo /\ poll'.kept = poll.kept
  BY <1>1 DEF PollTo
<1>2. ASSUME Drop
      PROVE  /\ poll' \in Polls /\ poll'.stage = "next" /\ poll'.job = NoJob
             /\ poll'.todo = poll.todo /\ poll'.kept = poll.kept
  BY <1>2 DEF Drop
<1>3. ASSUME Keep
      PROVE  /\ poll' \in Polls /\ poll'.stage = "next" /\ poll'.job = NoJob
             /\ poll'.todo = poll.todo /\ poll'.kept = poll.kept \cup {poll.job}
  BY <1>3 DEF Keep
<1>4. QED
  BY <1>1, <1>2, <1>3

\* What the polling thread leaves alone while it handles a job, and how the
\* handling may end.
PollKept == UNCHANGED <<attempt, host, next, sub, mode, unlisted, down, active>>
StaysPolling ==
  \E st \in Handling \cup {"dead"} : PollTo(st)
HandlesJob ==
  \/ ReadExit \/ ReadPid \/ Unreachable \/ ReportError \/ CleanUpFailed
  \/ Retrieve \/ CleanUpSucceeded \/ ReportSuccess

LEMMA HandlingThreads ==
  ASSUME HandlesJob
  PROVE  /\ PollKept /\ poll.stage \in Handling
         /\ StaysPolling \/ Drop \/ Keep
<1> USE DEF PollKept, StaysPolling, Handling, pollOnly
<1>1. CASE ReadExit
  BY <1>1 DEF ReadExit
<1>2. CASE ReadPid
  BY <1>2 DEF ReadPid
<1>3. CASE Unreachable
  BY <1>3 DEF Unreachable
<1>4. CASE ReportError
  BY <1>4 DEF ReportError
<1>5. CASE CleanUpFailed
  BY <1>5 DEF CleanUpFailed, CleanUp
<1>6. CASE Retrieve
  BY <1>6 DEF Retrieve
<1>7. CASE CleanUpSucceeded
  BY <1>7 DEF CleanUpSucceeded, CleanUp
<1>8. CASE ReportSuccess
  BY <1>8 DEF ReportSuccess
<1>9. QED
  BY <1>1, <1>2, <1>3, <1>4, <1>5, <1>6, <1>7, <1>8 DEF HandlesJob

\* What handling a job does to that job's entries.
LEMMA HandlingData ==
  ASSUME TypeInv, HandlesJob
  PROVE  /\ \A k \in Jobs \ {poll.job} : /\ verdict'[k] = verdict[k]
                                         /\ since'[k] = since[k]
                                         /\ local'[k] = local[k]
                                         /\ heard'[k] = heard[k]
         /\ verdict' \in [Jobs -> {"none", "success", "error"}]
         /\ since' \in [Jobs -> {NoTimer} \cup (0..Timeout)]
         /\ local' \in [Jobs -> {"none", "partial", "whole"}]
         /\ heard' \in [Jobs -> BOOLEAN]
         /\ failed' \in BOOLEAN
         /\ losses' \in 0..MaxLosses
         /\ UNCHANGED workerVars \/ Removed(poll.job)
<1>1. TypeOK /\ poll.job \in Jobs /\ Timeout \in Nat
  BY HandlingThreads, ConstantsAssumption DEF TypeInv, ThreadsTyped
<1>2. losses' \in 0..MaxLosses
  BY <1>1, LossesBounded DEF HandlesJob, ReadExit, ReadPid, Unreachable, ReportError,
     CleanUpFailed, CleanUp, Retrieve, CleanUpSucceeded, ReportSuccess
<1>3. UNCHANGED workerVars \/ Removed(poll.job)
  BY DEF HandlesJob, ReadExit, ReadPid, Unreachable, ReportError, CleanUpFailed, CleanUp,
     Retrieve, CleanUpSucceeded, ReportSuccess, workerVars, pollOnly
<1>4. /\ verdict' = verdict \/ \E v \in {"success", "error"} :
                                 verdict' = [verdict EXCEPT ![poll.job] = v]
      /\ failed' = failed \/ failed' = TRUE
  BY DEF HandlesJob, ReadExit, ReadPid, Unreachable, ReportError, CleanUpFailed, CleanUp,
     Retrieve, CleanUpSucceeded, ReportSuccess
<1>5. local' = local \/ \E v \in {"none", "partial", "whole"} :
                          local' = [local EXCEPT ![poll.job] = v]
  <2>1. CASE Retrieve
    <3>1. local[poll.job] \in {"none", "partial", "whole"}
      BY <1>1 DEF TypeOK
    <3>2. QED
      BY <2>1, <3>1 DEF Retrieve
  <2>2. CASE ~Retrieve
    BY <2>2 DEF HandlesJob, ReadExit, ReadPid, Unreachable, ReportError, CleanUpFailed,
       CleanUp, CleanUpSucceeded, ReportSuccess
  <2>3. QED
    BY <2>1, <2>2
<1>6. \/ since' = since
      \/ \E v \in {NoTimer} \cup (0..Timeout) : since' = [since EXCEPT ![poll.job] = v]
  <2>1. CASE Unreachable
    BY <1>1, <2>1 DEF Unreachable, StopTimer, TypeOK, NoTimer
  <2>2. CASE ~Unreachable
    BY <2>2 DEF HandlesJob, ReadExit, ReadPid, StopTimer, ReportError, CleanUpFailed,
       CleanUp, Retrieve, CleanUpSucceeded, ReportSuccess
  <2>3. QED
    BY <2>1, <2>2
<1>7. heard' = heard \/ \E v \in BOOLEAN : heard' = [heard EXCEPT ![poll.job] = v]
  <2>1. CASE Unreachable
    BY <1>1, <2>1 DEF Unreachable, TypeOK
  <2>2. CASE ~Unreachable
    BY <2>2 DEF HandlesJob, ReadExit, ReadPid, Heard, ReportError, CleanUpFailed,
       CleanUp, Retrieve, CleanUpSucceeded, ReportSuccess
  <2>3. QED
    BY <2>1, <2>2
<1>8. /\ verdict' \in [Jobs -> {"none", "success", "error"}]
      /\ \A k \in Jobs \ {poll.job} : verdict'[k] = verdict[k]
  <2>1. verdict \in [Jobs -> {"none", "success", "error"}]
    BY <1>1 DEF TypeOK
  <2>2. \/ verdict' = verdict
        \/ \E v \in {"none", "success", "error"} : verdict' = [verdict EXCEPT ![poll.job] = v]
    BY <1>4
  <2>3. QED
    BY ONLY <1>1, <2>1, <2>2
<1>9. /\ local' \in [Jobs -> {"none", "partial", "whole"}]
      /\ \A k \in Jobs \ {poll.job} : local'[k] = local[k]
  <2>1. local \in [Jobs -> {"none", "partial", "whole"}]
    BY <1>1 DEF TypeOK
  <2>2. \/ local' = local
        \/ \E v \in {"none", "partial", "whole"} : local' = [local EXCEPT ![poll.job] = v]
    BY <1>5
  <2>3. QED
    BY ONLY <1>1, <2>1, <2>2
<1>10. /\ since' \in [Jobs -> {NoTimer} \cup (0..Timeout)]
       /\ \A k \in Jobs \ {poll.job} : since'[k] = since[k]
  <2>1. since \in [Jobs -> {NoTimer} \cup (0..Timeout)]
    BY <1>1 DEF TypeOK
  <2>2. QED
    BY ONLY <1>1, <2>1, <1>6
<1>11. /\ heard' \in [Jobs -> BOOLEAN]
       /\ \A k \in Jobs \ {poll.job} : heard'[k] = heard[k]
  <2>1. heard \in [Jobs -> BOOLEAN]
    BY <1>1 DEF TypeOK
  <2>2. QED
    BY ONLY <1>1, <2>1, <1>7
<1>12. failed' \in BOOLEAN
  BY <1>1, <1>4 DEF TypeOK
<1>13. QED
  BY <1>2, <1>3, <1>8, <1>9, <1>10, <1>11, <1>12

LEMMA HandlingTyped == TypeInv /\ HandlesJob => TypeInv'
<1> SUFFICES ASSUME TypeInv, HandlesJob PROVE TypeInv'
  OBVIOUS
<1>1. TypeOK /\ ThreadsTyped /\ PidTyped /\ poll \in Polls /\ poll.job \in Jobs
      /\ dir \in [Hosts \X Jobs -> Dirs] /\ proc \in [Jobs -> Seq(Process)]
  BY HandlingThreads DEF TypeInv, TypeOK, ThreadsTyped, Polls, Dirs
<1>2. /\ poll' \in Polls /\ poll'.job \in Jobs \cup {NoJob}
      /\ \/ poll'.stage \in Handling \cup {"dead"} /\ poll'.job \in Jobs
         \/ poll'.stage = "next" /\ poll'.job = NoJob
  BY <1>1, HandlingThreads, PollMoves DEF StaysPolling, Handling, PollStages
<1>3. /\ proc' \in [Jobs -> Seq(Process)] /\ dir' \in [Hosts \X Jobs -> Dirs] /\ PidTyped'
  <2>1. CASE UNCHANGED workerVars
    BY <2>1, <1>1 DEF workerVars, PidTyped
  <2>2. CASE Removed(poll.job)
    BY <2>2, <1>1, RemovedEffect
  <2>3. QED
    BY <2>1, <2>2, HandlingData
<1>4. ThreadsTyped'
  BY <1>1, <1>2, HandlingThreads DEF ThreadsTyped, PollKept, Handling
<1>5. TypeOK'
  BY <1>1, <1>2, <1>3, HandlingThreads, HandlingData DEF TypeOK, PollKept, Polls, Dirs
<1>6. QED
  BY <1>3, <1>4, <1>5 DEF TypeInv

LEMMA SubmitTyped ==
  ASSUME TypeInv, NEW j \in Jobs, Submit(j)
  PROVE  TypeInv'
<1>1. TypeOK /\ ThreadsTyped /\ PidTyped
  BY DEF TypeInv
<1>2. attempt[j] + 1 \in 0..MaxAttempts
  <2>1. attempt[j] \in 0..MaxAttempts /\ MaxAttempts \in Nat \ {0}
    BY <1>1, ConstantsAssumption DEF TypeOK
  <2>2. attempt[j] = 0 \/ attempt[j] < MaxAttempts
    BY DEF Submit, Submittable, MayRestart
  <2>3. QED
    BY <2>1, <2>2
<1>3. attempt' \in [Jobs -> 0..MaxAttempts]
  BY <1>1, <1>2 DEF Submit, TypeOK
<1>4. /\ verdict' \in [Jobs -> {"none", "success", "error"}]
      /\ host' \in [Jobs -> Hosts] /\ next' \in Hosts
      /\ sub' \in Subs /\ sub'.stage = "prepare" /\ sub'.job = j
  BY <1>1, HostsFacts DEF Submit, TypeOK, Subs, SubStages
<1>5. UNCHANGED <<active, poll, since, local, failed, mode, heard, unlisted,
                  dir, proc, down, losses>>
  BY DEF Submit, workerVars, netVars
<1>6. TypeOK'
  BY <1>1, <1>3, <1>4, <1>5 DEF TypeOK, Subs
<1>7. ThreadsTyped' /\ PidTyped'
  BY <1>1, <1>4, <1>5 DEF ThreadsTyped, PidTyped
<1>8. QED
  BY <1>6, <1>7 DEF TypeInv

\* The list goes to the polling thread, job by job, and comes back.
LEMMA ListTyped == TypeInv /\ (PollRound \/ PollNext \/ PollRoundEnd) => TypeInv'
<1> SUFFICES ASSUME TypeInv, PollRound \/ PollNext \/ PollRoundEnd PROVE TypeInv'
  OBVIOUS
<1>1. TypeOK /\ ThreadsTyped /\ PidTyped
  BY DEF TypeInv
<1>2. UNCHANGED <<attempt, host, next, sub, mode, unlisted, proc, down, verdict, since,
                  local, failed, heard, dir, losses>>
  BY DEF PollRound, PollNext, PollRoundEnd, pollOnly
<1>3. /\ poll' \in Polls /\ active' \subseteq Jobs
      /\ \/ poll'.stage = "exit" /\ poll'.job \in Jobs
         \/ poll'.stage = "next" /\ poll'.job = NoJob
         \/ poll'.stage = "sleep" /\ poll'.job = NoJob /\ poll'.todo = {} /\ poll'.kept = {}
  <2>1. poll \in Polls /\ active \subseteq Jobs
    BY <1>1 DEF TypeOK, Polls
  <2>2. CASE PollRound
    BY <2>1, <2>2 DEF PollRound, Polls, PollStages
  <2>3. CASE PollNext
    <3>1. PICK j \in poll.todo :
            poll' = [poll EXCEPT !.stage = "exit", !.job = j, !.todo = @ \ {j}]
      BY <2>3 DEF PollNext
    <3>2. active' = active
      BY <2>3 DEF PollNext
    <3>3. QED
      BY <2>1, <3>1, <3>2 DEF Polls, PollStages
  <2>4. CASE PollRoundEnd
    BY <2>1, <2>4 DEF PollRoundEnd, Polls, PollStages
  <2>5. QED
    BY <2>2, <2>3, <2>4
<1>4. TypeOK'
  BY <1>1, <1>2, <1>3 DEF TypeOK, Polls
<1>5. ThreadsTyped' /\ PidTyped'
  BY <1>1, <1>2, <1>3 DEF ThreadsTyped, PidTyped, Handling
<1>6. QED
  BY <1>4, <1>5 DEF TypeInv

\* The same moves in detail: the whole list is taken, a job is visited, and what
\* was kept is put back.
ListKept == UNCHANGED <<attempt, verdict, host, next, sub, since, local, failed, mode,
                        heard, unlisted, dir, proc, down, losses>>
Taken == /\ poll.stage = "sleep" /\ active' = {}
         /\ poll'.stage = "next" /\ poll'.job = NoJob
         /\ poll'.todo = active /\ poll'.kept = {}
Visits(j) == /\ poll.stage = "next" /\ j \in poll.todo /\ active' = active
             /\ poll'.stage = "exit" /\ poll'.job = j
             /\ poll'.todo = poll.todo \ {j} /\ poll'.kept = poll.kept
PutBack == /\ poll.stage = "next" /\ poll.todo = {} /\ active' = active \cup poll.kept
           /\ poll'.stage = "sleep" /\ poll'.job = NoJob
           /\ poll'.todo = {} /\ poll'.kept = {}

LEMMA ListThreads ==
  ASSUME TypeInv, PollRound \/ PollNext \/ PollRoundEnd
  PROVE  ListKept /\ (Taken \/ (\E j \in Jobs : Visits(j)) \/ PutBack)
<1>1. poll \in Polls
  BY DEF TypeInv, TypeOK, Polls
<1>2. CASE PollRound
  BY <1>2 DEF PollRound, Taken, ListKept, pollOnly
<1>3. CASE PollNext
  <2>1. PICK j \in poll.todo :
          poll' = [poll EXCEPT !.stage = "exit", !.job = j, !.todo = @ \ {j}]
    BY <1>3 DEF PollNext
  <2>2. j \in Jobs
    BY <1>1 DEF Polls
  <2>3. Visits(j)
    BY <1>1, <1>3, <2>1 DEF PollNext, Visits, Polls
  <2>4. QED
    BY <1>3, <2>2, <2>3 DEF PollNext, ListKept, pollOnly
<1>4. CASE PollRoundEnd
  BY <1>4 DEF PollRoundEnd, PutBack, ListKept, pollOnly
<1>5. QED
  BY <1>2, <1>3, <1>4

LEMMA CancelTyped == TypeInv /\ Cancel => TypeInv'
<1> SUFFICES ASSUME TypeInv, Cancel PROVE TypeInv'
  OBVIOUS
<1>1. TypeOK /\ ThreadsTyped
  BY DEF TypeInv
<1>2. PICK hit : Terminate(hit)
  BY DEF Cancel
<1>3. /\ proc' \in [Jobs -> Seq(Process)] /\ dir' \in [Hosts \X Jobs -> Dirs] /\ PidTyped'
  BY <1>1, <1>2, TerminateEffect DEF TypeOK, Dirs
<1>4. /\ mode' = "cancelled" /\ failed' \in BOOLEAN /\ unlisted' \in BOOLEAN /\ active' = {}
      /\ UNCHANGED <<attempt, verdict, host, next, sub, poll, since, local, heard,
                     down, losses>>
  BY <1>1 DEF Cancel, TypeOK, netVars
<1>5. TypeOK' /\ ThreadsTyped'
  BY <1>1, <1>3, <1>4 DEF TypeOK, ThreadsTyped, Dirs
<1>6. QED
  BY <1>3, <1>5 DEF TypeInv

LEMMA TickTyped == TypeInv /\ Tick => TypeInv'
<1> SUFFICES ASSUME TypeInv, Tick PROVE TypeInv'
  OBVIOUS
<1>1. TypeOK /\ ThreadsTyped /\ PidTyped /\ Timeout \in Nat
  BY ConstantsAssumption DEF TypeInv
<1>2. since' \in [Jobs -> {NoTimer} \cup (0..Timeout)]
  <2>1. ASSUME NEW j \in Jobs
        PROVE  (IF since[j] \in 0..(Timeout - 1) THEN since[j] + 1 ELSE since[j])
                 \in {NoTimer} \cup (0..Timeout)
    BY <1>1 DEF TypeOK
  <2>2. QED
    BY <2>1 DEF Tick
<1>3. UNCHANGED <<attempt, verdict, host, next, sub, active, poll, local, failed,
                  mode, heard, unlisted, dir, proc, down, losses>>
  BY DEF Tick, workerVars, netVars
<1>4. QED
  BY <1>1, <1>2, <1>3 DEF TypeInv, TypeOK, ThreadsTyped, PidTyped

LEMMA TypeInvNext == TypeInv /\ [Next]_vars => TypeInv'
<1> SUFFICES ASSUME TypeInv, [Next]_vars PROVE TypeInv'
  OBVIOUS
<1> USE DEF TypeInv
<1>1. CASE \E j \in Jobs : Submit(j)
  BY <1>1, SubmitTyped
<1>2. CASE PollRound
  BY <1>2, ListTyped
<1>3. CASE Submission
  BY <1>3, SubmissionTyped
<1>4. CASE PollJob
  BY <1>4, ListTyped, HandlingTyped DEF PollJob, HandlesJob
<1>5. CASE \E j \in Jobs : ProcStep(j) \/ \E i \in DOMAIN proc[j] : ProcKilled(j, i)
  BY <1>5, WorkerTyped DEF ProcStep
<1>6. CASE \E h \in Hosts : Partition(h)
  BY <1>6 DEF Partition, TypeOK, ThreadsTyped, PidTyped, ctlVars, workerVars
<1>7. CASE Tick
  BY <1>7, TickTyped
<1>8. CASE Cancel
  BY <1>8, CancelTyped
<1>9. CASE Shutdown
  BY <1>9 DEF Shutdown, TypeOK, ThreadsTyped, PidTyped, workerVars, netVars
<1>10. CASE UNCHANGED vars
  BY <1>10 DEF vars, ctlVars, workerVars, netVars, TypeOK, ThreadsTyped, PidTyped
<1>11. QED
  BY <1>1, <1>2, <1>3, <1>4, <1>5, <1>6, <1>7, <1>8, <1>9, <1>10 DEF Next, Others

LEMMA TypeInvHolds == Spec => []TypeInv
BY TypeInvInit, TypeInvNext, PTL DEF Spec

\* Whatever fails, and in whatever order the scheduler, the polling thread and
\* the workers act, the executor's tables and the workers' directories hold
\* what they are declared to hold.
THEOREM TypeCorrect == Spec => []TypeOK
<1>1. TypeInv => TypeOK
  BY DEF TypeInv
<1>2. QED
  BY <1>1, TypeInvHolds, PTL

-----------------------------------------------------------------------------
(* Timers.                                                                 *)

\* A timer runs only while the host of its job has not answered: an answer
\* clears it.
TimerInv == \A j \in Jobs : since[j] # NoTimer => ~heard[j]

LEMMA HandlingTimer ==
  ASSUME TypeInv, TimerInv, TimerSound, HandlesJob
  PROVE  TimerInv' /\ TimerSound'
<1> DEFINE j == poll.job
<1>1. /\ j \in Jobs /\ poll \in Polls /\ since \in [Jobs -> {NoTimer} \cup (0..Timeout)]
      /\ heard \in [Jobs -> BOOLEAN]
  BY HandlingThreads DEF TypeInv, TypeOK, ThreadsTyped, Polls
<1>2. \A k \in Jobs \ {j} : since'[k] = since[k] /\ heard'[k] = heard[k]
  BY HandlingData
<1>3. CASE Unreachable
  <2>1. heard'[j] = FALSE
    BY <1>1, <1>3 DEF Unreachable, TimerInv
  <2>2. poll'.stage = "timeout" => poll'.job = j
    BY <1>1, <1>3, PollMoves DEF Unreachable, PollStages
  <2>3. QED
    BY <1>2, <2>1, <2>2 DEF TimerInv, TimerSound
<1>4. CASE ~Unreachable
  <2>1. \/ since'[j] = NoTimer
        \/ since'[j] = since[j] /\ heard'[j] = heard[j]
    BY <1>1, <1>4 DEF HandlesJob, ReadExit, ReadPid, StopTimer, ReportError,
       CleanUpFailed, CleanUp, Retrieve, CleanUpSucceeded, ReportSuccess
  <2>2. poll'.stage # "timeout"
    BY <1>1, <1>4 DEF HandlesJob, ReadExit, ReadPid, ReportError, CleanUpFailed, CleanUp,
       Retrieve, CleanUpSucceeded, ReportSuccess, PollTo, Drop, Keep, Polls
  <2>3. QED
    BY <1>2, <2>1, <2>2 DEF TimerInv, TimerSound
<1>5. QED
  BY <1>3, <1>4

\* Every other step leaves the timers and what was heard alone, but for the
\* clock, which starts and stops none.
LEMMA TimersElsewhere ==
  ASSUME TypeInv, [Next]_vars, ~HandlesJob
  PROVE  /\ heard' = heard
         /\ \A j \in Jobs : since'[j] = NoTimer <=> since[j] = NoTimer
         /\ poll'.stage = "timeout" => poll' = poll
<1>1. TypeOK /\ ThreadsTyped
  BY DEF TypeInv
<1>2. CASE \E j \in Jobs : Submit(j)
  BY <1>2 DEF Submit
<1>3. CASE PollRound \/ PollNext \/ PollRoundEnd
  BY <1>3, ListThreads DEF ListKept, Taken, Visits, PutBack
<1>4. CASE Submission
  BY <1>4, SubmissionThreads DEF SubmissionKept
<1>5. CASE \E j \in Jobs : ProcStep(j) \/ \E i \in DOMAIN proc[j] : ProcKilled(j, i)
  <2>1. UNCHANGED ctlVars
    BY <1>5 DEF ProcStep, ProcStart, ProcEnd, ProcKilled
  <2>2. QED
    BY <2>1 DEF ctlVars
<1>6. CASE \E h \in Hosts : Partition(h)
  BY <1>6 DEF Partition, ctlVars
<1>7. CASE Tick
  <2>1. ASSUME NEW j \in Jobs
        PROVE  since'[j] = NoTimer <=> since[j] = NoTimer
    <3>1. since[j] \in {NoTimer} \cup (0..Timeout) /\ Timeout \in Nat
      BY <1>1, ConstantsAssumption DEF TypeOK
    <3>2. since'[j] = IF since[j] \in 0..(Timeout - 1) THEN since[j] + 1 ELSE since[j]
      BY <1>7 DEF Tick
    <3>3. QED
      BY <3>1, <3>2 DEF NoTimer
  <2>2. QED
    BY <1>7, <2>1 DEF Tick
<1>8. CASE Cancel \/ Shutdown
  BY <1>8 DEF Cancel, Shutdown
<1>9. CASE UNCHANGED vars
  BY <1>9 DEF vars, ctlVars
<1>10. QED
  BY <1>2, <1>3, <1>4, <1>5, <1>6, <1>7, <1>8, <1>9
     DEF Next, Others, PollJob, HandlesJob

LEMMA TimerInvHolds == Spec => [](TimerInv /\ TimerSound)
<1>1. Init => TimerInv /\ TimerSound
  BY DEF Init, TimerInv, TimerSound
<1>2. TypeInv /\ TimerInv /\ TimerSound /\ [Next]_vars => TimerInv' /\ TimerSound'
  BY HandlingTimer, TimersElsewhere DEF TimerInv, TimerSound
<1>3. QED
  BY <1>1, <1>2, TypeInvHolds, PTL DEF Spec

\* A job is given up as unreachable only if its host has not answered one
\* poll since the timer started.
THEOREM TimerSoundHolds == Spec => []TimerSound
BY TimerInvHolds, PTL

-----------------------------------------------------------------------------
(* What handling a job comes to.                                           *)

Unmoved == UNCHANGED <<verdict, local, failed, workerVars>>

\* No verdict yet: the job is looked at further, or yielded to the next round.
Waits ==
  /\ Unmoved /\ poll.stage \in {"exit", "pid", "unreachable"}
  /\ \/ Keep
     \/ \E st \in {"pid", "unreachable", "timeout", "failed"} : PollTo(st)
SeesSuccess ==
  /\ Unmoved /\ poll.stage = "exit" /\ PollTo("retrieve") /\ dir[D(poll.job)].exit = "0"
Fails ==
  /\ verdict' = [verdict EXCEPT ![poll.job] = "error"] /\ failed' = TRUE
  /\ poll.stage \in {"timeout", "failed", "retrieve"}
  /\ UNCHANGED workerVars
  /\ \/ local' = local
     \/ /\ poll.stage = "retrieve"
        /\ \E o \in {local[poll.job], "partial", "whole"} :
             local' = [local EXCEPT ![poll.job] = o]
  /\ Drop \/ (RemoveFailed /\ PollTo("cleanup"))
Fetches ==
  /\ poll.stage = "retrieve" /\ PollTo("discard")
  /\ local' = [local EXCEPT ![poll.job] =
                 IF OutputsWhole(poll.job) THEN "whole" ELSE "partial"]
  /\ UNCHANGED <<verdict, failed, workerVars>>
Discards ==
  /\ UNCHANGED <<verdict, local, failed>>
  /\ \/ poll.stage = "cleanup" /\ Removed(poll.job) /\ Drop
     \/ poll.stage = "discard" /\ Removed(poll.job) /\ PollTo("report")
     \/ /\ poll.stage \in {"cleanup", "discard"} /\ PollTo("dead")
        /\ UNCHANGED workerVars \/ Removed(poll.job)
Succeeds ==
  /\ poll.stage = "report" /\ Drop
  /\ verdict' = [verdict EXCEPT ![poll.job] = "success"]
  /\ UNCHANGED <<local, failed, workerVars>>

LEMMA HandlingOutcome ==
  ASSUME TypeInv, HandlesJob
  PROVE  Waits \/ SeesSuccess \/ Fails \/ Fetches \/ Discards \/ Succeeds
<1> USE DEF pollOnly
<1>1. CASE ReadExit
  BY <1>1 DEF ReadExit, Waits, SeesSuccess, Unmoved, workerVars
<1>2. CASE ReadPid
  BY <1>2 DEF ReadPid, Waits, Unmoved, workerVars
<1>3. CASE Unreachable
  BY <1>3 DEF Unreachable, Waits, Unmoved, workerVars
<1>4. CASE ReportError
  BY <1>4 DEF ReportError, Fails, workerVars
<1>5. CASE CleanUpFailed
  BY <1>5 DEF CleanUpFailed, CleanUp, Discards
<1>6. CASE Retrieve
  <2>1. local[poll.job] \in {"none", "partial", "whole"}
    BY HandlingThreads DEF TypeInv, TypeOK, ThreadsTyped
  <2>2. QED
    BY <1>6, <2>1 DEF Retrieve, Fails, Fetches, workerVars
<1>7. CASE CleanUpSucceeded
  BY <1>7 DEF CleanUpSucceeded, CleanUp, Discards
<1>8. CASE ReportSuccess
  BY <1>8 DEF ReportSuccess, Succeeds, workerVars
<1>9. QED
  BY <1>1, <1>2, <1>3, <1>4, <1>5, <1>6, <1>7, <1>8 DEF HandlesJob

\* A step of a worker's process leaves the controller alone, and rewrites one
\* process.
WorkerStep == \E j \in Jobs : ProcStep(j) \/ \E i \in DOMAIN proc[j] : ProcKilled(j, i)

LEMMA WorkerStepKept ==
  ASSUME TypeInv, WorkerStep
  PROVE  /\ UNCHANGED ctlVars /\ UNCHANGED netVars
         /\ \A k \in Jobs : DOMAIN proc'[k] = DOMAIN proc[k]
<1>1. proc \in [Jobs -> Seq(Process)]
  BY DEF TypeInv, TypeOK
<1>2. PICK k \in Jobs : \E i \in DOMAIN proc[k] :
         ProcStart(k, i) \/ ProcEnd(k, i) \/ ProcKilled(k, i)
  BY DEF WorkerStep, ProcStep
<1>3. PICK i, f : SetProc(k, i, f)
  BY <1>2 DEF ProcStart, ProcEnd, ProcKilled
<1>4. \A m \in Jobs : DOMAIN proc'[m] = DOMAIN proc[m]
  BY <1>1, <1>3 DEF SetProc
<1>5. UNCHANGED ctlVars /\ UNCHANGED netVars
  BY <1>2 DEF ProcStart, ProcEnd, ProcKilled
<1>6. QED
  BY <1>4, <1>5

\* The processes of a job: only the launch adds one.
LEMMA ProcessesElsewhere ==
  ASSUME TypeInv, [Next]_vars, NEW j \in Jobs
  PROVE  \/ DOMAIN proc'[j] = DOMAIN proc[j]
         \/ Submission /\ Spawn(j) /\ sub.job = j /\ sub.stage = "launch"
<1>1. TypeOK /\ proc \in [Jobs -> Seq(Process)] /\ dir \in [Hosts \X Jobs -> Dirs]
  BY DEF TypeInv, TypeOK, Dirs
<1>2. CASE Submission
  <2>1. sub.job \in Jobs /\ (proc' = proc \/ (Spawn(sub.job) /\ sub.stage = "launch"))
    BY <1>2, SubmissionWorker
  <2>2. ASSUME NEW k \in Jobs, Spawn(k), k # j
        PROVE  DOMAIN proc'[j] = DOMAIN proc[j]
    BY <1>1, <2>2 DEF Spawn
  <2>3. QED
    BY <1>2, <2>1, <2>2
<1>3. CASE HandlesJob
  <2>1. poll.job \in Jobs
    BY <1>3, HandlingThreads DEF TypeInv, ThreadsTyped
  <2>2. QED
    BY <1>3, <2>1, HandlingData, RemovedEffect DEF workerVars
<1>4. CASE WorkerStep
  BY <1>4, WorkerStepKept
<1>5. CASE Cancel
  <2>1. PICK hit : Terminate(hit)
    BY <1>5 DEF Cancel
  <2>2. QED
    BY <2>1, TerminateEffect
<1>6. CASE PollRound \/ PollNext \/ PollRoundEnd
  BY <1>6, ListThreads DEF ListKept
<1>7. CASE (\E k \in Jobs : Submit(k)) \/ (\E h \in Hosts : Partition(h)) \/ Tick \/ Shutdown
           \/ UNCHANGED vars
  BY <1>7 DEF Submit, Partition, Tick, Shutdown, vars, workerVars
<1>8. QED
  BY <1>2, <1>3, <1>4, <1>5, <1>6, <1>7 DEF Next, Others, PollJob, HandlesJob, WorkerStep

-----------------------------------------------------------------------------
(* No job is forgotten, and no failure.                                    *)

Listed(j) == j \in active \cup poll.todo \cup poll.kept

\* Some thread will come to the job: it is in the list, in a round, being
\* submitted or being polled.
Held(j) == Listed(j) \/ sub.job = j \/ (poll.job = j /\ poll.stage # "cleanup")

HeldFor(j) ==
  /\ attempt[j] = 0 => DOMAIN proc[j] = {} /\ (sub.job = j => sub.stage = "raised")
  /\ attempt[j] > 0 /\ verdict[j] = "none" /\ mode = "run" /\ poll.stage # "dead"
       => Held(j)
HeldInv == \A j \in Jobs : HeldFor(j)

LEMMA HandlingHeld ==
  ASSUME TypeInv, HandlesJob, NEW j \in Jobs, HeldFor(j), DOMAIN proc'[j] = DOMAIN proc[j]
  PROVE  HeldFor(j)'
<1>1. /\ poll.job \in Jobs /\ poll \in Polls /\ poll.stage \in Handling
      /\ verdict \in [Jobs -> {"none", "success", "error"}]
      /\ UNCHANGED <<attempt, sub, mode, active>>
  BY HandlingThreads DEF TypeInv, TypeOK, ThreadsTyped, Polls, PollKept
<1>2. attempt[j] = 0 => DOMAIN proc'[j] = {} /\ (sub'.job = j => sub'.stage = "raised")
  BY <1>1 DEF HeldFor
<1> USE DEF HeldFor, Held, Listed, Handling, PollStages
<1>3. CASE Waits
  BY <1>1, <1>2, <1>3, PollMoves DEF Waits, Unmoved
<1>4. CASE SeesSuccess
  BY <1>1, <1>2, <1>4, PollMoves DEF SeesSuccess, Unmoved
<1>5. CASE Fails
  <2>1. verdict'[poll.job] = "error" /\ \A k \in Jobs \ {poll.job} : verdict'[k] = verdict[k]
    BY <1>1, <1>5 DEF Fails
  <2>2. /\ poll'.todo = poll.todo /\ poll'.kept = poll.kept
        /\ poll'.stage # "dead"
    BY <1>1, <1>5, PollMoves DEF Fails
  <2>3. QED
    BY <1>1, <1>2, <2>1, <2>2
<1>6. CASE Fetches
  BY <1>1, <1>2, <1>6, PollMoves DEF Fetches
<1>7. CASE Discards
  BY <1>1, <1>2, <1>7, PollMoves DEF Discards
<1>8. CASE Succeeds
  <2>1. verdict'[poll.job] = "success" /\ \A k \in Jobs \ {poll.job} : verdict'[k] = verdict[k]
    BY <1>1, <1>8 DEF Succeeds
  <2>2. poll'.todo = poll.todo /\ poll'.kept = poll.kept
    BY <1>1, <1>8, PollMoves DEF Succeeds
  <2>3. QED
    BY <1>1, <1>2, <2>1, <2>2
<1>9. QED
  BY <1>3, <1>4, <1>5, <1>6, <1>7, <1>8, HandlingOutcome

LEMMA HeldStep == TypeInv /\ HeldInv /\ [Next]_vars => HeldInv'
<1> SUFFICES ASSUME TypeInv, HeldInv, [Next]_vars, NEW j \in Jobs PROVE HeldFor(j)'
  BY DEF HeldInv
<1>1. TypeOK /\ ThreadsTyped /\ HeldFor(j)
  BY DEF TypeInv, HeldInv
<1>2. \/ DOMAIN proc'[j] = DOMAIN proc[j]
      \/ Submission /\ sub.job = j
  BY ProcessesElsewhere
<1>3. CASE HandlesJob
  <2>1. UNCHANGED sub
    BY <1>3, HandlingThreads DEF PollKept
  <2>2. DOMAIN proc'[j] = DOMAIN proc[j]
    <3>1. poll.job \in Jobs
      BY <1>3, HandlingThreads DEF TypeInv, ThreadsTyped
    <3>2. QED
      BY <1>3, <3>1, HandlingData, RemovedEffect DEF workerVars
  <2>3. QED
    BY <1>1, <1>3, <2>2, HandlingHeld
<1>4. CASE \E k \in Jobs : Submit(k)
  <2>1. PICK k \in Jobs : Submit(k)
    BY <1>4
  <2>2. /\ sub'.job = k /\ sub.job = NoJob /\ attempt'[k] > 0 /\ sub' = [job |-> k, stage |-> "prepare"]
        /\ \A i \in Jobs \ {k} : attempt'[i] = attempt[i] /\ verdict'[i] = verdict[i]
        /\ UNCHANGED <<active, poll, mode, proc>>
    BY <1>1, <2>1, ConstantsAssumption DEF Submit, Submittable, TypeOK, ThreadsTyped, workerVars
  <2>3. QED
    BY <1>1, <2>2, NoJobAssumption DEF HeldFor, Held, Listed
<1>5. CASE Submission
  <2>1. SubmissionKept /\ (StaysSubmitted \/ HandedOver) /\ sub.job \in Jobs
    BY <1>5, SubmissionThreads, SubmissionWorker
  <2>2. \/ sub'.job = sub.job /\ active' = active
        \/ sub'.job = NoJob /\ active' = active \cup {sub.job}
    BY <1>1, <2>1 DEF StaysSubmitted, HandedOver, TypeOK
  <2>3. sub.stage # "raised"
    BY <2>1 DEF StaysSubmitted, HandedOver
  <2>4. QED
    BY <1>1, <1>2, <2>1, <2>2, <2>3, NoJobAssumption DEF SubmissionKept, HeldFor, Held, Listed
<1>6. CASE PollRound \/ PollNext \/ PollRoundEnd
  <2>1. ListKept /\ (Taken \/ (\E k \in Jobs : Visits(k)) \/ PutBack)
    BY <1>6, ListThreads
  <2>2. attempt' = attempt /\ sub' = sub /\ proc' = proc /\ verdict' = verdict /\ mode' = mode
    BY <2>1 DEF ListKept
  <2>3. Held(j) => Held(j)'
    BY <1>1, <2>1, <2>2, NoJobAssumption DEF Taken, Visits, PutBack, Held, Listed, ThreadsTyped
  <2>4. poll.stage # "dead"
    BY <2>1 DEF Taken, Visits, PutBack
  <2>5. QED
    BY <1>1, <2>2, <2>3, <2>4 DEF HeldFor
<1>7. CASE WorkerStep
  <2>1. UNCHANGED ctlVars /\ DOMAIN proc'[j] = DOMAIN proc[j]
    BY <1>7, WorkerStepKept
  <2>2. QED
    BY <1>1, <2>1 DEF ctlVars, HeldFor, Held, Listed
<1>8. CASE (\E h \in Hosts : Partition(h)) \/ Tick \/ UNCHANGED vars
  BY <1>1, <1>8 DEF Partition, Tick, vars, ctlVars, workerVars, HeldFor, Held, Listed
<1>9. CASE Cancel
  <2>1. PICK hit : Terminate(hit)
    BY <1>9 DEF Cancel
  <2>2. DOMAIN proc'[j] = DOMAIN proc[j]
    BY <2>1, TerminateEffect
  <2>3. QED
    BY <1>1, <1>9, <2>2 DEF Cancel, HeldFor
<1>10. CASE Shutdown
  BY <1>1, <1>10 DEF Shutdown, HeldFor, workerVars
<1>11. QED
  BY <1>3, <1>4, <1>5, <1>6, <1>7, <1>8, <1>9, <1>10
     DEF Next, Others, PollJob, HandlesJob, WorkerStep

LEMMA HeldInvHolds == Spec => []HeldInv
<1>1. Init => HeldInv
  BY NoJobAssumption DEF Init, HeldInv, HeldFor
<1>2. QED
  BY <1>1, HeldStep, TypeInvHolds, PTL DEF Spec

LEMMA HeldAndSeen == TypeInv /\ HeldInv => NothingForgotten
<1> SUFFICES ASSUME TypeInv, HeldInv, NEW j \in Jobs, verdict[j] = "none",
                    \E i \in DOMAIN proc[j] : Alive(proc[j][i]),
                    mode = "run", poll.stage # "dead"
             PROVE  InHands(j) \/ sub.job = j
  BY DEF NothingForgotten
<1>1. HeldFor(j) /\ attempt[j] \in Nat
  BY ConstantsAssumption DEF HeldInv, TypeInv, TypeOK
<1>2. attempt[j] > 0
  BY <1>1 DEF HeldFor
<1>3. QED
  BY <1>1, <1>2 DEF HeldFor, Held, Listed, InHands

\* A process that runs belongs to a job some thread holds, unless the job has
\* its verdict, the run was cancelled or polling died: nothing runs on a worker
\* that nobody will ask about.
THEOREM NothingForgottenHolds == Spec => []NothingForgotten
BY HeldAndSeen, TypeInvHolds, HeldInvHolds, PTL

\* An error anywhere is noted; and once the scheduler has stopped without one,
\* every job it submitted has succeeded.
ErrorNoted == ~failed => sub.stage # "raised" /\ \A j \in Jobs : verdict[j] # "error"
StoppedClean ==
  mode # "run" /\ ~failed /\ ~unlisted /\ poll.stage # "dead"
    => \A j \in Jobs : attempt[j] > 0 => verdict[j] = "success"
FailureInv == ErrorNoted /\ StoppedClean

LEMMA HandlingFailure ==
  ASSUME TypeInv, FailureInv, HandlesJob
  PROVE  FailureInv'
<1>1. /\ poll.job \in Jobs /\ poll \in Polls /\ poll.stage \in Handling
      /\ verdict \in [Jobs -> {"none", "success", "error"}]
      /\ UNCHANGED <<attempt, sub, mode, unlisted>>
  BY HandlingThreads DEF TypeInv, TypeOK, ThreadsTyped, Polls, PollKept
<1> USE DEF FailureInv, ErrorNoted, StoppedClean, Handling
<1>2. CASE Fails
  BY <1>2 DEF Fails
<1>3. CASE Succeeds
  <2>1. verdict'[poll.job] = "success" /\ \A k \in Jobs \ {poll.job} : verdict'[k] = verdict[k]
    BY <1>1, <1>3 DEF Succeeds
  <2>2. failed' = failed
    BY <1>3 DEF Succeeds
  <2>3. QED
    BY <1>1, <2>1, <2>2
<1>4. CASE Waits \/ SeesSuccess \/ Fetches \/ Discards
  <2>1. failed' = failed /\ verdict' = verdict
    BY <1>4 DEF Waits, SeesSuccess, Unmoved, Fetches, Discards
  <2>2. QED
    BY <1>1, <2>1
<1>5. QED
  BY <1>2, <1>3, <1>4, HandlingOutcome

LEMMA FailureStep == TypeInv /\ HeldInv /\ FailureInv /\ [Next]_vars => FailureInv'
<1> SUFFICES ASSUME TypeInv, HeldInv, FailureInv, [Next]_vars PROVE FailureInv'
  OBVIOUS
<1>1. TypeOK /\ ThreadsTyped
  BY DEF TypeInv
<1> USE DEF FailureInv, ErrorNoted, StoppedClean
<1>2. CASE HandlesJob
  BY <1>2, HandlingFailure
<1>3. CASE \E k \in Jobs : Submit(k)
  <2>1. PICK k \in Jobs : Submit(k)
    BY <1>3
  <2>2. /\ verdict' = [verdict EXCEPT ![k] = "none"] /\ mode' = "run"
        /\ failed' = failed /\ sub'.stage = "prepare"
    BY <2>1 DEF Submit, Submittable
  <2>3. \A j \in Jobs : verdict'[j] = "error" => verdict[j] = "error"
    BY <1>1, <2>2 DEF TypeOK
  <2>4. QED
    BY <2>2, <2>3
<1>4. CASE Submission
  <2>1. SubmissionKept /\ (StaysSubmitted \/ HandedOver) /\ sub.job \in Jobs
    BY <1>4, SubmissionThreads, SubmissionWorker
  <2>2. failed' = TRUE \/ (failed' = failed /\ sub'.stage # "raised")
    BY <1>1, <2>1 DEF StaysSubmitted, HandedOver, TypeOK
  <2>3. failed = TRUE => failed' = TRUE
    BY <1>1, <2>1 DEF StaysSubmitted, HandedOver, TypeOK
  <2>4. QED
    BY <1>1, <2>1, <2>2, <2>3 DEF SubmissionKept, TypeOK
<1>5. CASE PollRound \/ PollNext \/ PollRoundEnd
  BY <1>5, ListThreads DEF ListKept, Taken, Visits, PutBack
<1>6. CASE WorkerStep
  BY <1>6, WorkerStepKept DEF ctlVars
<1>7. CASE (\E h \in Hosts : Partition(h)) \/ Tick \/ UNCHANGED vars
  BY <1>7 DEF Partition, Tick, vars, ctlVars
<1>8. CASE Cancel
  <2>1. /\ mode = "run" /\ sub.stage \in {"idle", "raised"}
        /\ failed' = (failed \/ active # {})
        /\ unlisted' = (active = {} /\ poll.stage # "sleep")
        /\ UNCHANGED <<attempt, verdict, sub, poll>>
    BY <1>8 DEF Cancel
  <2>2. ErrorNoted'
    BY <2>1
  <2>3. ASSUME ~failed', ~unlisted', NEW j \in Jobs, attempt[j] > 0, poll.stage # "dead"
        PROVE  verdict[j] = "success"
    <3>1. active = {} /\ ~failed /\ poll.stage = "sleep" /\ sub.stage = "idle"
      BY <2>1, <2>3
    <3>2. sub.job # j /\ poll.job # j /\ poll.todo = {} /\ poll.kept = {}
      BY <1>1, <3>1, NoJobAssumption DEF ThreadsTyped
    <3>3. ~Held(j)
      BY <3>1, <3>2 DEF Held, Listed
    <3>4. verdict[j] # "none"
      BY <2>1, <2>3, <3>1, <3>3 DEF HeldInv, HeldFor
    <3>5. verdict[j] # "error"
      BY <3>1
    <3>6. QED
      BY <1>1, <3>4, <3>5 DEF TypeOK
  <2>4. QED
    BY <2>1, <2>2, <2>3
<1>9. CASE Shutdown
  <2>1. /\ mode = "cancelled" \/ sub.stage = "raised" \/ poll.stage = "dead"
           \/ \A j \in Jobs : Final(j)
        /\ mode # "stopped"
        /\ UNCHANGED <<attempt, verdict, sub, poll, failed, unlisted>>
    BY <1>9 DEF Shutdown
  <2>2. (\A j \in Jobs : Final(j)) /\ ~failed => \A j \in Jobs : verdict[j] = "success"
    BY DEF Final
  <2>3. QED
    BY <2>1, <2>2
<1>10. QED
  BY <1>2, <1>3, <1>4, <1>5, <1>6, <1>7, <1>8, <1>9
     DEF Next, Others, PollJob, HandlesJob, WorkerStep

\* The hosts are handed back as not failed only after every submitted job has
\* succeeded, unless polling died or Ctrl-C missed the jobs being polled:
\* keep = on-failure keeps a failed run's instance.
THEOREM FailureSeenHolds == Spec => []FailureSeen
<1>1. Init => FailureInv
  BY DEF Init, FailureInv, ErrorNoted, StoppedClean
<1>2. FailureInv => FailureSeen
  BY DEF FailureInv, StoppedClean, FailureSeen
<1>3. QED
  BY <1>1, <1>2, FailureStep, HeldInvHolds, TypeInvHolds, PTL DEF Spec

-----------------------------------------------------------------------------
(* The first submission of a job.  A resubmission finds the directory, the *)
(* processes and the pid file of the one before, and none of this holds.   *)

Submitting(j) == sub.job = j /\ sub.stage # "raised"

\* One thread has the job, at one place, from its submission to its verdict.
InOneHand(j) ==
  /\ attempt[j] = 0 => verdict[j] = "none" /\ poll.job # j
  /\ attempt[j] = 0 \/ verdict[j] # "none"
       => /\ ~Listed(j) /\ ~Submitting(j)
          /\ poll.job = j => poll.stage \in {"cleanup", "dead"}
  /\ Submitting(j) => poll.job # j
  /\ sub.job = j /\ poll.job = j => poll.stage \in {"cleanup", "dead"}
  /\ sub.job = j \/ poll.job = j => ~Listed(j)
  /\ ~(j \in active /\ j \in poll.todo)
  /\ ~(j \in active /\ j \in poll.kept)
  /\ ~(j \in poll.todo /\ j \in poll.kept)

\* The launch starts the one process of the job, on its host, and exit code 0
\* is there only when that process has ended well in its directory.
OneProcess(j) ==
  /\ DOMAIN proc[j] \subseteq {1}
  /\ attempt[j] = 0 \/ (sub.job = j /\ sub.stage \notin {"await", "raised"})
       => DOMAIN proc[j] = {}
  /\ \A i \in DOMAIN proc[j] : proc[j][i].host = host[j]
  /\ \A h \in Hosts : dir[<<h, j>>].exit = "0"
       => /\ DOMAIN proc[j] = {1} /\ host[j] = h
          /\ EndedWell(proc[j][1]) /\ proc[j][1].here
  /\ poll.job = j /\ poll.stage = "retrieve" => dir[<<host[j], j>>].exit = "0"

\* The directory goes only after the outputs are published, or after the job
\* was reported failed and remove_failed is set.
OutputsKept(j) ==
  /\ poll.job = j /\ poll.stage \in {"discard", "report"} => local[j] = "whole"
  /\ verdict[j] = "success" => local[j] = "whole"
  /\ poll.job = j /\ poll.stage = "cleanup" => RemoveFailed /\ verdict[j] = "error"
  /\ \A i \in DOMAIN proc[j] : EndedWell(proc[j][i]) /\ ~proc[j][i].here
       => local[j] = "whole" \/ (RemoveFailed /\ verdict[j] = "error")

Once(j) == InOneHand(j) /\ OneProcess(j) /\ OutputsKept(j)
OnceInv == \A j \in Jobs : attempt[j] <= 1 => Once(j)

LEMMA OnceInit == Init => OnceInv
BY NoJobAssumption
   DEF Init, OnceInv, Once, InOneHand, OneProcess, OutputsKept, Listed, Fresh,
       Submitting

LEMMA HandlingHands ==
  ASSUME TypeInv, HandlesJob, NEW j \in Jobs, InOneHand(j)
  PROVE  InOneHand(j)'
<1>1. /\ poll.job \in Jobs /\ poll \in Polls /\ poll.stage \in Handling
      /\ verdict \in [Jobs -> {"none", "success", "error"}]
      /\ UNCHANGED <<attempt, sub, active>>
  BY HandlingThreads DEF TypeInv, TypeOK, ThreadsTyped, Polls, PollKept
<1> USE NoJobAssumption DEF InOneHand, Listed, Submitting, Handling, PollStages
<1>2. CASE Waits
  <2>1. verdict' = verdict
    BY <1>2 DEF Waits, Unmoved
  <2>2. CASE Keep
    <3>1. /\ poll'.job = NoJob /\ poll'.todo = poll.todo
          /\ poll'.kept = poll.kept \cup {poll.job}
          /\ poll.stage \notin {"cleanup", "dead"}
      BY <1>1, <1>2, <2>2, PollMoves DEF Waits
    <3>2. QED
      BY <1>1, <2>1, <3>1
  <2>3. CASE \E st \in {"pid", "unreachable", "timeout", "failed"} : PollTo(st)
    BY <1>1, <1>2, <2>1, <2>3, PollMoves DEF Waits
  <2>4. QED
    BY <1>2, <2>2, <2>3 DEF Waits
<1>3. CASE SeesSuccess
  BY <1>1, <1>3, PollMoves DEF SeesSuccess, Unmoved
<1>4. CASE Fails
  <2>1. verdict'[poll.job] = "error" /\ \A k \in Jobs \ {poll.job} : verdict'[k] = verdict[k]
    BY <1>1, <1>4 DEF Fails
  <2>2. /\ poll'.todo = poll.todo /\ poll'.kept = poll.kept
        /\ poll'.job = NoJob \/ (poll'.job = poll.job /\ poll'.stage = "cleanup")
        /\ poll.stage \in {"timeout", "failed", "retrieve"}
    BY <1>1, <1>4, PollMoves DEF Fails
  <2>3. QED
    BY <1>1, <2>1, <2>2
<1>5. CASE Fetches
  BY <1>1, <1>5, PollMoves DEF Fetches
<1>6. CASE Discards
  BY <1>1, <1>6, PollMoves DEF Discards
<1>7. CASE Succeeds
  <2>1. verdict'[poll.job] = "success" /\ \A k \in Jobs \ {poll.job} : verdict'[k] = verdict[k]
    BY <1>1, <1>7 DEF Succeeds
  <2>2. poll'.todo = poll.todo /\ poll'.kept = poll.kept /\ poll'.job = NoJob
        /\ poll.stage = "report"
    BY <1>1, <1>7, PollMoves DEF Succeeds
  <2>3. QED
    BY <1>1, <2>1, <2>2
<1>8. QED
  BY <1>2, <1>3, <1>4, <1>5, <1>6, <1>7, HandlingOutcome

LEMMA HandlingProcess ==
  ASSUME TypeInv, HandlesJob, NEW j \in Jobs, OneProcess(j)
  PROVE  OneProcess(j)'
<1>1. /\ poll.job \in Jobs /\ poll \in Polls /\ poll.stage \in Handling
      /\ host \in [Jobs -> Hosts]
      /\ UNCHANGED <<attempt, sub, host>>
  BY HandlingThreads DEF TypeInv, TypeOK, ThreadsTyped, Polls, PollKept
<1>2. poll'.stage # "retrieve" \/ (SeesSuccess /\ poll'.job = poll.job)
  BY <1>1, HandlingOutcome, PollMoves
     DEF Waits, SeesSuccess, Fails, Fetches, Discards, Succeeds, PollStages
<1>3. CASE UNCHANGED workerVars
  BY <1>1, <1>2, <1>3 DEF OneProcess, workerVars, SeesSuccess, D
<1>4. CASE Removed(poll.job) /\ ~UNCHANGED workerVars
  <2>1. poll'.stage # "retrieve"
    BY <1>2, <1>4 DEF SeesSuccess, Unmoved
  <2>2. CASE j = poll.job
    <3>1. \A h \in Hosts : dir'[<<h, j>>].exit # "0"
      <4>1. host[j] \in Hosts
        BY <1>1
      <4>2. dir'[<<host[j], j>>].exit = "none"
            /\ \A h \in Hosts \ {host[j]} : dir'[<<h, j>>] = dir[<<h, j>>]
        BY <1>4, <2>2, RemovedForJob
      <4>3. QED
        BY <4>1, <4>2 DEF OneProcess
    <3>2. /\ DOMAIN proc'[j] = DOMAIN proc[j]
          /\ \A i \in DOMAIN proc[j] : proc'[j][i].host = proc[j][i].host
      BY <1>1, <1>4, RemovedForJob
    <3>3. QED
      BY <1>1, <2>1, <3>1, <3>2 DEF OneProcess
  <2>3. CASE j # poll.job
    <3>1. /\ DOMAIN proc'[j] = DOMAIN proc[j]
          /\ \A i \in DOMAIN proc[j] : proc'[j][i] = proc[j][i]
          /\ \A h \in Hosts : dir'[<<h, j>>] = dir[<<h, j>>]
      BY <1>1, <1>4, <2>3, RemovedForJob
    <3>2. QED
      BY <1>1, <2>1, <3>1 DEF OneProcess
  <2>4. QED
    BY <2>2, <2>3
<1>5. QED
  BY <1>3, <1>4, HandlingData

LEMMA HandlingOutputs ==
  ASSUME TypeInv, HandlesJob, NEW j \in Jobs, Once(j)
  PROVE  OutputsKept(j)'
<1>1. /\ poll.job \in Jobs /\ poll \in Polls /\ poll.stage \in Handling
      /\ verdict \in [Jobs -> {"none", "success", "error"}]
      /\ local \in [Jobs -> {"none", "partial", "whole"}]
  BY HandlingThreads DEF TypeInv, TypeOK, ThreadsTyped, Polls
<1> USE DEF Handling, PollStages
<1>2. CASE Waits \/ SeesSuccess \/ Succeeds
  <2>1. proc' = proc /\ local' = local
    BY <1>2 DEF workerVars, Waits, SeesSuccess, Unmoved, Succeeds
  <2>2. CASE Waits \/ SeesSuccess
    <3>1. verdict' = verdict /\ poll'.stage \notin {"discard", "report", "cleanup"}
      BY <1>1, <2>2, PollMoves DEF Waits, SeesSuccess, Unmoved
    <3>2. QED
      BY <2>1, <3>1 DEF Once, OutputsKept
  <2>3. CASE Succeeds
    BY <1>1, <2>1, <2>3, PollMoves DEF Succeeds, Once, OutputsKept
  <2>4. QED
    BY <1>2, <2>2, <2>3
<1>3. CASE Fetches
  <2>1. poll'.stage = "discard" /\ poll'.job = poll.job /\ verdict' = verdict /\ proc' = proc
        /\ poll.stage = "retrieve"
    BY <1>1, <1>3, PollMoves DEF Fetches, workerVars
  <2>2. CASE j = poll.job
    <3>1. DOMAIN proc[j] = {1} /\ EndedWell(proc[j][1]) /\ proc[j][1].here
          /\ proc[j][1].host = host[j]
      <4>1. host[j] \in Hosts
        BY DEF TypeInv, TypeOK
      <4>2. dir[<<host[j], j>>].exit = "0"
        BY <2>1, <2>2 DEF Once, OneProcess
      <4>3. QED
        BY <4>1, <4>2 DEF Once, OneProcess
    <3>2. OutputsWhole(j)
      BY <3>1 DEF OutputsWhole, In, EndedWell
    <3>3. local'[j] = "whole"
      BY <1>1, <1>3, <2>2, <3>2 DEF Fetches
    <3>4. QED
      BY <2>1, <3>3 DEF OutputsKept
  <2>3. CASE j # poll.job
    <3>1. local'[j] = local[j]
      BY <1>1, <1>3, <2>3 DEF Fetches
    <3>2. QED
      BY <2>1, <2>3, <3>1 DEF Once, OutputsKept
  <2>4. QED
    BY <2>2, <2>3
<1>4. CASE Discards
  <2>1. verdict' = verdict /\ local' = local
    BY <1>4 DEF Discards
  <2>2. poll'.stage \in {"next", "report", "dead"}
        /\ (poll'.stage = "report" => poll'.job = poll.job /\ poll.stage = "discard")
        /\ poll.stage \in {"cleanup", "discard"}
    BY <1>1, <1>4, PollMoves DEF Discards
  <2>3. /\ DOMAIN proc'[j] = DOMAIN proc[j]
        /\ j # poll.job => \A m \in DOMAIN proc[j] : proc'[j][m] = proc[j][m]
    BY <1>1, <1>4, RemovedForJob DEF Discards, workerVars
  <2>4. j = poll.job => local[j] = "whole" \/ (RemoveFailed /\ verdict[j] = "error")
    BY <2>2 DEF Once, OutputsKept
  <2>5. QED
    BY <2>1, <2>2, <2>3, <2>4 DEF Once, OutputsKept
<1>5. CASE Fails
  <2>1. /\ proc' = proc /\ verdict'[poll.job] = "error"
        /\ \A k \in Jobs \ {poll.job} : verdict'[k] = verdict[k] /\ local'[k] = local[k]
    BY <1>1, <1>5 DEF Fails, workerVars
  <2>2. /\ poll'.stage \notin {"discard", "report"}
        /\ poll'.stage = "cleanup" => RemoveFailed /\ poll'.job = poll.job
    BY <1>1, <1>5, PollMoves DEF Fails
  <2>3. CASE j # poll.job
    BY <2>1, <2>2, <2>3 DEF Once, OutputsKept
  <2>4. CASE j = poll.job /\ local' = local
    BY <2>1, <2>2, <2>4 DEF Once, OutputsKept
  <2>5. CASE j = poll.job /\ poll.stage = "retrieve"
    <3>1. host[j] \in Hosts /\ dir[<<host[j], j>>].exit = "0"
      BY <2>5 DEF TypeInv, TypeOK, Once, OneProcess
    <3>2. DOMAIN proc[j] = {1} /\ proc[j][1].here
      BY <3>1 DEF Once, OneProcess
    <3>3. QED
      BY <2>1, <2>2, <2>5, <3>2 DEF OutputsKept
  <2>6. QED
    BY <1>5, <2>3, <2>4, <2>5 DEF Fails
<1>6. QED
  BY <1>2, <1>3, <1>4, <1>5, HandlingOutcome

LEMMA SubmitOnce ==
  ASSUME TypeInv, NEW k \in Jobs, Submit(k), NEW j \in Jobs,
         attempt[j] <= 1 => Once(j), attempt'[j] <= 1
  PROVE  Once(j)'
<1>1. TypeOK /\ ThreadsTyped /\ attempt[k] \in Nat
  BY ConstantsAssumption DEF TypeInv, TypeOK
<1>2. /\ sub.job = NoJob /\ sub' = [job |-> k, stage |-> "prepare"]
      /\ attempt' = [attempt EXCEPT ![k] = attempt[k] + 1]
      /\ verdict' = [verdict EXCEPT ![k] = "none"]
      /\ host' = [host EXCEPT ![k] = next]
      /\ UNCHANGED <<active, poll, local, dir, proc>>
  BY <1>1 DEF Submit, Submittable, ThreadsTyped, workerVars
<1>3. CASE j = k
  <2>1. attempt'[j] = attempt[j] + 1 /\ attempt[j] = 0 /\ verdict'[j] = "none"
    BY <1>1, <1>2, <1>3 DEF TypeOK
  <2>2. Once(j)
    BY <2>1
  <2>3. InOneHand(j)'
    BY <1>2, <1>3, <2>1, <2>2 DEF Once, InOneHand, Listed, Submitting
  <2>4. OneProcess(j)'
    BY <1>2, <2>1, <2>2 DEF Once, OneProcess, InOneHand
  <2>5. OutputsKept(j)'
    BY <1>2, <2>1, <2>2 DEF Once, OneProcess, OutputsKept, InOneHand
  <2>6. QED
    BY <2>3, <2>4, <2>5 DEF Once
<1>4. CASE j # k
  <2>1. attempt'[j] = attempt[j] /\ verdict'[j] = verdict[j] /\ host'[j] = host[j]
    BY <1>1, <1>2, <1>4 DEF TypeOK
  <2>2. Once(j) /\ sub.job # j /\ sub'.job # j
    BY <1>2, <1>4, <2>1, NoJobAssumption
  <2>3. InOneHand(j)'
    BY <1>2, <2>1, <2>2 DEF Once, InOneHand, Listed, Submitting
  <2>4. OneProcess(j)'
    BY <1>2, <2>1, <2>2 DEF Once, OneProcess
  <2>5. OutputsKept(j)'
    BY <1>2, <2>1, <2>2 DEF Once, OutputsKept
  <2>6. QED
    BY <2>3, <2>4, <2>5 DEF Once
<1>5. QED
  BY <1>3, <1>4

LEMMA SubmissionOnce ==
  ASSUME TypeInv, Submission, NEW j \in Jobs, Once(j)
  PROVE  Once(j)'
<1>1. /\ SubmissionKept /\ (StaysSubmitted \/ HandedOver)
      /\ sub.job \in Jobs /\ PidAndExitKept
      /\ \/ proc' = proc
         \/ Spawn(sub.job) /\ sub.stage = "launch" /\ sub'.stage \in {"await", "raised"}
  BY SubmissionThreads, SubmissionWorker
<1>2. sub \in Subs /\ ThreadsTyped
  BY DEF TypeInv, TypeOK, Subs
<1>3. /\ UNCHANGED <<attempt, verdict, host, poll, local>>
      /\ \A h \in Hosts : dir'[<<h, j>>].exit = dir[<<h, j>>].exit
  BY <1>1 DEF SubmissionKept, PidAndExitKept
<1>4. \/ /\ sub'.job = sub.job /\ active' = active
         /\ sub'.stage \notin {"await", "raised"} => sub.stage \notin {"await", "raised"}
      \/ sub'.job = NoJob /\ active' = active \cup {sub.job}
  BY <1>1, <1>2 DEF StaysSubmitted, HandedOver, Subs
<1>5. sub.stage # "raised"
  BY <1>1 DEF StaysSubmitted, HandedOver
<1>6. InOneHand(j)'
  BY <1>1, <1>3, <1>4, <1>5, NoJobAssumption DEF Once, InOneHand, Listed, Submitting
<1>7. CASE proc' = proc
  <2>1. OneProcess(j)'
    <3>1. host[j] \in Hosts
      BY DEF TypeInv, TypeOK
    <3>2. QED
      BY <1>3, <1>4, <1>7, <3>1, NoJobAssumption DEF Once, OneProcess
  <2>2. OutputsKept(j)'
    BY <1>3, <1>7 DEF Once, OutputsKept
  <2>3. QED
    BY <1>6, <2>1, <2>2 DEF Once
<1>8. ASSUME NEW k \in Jobs, Spawn(k), sub.job = k, sub.stage = "launch",
             sub'.stage \in {"await", "raised"}
      PROVE  Once(j)'
  <2>1. /\ proc \in [Jobs -> Seq(Process)] /\ host[k] \in Hosts /\ host[j] \in Hosts
        /\ dir[<<host[k], k>>].staged \in BOOLEAN
    BY DEF TypeInv, TypeOK
  <2>2. PICK h \in Hosts : h = host[k]
    BY <2>1
  <2>3. /\ \A i \in Jobs \ {k} : proc'[i] = proc[i]
        /\ Len(proc[k]) \in Nat /\ DOMAIN proc[k] = 1..Len(proc[k])
        /\ DOMAIN proc'[k] = 1..(Len(proc[k]) + 1)
        /\ proc'[k][Len(proc[k]) + 1] = [host |-> h, phase |-> "born", ok |-> FALSE,
                           here |-> TRUE, term |-> FALSE,
                           inputs |-> dir[<<h, k>>].staged]
    BY <1>8, <2>1, <2>2, SpawnEffect
  <2>4. CASE j = k
    <3>1. DOMAIN proc[j] = {}
      BY <1>8, <2>4 DEF Once, OneProcess
    <3>2. Len(proc[j]) = 0
      <4>1. Len(proc[j]) \in Nat /\ 1..Len(proc[j]) = {}
        BY <2>3, <2>4, <3>1
      <4>2. Len(proc[j]) # 0 => 1 \in 1..Len(proc[j])
        BY <4>1
      <4>3. QED
        BY <4>1, <4>2
    <3>3. /\ DOMAIN proc'[j] = {1} /\ proc'[j][1].host = host[j]
          /\ proc'[j][1].phase = "born"
      BY <2>2, <2>3, <2>4, <3>2
    <3>4. \A g \in Hosts : dir[<<g, j>>].exit # "0"
      BY <3>1 DEF Once, OneProcess
    <3>5. attempt[j] # 0 /\ (poll.job = j => poll.stage # "retrieve")
      BY <1>8, <2>1, <2>4, <3>4 DEF Once, OneProcess, InOneHand, Submitting
    <3>6. OneProcess(j)'
      BY <1>3, <1>8, <3>3, <3>4, <3>5 DEF OneProcess
    <3>7. OutputsKept(j)'
      BY <1>3, <3>3 DEF Once, OutputsKept, EndedWell
    <3>8. QED
      BY <1>6, <3>6, <3>7 DEF Once
  <2>5. CASE j # k
    <3>1. proc'[j] = proc[j]
      BY <2>3, <2>5
    <3>2. sub.job # j /\ sub'.job # j
      BY <1>4, <1>8, <2>5, NoJobAssumption
    <3>3. OneProcess(j)'
      BY <1>3, <2>1, <3>1, <3>2 DEF Once, OneProcess
    <3>4. OutputsKept(j)'
      BY <1>3, <3>1 DEF Once, OutputsKept
    <3>5. QED
      BY <1>6, <3>3, <3>4 DEF Once
  <2>6. QED
    BY <2>4, <2>5
<1>9. QED
  BY <1>1, <1>7, <1>8

LEMMA ListOnce ==
  ASSUME TypeInv, PollRound \/ PollNext \/ PollRoundEnd, NEW j \in Jobs, Once(j)
  PROVE  Once(j)'
<1>1. ListKept /\ (Taken \/ (\E k \in Jobs : Visits(k)) \/ PutBack)
  BY ListThreads
<1>2. UNCHANGED <<attempt, verdict, host, sub, local, dir, proc>>
  BY <1>1 DEF ListKept
<1>3. ThreadsTyped
  BY DEF TypeInv
<1>4. InOneHand(j)'
  BY <1>1, <1>2, <1>3, NoJobAssumption
     DEF Taken, Visits, PutBack, ThreadsTyped, Once, InOneHand, Listed,
         Submitting
<1>5. poll'.stage \in {"next", "exit", "sleep"}
  BY <1>1 DEF Taken, Visits, PutBack
<1>6. OneProcess(j)' /\ OutputsKept(j)'
  BY <1>2, <1>5 DEF Once, OneProcess, OutputsKept
<1>7. QED
  BY <1>4, <1>6 DEF Once

LEMMA WorkerOnce ==
  ASSUME TypeInv, WorkerStep, NEW j \in Jobs, Once(j)
  PROVE  Once(j)'
<1>1. /\ proc \in [Jobs -> Seq(Process)] /\ dir \in [Hosts \X Jobs -> Dirs]
      /\ host[j] \in Hosts
  BY DEF TypeInv, TypeOK, Dirs
<1>2. /\ UNCHANGED <<attempt, verdict, host, sub, active, poll, local>>
      /\ DOMAIN proc'[j] = DOMAIN proc[j]
  BY WorkerStepKept DEF ctlVars
<1>3. InOneHand(j)'
  BY <1>2 DEF Once, InOneHand, Listed, Submitting
<1>4. PICK k \in Jobs : \E i \in DOMAIN proc[k] :
         ProcStart(k, i) \/ ProcEnd(k, i) \/ ProcKilled(k, i)
  BY DEF WorkerStep, ProcStep
<1>5. PICK i \in DOMAIN proc[k] : ProcStart(k, i) \/ ProcEnd(k, i) \/ ProcKilled(k, i)
  BY <1>4
<1>6. proc[k][i] \in Process /\ Alive(proc[k][i])
  BY <1>1, <1>5, ElementOfSeq, LenProperties DEF ProcStart, ProcEnd, ProcKilled, Alive
<1> DEFINE d == <<proc[k][i].host, k>>
<1>7. d \in Hosts \X Jobs
  BY <1>6 DEF Process
<1>8. CASE j # k
  <2>1. proc'[j] = proc[j]
    <3>1. PICK f : SetProc(k, i, f)
      BY <1>5 DEF ProcStart, ProcEnd, ProcKilled
    <3>2. QED
      BY <1>1, <1>8, <3>1 DEF SetProc
  <2>2. \A h \in Hosts : dir'[<<h, j>>] = dir[<<h, j>>]
    <3>1. \/ dir' = dir
          \/ dir' = [dir EXCEPT ![d].pid = i]
          \/ \E e \in {"0", "1"} : dir' = [dir EXCEPT ![d].exit = e]
      BY <1>5 DEF ProcStart, ProcEnd, ProcKilled
    <3>2. \A h \in Hosts : <<h, j>> # d
      BY <1>8
    <3>3. QED
      BY <1>1, <3>1, <3>2
  <2>3. OneProcess(j)' /\ OutputsKept(j)'
    BY <1>1, <1>2, <2>1, <2>2 DEF Once, OneProcess, OutputsKept
  <2>4. QED
    BY <1>3, <2>3 DEF Once
<1>9. CASE j = k
  <2>1. i = 1 /\ DOMAIN proc[j] = {1} /\ proc[j][1].host = host[j] /\ d = <<host[j], j>>
    BY <1>9 DEF Once, OneProcess
  <2>2. ~EndedWell(proc[j][1])
    BY <1>6, <1>9, <2>1 DEF Alive, EndedWell
  <2>3. /\ \A h \in Hosts : dir[<<h, j>>].exit # "0"
        /\ poll.job = j => poll.stage # "retrieve"
    BY <1>1, <2>2 DEF Once, OneProcess
  <2>4. /\ proc'[j][1].host = host[j]
        /\ EndedWell(proc'[j][1]) => proc'[j][1].here
        /\ \A h \in Hosts : dir'[<<h, j>>].exit = "0"
              => h = host[j] /\ EndedWell(proc'[j][1]) /\ proc'[j][1].here
    <3>1. CASE ProcStart(k, i)
      <4>1. SetProc(k, i, [proc[k][i] EXCEPT !.phase = "run"])
        BY <3>1 DEF ProcStart
      <4>2. [proc[k][i] EXCEPT !.phase = "run"] \in Process
        BY <1>6 DEF Process
      <4>3. proc'[j][1] = [proc[k][i] EXCEPT !.phase = "run"]
        BY <1>1, <1>9, <2>1, <4>1, <4>2, SetProcEffect
      <4>4. proc'[j][1].host = host[j] /\ ~EndedWell(proc'[j][1])
        BY <1>6, <1>9, <2>1, <4>3 DEF Process, EndedWell
      <4>5. \A h \in Hosts : dir'[<<h, j>>].exit = dir[<<h, j>>].exit
        <5>1. dir' = dir \/ dir' = [dir EXCEPT ![d].pid = i]
          BY <3>1 DEF ProcStart
        <5>2. ASSUME NEW e \in Hosts \X Jobs, dir' = [dir EXCEPT ![d].pid = i]
              PROVE  dir'[e].exit = dir[e].exit
          <6>1. dir'[e] = IF e = d THEN [dir[d] EXCEPT !.pid = i] ELSE dir[e]
            BY <1>1, <1>7, <5>2
          <6>2. dir[d] \in Dirs
            BY <1>1, <1>7
          <6>3. QED
            BY <6>1, <6>2 DEF Dirs
        <5>3. QED
          BY <5>1, <5>2
      <4>6. QED
        BY <2>3, <4>4, <4>5
    <3>2. CASE ProcKilled(k, i)
      <4>1. SetProc(k, i, [proc[k][i] EXCEPT !.phase = "done", !.ok = FALSE])
        BY <3>2 DEF ProcKilled
      <4>2. [proc[k][i] EXCEPT !.phase = "done", !.ok = FALSE] \in Process
        BY <1>6 DEF Process
      <4>3. proc'[j][1] = [proc[k][i] EXCEPT !.phase = "done", !.ok = FALSE]
        BY <1>1, <1>9, <2>1, <4>1, <4>2, SetProcEffect
      <4>4. proc'[j][1].host = host[j] /\ ~EndedWell(proc'[j][1])
        BY <1>6, <1>9, <2>1, <4>3 DEF Process, EndedWell
      <4>5. dir' = dir
        BY <3>2 DEF ProcKilled
      <4>6. QED
        BY <2>3, <4>4, <4>5
    <3>3. CASE ProcEnd(k, i)
      <4>1. PICK ok \in BOOLEAN :
              LET good == ok /\ proc[k][i].inputs /\ proc[k][i].here
              IN /\ SetProc(k, i, [proc[k][i] EXCEPT !.phase = "done", !.ok = good])
                 /\ dir' = IF proc[k][i].here
                           THEN [dir EXCEPT ![d].exit = IF good THEN "0" ELSE "1"]
                           ELSE dir
        BY <3>3 DEF ProcEnd
      <4> DEFINE good == ok /\ proc[k][i].inputs /\ proc[k][i].here
                 f == [proc[k][i] EXCEPT !.phase = "done", !.ok = good]
      <4>2. good \in BOOLEAN /\ (good => proc[k][i].here)
        OBVIOUS
      <4>3. SetProc(k, i, f) /\ dir' = IF proc[k][i].here
                           THEN [dir EXCEPT ![d].exit = IF good THEN "0" ELSE "1"]
                           ELSE dir
        BY <4>1
      <4> HIDE DEF good
      <4>4. f \in Process /\ f.host = proc[k][i].host /\ f.here = proc[k][i].here
            /\ f.phase = "done" /\ f.ok = good
        BY <1>6, <4>2 DEF Process
      <4> HIDE DEF f
      <4>5. proc'[j][1] = f
        BY <1>1, <1>9, <2>1, <4>3, <4>4, SetProcEffect
      <4>6. \A h \in Hosts : dir'[<<h, j>>].exit = "0" => h = host[j] /\ good
        <5>1. CASE proc[k][i].here
          <6>1. dir' = [dir EXCEPT ![d].exit = IF good THEN "0" ELSE "1"]
            BY <4>3, <5>1
          <6>2. \A h \in Hosts : dir'[<<h, j>>].exit = IF h = host[j]
                      THEN (IF good THEN "0" ELSE "1") ELSE dir[<<h, j>>].exit
            BY <1>1, <1>7, <1>9, <2>1, <6>1 DEF Dirs
          <6>3. QED
            BY <2>3, <6>2
        <5>2. CASE ~proc[k][i].here
          BY <2>3, <4>3, <5>2
        <5>3. QED
          BY <5>1, <5>2
      <4>7. QED
        BY <1>9, <2>1, <4>2, <4>4, <4>5, <4>6 DEF EndedWell
    <3>4. QED
      BY <1>5, <3>1, <3>2, <3>3
  <2>5. OneProcess(j)'
    BY <1>2, <2>1, <2>3, <2>4 DEF Once, OneProcess
  <2>6. OutputsKept(j)'
    BY <1>2, <2>1, <2>4 DEF Once, OutputsKept
  <2>7. QED
    BY <1>3, <2>5, <2>6 DEF Once
<1>10. QED
  BY <1>8, <1>9

\* SIGTERM does not touch a process that has ended, and moves none.
LEMMA TerminatedOnce ==
  ASSUME TypeInv, NEW hit, Terminate(hit), NEW j \in Jobs
  PROVE  /\ DOMAIN proc'[j] = DOMAIN proc[j] /\ dir' = dir
         /\ \A m \in DOMAIN proc[j] :
              /\ proc'[j][m].host = proc[j][m].host
              /\ proc'[j][m].phase = proc[j][m].phase
              /\ EndedWell(proc[j][m]) \/ EndedWell(proc'[j][m])
                   => proc'[j][m] = proc[j][m]
<1>1. /\ DOMAIN proc'[j] = DOMAIN proc[j] /\ dir' = dir
      /\ \A m \in DOMAIN proc[j] :
           \/ proc'[j][m] = proc[j][m]
           \/ /\ Alive(proc[j][m])
              /\ proc'[j][m] = [proc[j][m] EXCEPT !.term = TRUE]
  BY TerminateEffect
<1>2. proc \in [Jobs -> Seq(Process)]
  BY DEF TypeInv, TypeOK
<1>3. \A m \in DOMAIN proc[j] : proc[j][m] \in Process
  BY <1>2, ElementOfSeq, LenProperties
<1>4. \A m \in DOMAIN proc[j] :
        LET q == [proc[j][m] EXCEPT !.term = TRUE]
        IN q.host = proc[j][m].host /\ q.phase = proc[j][m].phase
  BY <1>3 DEF Process
<1>5. QED
  BY <1>1, <1>4 DEF EndedWell, Alive

LEMMA CancelOnce ==
  ASSUME TypeInv, Cancel, NEW j \in Jobs, Once(j)
  PROVE  Once(j)'
<1>1. /\ UNCHANGED <<attempt, verdict, host, sub, poll, local>>
      /\ active' = {}
  BY DEF Cancel
<1>2. PICK hit : Terminate(hit)
  BY DEF Cancel
<1>3. /\ DOMAIN proc'[j] = DOMAIN proc[j]
      /\ \A m \in DOMAIN proc[j] :
           /\ proc'[j][m].host = proc[j][m].host
           /\ EndedWell(proc[j][m]) => proc'[j][m] = proc[j][m]
           /\ EndedWell(proc'[j][m]) => proc'[j][m] = proc[j][m]
      /\ dir' = dir
  BY <1>2, TerminatedOnce
<1>4. host[j] \in Hosts
  BY DEF TypeInv, TypeOK
<1>5. InOneHand(j)'
  BY <1>1 DEF Once, InOneHand, Listed, Submitting
<1>6. OneProcess(j)'
  BY <1>1, <1>3, <1>4 DEF Once, OneProcess
<1>7. OutputsKept(j)'
  BY <1>1, <1>3 DEF Once, OutputsKept
<1>8. QED
  BY <1>5, <1>6, <1>7 DEF Once

LEMMA OnceStep == TypeInv /\ OnceInv /\ [Next]_vars => OnceInv'
<1> SUFFICES ASSUME TypeInv, OnceInv, [Next]_vars, NEW j \in Jobs, attempt'[j] <= 1
             PROVE  Once(j)'
  BY DEF OnceInv
<1>1. CASE \E k \in Jobs : Submit(k)
  BY <1>1, SubmitOnce DEF OnceInv
<1>2. CASE HandlesJob
  <2>1. Once(j)
    BY <1>2, HandlingThreads DEF OnceInv, PollKept
  <2>2. QED
    BY <1>2, <2>1, HandlingHands, HandlingProcess, HandlingOutputs DEF Once
<1>3. CASE Submission
  <2>1. Once(j)
    BY <1>3, SubmissionThreads DEF OnceInv, SubmissionKept
  <2>2. QED
    BY <1>3, <2>1, SubmissionOnce
<1>4. CASE PollRound \/ PollNext \/ PollRoundEnd
  <2>1. Once(j)
    BY <1>4, ListThreads DEF OnceInv, ListKept
  <2>2. QED
    BY <1>4, <2>1, ListOnce
<1>5. CASE WorkerStep
  <2>1. Once(j)
    BY <1>5, WorkerStepKept DEF OnceInv, ctlVars
  <2>2. QED
    BY <1>5, <2>1, WorkerOnce
<1>6. CASE Cancel
  <2>1. Once(j)
    BY <1>6 DEF OnceInv, Cancel
  <2>2. QED
    BY <1>6, <2>1, CancelOnce
<1>7. CASE (\E h \in Hosts : Partition(h)) \/ Tick \/ Shutdown \/ UNCHANGED vars
  <2>1. UNCHANGED <<attempt, verdict, host, sub, active, poll, local, dir, proc>>
    BY <1>7 DEF Partition, Tick, Shutdown, vars, ctlVars, workerVars
  <2>2. QED
    BY <2>1 DEF OnceInv, Once, InOneHand, OneProcess, OutputsKept, Listed,
       Submitting
<1>8. QED
  BY <1>1, <1>2, <1>3, <1>4, <1>5, <1>6, <1>7
     DEF Next, Others, PollJob, HandlesJob, WorkerStep

LEMMA OnceInvHolds == Spec => []OnceInv
BY OnceInit, OnceStep, TypeInvHolds, PTL DEF Spec

-----------------------------------------------------------------------------
(* Runs in which no job is submitted twice: no rule has retries, or Snake- *)
(* make is run without them.                                               *)

OneSubmission == Restartable = {} \/ MaxAttempts = 1
AtMostOne == \A j \in Jobs : attempt[j] <= 1

LEMMA AttemptsElsewhere ==
  ASSUME TypeInv, [Next]_vars, ~(\E j \in Jobs : Submit(j))
  PROVE  attempt' = attempt
<1>1. CASE HandlesJob
  BY <1>1, HandlingThreads DEF PollKept
<1>2. CASE Submission
  BY <1>2, SubmissionThreads DEF SubmissionKept
<1>3. CASE PollRound \/ PollNext \/ PollRoundEnd
  BY <1>3, ListThreads DEF ListKept
<1>4. CASE WorkerStep
  BY <1>4, WorkerStepKept DEF ctlVars
<1>5. CASE (\E h \in Hosts : Partition(h)) \/ Tick \/ Cancel \/ Shutdown \/ UNCHANGED vars
  BY <1>5 DEF Partition, Tick, Cancel, Shutdown, vars, ctlVars
<1>6. QED
  BY <1>1, <1>2, <1>3, <1>4, <1>5 DEF Next, Others, PollJob, HandlesJob, WorkerStep

LEMMA AtMostOneStep ==
  ASSUME OneSubmission PROVE TypeInv /\ AtMostOne /\ [Next]_vars => AtMostOne'
<1> SUFFICES ASSUME TypeInv, AtMostOne, [Next]_vars PROVE AtMostOne'
  OBVIOUS
<1>1. CASE \E j \in Jobs : Submit(j)
  <2>1. PICK j \in Jobs : Submit(j)
    BY <1>1
  <2>2. attempt \in [Jobs -> 0..MaxAttempts] /\ MaxAttempts \in Nat
    BY ConstantsAssumption DEF TypeInv, TypeOK
  <2>3. attempt' = [attempt EXCEPT ![j] = attempt[j] + 1]
        /\ (attempt[j] = 0 \/ (j \in Restartable /\ attempt[j] < MaxAttempts))
    BY <2>1 DEF Submit, Submittable, MayRestart
  <2>4. attempt[j] \in Nat /\ attempt[j] = 0
    BY <2>2, <2>3 DEF OneSubmission
  <2>5. QED
    BY <2>2, <2>3, <2>4 DEF AtMostOne
<1>2. CASE ~(\E j \in Jobs : Submit(j))
  BY <1>2, AttemptsElsewhere DEF AtMostOne
<1>3. QED
  BY <1>1, <1>2

LEMMA AtMostOneHolds == ASSUME OneSubmission PROVE Spec => []AtMostOne
<1>1. Init => AtMostOne
  BY DEF Init, AtMostOne
<1>2. QED
  BY <1>1, AtMostOneStep, TypeInvHolds, PTL DEF Spec

LEMMA OnceHolds == ASSUME OneSubmission PROVE Spec => [](\A j \in Jobs : Once(j))
<1>1. AtMostOne /\ OnceInv => \A j \in Jobs : Once(j)
  BY DEF AtMostOne, OnceInv
<1>2. QED
  BY <1>1, AtMostOneHolds, OnceInvHolds, PTL

\* A job that one thread has, and that wrote with one process, runs once.
LEMMA OnceRuns ==
  ASSUME \A j \in Jobs : Once(j)
  PROVE  RunsOnce
<1> SUFFICES ASSUME NEW j \in Jobs, NEW h \in Hosts
             PROVE  Cardinality(LiveIn(h, j)) <= 1
  BY DEF RunsOnce
<1>1. LiveIn(h, j) \subseteq {1}
  BY DEF Once, OneProcess, LiveIn, In
<1>2. IsFiniteSet({1}) /\ Cardinality({1}) = 1
  BY FS_Singleton
<1>3. Cardinality(LiveIn(h, j)) <= Cardinality({1})
  BY <1>1, <1>2, FS_Subset
<1>4. QED
  BY <1>2, <1>3

\* However commands fail, the launch is never repeated: two processes of a job
\* never run in one directory.
THEOREM RunsOnceHolds == ASSUME OneSubmission PROVE Spec => []RunsOnce
BY OnceRuns, OnceHolds, PTL

\* Success is reported only after the outputs of a process that ended well have
\* been published.
THEOREM SuccessIsPublishedHolds ==
  ASSUME OneSubmission PROVE Spec => []SuccessIsPublished
<1>1. (\A j \in Jobs : Once(j)) => SuccessIsPublished
  BY DEF Once, OutputsKept, SuccessIsPublished
<1>2. QED
  BY <1>1, OnceHolds, PTL

\* The directory of a command that succeeded is removed only when its outputs
\* are in place, or the job was reported failed and remove_failed is set.
THEOREM OutputsNeverLostHolds ==
  ASSUME OneSubmission PROVE Spec => []OutputsNeverLost
<1>1. (\A j \in Jobs : Once(j)) => OutputsNeverLost
  BY DEF Once, OutputsKept, OutputsNeverLost
<1>2. QED
  BY <1>1, OnceHolds, PTL

-----------------------------------------------------------------------------
(* The refinement.                                                         *)

LEMMA HandlingVerdict ==
  ASSUME TypeInv, HandlesJob, \A j \in Jobs : Once(j)
  PROVE  [Verdicts!Next]_(Verdicts!vars)
<1> DEFINE j == poll.job
<1>1. /\ j \in Jobs /\ poll.stage \in Handling /\ attempt' = attempt /\ Once(j)
      /\ attempt[j] \in Nat
  BY HandlingThreads, ConstantsAssumption DEF TypeInv, TypeOK, ThreadsTyped, PollKept
<1>2. poll.stage \notin {"cleanup", "dead"} => Verdicts!Pending(j)
  BY <1>1 DEF Once, InOneHand, Verdicts!Pending
<1> HIDE DEF j
<1>3. CASE Fetches
  <2>1. Verdicts!Deliver(j)
    BY <1>1, <1>2, <1>3 DEF Fetches, Verdicts!Deliver, j
  <2>2. QED
    BY <1>1, <2>1 DEF Verdicts!Next
<1>4. CASE Fails
  <2>1. \E o \in {local[j], "partial", "whole"} : local' = [local EXCEPT ![j] = o]
    <3>1. local \in [Jobs -> {"none", "partial", "whole"}]
      BY DEF TypeInv, TypeOK
    <3>2. [local EXCEPT ![j] = local[j]] = local
      BY <3>1
    <3>3. QED
      BY <1>4, <3>2 DEF Fails, j
  <2>2. Verdicts!Pending(j) /\ attempt' = attempt /\ verdict' = [verdict EXCEPT ![j] = "error"]
    BY <1>1, <1>2, <1>4 DEF Fails, j
  <2>3. Verdicts!Fail(j)
    BY <2>1, <2>2 DEF Verdicts!Fail
  <2>4. QED
    BY <1>1, <2>3 DEF Verdicts!Next
<1>5. CASE Succeeds
  <2>1. local[j] = "whole"
    BY <1>1, <1>5 DEF Succeeds, Once, OutputsKept, j
  <2>2. Verdicts!Succeed(j)
    BY <1>1, <1>2, <1>5, <2>1 DEF Succeeds, Verdicts!Succeed, j
  <2>3. QED
    BY <1>1, <2>2 DEF Verdicts!Next
<1>6. CASE Waits \/ SeesSuccess \/ Discards
  BY <1>1, <1>6 DEF Waits, SeesSuccess, Unmoved, Discards, Verdicts!vars
<1>7. QED
  BY <1>3, <1>4, <1>5, <1>6, HandlingOutcome

LEMMA VerdictStep ==
  TypeInv /\ (\A j \in Jobs : Once(j)) /\ [Next]_vars => [Verdicts!Next]_(Verdicts!vars)
<1> SUFFICES ASSUME TypeInv, \A j \in Jobs : Once(j), [Next]_vars
             PROVE  [Verdicts!Next]_(Verdicts!vars)
  OBVIOUS
<1>1. CASE \E j \in Jobs : Submit(j)
  <2>1. PICK j \in Jobs : Submit(j)
    BY <1>1
  <2>2. Verdicts!Submit(j)
    BY <2>1 DEF Submit, Submittable, MayRestart, Verdicts!Submit
  <2>3. QED
    BY <2>2 DEF Verdicts!Next
<1>2. CASE HandlesJob
  BY <1>2, HandlingVerdict
<1>3. CASE Submission
  BY <1>3, SubmissionThreads DEF SubmissionKept, Verdicts!vars
<1>4. CASE PollRound \/ PollNext \/ PollRoundEnd
  BY <1>4, ListThreads DEF ListKept, Verdicts!vars
<1>5. CASE WorkerStep
  BY <1>5, WorkerStepKept DEF ctlVars, Verdicts!vars
<1>6. CASE (\E h \in Hosts : Partition(h)) \/ Tick \/ Cancel \/ Shutdown \/ UNCHANGED vars
  BY <1>6 DEF Partition, Tick, Cancel, Shutdown, vars, ctlVars, Verdicts!vars
<1>7. QED
  BY <1>1, <1>2, <1>3, <1>4, <1>5, <1>6
     DEF Next, Others, PollJob, HandlesJob, WorkerStep

\* The executor implements what Snakemake relies on: one verdict per
\* submission, none before the job was submitted, success final and only with
\* complete outputs that nobody touches any more.
THEOREM ImplementsVerdicts == ASSUME OneSubmission PROVE Spec => VerdictsSpec
<1>1. Init => Verdicts!Init
  BY DEF Init, Verdicts!Init
<1>2. QED
  BY <1>1, VerdictStep, OnceHolds, TypeInvHolds, PTL DEF Spec, VerdictsSpec, Verdicts!Spec

-----------------------------------------------------------------------------
(* Every submission, the repeated ones too.                                *)

\* The submission in progress has not reached its launch.
ToLaunch(j) == sub.job = j /\ sub.stage \notin {"await", "raised"}
LaunchesFor(j) == /\ Len(proc[j]) <= attempt[j]
                  /\ ToLaunch(j) => Len(proc[j]) < attempt[j]
Launches == \A j \in Jobs : LaunchesFor(j)

\* Outside the launch the number of processes of a job stays the same.
LEMMA LengthKept ==
  ASSUME TypeInv, [Next]_vars, NEW j \in Jobs
  PROVE  \/ Len(proc'[j]) = Len(proc[j])
         \/ /\ Submission /\ sub.job = j /\ sub.stage = "launch"
            /\ Len(proc'[j]) = Len(proc[j]) + 1
<1>1. TypeOK /\ TypeOK'
  BY TypeInvNext DEF TypeInv
<1>2. /\ Len(proc[j]) \in Nat /\ DOMAIN proc[j] = 1..Len(proc[j])
      /\ Len(proc'[j]) \in Nat /\ DOMAIN proc'[j] = 1..Len(proc'[j])
  BY <1>1, LenProperties DEF TypeOK
<1>3. CASE DOMAIN proc'[j] = DOMAIN proc[j]
  BY <1>2, <1>3
<1>4. CASE Submission /\ Spawn(j) /\ sub.job = j /\ sub.stage = "launch"
  <2>1. host[j] \in Hosts /\ dir[<<host[j], j>>].staged \in BOOLEAN
    BY <1>1 DEF TypeOK
  <2>2. PICK h \in Hosts : h = host[j]
    BY <2>1
  <2>3. Len(proc'[j]) = Len(proc[j]) + 1
    BY <1>1, <1>4, <2>1, <2>2, SpawnEffect DEF TypeOK
  <2>4. QED
    BY <1>4, <2>3
<1>5. QED
  BY <1>3, <1>4, ProcessesElsewhere

LEMMA LaunchesStep ==
  ASSUME TypeInv, Launches, [Next]_vars, NEW j \in Jobs
  PROVE  LaunchesFor(j)'
<1>1. /\ TypeOK /\ ThreadsTyped /\ Len(proc[j]) \in Nat /\ LaunchesFor(j)
      /\ attempt \in [Jobs -> 0..MaxAttempts] /\ MaxAttempts \in Nat
  BY LenProperties, ConstantsAssumption DEF TypeInv, TypeOK, Launches
<1>2. CASE \E k \in Jobs : Submit(k)
  <2>1. PICK k \in Jobs : Submit(k)
    BY <1>2
  <2>2. /\ attempt' = [attempt EXCEPT ![k] = attempt[k] + 1] /\ proc' = proc
        /\ sub.job = NoJob /\ sub'.job = k
    BY <1>1, <2>1 DEF Submit, Submittable, ThreadsTyped, workerVars
  <2>3. QED
    BY <1>1, <2>2, NoJobAssumption DEF LaunchesFor, ToLaunch
<1>3. CASE Submission
  <2>1. SubmissionKept /\ (StaysSubmitted \/ HandedOver)
    BY <1>3, SubmissionThreads
  <2>2. attempt'[j] = attempt[j] /\ (ToLaunch(j)' => ToLaunch(j))
    BY <1>1, <2>1, NoJobAssumption
       DEF SubmissionKept, StaysSubmitted, HandedOver, ToLaunch, TypeOK
  <2>3. sub.stage = "launch" => ~ToLaunch(j)'
    BY <1>1, <2>1, NoJobAssumption DEF StaysSubmitted, HandedOver, ToLaunch, TypeOK
  <2>4. QED
    BY <1>1, <2>2, <2>3, LengthKept DEF LaunchesFor, ToLaunch
<1>4. CASE ~Submission /\ ~(\E k \in Jobs : Submit(k))
  <2>1. attempt' = attempt /\ Len(proc'[j]) = Len(proc[j])
    BY <1>4, AttemptsElsewhere, LengthKept
  <2>2. sub' = sub
    <3>1. CASE HandlesJob
      BY <3>1, HandlingThreads DEF PollKept
    <3>2. CASE PollRound \/ PollNext \/ PollRoundEnd
      BY <3>2, ListThreads DEF ListKept
    <3>3. CASE WorkerStep
      BY <3>3, WorkerStepKept DEF ctlVars
    <3>4. CASE (\E h \in Hosts : Partition(h)) \/ Tick \/ Cancel \/ Shutdown \/ UNCHANGED vars
      BY <3>4 DEF Partition, Tick, Cancel, Shutdown, vars, ctlVars
    <3>5. QED
      BY <1>4, <3>1, <3>2, <3>3, <3>4 DEF Next, Others, PollJob, HandlesJob, WorkerStep
  <2>3. QED
    BY <1>1, <2>1, <2>2 DEF LaunchesFor, ToLaunch
<1>5. QED
  BY <1>2, <1>3, <1>4

\* However many times a job is submitted and whatever is lost, the worker
\* starts at most one process for each submission: the launch is the one remote
\* command that is not tried again.
THEOREM OneLaunchPerSubmission ==
  Spec => [](\A j \in Jobs : Len(proc[j]) <= attempt[j])
<1>1. Init => Launches
  BY NoJobAssumption DEF Init, Launches, LaunchesFor, ToLaunch
<1>2. TypeInv /\ Launches /\ [Next]_vars => Launches'
  BY LaunchesStep DEF Launches
<1>3. TypeInv /\ Launches => \A j \in Jobs : Len(proc[j]) <= attempt[j]
  <2> SUFFICES ASSUME TypeInv, Launches, NEW j \in Jobs PROVE Len(proc[j]) <= attempt[j]
    OBVIOUS
  <2>1. Len(proc[j]) \in Nat /\ attempt[j] \in Nat /\ LaunchesFor(j)
    BY LenProperties, ConstantsAssumption DEF TypeInv, TypeOK, Launches
  <2>2. QED
    BY <2>1 DEF LaunchesFor
<1>4. QED
  BY <1>1, <1>2, <1>3, TypeInvHolds, PTL DEF Spec

-----------------------------------------------------------------------------
(* Runs without any fault.  NoFaultNoFailure is false of them: a command   *)
(* may end between the two tests of the status script.  Nothing else makes *)
(* a job fail.                                                             *)

NoFault == Faults = {} /\ MaxLosses = 0

Watched(j) == Listed(j) \/ (poll.job = j /\ poll.stage \in {"exit", "pid"})
Delivered(j) == DOMAIN proc[j] = {1} /\ EndedWell(proc[j][1])
Undisturbed(p) == /\ Alive(p) => p.inputs /\ p.here /\ ~p.term
                  /\ ~Alive(p) => p.ok

\* A job whose inputs are staged before the launch, whose process nothing
\* disturbs, and which is given up only after that process has ended well.
CalmFor(j) ==
  /\ sub.job = j /\ sub.stage \in {"cache", "launch"} => dir[D(j)].staged
  /\ sub.job = j /\ sub.stage = "await" => dir[D(j)].made
  /\ Watched(j) => dir[D(j)].made /\ dir[D(j)].pid # 0
  /\ \A i \in DOMAIN proc[j] : Undisturbed(proc[j][i])
  /\ \A h \in Hosts : dir[<<h, j>>].exit # "1"
  /\ poll.job = j => poll.stage \notin {"unreachable", "timeout"}
  /\ poll.job = j /\ poll.stage \in {"failed", "retrieve", "discard"} => Delivered(j)
  /\ verdict[j] = "error" => Delivered(j)
Calm == \A j \in Jobs : attempt[j] <= 1 => CalmFor(j)
CalmInv == down = {} /\ Calm

LEMMA AllAnswer ==
  ASSUME NoFault, TypeInv, down = {}, NEW h
  PROVE  ~NoAnswer(h)
BY DEF NoFault, TypeInv, TypeOK, NoAnswer

\* A submission writes in the directory of its job alone, and starts no
\* process of another.
LEMMA SubmissionElsewhere ==
  ASSUME TypeInv, Submission, NEW j \in Jobs, j # sub.job
  PROVE  proc'[j] = proc[j] /\ \A h \in Hosts : dir'[<<h, j>>] = dir[<<h, j>>]
<1> DEFINE d == D(sub.job)
<1>1. /\ sub.job \in Jobs /\ proc \in [Jobs -> Seq(Process)] /\ host \in [Jobs -> Hosts]
      /\ dir \in [Hosts \X Jobs -> Dirs]
  BY SubmissionWorker DEF TypeInv, TypeOK, Dirs
<1>2. proc'[j] = proc[j]
  BY <1>1, SubmissionWorker DEF Spawn
<1>3. \A h \in Hosts : <<h, j>> # d /\ <<h, j>> \in Hosts \X Jobs
  BY DEF D
<1>4. \/ dir' = dir
      \/ dir' = [dir EXCEPT ![d].made = TRUE,
                            ![d].incoming = IF @ = "none" THEN "empty" ELSE @]
      \/ dir' = [dir EXCEPT ![d].incoming = "full"]
      \/ dir' = [dir EXCEPT ![d].staged = TRUE, ![d].incoming = "none"]
      \/ dir' = [dir EXCEPT ![d].made = TRUE]
  BY DEF Submission, Prepare, MakeIncoming, RsyncInputs, MoveInputs, LinkCache, Launch,
     LaunchReply, Update, UpdateError, Spawn, subOnly
<1>5. \A h \in Hosts : dir'[<<h, j>>] = dir[<<h, j>>]
  BY <1>1, <1>3, <1>4
<1>6. QED
  BY <1>2, <1>5

LEMMA CalmSubmission ==
  ASSUME NoFault, TypeInv, down = {}, Submission, NEW j \in Jobs, Once(j), CalmFor(j)
  PROVE  CalmFor(j)'
<1>1. /\ TypeOK /\ sub.job \in Jobs /\ host[j] \in Hosts /\ D(j) \in Hosts \X Jobs
      /\ dir \in [Hosts \X Jobs -> Dirs] /\ proc \in [Jobs -> Seq(Process)]
  BY SubmissionWorker DEF TypeInv, TypeOK, Dirs, D
<1>2. /\ UNCHANGED <<attempt, verdict, host, poll>> /\ PidAndExitKept
      /\ \/ sub'.job = sub.job /\ active' = active
         \/ HandedOver /\ sub'.job = NoJob
  <2>1. UNCHANGED <<attempt, verdict, host, poll>> /\ PidAndExitKept
    BY SubmissionThreads, SubmissionWorker DEF SubmissionKept
  <2>2. StaysSubmitted => sub'.job = sub.job /\ active' = active
    BY <1>1 DEF StaysSubmitted, TypeOK
  <2>3. HandedOver => sub'.job = NoJob
    BY DEF HandedOver
  <2>4. QED
    BY <2>1, <2>2, <2>3, SubmissionThreads
<1>3. CASE sub.job # j
  <2>1. proc'[j] = proc[j] /\ \A h \in Hosts : dir'[<<h, j>>] = dir[<<h, j>>]
    BY <1>3, SubmissionElsewhere
  <2>2. sub'.job # j /\ (Listed(j)' => Listed(j))
    BY <1>2, <1>3, NoJobAssumption DEF HandedOver, Listed
  <2>3. dir'[D(j)] = dir[D(j)] /\ D(j)' = D(j)
    BY <1>1, <1>2, <2>1 DEF D
  <2>4. QED
    BY <1>2, <2>1, <2>2, <2>3 DEF CalmFor, Watched, Delivered
<1>4. CASE sub.job = j
  <2>1. sub.stage # "raised"
    BY SubmissionThreads DEF StaysSubmitted, HandedOver
  <2>2. poll.job # j /\ ~Listed(j) /\ verdict[j] # "error"
    BY <1>4, <2>1 DEF Once, InOneHand, Submitting
  <2>3. D(j)' = D(j) /\ \A h \in Hosts : dir'[<<h, j>>].exit # "1"
    BY <1>2 DEF D, CalmFor, PidAndExitKept
  <2>4. ASSUME active' = active, sub' # sub,
               \A i \in DOMAIN proc'[j] : Undisturbed(proc'[j][i]),
               sub'.stage \in {"cache", "launch"} => dir'[D(j)].staged,
               sub'.stage = "await" => dir'[D(j)].made
        PROVE  CalmFor(j)'
    BY <1>2, <2>2, <2>3, <2>4 DEF CalmFor, Watched, Listed
  <2>5. CASE Launch
    <3>1. /\ Spawn(j) /\ sub' = [sub EXCEPT !.stage = "await"] /\ sub.stage = "launch"
          /\ active' = active
      BY <1>4, <2>5, AllAnswer DEF Launch, SubTo
    <3>2. sub'.stage = "await" /\ dir'[D(j)].made
      BY <1>1, <3>1 DEF Spawn, TypeOK
    <3>3. dir[D(j)].staged /\ DOMAIN proc[j] = {}
      BY <1>4, <3>1 DEF CalmFor, Once, OneProcess
    <3>4. PICK h \in Hosts : h = host[j]
      BY <1>1
    <3>5. dir[<<h, j>>].staged \in BOOLEAN /\ dir[<<h, j>>].staged
      BY <1>1, <3>3, <3>4 DEF Dirs, D
    <3>6. /\ Len(proc[j]) \in Nat /\ DOMAIN proc[j] = 1..Len(proc[j])
          /\ DOMAIN proc'[j] = 1..(Len(proc[j]) + 1)
          /\ proc'[j][Len(proc[j]) + 1] = [host |-> h, phase |-> "born", ok |-> FALSE,
                           here |-> TRUE, term |-> FALSE,
                           inputs |-> dir[<<h, j>>].staged]
      BY <1>1, <3>1, <3>4, <3>5, SpawnEffect
    <3>7. Len(proc[j]) = 0
      <4>1. 1 \notin DOMAIN proc[j]
        BY <3>3
      <4>2. QED
        BY <3>6, <4>1
    <3>8. \A i \in DOMAIN proc'[j] : Undisturbed(proc'[j][i])
      BY <3>5, <3>6, <3>7 DEF Undisturbed, Alive
    <3>9. QED
      BY <3>1, <3>2, <3>8, <2>4
  <2>6. CASE LaunchReply
    <3>1. proc' = proc /\ dir' = dir /\ sub.stage = "await"
      BY <2>6 DEF LaunchReply, subOnly
    <3>2. CASE HandedOver
      <4>1. dir[D(j)].pid # 0 /\ sub'.job = NoJob
        BY <1>4, <3>2 DEF HandedOver
      <4>2. QED
        BY <1>2, <1>4, <2>2, <2>3, <3>1, <4>1, NoJobAssumption
           DEF CalmFor, Watched, Delivered
    <3>3. CASE ~HandedOver
      <4>1. sub' = [sub EXCEPT !.stage = "raised"] /\ active' = active
        BY <1>4, <2>6, <3>3 DEF LaunchReply, HandedOver, Raise, SubTo
      <4>2. QED
        BY <1>1, <3>1, <4>1, <2>4 DEF CalmFor, TypeOK
    <3>4. QED
      BY <3>2, <3>3
  <2>7. CASE Prepare \/ MakeIncoming \/ RsyncInputs
    <3>1. proc' = proc /\ active' = active
          /\ \E st \in {"mkdir", "rsync", "move", "raised"} : sub' = [sub EXCEPT !.stage = st]
          /\ sub.stage \in {"prepare", "mkdir", "rsync"} /\ sub' # sub
      BY <1>1, <2>7 DEF Prepare, MakeIncoming, RsyncInputs, subOnly, SubTo, Raise, TypeOK
    <3>2. sub'.stage \in {"mkdir", "rsync", "move", "raised"}
      BY <1>1, <3>1 DEF TypeOK
    <3>3. QED
      BY <3>1, <3>2, <2>4 DEF CalmFor
  <2>8. CASE MoveInputs
    <3>1. /\ proc' = proc /\ active' = active
          /\ \/ /\ dir' = [dir EXCEPT ![D(j)].staged = TRUE, ![D(j)].incoming = "none"]
                /\ sub' = [sub EXCEPT !.stage = "cache"]
             \/ sub' = [sub EXCEPT !.stage = "raised"]
          /\ sub.stage = "move"
      BY <1>4, <2>8, AllAnswer DEF MoveInputs, Update, UpdateError, subOnly, SubTo, Raise
    <3>2. \/ sub'.stage = "cache" /\ dir'[D(j)].staged
          \/ sub'.stage = "raised"
      BY <1>1, <3>1 DEF TypeOK, Dirs
    <3>3. QED
      BY <3>1, <3>2, <2>4 DEF CalmFor
  <2>9. CASE LinkCache
    <3>1. /\ proc' = proc /\ dir' = dir /\ active' = active /\ sub.stage = "cache"
          /\ \E st \in {"launch", "raised"} : sub' = [sub EXCEPT !.stage = st]
      BY <2>9 DEF LinkCache, subOnly, SubTo, Raise
    <3>2. sub'.stage \in {"launch", "raised"}
      BY <1>1, <3>1 DEF TypeOK
    <3>3. QED
      BY <1>4, <3>1, <3>2, <2>4 DEF CalmFor
  <2>10. QED
    BY <2>5, <2>6, <2>7, <2>8, <2>9 DEF Submission
<1>5. QED
  BY <1>3, <1>4

LEMMA CalmHandling ==
  ASSUME NoFault, TypeInv, down = {}, HandlesJob, NEW j \in Jobs, Once(j), CalmFor(j)
  PROVE  CalmFor(j)'
<1>1. /\ TypeOK /\ poll.job \in Jobs /\ poll \in Polls /\ poll.stage \in Handling
      /\ host[j] \in Hosts /\ D(j) \in Hosts \X Jobs /\ PidTyped
      /\ dir \in [Hosts \X Jobs -> Dirs] /\ proc \in [Jobs -> Seq(Process)]
      /\ UNCHANGED <<attempt, host, sub, active>> /\ D(j)' = D(j)
  BY HandlingThreads DEF TypeInv, TypeOK, ThreadsTyped, Polls, Dirs, D, PollKept
<1>2. \A m \in DOMAIN proc[j] : proc[j][m] \in Process
  BY <1>1, ElementOfSeq, LenProperties
<1>3. CASE poll.job # j
  <2>1. /\ DOMAIN proc'[j] = DOMAIN proc[j]
        /\ \A m \in DOMAIN proc[j] : proc'[j][m] = proc[j][m]
        /\ \A h \in Hosts : dir'[<<h, j>>] = dir[<<h, j>>]
    <3>1. CASE UNCHANGED workerVars
      BY <3>1 DEF workerVars
    <3>2. CASE Removed(poll.job)
      BY <1>1, <1>3, <3>2, RemovedForJob
    <3>3. QED
      BY <3>1, <3>2, HandlingData
  <2>2. dir'[D(j)] = dir[D(j)]
    BY <1>1, <2>1 DEF D
  <2>3. verdict'[j] = verdict[j]
    BY <1>3, HandlingData
  <2>4. poll'.job # j /\ (Listed(j)' => Listed(j))
    <3>1. poll'.job \in {poll.job, NoJob} /\ poll'.todo = poll.todo
          /\ poll'.kept \subseteq poll.kept \cup {poll.job}
      BY <1>1, HandlingThreads, PollMoves DEF StaysPolling, Handling, PollStages
    <3>2. QED
      BY <1>1, <1>3, <3>1, NoJobAssumption DEF Listed
  <2>5. QED
    BY <1>1, <2>1, <2>2, <2>3, <2>4 DEF CalmFor, Watched, Delivered
<1>4. CASE poll.job = j
  <2>1. ~Listed(j)
    BY <1>4 DEF Once, InOneHand
  \* The worker is left alone: only the stage and the verdict may change.
  <2>2. ASSUME UNCHANGED workerVars,
               \/ poll'.stage = "next" /\ poll'.job = NoJob
                  /\ (poll'.kept = poll.kept \/ Watched(j))
               \/ poll'.job = j /\ poll'.kept = poll.kept
                  /\ poll'.stage \in Handling \ {"exit", "unreachable", "timeout"}
                  /\ (poll'.stage = "pid" => Watched(j))
                  /\ (poll'.stage \in {"failed", "retrieve", "discard"} => Delivered(j)),
               poll'.todo = poll.todo,
               verdict'[j] = "error" => Delivered(j)
        PROVE  CalmFor(j)'
    <3>1. Watched(j)' => Watched(j)
      BY <1>1, <2>1, <2>2, NoJobAssumption DEF Watched, Listed, Handling
    <3>2. dir' = dir /\ proc' = proc
      BY <2>2 DEF workerVars
    <3>3. Delivered(j)' = Delivered(j)
      BY <3>2 DEF Delivered
    <3>4. poll'.job = j => /\ poll'.stage \notin {"unreachable", "timeout"}
                           /\ poll'.stage \in {"failed", "retrieve", "discard"} => Delivered(j)
      BY <1>1, <2>2, NoJobAssumption
    <3>5. QED
      BY <1>1, <2>2, <3>1, <3>2, <3>3, <3>4 DEF CalmFor
  \* The directory goes, after the process has ended well.
  <2>3. ASSUME Removed(j), Delivered(j), verdict' = verdict,
               \/ poll'.stage = "next" /\ poll'.job = NoJob
               \/ poll'.job = j /\ poll'.stage \in {"report", "dead"},
               poll'.todo = poll.todo, poll'.kept = poll.kept
        PROVE  CalmFor(j)'
    <3>1. /\ DOMAIN proc'[j] = {1} /\ proc'[j][1].phase = proc[j][1].phase
          /\ proc'[j][1].ok = proc[j][1].ok
          /\ dir'[<<host[j], j>>].exit = "none"
          /\ \A h \in Hosts \ {host[j]} : dir'[<<h, j>>] = dir[<<h, j>>]
      BY <2>3, RemovedForJob DEF Delivered
    <3>2. Delivered(j)' /\ ~Alive(proc'[j][1]) /\ proc'[j][1].ok
      BY <2>3, <3>1 DEF Delivered, EndedWell, Alive
    <3>3. \A h \in Hosts : dir'[<<h, j>>].exit # "1"
      BY <3>1 DEF CalmFor
    <3>4. ~Watched(j)'
      BY <1>1, <2>1, <2>3, NoJobAssumption DEF Watched, Listed
    <3>5. poll'.job = j => poll'.stage \notin {"unreachable", "timeout"}
      BY <2>3, NoJobAssumption
    <3>6. UNCHANGED sub /\ ~(sub.job = j /\ sub.stage \in {"cache", "launch", "await"})
      BY <1>1, <1>4 DEF Once, InOneHand, Submitting
    <3>7. QED
      BY <3>1, <3>2, <3>3, <3>4, <3>5, <3>6 DEF CalmFor, Undisturbed
  <2>4. CASE ReadExit
    <3>1. /\ UNCHANGED workerVars /\ verdict' = verdict /\ Watched(j)
          /\ dir[D(j)].made /\ dir[D(j)].exit # "1"
      BY <1>1, <1>4, <2>4 DEF ReadExit, workerVars, pollOnly, CalmFor, Watched, D
    <3>2. \/ PollTo("pid")
          \/ PollTo("retrieve") /\ dir[D(j)].exit = "0"
      BY <1>4, <2>4, <3>1, AllAnswer DEF ReadExit
    <3>3. dir[D(j)].exit = "0" => Delivered(j)
      BY <1>1 DEF Once, OneProcess, Delivered, D
    <3>4. /\ poll'.job = j /\ poll'.kept = poll.kept /\ poll'.todo = poll.todo
          /\ poll'.stage = "pid" \/ (poll'.stage = "retrieve" /\ Delivered(j))
      BY <1>1, <1>4, <3>2, <3>3, PollMoves DEF PollStages
    <3>5. verdict'[j] = "error" => Delivered(j)
      BY <3>1 DEF CalmFor
    <3>6. QED
      BY <3>1, <3>4, <3>5, <2>2 DEF Handling
  <2>5. CASE ReadPid
    <3>1. UNCHANGED workerVars /\ verdict' = verdict /\ Watched(j)
      BY <1>4, <2>5 DEF ReadPid, workerVars, pollOnly, Watched
    <3>2. dir[D(j)].pid # 0 /\ dir[D(j)].pid \in DOMAIN proc[j] /\ DOMAIN proc[j] \subseteq {1}
      BY <1>1, <3>1 DEF CalmFor, PidTyped, Once, OneProcess, D
    <3>3. dir[D(j)].pid = 1 /\ DOMAIN proc[j] = {1}
      BY <3>2
    <3>4. Keep \/ (PollTo("failed") /\ ~Alive(proc[j][1]))
      BY <1>4, <2>5, <3>3 DEF ReadPid
    <3>5. ~Alive(proc[j][1]) => Delivered(j)
      BY <1>2, <3>3 DEF CalmFor, Undisturbed, Delivered, EndedWell, Alive, Process
    <3>6. /\ poll'.todo = poll.todo
          /\ \/ poll'.stage = "next" /\ poll'.job = NoJob
             \/ poll'.job = j /\ poll'.kept = poll.kept /\ poll'.stage = "failed" /\ Delivered(j)
      BY <1>1, <1>4, <3>4, <3>5, PollMoves DEF PollStages
    <3>7. verdict'[j] = "error" => Delivered(j)
      BY <3>1 DEF CalmFor
    <3>8. QED
      BY <3>1, <3>6, <3>7, <2>2 DEF Handling
  <2>6. CASE Unreachable
    BY <1>4, <2>6 DEF Unreachable, CalmFor
  <2>7. CASE ReportError
    <3>1. UNCHANGED workerVars /\ Delivered(j)
      BY <1>4, <2>7 DEF ReportError, workerVars, pollOnly, CalmFor
    <3>2. PollTo("cleanup") \/ Drop
      BY <2>7 DEF ReportError
    <3>3. /\ poll'.todo = poll.todo /\ poll'.kept = poll.kept
          /\ \/ poll'.stage = "next" /\ poll'.job = NoJob
             \/ poll'.job = j /\ poll'.stage = "cleanup"
      BY <1>1, <1>4, <3>2, PollMoves DEF PollStages
    <3>4. QED
      BY <3>1, <3>3, <2>2 DEF Handling
  <2>8. CASE CleanUpFailed
    <3>1. poll.stage = "cleanup" /\ verdict' = verdict /\ Removed(j) /\ Drop
      BY <1>4, <2>8, AllAnswer DEF CleanUpFailed, CleanUp
    <3>2. Delivered(j)
      BY <1>4, <3>1 DEF Once, OutputsKept, CalmFor
    <3>3. QED
      BY <1>1, <3>1, <3>2, <2>3, PollMoves
  <2>9. CASE Retrieve
    <3>1. UNCHANGED workerVars /\ poll.stage = "retrieve"
      BY <2>9 DEF Retrieve, workerVars, pollOnly
    <3>2. Delivered(j)
      BY <1>4, <3>1 DEF CalmFor
    <3>3. OutputsExist(j)
      <4>1. /\ DOMAIN proc[j] = {1} /\ EndedWell(proc[j][1]) /\ proc[j][1].here
            /\ proc[j][1].host = host[j]
        BY <1>1, <1>4, <3>1 DEF Once, OneProcess
      <4>2. QED
        BY <4>1 DEF OutputsExist, In, EndedWell
    <3>4. PollTo("discard") /\ verdict' = verdict
      BY <1>4, <2>9, <3>3, AllAnswer DEF Retrieve, NoFault
    <3>5. poll'.job = j /\ poll'.kept = poll.kept /\ poll'.todo = poll.todo
          /\ poll'.stage = "discard"
      BY <1>1, <1>4, <3>4, PollMoves DEF PollStages
    <3>6. QED
      BY <3>1, <3>2, <3>4, <3>5, <2>2 DEF Handling
  <2>10. CASE CleanUpSucceeded
    <3>1. /\ poll.stage = "discard" /\ verdict' = verdict /\ Removed(j)
          /\ PollTo("report")
      BY <1>4, <2>10, AllAnswer DEF CleanUpSucceeded, CleanUp
    <3>2. Delivered(j)
      BY <1>4, <3>1 DEF CalmFor
    <3>3. /\ poll'.job = j /\ poll'.stage = "report" /\ poll'.todo = poll.todo
          /\ poll'.kept = poll.kept
      BY <1>1, <1>4, <3>1, PollMoves DEF PollStages
    <3>4. QED
      BY <3>1, <3>2, <3>3, <2>3
  <2>11. CASE ReportSuccess
    <3>1. UNCHANGED workerVars /\ verdict' = [verdict EXCEPT ![j] = "success"] /\ Drop
      BY <1>4, <2>11 DEF ReportSuccess, workerVars, pollOnly
    <3>2. verdict'[j] = "success"
      BY <1>1, <3>1 DEF TypeOK
    <3>3. QED
      BY <1>1, <3>1, <3>2, <2>2, PollMoves
  <2>12. QED
    BY <2>4, <2>5, <2>6, <2>7, <2>8, <2>9, <2>10, <2>11 DEF HandlesJob
<1>5. QED
  BY <1>3, <1>4

LEMMA CalmWorker ==
  ASSUME NoFault, TypeInv, WorkerStep, NEW j \in Jobs, Once(j), CalmFor(j)
  PROVE  CalmFor(j)'
<1>1. /\ proc \in [Jobs -> Seq(Process)] /\ dir \in [Hosts \X Jobs -> Dirs]
      /\ host[j] \in Hosts /\ D(j) \in Hosts \X Jobs
  BY DEF TypeInv, TypeOK, Dirs, D
<1>2. /\ UNCHANGED <<attempt, verdict, host, sub, active, poll>> /\ D(j)' = D(j)
      /\ DOMAIN proc'[j] = DOMAIN proc[j]
  BY WorkerStepKept DEF ctlVars, D
<1>3. PICK k \in Jobs : \E i \in DOMAIN proc[k] : ProcStart(k, i) \/ ProcEnd(k, i)
  BY DEF WorkerStep, ProcStep, ProcKilled, NoFault
<1>4. PICK i \in DOMAIN proc[k] : ProcStart(k, i) \/ ProcEnd(k, i)
  BY <1>3
<1>5. proc[k][i] \in Process /\ Alive(proc[k][i])
  BY <1>1, <1>4, ElementOfSeq, LenProperties DEF ProcStart, ProcEnd, Alive
<1> DEFINE d == <<proc[k][i].host, k>>
<1>6. d \in Hosts \X Jobs
  BY <1>5 DEF Process
<1>7. CASE j # k
  <2>1. proc'[j] = proc[j]
    <3>1. PICK f : SetProc(k, i, f)
      BY <1>4 DEF ProcStart, ProcEnd
    <3>2. QED
      BY <1>1, <1>7, <3>1 DEF SetProc
  <2>2. \A h \in Hosts : dir'[<<h, j>>] = dir[<<h, j>>]
    <3>1. \/ dir' = dir
          \/ dir' = [dir EXCEPT ![d].pid = i]
          \/ \E e \in {"0", "1"} : dir' = [dir EXCEPT ![d].exit = e]
      BY <1>4 DEF ProcStart, ProcEnd
    <3>2. \A h \in Hosts : <<h, j>> # d
      BY <1>7
    <3>3. QED
      BY <1>1, <3>1, <3>2
  <2>3. dir'[D(j)] = dir[D(j)]
    BY <1>1, <2>2 DEF D
  <2>4. QED
    BY <1>2, <2>1, <2>2, <2>3 DEF CalmFor, Watched, Listed, Delivered
<1>8. CASE j = k
  <2>1. i = 1 /\ DOMAIN proc[j] = {1} /\ d = D(j)
    BY <1>4, <1>8 DEF Once, OneProcess, D
  <2>2. proc[j][1].inputs /\ proc[j][1].here /\ ~proc[j][1].term /\ ~Delivered(j)
    BY <1>5, <1>8, <2>1 DEF CalmFor, Undisturbed, Delivered, EndedWell, Alive
  <2>3. /\ Undisturbed(proc'[j][1])
        /\ \E f \in Dirs : /\ dir' = [dir EXCEPT ![d] = f]
                           /\ f.made = dir[d].made /\ f.staged = dir[d].staged
                           /\ dir[d].pid # 0 => f.pid # 0
                           /\ f.exit = dir[d].exit \/ f.exit = "0"
    <3>1. CASE ProcStart(k, i)
      <4> DEFINE p == [proc[k][i] EXCEPT !.phase = "run"]
                 f == [dir[d] EXCEPT !.pid = i]
      <4>1. p \in Process /\ Undisturbed(p)
        BY <1>5, <1>8, <2>1, <2>2 DEF Process, Undisturbed, Alive
      <4>2. SetProc(k, i, p) /\ dir' = [dir EXCEPT ![d] = f]
        BY <1>8, <2>1, <2>2, <3>1 DEF ProcStart
      <4>3. proc'[j][1] = p
        BY <1>1, <1>8, <2>1, <4>1, <4>2, SetProcEffect
      <4>4. dir[d] \in Dirs /\ i \in Nat /\ i # 0
        BY <1>1, <1>6, <2>1
      <4>5. /\ f \in Dirs /\ f.made = dir[d].made /\ f.staged = dir[d].staged
            /\ f.pid # 0 /\ f.exit = dir[d].exit
        BY <4>4 DEF Dirs
      <4>6. QED
        BY <4>1, <4>2, <4>3, <4>5
    <3>2. CASE ProcEnd(k, i)
      <4> DEFINE p == [proc[k][i] EXCEPT !.phase = "done", !.ok = TRUE]
                 f == [dir[d] EXCEPT !.exit = "0"]
      <4>1. p \in Process /\ Undisturbed(p)
        BY <1>5 DEF Process, Undisturbed, Alive
      <4>2. SetProc(k, i, p) /\ dir' = [dir EXCEPT ![d] = f]
        BY <1>8, <2>1, <2>2, <3>2 DEF ProcEnd, NoFault
      <4>3. proc'[j][1] = p
        BY <1>1, <1>8, <2>1, <4>1, <4>2, SetProcEffect
      <4>4. dir[d] \in Dirs
        BY <1>1, <1>6
      <4>5. /\ f \in Dirs /\ f.made = dir[d].made /\ f.staged = dir[d].staged
            /\ f.pid = dir[d].pid /\ f.exit = "0"
        BY <4>4 DEF Dirs
      <4>6. QED
        BY <4>1, <4>2, <4>3, <4>5
    <3>3. QED
      BY <1>4, <3>1, <3>2
  <2>4. PICK f \in Dirs : /\ dir' = [dir EXCEPT ![d] = f]
                          /\ f.made = dir[d].made /\ f.staged = dir[d].staged
                          /\ dir[d].pid # 0 => f.pid # 0
                          /\ f.exit = dir[d].exit \/ f.exit = "0"
    BY <2>3
  <2>5. dir'[D(j)] = f /\ \A h \in Hosts : <<h, j>> # D(j) => dir'[<<h, j>>] = dir[<<h, j>>]
    BY <1>1, <1>6, <2>1, <2>4
  <2>6. \A h \in Hosts : dir'[<<h, j>>].exit # "1"
    <3>1. \A h \in Hosts : dir[<<h, j>>].exit # "1"
      BY DEF CalmFor
    <3>2. f.exit # "1"
      BY <1>1, <2>1, <2>4, <3>1 DEF D
    <3>3. QED
      BY <2>5, <3>1, <3>2
  <2>7. QED
    BY <1>2, <2>1, <2>2, <2>3, <2>4, <2>5, <2>6 DEF CalmFor, Watched, Listed
<1>9. QED
  BY <1>7, <1>8

LEMMA CalmStep ==
  ASSUME NoFault, TypeInv, OnceInv, CalmInv, [Next]_vars
  PROVE  CalmInv'
<1>1. TypeOK /\ ThreadsTyped /\ down = {}
  BY DEF TypeInv, CalmInv
<1>2. ~Cancel /\ \A h \in Hosts : ~Partition(h)
  BY DEF NoFault, Cancel, Partition
<1>3. down' = {}
  <2>1. CASE HandlesJob
    BY <1>1, <2>1, HandlingThreads DEF PollKept
  <2>2. CASE Submission
    BY <1>1, <2>2, SubmissionThreads DEF SubmissionKept
  <2>3. CASE PollRound \/ PollNext \/ PollRoundEnd
    BY <1>1, <2>3 DEF PollRound, PollNext, PollRoundEnd, pollOnly
  <2>4. CASE WorkerStep
    BY <1>1, <2>4, WorkerStepKept DEF netVars
  <2>5. CASE (\E k \in Jobs : Submit(k)) \/ Tick \/ Shutdown \/ UNCHANGED vars
    BY <1>1, <2>5 DEF Submit, Tick, Shutdown, vars, netVars
  <2>6. QED
    BY <1>2, <2>1, <2>2, <2>3, <2>4, <2>5
       DEF Next, Others, PollJob, HandlesJob, WorkerStep
<1>4. ASSUME NEW j \in Jobs, attempt'[j] <= 1
      PROVE  CalmFor(j)'
  <2>1. CASE \E k \in Jobs : Submit(k)
    <3>1. PICK k \in Jobs : Submit(k)
      BY <2>1
    <3>2. /\ attempt' = [attempt EXCEPT ![k] = attempt[k] + 1]
          /\ verdict' = [verdict EXCEPT ![k] = "none"]
          /\ host' = [host EXCEPT ![k] = next]
          /\ sub' = [job |-> k, stage |-> "prepare"] /\ sub.job = NoJob
          /\ UNCHANGED <<active, poll, proc, dir>>
      BY <1>1, <3>1 DEF Submit, Submittable, ThreadsTyped, workerVars
    <3>3. CASE j = k
      <4>1. attempt[j] = 0
        <5>1. attempt[j] \in Nat /\ attempt'[j] = attempt[j] + 1
          BY <1>1, <3>2, <3>3, ConstantsAssumption DEF TypeOK
        <5>2. QED
          BY <1>4, <5>1
      <4>2. Once(j) /\ CalmFor(j)
        BY <4>1 DEF OnceInv, CalmInv, Calm
      <4>3. ~Listed(j) /\ poll.job # j /\ DOMAIN proc[j] = {}
        BY <4>1, <4>2 DEF Once, InOneHand, OneProcess
      <4>4. verdict'[j] = "none"
        BY <1>1, <3>2, <3>3 DEF TypeOK
      <4>5. QED
        BY <3>2, <4>2, <4>3, <4>4 DEF CalmFor, Watched, Listed
    <3>4. CASE j # k
      <4>1. attempt'[j] = attempt[j] /\ verdict'[j] = verdict[j] /\ host'[j] = host[j]
        BY <1>1, <3>2, <3>4 DEF TypeOK
      <4>2. CalmFor(j)
        BY <1>4, <4>1 DEF CalmInv, Calm
      <4>3. QED
        BY <3>2, <3>4, <4>1, <4>2 DEF CalmFor, Watched, Listed, Delivered, D
    <3>5. QED
      BY <3>3, <3>4
  <2>2. CASE ~(\E k \in Jobs : Submit(k))
    <3>1. attempt[j] <= 1 /\ Once(j) /\ CalmFor(j)
      BY <1>4, <2>2, AttemptsElsewhere DEF OnceInv, CalmInv, Calm
    <3>2. CASE HandlesJob
      BY <1>1, <3>1, <3>2, CalmHandling
    <3>3. CASE Submission
      BY <1>1, <3>1, <3>3, CalmSubmission
    <3>4. CASE WorkerStep
      BY <3>1, <3>4, CalmWorker
    <3>5. CASE PollRound \/ PollNext \/ PollRoundEnd
      <4>1. ListKept /\ (Taken \/ (\E k \in Jobs : Visits(k)) \/ PutBack)
        BY <3>5, ListThreads
      <4>2. Watched(j)' => Watched(j)
        BY <4>1, NoJobAssumption DEF Taken, Visits, PutBack, Watched, Listed
      <4>3. poll'.job = j => poll'.stage = "exit"
        BY <4>1, NoJobAssumption DEF Taken, Visits, PutBack
      <4>4. UNCHANGED <<verdict, host, sub, dir, proc>>
        BY <4>1 DEF ListKept
      <4>5. QED
        BY <3>1, <4>2, <4>3, <4>4 DEF CalmFor, Delivered, D
    <3>6. CASE Tick \/ Shutdown \/ UNCHANGED vars
      <4>1. UNCHANGED <<verdict, host, sub, active, poll, dir, proc>>
        BY <3>6 DEF Tick, Shutdown, vars, ctlVars, workerVars
      <4>2. QED
        BY <3>1, <4>1 DEF CalmFor, Watched, Listed, Delivered, D
    <3>7. QED
      BY <1>2, <2>2, <3>2, <3>3, <3>4, <3>5, <3>6
         DEF Next, Others, PollJob, HandlesJob, WorkerStep
  <2>3. QED
    BY <2>1, <2>2
<1>5. QED
  BY <1>3, <1>4 DEF CalmInv, Calm

\* Where nothing goes wrong, a job is reported failed only after its command
\* has succeeded: the report that NoFaultNoFailure rules out has no other cause
\* than the two tests of the status script, whatever the number of jobs and
\* hosts.  No such job is ever unreachable or without its outputs.
THEOREM OnlyTheRaceFails ==
  ASSUME NoFault
  PROVE  Spec => [](\A j \in Jobs : attempt[j] = 1 /\ verdict[j] = "error"
                      => \E i \in DOMAIN proc[j] : EndedWell(proc[j][i]))
<1>1. Init => CalmInv
  BY NoJobAssumption
     DEF Init, CalmInv, Calm, CalmFor, Watched, Listed, Fresh, D
<1>2. CalmInv => \A j \in Jobs : attempt[j] = 1 /\ verdict[j] = "error"
                   => \E i \in DOMAIN proc[j] : EndedWell(proc[j][i])
  BY DEF CalmInv, Calm, CalmFor, Delivered
<1>3. TypeInv /\ OnceInv /\ CalmInv /\ [Next]_vars => CalmInv'
  BY CalmStep
<1>4. QED
  BY <1>1, <1>2, <1>3, TypeInvHolds, OnceInvHolds, PTL DEF Spec
=============================================================================
