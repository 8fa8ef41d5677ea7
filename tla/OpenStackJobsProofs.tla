------------------------ MODULE OpenStackJobsProofs ------------------------
(***************************************************************************)
(* Proofs about OpenStackJobs: what the limit on the worker's lifetime does*)
(* to the jobs, for any number of jobs and submissions.  A step is one of  *)
(* RemoteJobs, whose lemmas are used again, or one of the limit.           *)
(***************************************************************************)
EXTENDS OpenStackJobs, RemoteJobsProofs

-----------------------------------------------------------------------------
(* Types.                                                                  *)

\* In a round that begins after the limit no job is being polled or kept.
LimitTyped ==
  /\ poll.stage = "limit" => poll.job = NoJob /\ poll.kept = {}
  /\ stopped \subseteq Jobs

TypeInvLimited == TypeInv /\ LimitTyped

\* The steps of the limit itself.
LimitStep == Stopping \/ \E j \in Jobs : Refuse(j)

LEMMA StepKinds ==
  ASSUME [NextLimited]_allVars
  PROVE  \/ [Next]_vars /\ stopped' = stopped /\ missed' = missed
         \/ LimitStep
<1>1. CASE Inherited
  BY <1>1 DEF Inherited, Next, limitVars
<1>2. CASE Expire
  BY <1>2 DEF Expire
<1>3. CASE UNCHANGED allVars
  BY <1>3 DEF allVars, limitVars
<1>4. QED
  BY <1>1, <1>2, <1>3 DEF NextLimited, LimitStep

\* What the polling thread does to a job in a round after the limit.
Stopped(j) ==
  /\ poll.stage = "limit" /\ j \in poll.todo
  /\ verdict' = [verdict EXCEPT ![j] = "error"]
  /\ poll' = [poll EXCEPT !.todo = @ \ {j}]
  /\ stopped' = stopped \cup {j}
  /\ \/ Terminate({j}) /\ missed' = missed
     \/ UNCHANGED workerVars /\ missed' = missed \cup {j}
  /\ UNCHANGED <<attempt, host, next, sub, active, since, local, mode, heard,
                 unlisted, down>>

LEMMA StopJobEffect == \A j \in Jobs : StopJob(j) => Stopped(j)
BY DEF StopJob, Stopped, stopJobOnly

LEMMA RefuseTyped ==
  ASSUME TypeInvLimited, NEW j \in Jobs, Refuse(j)
  PROVE  TypeInvLimited'
<1>1. /\ sub' = [job |-> j, stage |-> "raised"] /\ failed' = TRUE
      /\ UNCHANGED <<attempt, verdict, host, next, active, poll, since, local, mode,
                     heard, unlisted, dir, proc, down, losses, stopped>>
  BY DEF Refuse, workerVars, netVars, limitVars
<1>2. sub' \in Subs
  BY <1>1 DEF Subs, SubStages
<1>3. QED
  BY <1>1, <1>2 DEF TypeInvLimited, TypeInv, TypeOK, ThreadsTyped, PidTyped, LimitTyped, Subs

LEMMA StoppingTyped == TypeInvLimited /\ Stopping => TypeInvLimited'
<1> SUFFICES ASSUME TypeInvLimited, Stopping PROVE TypeInvLimited'
  OBVIOUS
<1>1. /\ TypeOK /\ ThreadsTyped /\ PidTyped /\ LimitTyped /\ poll \in Polls
      /\ active \subseteq Jobs
  BY DEF TypeInvLimited, TypeInv, TypeOK, Polls
<1>2. CASE StopRound
  <2>1. /\ poll' \in Polls /\ poll'.stage = "limit" /\ poll'.job = NoJob /\ poll'.kept = {}
        /\ active' = {}
    BY <1>1, <1>2 DEF StopRound, Polls, PollStages
  <2>2. UNCHANGED <<attempt, verdict, host, next, sub, since, local, failed, mode, heard,
                    unlisted, dir, proc, down, losses, stopped>>
    BY <1>2 DEF StopRound, workerVars, netVars, limitVars
  <2>3. QED
    BY <1>1, <2>1, <2>2 DEF TypeInvLimited, TypeInv, TypeOK, ThreadsTyped, PidTyped,
       LimitTyped, Handling, Polls
<1>3. CASE StopRoundEnd
  <2>1. /\ poll' \in Polls /\ poll'.stage = "sleep" /\ poll'.job = NoJob
        /\ poll'.todo = {} /\ poll'.kept = {}
    BY <1>1, <1>3 DEF StopRoundEnd, PollTo, Polls, PollStages, LimitTyped
  <2>2. UNCHANGED <<attempt, verdict, host, next, sub, active, since, local, failed, mode,
                    heard, unlisted, dir, proc, down, losses, stopped>>
    BY <1>3 DEF StopRoundEnd, pollOnly, limitVars
  <2>3. QED
    BY <1>1, <2>1, <2>2 DEF TypeInvLimited, TypeInv, TypeOK, ThreadsTyped, PidTyped,
       LimitTyped, Handling, Polls
<1>4. ASSUME NEW j \in Jobs, StopJob(j)
      PROVE  TypeInvLimited'
  <2>1. Stopped(j)
    BY <1>4, StopJobEffect
  <2>2. /\ proc' \in [Jobs -> Seq(Process)] /\ dir' \in [Hosts \X Jobs -> Dirs] /\ PidTyped'
    <3>1. CASE Terminate({j})
      BY <1>1, <3>1, TerminateEffect DEF TypeInvLimited, TypeOK, Dirs
    <3>2. CASE UNCHANGED workerVars
      BY <1>1, <3>2 DEF workerVars, PidTyped, TypeOK, Dirs
    <3>3. QED
      BY <2>1, <3>1, <3>2 DEF Stopped
  <2>3. /\ poll' \in Polls /\ poll'.stage = "limit" /\ poll'.job = NoJob /\ poll'.kept = {}
    BY <1>1, <2>1 DEF Stopped, Polls, LimitTyped
  <2>4. verdict' \in [Jobs -> {"none", "success", "error"}]
    BY <1>1, <2>1 DEF Stopped, TypeOK
  <2>5. losses' \in 0..MaxLosses /\ failed' = TRUE
    <3>1. Answers(host[j]) \/ NoAnswer(host[j])
      BY <1>4 DEF StopJob
    <3>2. QED
      BY <1>1, <1>4, <3>1, LossesBounded DEF StopJob
  <2>6. TypeOK'
    BY <1>1, <2>1, <2>2, <2>3, <2>4, <2>5 DEF Stopped, TypeOK, Polls, Dirs
  <2>7. ThreadsTyped' /\ LimitTyped'
    BY <1>1, <2>1, <2>3 DEF Stopped, ThreadsTyped, LimitTyped, Handling
  <2>8. QED
    BY <2>2, <2>6, <2>7 DEF TypeInvLimited, TypeInv
<1>5. QED
  BY <1>2, <1>3, <1>4 DEF Stopping

\* RemoteJobs never enters a round of the limit.
LEMMA InheritedLimit ==
  ASSUME TypeInvLimited, [Next]_vars, stopped' = stopped
  PROVE  LimitTyped'
<1>1. poll \in Polls /\ LimitTyped
  BY DEF TypeInvLimited, TypeInv, TypeOK, Polls
<1>2. CASE HandlesJob
  <2>1. poll'.stage # "limit"
    <3>1. poll.job \in Jobs
      BY <1>2, HandlingThreads DEF TypeInvLimited, TypeInv, ThreadsTyped
    <3>2. QED
      BY <1>1, <1>2, <3>1, HandlingThreads, PollMoves DEF StaysPolling, Handling, PollStages
  <2>2. QED
    BY <1>1, <2>1 DEF LimitTyped
<1>3. CASE PollRound \/ PollNext \/ PollRoundEnd
  BY <1>1, <1>3, ListThreads DEF Taken, Visits, PutBack, LimitTyped, TypeInvLimited
<1>4. CASE ~HandlesJob /\ ~(PollRound \/ PollNext \/ PollRoundEnd)
  <2>1. poll' = poll
    <3>1. CASE \E j \in Jobs : Submit(j)
      BY <3>1 DEF Submit
    <3>2. CASE Submission
      BY <3>2, SubmissionThreads DEF SubmissionKept
    <3>3. CASE WorkerStep
      BY <3>3, WorkerStepKept DEF ctlVars, TypeInvLimited
    <3>4. CASE (\E h \in Hosts : Partition(h)) \/ Tick \/ Cancel \/ Shutdown \/ UNCHANGED vars
      BY <3>4 DEF Partition, Tick, Cancel, Shutdown, vars, ctlVars
    <3>5. QED
      BY <1>4, <3>1, <3>2, <3>3, <3>4 DEF Next, Others, PollJob, HandlesJob, WorkerStep
  <2>2. QED
    BY <1>1, <2>1 DEF LimitTyped
<1>5. QED
  BY <1>2, <1>3, <1>4

LEMMA TypeInvLimitedHolds == SpecLimited => []TypeInvLimited
<1>1. InitLimited => TypeInvLimited
  BY TypeInvInit DEF InitLimited, TypeInvLimited, LimitTyped, Init
<1>2. TypeInvLimited /\ [NextLimited]_allVars => TypeInvLimited'
  BY StepKinds, TypeInvNext, InheritedLimit, RefuseTyped, StoppingTyped
     DEF TypeInvLimited, LimitStep
<1>3. QED
  BY <1>1, <1>2, PTL DEF SpecLimited

\* The types of the executor's tables hold with the limit too.
THEOREM LimitedTypeCorrect == SpecLimited => []TypeOK
<1>1. TypeInvLimited => TypeOK
  BY DEF TypeInvLimited, TypeInv
<1>2. QED
  BY <1>1, TypeInvLimitedHolds, PTL

-----------------------------------------------------------------------------
(* The first submission of a job, with the limit.                          *)

LEMMA StoppedOnce ==
  ASSUME TypeInvLimited, NEW k \in Jobs, Stopped(k), NEW j \in Jobs, Once(j)
  PROVE  Once(j)'
<1>1. /\ TypeInv /\ poll \in Polls /\ poll.job = NoJob /\ host[j] \in Hosts
      /\ verdict \in [Jobs -> {"none", "success", "error"}]
  BY DEF TypeInvLimited, TypeInv, TypeOK, Polls, LimitTyped, Stopped
<1>2. /\ UNCHANGED <<attempt, host, sub, active, local>>
      /\ poll'.stage = "limit" /\ poll'.job = NoJob
      /\ poll'.kept = poll.kept /\ poll'.todo = poll.todo \ {k}
      /\ verdict'[k] = "error" /\ \A i \in Jobs \ {k} : verdict'[i] = verdict[i]
      /\ k \in poll.todo
  BY <1>1 DEF Stopped, Polls
<1>3. InOneHand(j)'
  BY <1>1, <1>2, NoJobAssumption DEF Once, InOneHand, Listed, Submitting
<1>4. /\ DOMAIN proc'[j] = DOMAIN proc[j]
      /\ \A m \in DOMAIN proc[j] :
           /\ proc'[j][m].host = proc[j][m].host
           /\ EndedWell(proc[j][m]) => proc'[j][m] = proc[j][m]
           /\ EndedWell(proc'[j][m]) => proc'[j][m] = proc[j][m]
      /\ dir' = dir
  <2>1. CASE Terminate({k})
    BY <1>1, <2>1, TerminatedOnce
  <2>2. CASE UNCHANGED workerVars
    BY <2>2 DEF workerVars
  <2>3. QED
    BY <2>1, <2>2 DEF Stopped
<1>5. OneProcess(j)'
  BY <1>1, <1>2, <1>4, NoJobAssumption DEF Once, OneProcess
<1>6. OutputsKept(j)'
  BY <1>2, <1>4, NoJobAssumption DEF Once, OutputsKept, InOneHand, Listed
<1>7. QED
  BY <1>3, <1>5, <1>6 DEF Once

LEMMA RefuseOnce ==
  ASSUME TypeInvLimited, NEW k \in Jobs, Refuse(k), NEW j \in Jobs,
         attempt[j] <= 1, Once(j)
  PROVE  Once(j)'
<1>1. /\ sub' = [job |-> k, stage |-> "raised"]
      /\ UNCHANGED <<attempt, verdict, host, active, poll, local, dir, proc>>
      /\ Submittable(k)
  BY DEF Refuse, workerVars
<1>2. attempt[k] = 0 \/ verdict[k] = "error"
  BY <1>1 DEF Submittable
<1>3. InOneHand(j)'
  <2>1. j = k => ~Listed(j) /\ (poll.job = j => poll.stage \in {"cleanup", "dead"})
    BY <1>2 DEF Once, InOneHand
  <2>2. QED
    BY <1>1, <2>1 DEF Once, InOneHand, Listed, Submitting
<1>4. OneProcess(j)' /\ OutputsKept(j)'
  BY <1>1 DEF Once, OneProcess, OutputsKept, InOneHand
<1>5. QED
  BY <1>3, <1>4 DEF Once

LEMMA RoundOnce ==
  ASSUME TypeInvLimited, StopRound \/ StopRoundEnd, NEW j \in Jobs, Once(j)
  PROVE  Once(j)'
<1>1. poll \in Polls /\ ThreadsTyped /\ LimitTyped
  BY DEF TypeInvLimited, TypeInv, TypeOK, Polls
<1>2. /\ UNCHANGED <<attempt, verdict, host, sub, local, dir, proc>>
      /\ poll'.stage \in {"limit", "sleep"} /\ poll'.job = NoJob
      /\ \/ active' = {} /\ poll'.todo = active /\ poll'.kept = {}
         \/ active' = active /\ poll'.todo = poll.todo /\ poll'.kept = poll.kept
  BY <1>1 DEF StopRound, StopRoundEnd, pollOnly, workerVars, PollTo, Polls, LimitTyped
<1>3. InOneHand(j)'
  BY <1>2, NoJobAssumption DEF Once, InOneHand, Listed, Submitting
<1>4. OneProcess(j)' /\ OutputsKept(j)'
  BY <1>2, NoJobAssumption DEF Once, OneProcess, OutputsKept
<1>5. QED
  BY <1>3, <1>4 DEF Once

LEMMA LimitOnce ==
  ASSUME TypeInvLimited, LimitStep, OnceInv
  PROVE  OnceInv'
<1> SUFFICES ASSUME NEW j \in Jobs, attempt'[j] <= 1 PROVE Once(j)'
  BY DEF OnceInv
<1>1. attempt' = attempt
  BY StopJobEffect DEF LimitStep, Stopping, Refuse, StopRound, StopRoundEnd, pollOnly, Stopped
<1>2. Once(j)
  BY <1>1 DEF OnceInv
<1>3. CASE \E k \in Jobs : Refuse(k)
  BY <1>1, <1>2, <1>3, RefuseOnce
<1>4. CASE StopRound \/ StopRoundEnd
  BY <1>2, <1>4, RoundOnce
<1>5. CASE \E k \in Jobs : StopJob(k)
  BY <1>2, <1>5, StopJobEffect, StoppedOnce
<1>6. QED
  BY <1>3, <1>4, <1>5 DEF LimitStep, Stopping

LEMMA OnceInvLimitedHolds == SpecLimited => []OnceInv
<1>1. InitLimited => OnceInv
  BY OnceInit DEF InitLimited
<1>2. TypeInvLimited /\ OnceInv /\ [NextLimited]_allVars => OnceInv'
  BY StepKinds, OnceStep, LimitOnce DEF TypeInvLimited
<1>3. QED
  BY <1>1, <1>2, TypeInvLimitedHolds, PTL DEF SpecLimited

-----------------------------------------------------------------------------
(* What the cancellation reaches.                                          *)

\* A job that polling may find running has its pid file.
Polled(j) == Listed(j) \/ (poll.job = j /\ poll.stage \in {"exit", "pid", "unreachable"})
PidKnownFor(j) == attempt[j] <= 1 /\ Polled(j) => dir[<<host[j], j>>].pid # 0
PidKnown == \A j \in Jobs : PidKnownFor(j)

LEMMA WorkerPids ==
  ASSUME TypeInv, WorkerStep, NEW e \in Hosts \X Jobs, dir[e].pid # 0
  PROVE  dir'[e].pid # 0
<1>1. proc \in [Jobs -> Seq(Process)] /\ dir \in [Hosts \X Jobs -> Dirs]
  BY DEF TypeInv, TypeOK, Dirs
<1>2. PICK k \in Jobs : \E i \in DOMAIN proc[k] :
         ProcStart(k, i) \/ ProcEnd(k, i) \/ ProcKilled(k, i)
  BY DEF WorkerStep, ProcStep
<1>3. PICK i \in DOMAIN proc[k] : ProcStart(k, i) \/ ProcEnd(k, i) \/ ProcKilled(k, i)
  BY <1>2
<1>4. i \in Nat /\ i # 0 /\ proc[k][i] \in Process
  BY <1>1, <1>3, ElementOfSeq, LenProperties
<1> DEFINE d == <<proc[k][i].host, k>>
<1>5. d \in Hosts \X Jobs
  BY <1>4 DEF Process
<1>6. \/ dir' = dir
      \/ dir' = [dir EXCEPT ![d].pid = i]
      \/ \E c \in {"0", "1"} : dir' = [dir EXCEPT ![d].exit = c]
  BY <1>3 DEF ProcStart, ProcEnd, ProcKilled
<1>7. dir'[e] = dir[e] \/ dir'[e] = [dir[e] EXCEPT !.pid = i]
      \/ \E c \in {"0", "1"} : dir'[e] = [dir[e] EXCEPT !.exit = c]
  BY <1>1, <1>5, <1>6
<1>8. dir[e] \in Dirs
  BY <1>1
<1>9. QED
  BY <1>4, <1>7, <1>8 DEF Dirs

\* While a job is handled only its own directory may go, and then it is not
\* polled again.
LEMMA HandlingPids ==
  ASSUME TypeInv, HandlesJob, NEW j \in Jobs, attempt[j] <= 1, Once(j), PidKnownFor(j)
  PROVE  PidKnownFor(j)'
<1>1. /\ poll.job \in Jobs /\ poll \in Polls /\ poll.stage \in Handling
      /\ host[j] \in Hosts /\ UNCHANGED <<attempt, host, active>>
  BY HandlingThreads DEF TypeInv, TypeOK, ThreadsTyped, Polls, PollKept
<1> USE DEF Handling, PollStages, Listed, Polled, PidKnownFor
<1>2. CASE Waits
  <2>1. dir' = dir
    BY <1>2 DEF Waits, Unmoved, workerVars
  <2>2. Polled(j)' => Polled(j)
    BY <1>1, <1>2, NoJobAssumption, PollMoves DEF Waits
  <2>3. QED
    BY <1>1, <2>1, <2>2
<1>3. CASE SeesSuccess \/ Fails \/ Fetches \/ Discards \/ Succeeds
  <2>1. /\ poll'.todo = poll.todo /\ poll'.kept = poll.kept
        /\ poll'.stage \notin {"exit", "pid", "unreachable"}
    BY <1>1, <1>3, PollMoves DEF SeesSuccess, Fails, Fetches, Discards, Succeeds
  <2>2. Polled(j)' => Listed(j) /\ j # poll.job
    BY <1>1, <2>1 DEF Once, InOneHand
  <2>3. j # poll.job => dir'[<<host[j], j>>] = dir[<<host[j], j>>]
    <3>1. UNCHANGED workerVars \/ Removed(poll.job)
      BY HandlingData
    <3>2. QED
      BY <1>1, <3>1, RemovedForJob DEF workerVars
  <2>4. QED
    BY <1>1, <2>2, <2>3
<1>4. QED
  BY <1>2, <1>3, HandlingOutcome

LEMMA PidsInherited ==
  ASSUME TypeInv, OnceInv, PidKnown, [Next]_vars
  PROVE  PidKnown'
<1> SUFFICES ASSUME NEW j \in Jobs, attempt'[j] <= 1, Polled(j)'
             PROVE  dir'[<<host'[j], j>>].pid # 0
  BY DEF PidKnown, PidKnownFor
<1>1. TypeOK /\ ThreadsTyped /\ host[j] \in Hosts
  BY DEF TypeInv, TypeOK
<1>2. CASE \E k \in Jobs : Submit(k)
  <2>1. PICK k \in Jobs : Submit(k)
    BY <1>2
  <2>2. UNCHANGED <<active, poll, dir>> /\ attempt' = [attempt EXCEPT ![k] = @ + 1]
        /\ host' = [host EXCEPT ![k] = next]
    BY <2>1 DEF Submit, workerVars
  <2>3. Polled(j)
    BY <2>2 DEF Polled, Listed
  <2>4. j # k
    <3>1. CASE j = k
      <4>1. attempt[j] \in Nat /\ attempt'[j] = attempt[j] + 1
        BY <1>1, <2>2, <3>1, ConstantsAssumption DEF TypeOK
      <4>2. attempt[j] = 0
        BY <4>1
      <4>3. Once(j)
        BY <4>2 DEF OnceInv
      <4>4. QED
        BY <2>3, <4>2, <4>3 DEF Once, InOneHand, Polled
    <3>2. QED
      BY <3>1
  <2>5. attempt[j] <= 1 /\ host'[j] = host[j]
    BY <1>1, <2>2, <2>4 DEF TypeOK
  <2>6. QED
    BY <2>2, <2>3, <2>5 DEF PidKnown, PidKnownFor
<1>3. CASE HandlesJob
  <2>1. UNCHANGED <<attempt, host>>
    BY <1>3, HandlingThreads DEF PollKept
  <2>2. PidKnownFor(j)'
    BY <1>3, <2>1, HandlingPids DEF OnceInv, PidKnown
  <2>3. QED
    BY <2>2 DEF PidKnownFor
<1>4. CASE Submission
  <2>1. SubmissionKept /\ (StaysSubmitted \/ HandedOver) /\ PidAndExitKept
    BY <1>4, SubmissionThreads, SubmissionWorker
  <2>2. Polled(j) \/ (HandedOver /\ sub.job = j)
    BY <2>1 DEF SubmissionKept, StaysSubmitted, HandedOver, Polled, Listed
  <2>3. dir[<<host[j], j>>].pid # 0
    BY <2>1, <2>2 DEF PidKnown, PidKnownFor, SubmissionKept, HandedOver, D
  <2>4. QED
    BY <1>1, <2>1, <2>3 DEF SubmissionKept, PidAndExitKept
<1>5. CASE PollRound \/ PollNext \/ PollRoundEnd
  <2>1. ListKept /\ (Taken \/ (\E k \in Jobs : Visits(k)) \/ PutBack)
    BY <1>5, ListThreads
  <2>2. Polled(j)
    BY <2>1, NoJobAssumption DEF Taken, Visits, PutBack, Polled, Listed
  <2>3. QED
    BY <2>1, <2>2 DEF ListKept, PidKnown, PidKnownFor
<1>6. CASE WorkerStep
  <2>1. UNCHANGED <<attempt, host, active, poll>>
    BY <1>6, WorkerStepKept DEF ctlVars
  <2>2. Polled(j)
    BY <2>1 DEF Polled, Listed
  <2>3. QED
    BY <1>1, <1>6, <2>1, <2>2, WorkerPids DEF PidKnown, PidKnownFor
<1>7. CASE Cancel
  <2>1. PICK hit : Terminate(hit)
    BY <1>7 DEF Cancel
  <2>2. Polled(j) /\ UNCHANGED <<attempt, host>>
    BY <1>7 DEF Cancel, Polled, Listed
  <2>3. QED
    BY <1>1, <2>1, <2>2, TerminateEffect DEF PidKnown, PidKnownFor
<1>8. CASE (\E h \in Hosts : Partition(h)) \/ Tick \/ Shutdown \/ UNCHANGED vars
  <2>1. UNCHANGED <<attempt, host, active, poll, dir>>
    BY <1>8 DEF Partition, Tick, Shutdown, vars, ctlVars, workerVars
  <2>2. QED
    BY <2>1 DEF PidKnown, PidKnownFor, Polled, Listed
<1>9. QED
  BY <1>2, <1>3, <1>4, <1>5, <1>6, <1>7, <1>8
     DEF Next, Others, PollJob, HandlesJob, WorkerStep

LEMMA PidsAtLimit ==
  ASSUME TypeInvLimited, PidKnown, LimitStep
  PROVE  PidKnown'
<1> SUFFICES ASSUME NEW j \in Jobs, attempt'[j] <= 1, Polled(j)'
             PROVE  dir'[<<host'[j], j>>].pid # 0
  BY DEF PidKnown, PidKnownFor
<1>1. TypeInv /\ TypeOK /\ poll \in Polls /\ host[j] \in Hosts /\ LimitTyped
  BY DEF TypeInvLimited, TypeInv, TypeOK, Polls
<1>2. CASE \E k \in Jobs : Refuse(k)
  BY <1>2 DEF Refuse, workerVars, PidKnown, PidKnownFor, Polled, Listed
<1>3. CASE StopRound \/ StopRoundEnd
  <2>1. UNCHANGED <<attempt, host, dir>> /\ Polled(j)
    BY <1>1, <1>3, NoJobAssumption DEF StopRound, StopRoundEnd, pollOnly, workerVars, PollTo,
       Polls, LimitTyped, Polled, Listed
  <2>2. QED
    BY <2>1 DEF PidKnown, PidKnownFor
<1>4. CASE \E k \in Jobs : StopJob(k)
  <2>1. PICK k \in Jobs : Stopped(k)
    BY <1>4, StopJobEffect
  <2>2. UNCHANGED <<attempt, host>> /\ Polled(j)
    BY <1>1, <2>1 DEF Stopped, Polls, Polled, Listed
  <2>3. dir'[<<host[j], j>>].pid = dir[<<host[j], j>>].pid
    <3>1. CASE Terminate({k})
      BY <1>1, <3>1, TerminateEffect
    <3>2. CASE UNCHANGED workerVars
      BY <3>2 DEF workerVars
    <3>3. QED
      BY <2>1, <3>1, <3>2 DEF Stopped
  <2>4. QED
    BY <2>2, <2>3 DEF PidKnown, PidKnownFor
<1>5. QED
  BY <1>2, <1>3, <1>4 DEF LimitStep, Stopping

LEMMA PidKnownHolds == SpecLimited => []PidKnown
<1>1. InitLimited => PidKnown
  BY NoJobAssumption DEF InitLimited, Init, PidKnown, PidKnownFor, Polled, Listed
<1>2. TypeInvLimited /\ OnceInv /\ PidKnown /\ [NextLimited]_allVars => PidKnown'
  BY StepKinds, PidsInherited, PidsAtLimit DEF TypeInvLimited
<1>3. QED
  BY <1>1, <1>2, TypeInvLimitedHolds, OnceInvLimitedHolds, PTL DEF SpecLimited

\* A process that has ended or has been sent SIGTERM.
Ending(p) == Alive(p) => p.term

\* SIGTERM reaches the process the pid file names.
LEMMA TerminateSignals ==
  ASSUME TypeInv, NEW j \in Jobs, Terminate({j}), dir[<<host[j], j>>].pid # 0
  PROVE  Ending(proc'[j][dir[<<host[j], j>>].pid])
<1> DEFINE i == dir[<<host[j], j>>].pid
<1>1. proc \in [Jobs -> Seq(Process)] /\ PidTyped /\ host[j] \in Hosts
  BY DEF TypeInv, TypeOK
<1>2. i \in DOMAIN proc[j]
  BY <1>1 DEF PidTyped
<1>3. proc[j][i] \in Process
  BY <1>1, <1>2, ElementOfSeq, LenProperties
<1>4. proc'[j][i] = IF Alive(proc[j][i]) THEN [proc[j][i] EXCEPT !.term = TRUE]
                    ELSE proc[j][i]
  BY <1>2 DEF Terminate, D
<1>5. QED
  BY <1>3, <1>4 DEF Process, Ending

\* A process that has ended stays so, and SIGTERM is not taken back.
LEMMA EndingStays ==
  ASSUME TypeInv, [Next]_vars, NEW j \in Jobs, NEW i \in DOMAIN proc[j],
         Ending(proc[j][i])
  PROVE  i \in DOMAIN proc'[j] /\ Ending(proc'[j][i])
<1>1. proc \in [Jobs -> Seq(Process)] /\ proc[j][i] \in Process /\ TypeOK /\ i \in Nat
  BY ElementOfSeq, LenProperties DEF TypeInv, TypeOK
<1> USE DEF Ending
<1>2. CASE HandlesJob
  <2>1. poll.job \in Jobs
    BY <1>2, HandlingThreads DEF TypeInv, ThreadsTyped
  <2>2. UNCHANGED workerVars \/ Removed(poll.job)
    BY <1>2, HandlingData
  <2>3. QED
    BY <2>1, <2>2, RemovedForJob DEF workerVars, Alive
<1>3. CASE Submission
  <2>1. sub.job \in Jobs /\ (proc' = proc \/ Spawn(sub.job))
    BY <1>3, SubmissionWorker
  <2>2. ASSUME NEW k \in Jobs, Spawn(k)
        PROVE  i \in DOMAIN proc'[j] /\ proc'[j][i] = proc[j][i]
    <3>1. host[k] \in Hosts /\ dir[<<host[k], k>>].staged \in BOOLEAN
      BY <1>1 DEF TypeOK
    <3>2. PICK h \in Hosts : h = host[k]
      BY <3>1
    <3>3. /\ \A m \in Jobs \ {k} : proc'[m] = proc[m]
          /\ Len(proc[k]) \in Nat /\ DOMAIN proc[k] = 1..Len(proc[k])
          /\ DOMAIN proc'[k] = 1..(Len(proc[k]) + 1)
          /\ \A m \in DOMAIN proc[k] : proc'[k][m] = proc[k][m]
      BY <1>1, <2>2, <3>1, <3>2, SpawnEffect
    <3>4. QED
      BY <1>1, <3>3
  <2>3. QED
    BY <2>1, <2>2
<1>4. CASE WorkerStep
  <2>1. PICK k \in Jobs : \E m \in DOMAIN proc[k] :
           ProcStart(k, m) \/ ProcEnd(k, m) \/ ProcKilled(k, m)
    BY <1>4 DEF WorkerStep, ProcStep
  <2>2. PICK m \in DOMAIN proc[k] :
           \E f : /\ SetProc(k, m, f)
                 /\ \/ f.phase = "done"
                    \/ Alive(proc[k][m]) /\ f.term = proc[k][m].term
    <3>1. PICK m \in DOMAIN proc[k] :
             ProcStart(k, m) \/ ProcEnd(k, m) \/ ProcKilled(k, m)
      BY <2>1
    <3>2. proc[k][m] \in Process
      BY <1>1, ElementOfSeq, LenProperties
    <3>3. CASE ProcStart(k, m)
      BY <3>2, <3>3 DEF ProcStart, Process, Alive
    <3>4. CASE ProcEnd(k, m)
      <4>1. PICK good :
               SetProc(k, m, [proc[k][m] EXCEPT !.phase = "done", !.ok = good])
        BY <3>4 DEF ProcEnd
      <4>2. [proc[k][m] EXCEPT !.phase = "done", !.ok = good].phase = "done"
        BY <3>2 DEF Process
      <4>3. QED
        BY <4>1, <4>2
    <3>5. CASE ProcKilled(k, m)
      <4>1. SetProc(k, m, [proc[k][m] EXCEPT !.phase = "done", !.ok = FALSE])
        BY <3>5 DEF ProcKilled
      <4>2. [proc[k][m] EXCEPT !.phase = "done", !.ok = FALSE].phase = "done"
        BY <3>2 DEF Process
      <4>3. QED
        BY <4>1, <4>2
    <3>6. QED
      BY <3>1, <3>3, <3>4, <3>5
  <2>3. PICK f : /\ SetProc(k, m, f)
                 /\ \/ f.phase = "done"
                    \/ Alive(proc[k][m]) /\ f.term = proc[k][m].term
    BY <2>2
  <2>4. /\ DOMAIN proc'[j] = DOMAIN proc[j]
        /\ proc'[j][i] = IF k = j /\ m = i THEN f ELSE proc[j][i]
    BY <1>1, <2>3 DEF SetProc
  <2>5. QED
    BY <2>3, <2>4 DEF Alive
<1>5. CASE Cancel
  <2>1. PICK hit : Terminate(hit)
    BY <1>5 DEF Cancel
  <2>2. /\ DOMAIN proc'[j] = DOMAIN proc[j]
        /\ \/ proc'[j][i] = proc[j][i]
           \/ proc'[j][i] = [proc[j][i] EXCEPT !.term = TRUE]
    BY <2>1, TerminateEffect
  <2>3. [proc[j][i] EXCEPT !.term = TRUE].term
    BY <1>1 DEF Process
  <2>4. QED
    BY <2>2, <2>3
<1>6. CASE PollRound \/ PollNext \/ PollRoundEnd
  BY <1>6, ListThreads DEF ListKept
<1>7. CASE (\E k \in Jobs : Submit(k)) \/ (\E h \in Hosts : Partition(h)) \/ Tick \/ Shutdown
           \/ UNCHANGED vars
  BY <1>7 DEF Submit, Partition, Tick, Shutdown, vars, workerVars
<1>8. QED
  BY <1>2, <1>3, <1>4, <1>5, <1>6, <1>7 DEF Next, Others, PollJob, HandlesJob, WorkerStep

\* A job reported because of the limit, and whose cancellation got through, has
\* its verdict and no process that was not sent SIGTERM, until it is submitted again.
StoppedEndingFor(j) ==
  attempt[j] <= 1 => /\ attempt[j] = 1 /\ verdict[j] # "none"
                     /\ \A i \in DOMAIN proc[j] : Ending(proc[j][i])
StoppedEnding == \A j \in stopped \ missed : StoppedEndingFor(j)

LEMMA StoppedInherited ==
  ASSUME TypeInv, OnceInv, [Next]_vars, NEW j \in Jobs, StoppedEndingFor(j)
  PROVE  StoppedEndingFor(j)'
<1> SUFFICES ASSUME attempt'[j] <= 1
             PROVE  /\ attempt'[j] = 1 /\ verdict'[j] # "none"
                    /\ \A i \in DOMAIN proc'[j] : Ending(proc'[j][i])
  BY DEF StoppedEndingFor
<1>1. attempt \in [Jobs -> 0..MaxAttempts] /\ MaxAttempts \in Nat
      /\ verdict \in [Jobs -> {"none", "success", "error"}]
  BY ConstantsAssumption DEF TypeInv, TypeOK
<1>2. ASSUME NEW k \in Jobs, Submit(k)
      PROVE  j # k /\ attempt'[j] = attempt[j] /\ verdict'[j] = verdict[j]
  <2>1. attempt' = [attempt EXCEPT ![k] = @ + 1] /\ verdict' = [verdict EXCEPT ![k] = "none"]
    BY <1>2 DEF Submit
  <2>2. j # k
    BY <1>1, <2>1 DEF StoppedEndingFor
  <2>3. QED
    BY <1>1, <2>1, <2>2
<1>3. attempt'[j] = attempt[j]
  BY <1>2, AttemptsElsewhere
<1>4. attempt[j] = 1 /\ verdict[j] # "none" /\ Once(j)
      /\ \A i \in DOMAIN proc[j] : Ending(proc[j][i])
  BY <1>3 DEF StoppedEndingFor, OnceInv
<1>5. verdict'[j] # "none"
  <2>1. CASE \E k \in Jobs : Submit(k)
    BY <1>2, <1>4, <2>1
  <2>2. CASE HandlesJob
    <3>1. /\ poll.job \in Jobs
          /\ verdict'[j] = verdict[j] \/ (j = poll.job /\ (Fails \/ Succeeds))
      BY <2>2, HandlingThreads, HandlingData, HandlingOutcome
         DEF TypeInv, ThreadsTyped, Waits, SeesSuccess, Unmoved, Fetches, Discards
    <3>2. QED
      BY <1>1, <1>4, <3>1 DEF Fails, Succeeds
  <2>3. CASE Submission
    BY <1>4, <2>3, SubmissionThreads DEF SubmissionKept
  <2>4. CASE PollRound \/ PollNext \/ PollRoundEnd
    BY <1>4, <2>4, ListThreads DEF ListKept
  <2>5. CASE WorkerStep
    BY <1>4, <2>5, WorkerStepKept DEF ctlVars
  <2>6. CASE (\E h \in Hosts : Partition(h)) \/ Tick \/ Cancel \/ Shutdown \/ UNCHANGED vars
    BY <1>4, <2>6 DEF Partition, Tick, Cancel, Shutdown, vars, ctlVars
  <2>7. QED
    BY <2>1, <2>2, <2>3, <2>4, <2>5, <2>6
       DEF Next, Others, PollJob, HandlesJob, WorkerStep
<1>6. DOMAIN proc'[j] = DOMAIN proc[j]
  BY <1>4, ProcessesElsewhere DEF Once, InOneHand, Submitting
<1>7. QED
  BY <1>3, <1>4, <1>5, <1>6, EndingStays

LEMMA StoppedAtLimit ==
  ASSUME TypeInvLimited, OnceInv, PidKnown, StoppedEnding, LimitStep
  PROVE  StoppedEnding'
<1> SUFFICES ASSUME NEW j \in Jobs, j \in stopped' \ missed' PROVE StoppedEndingFor(j)'
  <2>1. stopped' \subseteq Jobs
    BY StopJobEffect DEF TypeInvLimited, LimitTyped, LimitStep, Stopping, Refuse, StopRound,
       StopRoundEnd, Stopped, limitVars
  <2>2. QED
    BY <2>1 DEF StoppedEnding
<1>1. TypeInv /\ TypeOK /\ LimitTyped
  BY DEF TypeInvLimited, TypeInv
<1>2. CASE (\E k \in Jobs : Refuse(k)) \/ StopRound \/ StopRoundEnd
  <2>1. UNCHANGED <<attempt, verdict, proc, stopped, missed>>
    BY <1>2 DEF Refuse, StopRound, StopRoundEnd, pollOnly, workerVars, limitVars
  <2>2. QED
    BY <2>1 DEF StoppedEnding, StoppedEndingFor
<1>3. CASE \E k \in Jobs : StopJob(k)
  <2>1. PICK k \in Jobs : Stopped(k)
    BY <1>3, StopJobEffect
  <2>2. /\ attempt' = attempt /\ verdict'[k] = "error"
        /\ \A i \in Jobs \ {k} : verdict'[i] = verdict[i]
        /\ stopped' = stopped \cup {k} /\ missed \subseteq missed'
    BY <1>1, <2>1 DEF Stopped, TypeOK
  <2>3. \A i \in DOMAIN proc[j] : Ending(proc[j][i])
                                  => i \in DOMAIN proc'[j] /\ Ending(proc'[j][i])
    <3>1. CASE Terminate({k})
      <4>1. /\ DOMAIN proc'[j] = DOMAIN proc[j]
            /\ \A i \in DOMAIN proc[j] :
                 \/ proc'[j][i] = proc[j][i]
                 \/ proc'[j][i] = [proc[j][i] EXCEPT !.term = TRUE]
        BY <1>1, <3>1, TerminateEffect
      <4>2. \A i \in DOMAIN proc[j] : proc[j][i] \in Process
        BY <1>1, ElementOfSeq, LenProperties DEF TypeOK
      <4>3. \A i \in DOMAIN proc[j] : [proc[j][i] EXCEPT !.term = TRUE].term
        BY <4>2 DEF Process
      <4>4. QED
        BY <4>1, <4>3 DEF Ending
    <3>2. CASE UNCHANGED workerVars
      BY <3>2 DEF workerVars
    <3>3. QED
      BY <2>1, <3>1, <3>2 DEF Stopped
  <2>4. DOMAIN proc'[j] = DOMAIN proc[j]
    <3>1. CASE Terminate({k})
      BY <1>1, <3>1, TerminateEffect
    <3>2. CASE UNCHANGED workerVars
      BY <3>2 DEF workerVars
    <3>3. QED
      BY <2>1, <3>1, <3>2 DEF Stopped
  <2>5. CASE j # k
    BY <2>2, <2>3, <2>4, <2>5 DEF StoppedEnding, StoppedEndingFor
  <2>6. CASE j = k
    <3> SUFFICES ASSUME attempt[j] <= 1
                 PROVE  attempt[j] = 1 /\ \A i \in DOMAIN proc'[j] : Ending(proc'[j][i])
      BY <2>2, <2>6 DEF StoppedEndingFor
    <3>1. Terminate({j}) /\ Polled(j)
      BY <2>1, <2>6 DEF Stopped, Polled, Listed
    <3>2. Once(j) /\ dir[<<host[j], j>>].pid # 0
      BY <3>1 DEF OnceInv, PidKnown, PidKnownFor
    <3>3. DOMAIN proc[j] \subseteq {1} /\ dir[<<host[j], j>>].pid \in DOMAIN proc[j]
      BY <1>1, <3>2 DEF Once, OneProcess, TypeInv, TypeOK, PidTyped
    <3>4. \A i \in DOMAIN proc'[j] : Ending(proc'[j][i])
      BY <1>1, <2>4, <3>1, <3>2, <3>3, TerminateSignals
    <3>5. attempt[j] # 0 /\ attempt[j] \in Nat
      BY <1>1, <2>1, <2>6, <3>2, ConstantsAssumption
         DEF Once, InOneHand, Listed, Stopped, TypeOK
    <3>6. QED
      BY <3>4, <3>5
  <2>7. QED
    BY <2>5, <2>6
<1>4. QED
  BY <1>2, <1>3 DEF LimitStep, Stopping

\* "The remote job was cancelled to stop instance billing": a job reported
\* because of max-hours has no process on the worker that was not sent SIGTERM,
\* unless the signal did not reach the worker or the job was submitted before.
THEOREM LimitCancelsHolds == SpecLimited => []LimitCancels
<1>1. InitLimited => StoppedEnding
  BY DEF InitLimited, StoppedEnding
<1>2. ASSUME TypeInvLimited, OnceInv, PidKnown, StoppedEnding, [NextLimited]_allVars
      PROVE  StoppedEnding'
  <2>1. CASE [Next]_vars /\ stopped' = stopped /\ missed' = missed
    <3>1. \A j \in stopped \ missed : j \in Jobs
      BY <1>2 DEF TypeInvLimited, LimitTyped
    <3>2. \A j \in stopped \ missed : StoppedEndingFor(j)'
      BY <1>2, <2>1, <3>1, StoppedInherited DEF StoppedEnding, TypeInvLimited
    <3>3. QED
      BY <2>1, <3>2 DEF StoppedEnding
  <2>2. CASE LimitStep
    BY <1>2, <2>2, StoppedAtLimit
  <2>3. QED
    BY <1>2, <2>1, <2>2, StepKinds
<1>3. StoppedEnding => LimitCancels
  BY DEF StoppedEnding, StoppedEndingFor, LimitCancels, Ending
<1>4. QED
  BY <1>1, <1>2, <1>3, TypeInvLimitedHolds, OnceInvLimitedHolds, PidKnownHolds, PTL
     DEF SpecLimited

\* With the limit too, success is reported only after complete outputs have
\* been published, for a job submitted once.
THEOREM LimitedSuccessIsPublished ==
  SpecLimited => [](\A j \in Jobs : attempt[j] <= 1 /\ verdict[j] = "success"
                                      => local[j] = "whole")
<1>1. OnceInv => \A j \in Jobs : attempt[j] <= 1 /\ verdict[j] = "success"
                                    => local[j] = "whole"
  BY DEF OnceInv, Once, OutputsKept
<1>2. QED
  BY <1>1, OnceInvLimitedHolds, PTL

-----------------------------------------------------------------------------
(* What the plain executor promises, with the limit.                       *)

LEMMA LimitHeld ==
  ASSUME TypeInvLimited, HeldInv, LimitStep
  PROVE  HeldInv'
<1> SUFFICES ASSUME NEW j \in Jobs PROVE HeldFor(j)'
  BY DEF HeldInv
<1>1. /\ TypeInv /\ TypeOK /\ LimitTyped /\ poll \in Polls /\ HeldFor(j)
      /\ ThreadsTyped
  BY DEF TypeInvLimited, TypeInv, TypeOK, Polls, HeldInv
<1>2. CASE \E k \in Jobs : Refuse(k)
  <2>1. PICK k \in Jobs : Refuse(k)
    BY <1>2
  <2>2. /\ sub' = [job |-> k, stage |-> "raised"] /\ sub.job = NoJob
        /\ UNCHANGED <<attempt, verdict, mode, active, poll, proc>>
    BY <1>1, <2>1 DEF Refuse, Submittable, ThreadsTyped, workerVars
  <2>3. QED
    BY <1>1, <2>2, NoJobAssumption DEF HeldFor, Held, Listed
<1>3. CASE StopRound \/ StopRoundEnd
  <2>1. /\ UNCHANGED <<attempt, verdict, mode, sub, proc>>
        /\ poll.stage \in {"sleep", "limit"} /\ poll.job = NoJob
        /\ Listed(j) => Listed(j)'
    BY <1>1, <1>3 DEF StopRound, StopRoundEnd, pollOnly, workerVars, PollTo, Polls,
       LimitTyped, ThreadsTyped, Listed
  <2>2. QED
    BY <1>1, <2>1, NoJobAssumption DEF HeldFor, Held
<1>4. CASE \E k \in Jobs : StopJob(k)
  <2>1. PICK k \in Jobs : Stopped(k)
    BY <1>4, StopJobEffect
  <2>2. /\ UNCHANGED <<attempt, sub, mode, active>> /\ verdict'[k] = "error"
        /\ \A i \in Jobs \ {k} : verdict'[i] = verdict[i]
        /\ poll'.todo = poll.todo \ {k} /\ poll'.kept = poll.kept
        /\ poll'.job = poll.job /\ poll'.stage = poll.stage
    BY <1>1, <2>1 DEF Stopped, Polls, TypeOK
  <2>3. DOMAIN proc'[j] = DOMAIN proc[j]
    <3>1. CASE Terminate({k})
      BY <1>1, <3>1, TerminateEffect
    <3>2. CASE UNCHANGED workerVars
      BY <3>2 DEF workerVars
    <3>3. QED
      BY <2>1, <3>1, <3>2 DEF Stopped
  <2>4. QED
    BY <1>1, <2>2, <2>3 DEF HeldFor, Held, Listed
<1>5. QED
  BY <1>2, <1>3, <1>4 DEF LimitStep, Stopping

LEMMA HeldInvLimitedHolds == SpecLimited => []HeldInv
<1>1. InitLimited => HeldInv
  BY NoJobAssumption DEF InitLimited, Init, HeldInv, HeldFor
<1>2. TypeInvLimited /\ HeldInv /\ [NextLimited]_allVars => HeldInv'
  BY StepKinds, HeldStep, LimitHeld DEF TypeInvLimited
<1>3. QED
  BY <1>1, <1>2, TypeInvLimitedHolds, PTL DEF SpecLimited

\* Taking the list away from the polling thread after max-hours forgets no
\* process either.
THEOREM LimitedNothingForgotten == SpecLimited => []NothingForgotten
<1>1. TypeInvLimited /\ HeldInv => NothingForgotten
  BY HeldAndSeen DEF TypeInvLimited
<1>2. QED
  BY <1>1, TypeInvLimitedHolds, HeldInvLimitedHolds, PTL

\* A job refused or reported because of the limit is an error like another:
\* the hosts are not handed back as those of a run that succeeded.
THEOREM LimitedFailureSeen == SpecLimited => []FailureSeen
<1>1. InitLimited => FailureInv
  BY DEF InitLimited, Init, FailureInv, ErrorNoted, StoppedClean
<1>2. ASSUME TypeInvLimited, HeldInv, FailureInv, [NextLimited]_allVars
      PROVE  FailureInv'
  <2>1. CASE [Next]_vars
    BY <1>2, <2>1, FailureStep DEF TypeInvLimited
  <2>2. CASE (\E k \in Jobs : Refuse(k) \/ StopJob(k))
    BY <2>2 DEF Refuse, StopJob, FailureInv, ErrorNoted, StoppedClean
  <2>3. CASE StopRound \/ StopRoundEnd
    <3>1. /\ UNCHANGED <<attempt, verdict, sub, mode, failed, unlisted>>
          /\ poll.stage # "dead"
      BY <2>3 DEF StopRound, StopRoundEnd, pollOnly
    <3>2. QED
      BY <1>2, <3>1 DEF FailureInv, ErrorNoted, StoppedClean
  <2>4. QED
    BY <1>2, <2>1, <2>2, <2>3, StepKinds DEF LimitStep, Stopping
<1>3. FailureInv => FailureSeen
  BY DEF FailureInv, StoppedClean, FailureSeen
<1>4. QED
  BY <1>1, <1>2, <1>3, TypeInvLimitedHolds, HeldInvLimitedHolds, PTL DEF SpecLimited

LEMMA AtMostOneLimitedHolds == ASSUME OneSubmission PROVE SpecLimited => []AtMostOne
<1>1. InitLimited => AtMostOne
  BY DEF InitLimited, Init, AtMostOne
<1>2. ASSUME TypeInvLimited, AtMostOne, [NextLimited]_allVars
      PROVE  AtMostOne'
  <2>1. CASE [Next]_vars
    BY <1>2, <2>1, AtMostOneStep DEF TypeInvLimited
  <2>2. CASE LimitStep
    <3>1. attempt' = attempt
      BY <2>2, StopJobEffect
         DEF LimitStep, Stopping, Refuse, StopRound, StopRoundEnd, pollOnly, Stopped
    <3>2. QED
      BY <1>2, <3>1 DEF AtMostOne
  <2>3. QED
    BY <1>2, <2>1, <2>2, StepKinds
<1>3. QED
  BY <1>1, <1>2, TypeInvLimitedHolds, PTL DEF SpecLimited

LEMMA OnceLimitedHolds ==
  ASSUME OneSubmission PROVE SpecLimited => [](\A j \in Jobs : Once(j))
<1>1. AtMostOne /\ OnceInv => \A j \in Jobs : Once(j)
  BY DEF AtMostOne, OnceInv
<1>2. QED
  BY <1>1, AtMostOneLimitedHolds, OnceInvLimitedHolds, PTL

\* The limit adds no verdict to a job that has one and takes no outputs back:
\* the executor of the rented worker keeps the same promises to Snakemake.
THEOREM LimitedImplementsVerdicts ==
  ASSUME OneSubmission PROVE SpecLimited => VerdictsSpec
<1>1. InitLimited => Verdicts!Init
  BY DEF InitLimited, Init, Verdicts!Init
<1>2. ASSUME TypeInvLimited, \A j \in Jobs : Once(j), [NextLimited]_allVars
      PROVE  [Verdicts!Next]_(Verdicts!vars)
  <2>1. CASE [Next]_vars
    BY <1>2, <2>1, VerdictStep DEF TypeInvLimited
  <2>2. CASE \E k \in Jobs : StopJob(k)
    <3>1. PICK k \in Jobs : StopJob(k)
      BY <2>2
    <3>2. Stopped(k) /\ Once(k) /\ Listed(k)
      BY <1>2, <3>1, StopJobEffect DEF Stopped, Listed
    <3>3. attempt[k] # 0 /\ verdict[k] = "none"
      BY <3>2 DEF Once, InOneHand
    <3>4. attempt[k] \in Nat
      BY <1>2, ConstantsAssumption DEF TypeInvLimited, TypeInv, TypeOK
    <3>5. local = [local EXCEPT ![k] = local[k]]
      BY <1>2 DEF TypeInvLimited, TypeInv, TypeOK
    <3>6. local' = local
      BY <3>2 DEF Stopped
    <3>7. Verdicts!Fail(k)
      BY <3>2, <3>3, <3>4, <3>5, <3>6 DEF Stopped, Verdicts!Fail, Verdicts!Pending
    <3>8. QED
      BY <3>7 DEF Verdicts!Next
  <2>3. CASE (\E k \in Jobs : Refuse(k)) \/ StopRound \/ StopRoundEnd
    BY <2>3 DEF Refuse, StopRound, StopRoundEnd, pollOnly, Verdicts!vars
  <2>4. QED
    BY <1>2, <2>1, <2>2, <2>3, StepKinds DEF LimitStep, Stopping
<1>3. QED
  BY <1>1, <1>2, OnceLimitedHolds, TypeInvLimitedHolds, PTL
     DEF SpecLimited, VerdictsSpec, Verdicts!Spec

\* Nor does stopping a job throw away what its command produced.
THEOREM LimitedOutputsNeverLost ==
  ASSUME OneSubmission PROVE SpecLimited => []OutputsNeverLost
<1>1. (\A j \in Jobs : Once(j)) => OutputsNeverLost
  BY DEF Once, OutputsKept, OutputsNeverLost
<1>2. QED
  BY <1>1, OnceLimitedHolds, PTL

\* Nor does it start a process a second time.
THEOREM LimitedRunsOnce ==
  ASSUME OneSubmission PROVE SpecLimited => []RunsOnce
BY OnceRuns, OnceLimitedHolds, PTL

\* The limit touches no timer: a round that still polls gives a job up as
\* unreachable only after its host has not answered one poll, and the round of
\* the stop gives none up for that reason.
THEOREM LimitedTimerSound == SpecLimited => []TimerSound
<1>1. InitLimited => TimerInv /\ TimerSound
  BY DEF InitLimited, Init, TimerInv, TimerSound
<1>2. ASSUME TypeInvLimited, TimerInv, TimerSound, [NextLimited]_allVars
      PROVE  TimerInv' /\ TimerSound'
  <2>1. CASE [Next]_vars
    BY <1>2, <2>1, HandlingTimer, TimersElsewhere DEF TypeInvLimited, TimerInv, TimerSound
  <2>2. CASE LimitStep
    <3>1. UNCHANGED <<since, heard>>
      BY <2>2, StopJobEffect
         DEF LimitStep, Stopping, Refuse, StopRound, StopRoundEnd, pollOnly, Stopped
    <3>2. poll'.stage = "timeout" => poll' = poll
      <4>1. poll \in Polls
        BY <1>2 DEF TypeInvLimited, TypeInv, TypeOK, Polls
      <4>2. CASE \E k \in Jobs : StopJob(k)
        BY <4>1, <4>2, StopJobEffect DEF Stopped, Polls
      <4>3. CASE StopRound \/ StopRoundEnd \/ \E k \in Jobs : Refuse(k)
        BY <4>1, <4>3 DEF StopRound, StopRoundEnd, PollTo, Refuse, Polls
      <4>4. QED
        BY <2>2, <4>2, <4>3 DEF LimitStep, Stopping
    <3>3. QED
      BY <1>2, <3>1, <3>2 DEF TimerInv, TimerSound
  <2>3. QED
    BY <1>2, <2>1, <2>2, StepKinds
<1>3. QED
  BY <1>1, <1>2, TypeInvLimitedHolds, PTL DEF SpecLimited

\* A refused job is not launched and a stopped one is not launched again: with
\* the limit too, a job has at most one process for each of its submissions.
THEOREM LimitedOneLaunchPerSubmission ==
  SpecLimited => [](\A j \in Jobs : Len(proc[j]) <= attempt[j])
<1>1. InitLimited => Launches
  BY NoJobAssumption DEF InitLimited, Init, Launches, LaunchesFor, ToLaunch
<1>2. ASSUME TypeInvLimited, Launches, [NextLimited]_allVars
      PROVE  Launches'
  <2>1. CASE [Next]_vars
    BY <1>2, <2>1, LaunchesStep DEF TypeInvLimited, Launches
  <2>2. CASE LimitStep
    <3>1. attempt' = attempt /\ (sub' = sub \/ sub'.stage = "raised")
      <4>1. CASE \E k \in Jobs : Refuse(k)
        BY <4>1 DEF Refuse
      <4>2. CASE StopRound \/ StopRoundEnd \/ \E k \in Jobs : StopJob(k)
        BY <4>2, StopJobEffect DEF StopRound, StopRoundEnd, pollOnly, Stopped
      <4>3. QED
        BY <2>2, <4>1, <4>2 DEF LimitStep, Stopping
    <3>2. ASSUME NEW j \in Jobs PROVE Len(proc'[j]) = Len(proc[j])
      <4>1. DOMAIN proc'[j] = DOMAIN proc[j] /\ proc'[j] \in Seq(Process)
        <5>1. CASE \E k \in Jobs : Terminate({k})
          BY <1>2, <5>1, TerminateEffect DEF TypeInvLimited, TypeInv, TypeOK
        <5>2. CASE UNCHANGED proc
          BY <1>2, <5>2 DEF TypeInvLimited, TypeInv, TypeOK
        <5>3. QED
          BY <2>2, <5>1, <5>2, StopJobEffect
             DEF LimitStep, Stopping, Refuse, StopRound, StopRoundEnd, pollOnly, Stopped, workerVars
      <4>2. proc[j] \in Seq(Process)
        BY <1>2 DEF TypeInvLimited, TypeInv, TypeOK
      <4>3. /\ Len(proc[j]) \in Nat /\ DOMAIN proc[j] = 1..Len(proc[j])
            /\ Len(proc'[j]) \in Nat /\ DOMAIN proc'[j] = 1..Len(proc'[j])
        BY <4>1, <4>2, LenProperties
      <4>4. QED
        BY <4>1, <4>3
    <3>3. QED
      BY <1>2, <3>1, <3>2 DEF Launches, LaunchesFor, ToLaunch
  <2>3. QED
    BY <1>2, <2>1, <2>2, StepKinds
<1>3. TypeInvLimited /\ Launches => \A j \in Jobs : Len(proc[j]) <= attempt[j]
  BY DEF Launches, LaunchesFor
<1>4. QED
  BY <1>1, <1>2, <1>3, TypeInvLimitedHolds, PTL DEF SpecLimited
=============================================================================
