--------------------------- MODULE OpenStackJobs ----------------------------
(***************************************************************************)
(* The OpenStack executor: RemoteJobs on one rented worker with a limit on *)
(* its lifetime.  Once max-hours have elapsed no job is submitted, and the *)
(* next polling round cancels and reports every job instead of polling it. *)
(***************************************************************************)
EXTENDS RemoteJobs

VARIABLES
  expired, \* max-hours have elapsed since started_at
  stopped, \* history: jobs reported because of that
  missed   \* history: those whose cancellation did not reach the worker

limitVars == <<expired, stopped, missed>>
allVars == <<vars, limitVars>>

InitLimited == Init /\ expired = FALSE /\ stopped = {} /\ missed = {}

\* The clock starts with the first submission, which rents the worker.
Expire ==
  /\ ~expired
  /\ \E j \in Jobs : attempt[j] > 0
  /\ expired' = TRUE
  /\ UNCHANGED <<vars, stopped, missed>>

\* run_job: after the limit a job is refused, and the run has failed.
Refuse(j) ==
  /\ expired /\ Submittable(j)
  /\ sub' = [job |-> j, stage |-> "raised"]
  /\ failed' = TRUE
  /\ UNCHANGED <<attempt, verdict, host, next, active, poll, since, local, mode,
                 heard, unlisted, workerVars, netVars, limitVars>>

\* check_active_jobs: a round that begins after the limit.
StopRound ==
  /\ expired
  /\ poll.stage = "sleep" /\ mode # "stopped" /\ active # {}
  /\ poll' = [stage |-> "limit", job |-> NoJob, todo |-> active, kept |-> {}]
  /\ active' = {}
  /\ UNCHANGED <<attempt, verdict, host, next, sub, since, local, failed, mode,
                 heard, unlisted, workerVars, netVars, limitVars>>

stopJobOnly == <<attempt, host, next, sub, active, since, local, mode, heard,
                 unlisted, down, expired>>

\* Mutation: the job is reported and left running.
StopJob_NoCancel(j) ==
  /\ poll.stage = "limit" /\ j \in poll.todo
  /\ failed' = TRUE
  /\ verdict' = [verdict EXCEPT ![j] = "error"]
  /\ poll' = [poll EXCEPT !.todo = @ \ {j}]
  /\ stopped' = stopped \cup {j}
  /\ UNCHANGED <<stopJobOnly, workerVars, losses, missed>>

\* cancel_jobs([active]) logs a CommandError; the job is reported anyway.
StopJob(j) ==
  /\ poll.stage = "limit" /\ j \in poll.todo
  /\ failed' = TRUE
  /\ \/ Answers(host[j]) /\ Terminate({j}) /\ UNCHANGED missed
     \/ NoAnswer(host[j]) /\ missed' = missed \cup {j} /\ UNCHANGED workerVars
     \/ host[j] \notin down /\ NoAnswer(host[j])
        /\ Terminate({j}) /\ UNCHANGED missed
  /\ verdict' = [verdict EXCEPT ![j] = "error"]
  /\ poll' = [poll EXCEPT !.todo = @ \ {j}]
  /\ stopped' = stopped \cup {j}
  /\ UNCHANGED stopJobOnly

\* Nothing is yielded.
StopRoundEnd ==
  /\ poll.stage = "limit" /\ poll.todo = {}
  /\ PollTo("sleep")
  /\ UNCHANGED <<pollOnly, active, verdict, since, local, failed, heard, dir,
                 losses, limitVars>>

\* The plain executor, with the two checks of the limit: before a submission
\* and before a round.
Inherited ==
  /\ \/ ~expired /\ \E j \in Jobs : Submit(j)
     \/ ~expired /\ PollRound
     \/ Others
  /\ UNCHANGED limitVars

Stopping == StopRound \/ StopRoundEnd \/ \E j \in Jobs : StopJob(j)

PollingThread ==
  \/ ~expired /\ PollRound /\ UNCHANGED limitVars
  \/ PollJob /\ UNCHANGED limitVars
  \/ Stopping

NextLimited == \/ Inherited
               \/ Expire
               \/ \E j \in Jobs : Refuse(j)
               \/ Stopping

SpecLimited == InitLimited /\ [][NextLimited]_allVars

\* As in RemoteJobs; the end of the limit is not promised.
FairLimited ==
  /\ SpecLimited
  /\ WF_allVars(Submission /\ UNCHANGED limitVars)
  /\ WF_allVars(PollingThread)
  /\ WF_allVars(Tick /\ UNCHANGED limitVars)
  /\ WF_allVars(Shutdown /\ UNCHANGED limitVars)
  /\ \A j \in Jobs : WF_allVars(ProcStep(j) /\ UNCHANGED limitVars)

-----------------------------------------------------------------------------
(* Properties                                                              *)

\* "The remote job was cancelled to stop instance billing": a job reported
\* because of the limit has no process on the worker, now or later, that has
\* not been sent SIGTERM, unless the worker did not get the command; nobody
\* waits for it to end.  A resubmitted job is exempt: its pid file may be that
\* of the attempt before.
LimitCancels ==
  \A j \in stopped \ missed :
    attempt[j] = 1 =>
      \A i \in DOMAIN proc[j] : Alive(proc[j][i]) => proc[j][i].term

\* Every job handed to the polling thread gets a verdict, or the run stops:
\* before the limit and after it, with a silent worker, and while a job that
\* failed is submitted again.
EveryJobReported ==
  \A j \in Jobs : j \in active ~> verdict[j] # "none" \/ mode # "run"
=============================================================================
