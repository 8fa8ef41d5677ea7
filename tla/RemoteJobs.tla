----------------------------- MODULE RemoteJobs -----------------------------
(***************************************************************************)
(* The guix-ssh executor: one controller that submits jobs to SSH workers, *)
(* polls the status files the remote launcher writes, retrieves outputs    *)
(* and reports a verdict to Snakemake.                                     *)
(*                                                                         *)
(* Two threads of the controller act: the scheduler's, which submits (and  *)
(* resubmits) one job at a time, and the executor's polling thread.  On a  *)
(* worker every job has one directory, workdir/run_id/jobid, whatever the  *)
(* attempt, and a detached process that outlives the SSH connection.       *)
(* A remote command may fail before or after it took effect.               *)
(***************************************************************************)
EXTENDS Naturals, Integers, Sequences, FiniteSets

CONSTANTS
  Jobs,         \* jobs of the workflow
  NHosts,       \* number of workers, used in turn
  Restartable,  \* jobs of rules that have retries
  MaxAttempts,  \* submissions of such a job: 1 + Snakemake's retries (bound)
  Timeout,      \* unreachable_timeout, in clock ticks
  RemoveFailed, \* the remove_failed setting
  MaxLosses,    \* remote commands that fail although the host is up (bound)
  Faults        \* which of the events below may happen

FaultKinds == {"partition", "kill", "exit1", "retrieve", "cancel"}

ASSUME ConstantsAssumption ==
  /\ NHosts \in Nat \ {0}
  /\ Restartable \subseteq Jobs
  /\ MaxAttempts \in Nat \ {0}
  /\ Timeout \in Nat
  /\ RemoveFailed \in BOOLEAN
  /\ MaxLosses \in Nat
  /\ Faults \subseteq FaultKinds

VARIABLES
  \* controller
  attempt,   \* submissions started, per job
  verdict,   \* what was reported for the latest submission
  host,      \* worker of the latest submission
  next,      \* self._next_host
  sub,       \* the submission under way: job and stage
  active,    \* RemoteExecutor.active_jobs
  poll,      \* the polling thread: stage, job, jobs to visit, jobs to keep
  since,     \* elapsed ticks of the job's unreachable timer, or NoTimer
  local,     \* what the job's outputs are in the working directory
  failed,    \* self._failed
  mode,      \* is the run going on, cancelled, or shut down
  \* workers
  dir,       \* the job directories
  proc,      \* the processes launched for each job, oldest first
  down,      \* hosts cut off from the controller
  losses,    \* failed commands so far
  \* history
  heard,     \* the host answered since the job's timer was started
  unlisted   \* Ctrl-C found the list empty: the polling thread held the jobs

ctlVars == <<attempt, verdict, host, next, sub, active, poll, since, local,
             failed, mode, heard, unlisted>>
workerVars == <<dir, proc>>
netVars == <<down, losses>>
vars == <<ctlVars, workerVars, netVars>>

Hosts == 0..(NHosts - 1)
NoTimer == -1
NoJob == "none"
ASSUME NoJobAssumption == NoJob \notin Jobs

Fresh == [made |-> FALSE, incoming |-> "none", staged |-> FALSE,
          pid |-> 0, exit |-> "none"]

SubStages == {"idle", "prepare", "mkdir", "rsync", "move", "cache", "launch",
              "await", "raised"}
PollStages == {"sleep", "next", "exit", "pid", "unreachable", "timeout",
               "failed", "cleanup", "retrieve", "discard", "report", "limit",
              "dead"}   \* "limit" is a stage of OpenStackJobs

D(j) == <<host[j], j>>

\* Processes of j that write in directory <<h, j>>: those of a directory that
\* was removed keep running in an unlinked one.
In(h, j) == {i \in DOMAIN proc[j] : proc[j][i].host = h /\ proc[j][i].here}
Alive(p) == p.phase \in {"born", "run"}
LiveIn(h, j) == {i \in In(h, j) : Alive(proc[j][i])}
EndedWell(p) == p.phase = "done" /\ p.ok

\* The declared outputs in the directory are there, and complete.
OutputsExist(j) == \E i \in In(host[j], j) : proc[j][i].phase # "born"
OutputsWhole(j) ==
  /\ \E i \in In(host[j], j) : EndedWell(proc[j][i])
  /\ \A i \in In(host[j], j) : proc[j][i].phase # "run"

Init ==
  /\ attempt = [j \in Jobs |-> 0]
  /\ verdict = [j \in Jobs |-> "none"]
  /\ host = [j \in Jobs |-> 0]
  /\ next = 0
  /\ sub = [job |-> NoJob, stage |-> "idle"]
  /\ active = {}
  /\ poll = [stage |-> "sleep", job |-> NoJob, todo |-> {}, kept |-> {}]
  /\ since = [j \in Jobs |-> NoTimer]
  /\ local = [j \in Jobs |-> "none"]
  /\ failed = FALSE
  /\ mode = "run"
  /\ dir = [d \in Hosts \X Jobs |-> Fresh]
  /\ proc = [j \in Jobs |-> << >>]
  /\ down = {}
  /\ losses = 0
  /\ heard = [j \in Jobs |-> FALSE]
  /\ unlisted = FALSE

-----------------------------------------------------------------------------
(* Commands.run over ssh: every attempt reaches the host, or all fail.     *)

Answers(h) == h \notin down /\ UNCHANGED losses
NoAnswer(h) ==
  \/ h \in down /\ UNCHANGED losses
  \/ h \notin down /\ losses < MaxLosses /\ losses' = losses + 1

\* A command that updates a directory: the controller sees it succeed, or it
\* sees an error and cannot tell whether the update was made.
Update(h, dirs) == Answers(h) /\ dir' = dirs
UpdateError(h, dirs) == /\ NoAnswer(h)
                        /\ \/ UNCHANGED dir
                           \/ h \notin down /\ dir' = dirs

-----------------------------------------------------------------------------
(* Submission: Executor._run_job                                           *)

SubTo(stage) == sub' = [sub EXCEPT !.stage = stage]

\* Mutation: the error leaves run_job without being noted.
Raise_Unnoted == SubTo("raised") /\ UNCHANGED failed

\* run_job marks the run failed and lets the error stop the scheduler.
Raise == SubTo("raised") /\ failed' = TRUE

\* Mutation: the host index is not reduced.
Submit_NoModulo(j) ==
  /\ mode = "run" /\ sub.stage = "idle" /\ poll.stage # "dead"
  /\ attempt[j] = 0
  /\ attempt' = [attempt EXCEPT ![j] = @ + 1]
  /\ host' = [host EXCEPT ![j] = next]
  /\ next' = next + 1
  /\ sub' = [job |-> j, stage |-> "prepare"]
  /\ UNCHANGED <<verdict, active, poll, since, local, failed, mode, heard,
                 unlisted, workerVars, netVars>>

\* The scheduler hands the job to run_job: for the first time, or again.
MayRestart(j) == j \in Restartable /\ attempt[j] < MaxAttempts

Submittable(j) ==
  /\ mode = "run" /\ sub.stage = "idle" /\ poll.stage # "dead"
  /\ \/ attempt[j] = 0
     \/ verdict[j] = "error" /\ MayRestart(j)

Submit(j) ==
  /\ Submittable(j)
  /\ attempt' = [attempt EXCEPT ![j] = @ + 1]
  /\ verdict' = [verdict EXCEPT ![j] = "none"]
  /\ host' = [host EXCEPT ![j] = next]
  /\ next' = (next + 1) % NHosts
  /\ sub' = [job |-> j, stage |-> "prepare"]
  /\ UNCHANGED <<active, poll, since, local, failed, mode, heard, unlisted,
                 workerVars, netVars>>

subOnly == <<attempt, verdict, host, next, poll, since, local, mode, heard,
             unlisted, proc, down>>

\* preflight, guix_copy and deploy_environment leave the directory alone.
Prepare ==
  /\ sub.stage = "prepare"
  /\ \/ Answers(host[sub.job]) /\ SubTo("mkdir") /\ UNCHANGED failed
     \/ NoAnswer(host[sub.job]) /\ Raise
  /\ UNCHANGED <<subOnly, active, dir>>

\* stage_inputs: mkdir -p .incoming; rsync; move the files up.
MakeIncoming ==
  LET made == [dir EXCEPT ![D(sub.job)].made = TRUE,
                          ![D(sub.job)].incoming =
                             IF @ = "none" THEN "empty" ELSE @]
  IN /\ sub.stage = "mkdir"
     /\ \/ Update(host[sub.job], made) /\ SubTo("rsync") /\ UNCHANGED failed
        \/ UpdateError(host[sub.job], made) /\ Raise
     /\ UNCHANGED <<subOnly, active>>

RsyncInputs ==
  LET d == D(sub.job)
      full == [dir EXCEPT ![d].incoming = "full"]
  IN /\ sub.stage = "rsync"
     /\ \/ dir[d].made /\ Update(host[sub.job], full) /\ SubTo("move")
           /\ UNCHANGED failed
        \/ ~dir[d].made /\ UNCHANGED <<dir, losses>> /\ Raise
        \/ dir[d].made /\ UpdateError(host[sub.job], full) /\ Raise
     /\ UNCHANGED <<subOnly, active>>

\* mv cannot replace the non-empty directories an earlier attempt staged:
\* rmdir .incoming then fails.  A lost reply cannot be retried either, since
\* .incoming is gone by then.
MoveInputs ==
  LET d == D(sub.job)
      moved == [dir EXCEPT ![d].staged = TRUE, ![d].incoming = "none"]
  IN /\ sub.stage = "move"
     /\ \/ dir[d].incoming = "full" /\ Update(host[sub.job], moved)
           /\ SubTo("cache") /\ UNCHANGED failed
        \/ /\ dir[d].incoming = "none" \/ dir[d].staged
           /\ UNCHANGED <<dir, losses>> /\ Raise
        \/ dir[d].incoming = "full" /\ UpdateError(host[sub.job], moved) /\ Raise
     /\ UNCHANGED <<subOnly, active>>

\* sources.json, then the profile cache link.
LinkCache ==
  /\ sub.stage = "cache"
  /\ \/ dir[D(sub.job)].made /\ Answers(host[sub.job]) /\ SubTo("launch")
        /\ UNCHANGED failed
     \/ ~dir[D(sub.job)].made /\ UNCHANGED losses /\ Raise
     \/ NoAnswer(host[sub.job]) /\ Raise
  /\ UNCHANGED <<subOnly, active, dir>>

\* Lifecycle.launch: one attempt only.  The script makes the directory,
\* starts the process group and waits for a non-empty pid file.
Spawn(j) ==
  /\ dir' = [dir EXCEPT ![D(j)].made = TRUE]
  /\ proc' = [proc EXCEPT ![j] = Append(@, [host |-> host[j], phase |-> "born",
                ok |-> FALSE, here |-> TRUE, term |-> FALSE,
                inputs |-> dir[D(j)].staged])]

\* Mutation: the launch command is retried like every other one.
Launch_Retried ==
  /\ sub.stage = "launch"
  /\ Spawn(sub.job) /\ UNCHANGED failed
  /\ \/ Answers(host[sub.job]) /\ SubTo("await")
     \/ host[sub.job] \notin down /\ NoAnswer(host[sub.job]) /\ UNCHANGED sub
  /\ UNCHANGED <<attempt, verdict, host, next, poll, since, local, mode, heard,
                 unlisted, down, active>>

Launch ==
  /\ sub.stage = "launch"
  /\ \/ Answers(host[sub.job]) /\ Spawn(sub.job) /\ SubTo("await")
        /\ UNCHANGED failed
     \/ NoAnswer(host[sub.job]) /\ UNCHANGED <<dir, proc>> /\ Raise
     \/ host[sub.job] \notin down /\ NoAnswer(host[sub.job])
        /\ Spawn(sub.job) /\ Raise
  /\ UNCHANGED <<attempt, verdict, host, next, poll, since, local, mode, heard,
                 unlisted, down, active>>

\* The pid file counts, not who wrote it.  report_job_submission adds the job
\* to the list the polling thread takes.
LaunchReply ==
  /\ sub.stage = "await"
  /\ \/ dir[D(sub.job)].pid # 0 /\ Answers(host[sub.job])
        /\ active' = active \cup {sub.job}
        /\ sub' = [job |-> NoJob, stage |-> "idle"]
        /\ UNCHANGED failed
     \/ dir[D(sub.job)].pid = 0 /\ UNCHANGED <<active, losses>> /\ Raise
     \/ NoAnswer(host[sub.job]) /\ Raise /\ UNCHANGED active
  /\ UNCHANGED <<subOnly, dir>>

-----------------------------------------------------------------------------
(* The worker                                                              *)

SetProc(j, i, f) == proc' = [proc EXCEPT ![j][i] = f]

\* The shell of the process group writes its pid and starts the command.
ProcStart(j, i) ==
  /\ proc[j][i].phase = "born"
  /\ SetProc(j, i, [proc[j][i] EXCEPT !.phase = "run"])
  /\ dir' = IF proc[j][i].here THEN [dir EXCEPT ![<<proc[j][i].host, j>>].pid = i]
            ELSE dir
  /\ UNCHANGED <<ctlVars, netVars>>

\* The command ends; the EXIT trap moves the exit file in place and the shell
\* is gone.  Without its inputs the command cannot succeed, and after SIGTERM
\* the shell exits with 143 once the command has ended.
ProcEnd(j, i) ==
  \E ok \in {TRUE} \cup (IF "exit1" \in Faults THEN {FALSE} ELSE {}) :
    /\ proc[j][i].phase = "run"
    /\ LET good == ok /\ proc[j][i].inputs /\ proc[j][i].here /\ ~proc[j][i].term
       IN /\ SetProc(j, i, [proc[j][i] EXCEPT !.phase = "done", !.ok = good])
          /\ dir' = IF proc[j][i].here
                    THEN [dir EXCEPT ![<<proc[j][i].host, j>>].exit =
                             IF good THEN "0" ELSE "1"]
                    ELSE dir
    /\ UNCHANGED <<ctlVars, netVars>>

\* SIGKILL, out of memory, power: no exit file.
ProcKilled(j, i) ==
  /\ "kill" \in Faults
  /\ Alive(proc[j][i])
  /\ SetProc(j, i, [proc[j][i] EXCEPT !.phase = "done", !.ok = FALSE])
  /\ UNCHANGED <<ctlVars, dir, netVars>>

Partition(h) ==
  /\ "partition" \in Faults
  /\ h \notin down
  /\ down' = down \cup {h}
  /\ UNCHANGED <<ctlVars, workerVars, losses>>

\* Time passes for the timers that run.
Tick ==
  /\ \E j \in Jobs : since[j] \in 0..(Timeout - 1)
  /\ since' = [j \in Jobs |-> IF since[j] \in 0..(Timeout - 1)
                              THEN since[j] + 1 ELSE since[j]]
  /\ UNCHANGED <<attempt, verdict, host, next, sub, active, poll, local, failed,
                 mode, heard, unlisted, workerVars, netVars>>

-----------------------------------------------------------------------------
(* Polling: RemoteExecutor's loop around Executor.check_active_jobs        *)

pollOnly == <<attempt, host, next, sub, mode, unlisted, proc, down>>
PollTo(stage) == poll' = [poll EXCEPT !.stage = stage]

\* Done with the job (Drop), or yield it to be polled again (Keep).
Drop == poll' = [poll EXCEPT !.stage = "next", !.job = NoJob]
Keep == poll' = [poll EXCEPT !.stage = "next", !.job = NoJob,
                             !.kept = @ \cup {poll.job}]

\* The loop takes the whole list; what the handler yields goes back to it.
PollRound ==
  /\ poll.stage = "sleep" /\ mode # "stopped" /\ active # {}
  /\ poll' = [stage |-> "next", job |-> NoJob, todo |-> active, kept |-> {}]
  /\ active' = {}
  /\ UNCHANGED <<pollOnly, verdict, since, local, failed, heard, dir, losses>>

PollNext ==
  /\ poll.stage = "next"
  /\ \E j \in poll.todo :
       poll' = [poll EXCEPT !.stage = "exit", !.job = j, !.todo = @ \ {j}]
  /\ UNCHANGED <<pollOnly, active, verdict, since, local, failed, heard, dir,
                 losses>>

PollRoundEnd ==
  /\ poll.stage = "next" /\ poll.todo = {}
  /\ active' = active \cup poll.kept
  /\ poll' = [stage |-> "sleep", job |-> NoJob, todo |-> {}, kept |-> {}]
  /\ UNCHANGED <<pollOnly, verdict, since, local, failed, heard, dir, losses>>

StopTimer == since' = [since EXCEPT ![poll.job] = NoTimer]
Heard == heard' = [heard EXCEPT ![poll.job] = TRUE]

\* Mutation: exit code 0 leads to the clean-up, without the outputs.
ReadExit_Discards ==
  /\ poll.stage = "exit"
  /\ dir[D(poll.job)].made /\ Answers(host[poll.job])
  /\ StopTimer /\ Heard
  /\ PollTo(CASE dir[D(poll.job)].exit = "none" -> "pid"
              [] dir[D(poll.job)].exit = "0" -> "discard"
              [] OTHER -> "failed")
  /\ UNCHANGED <<pollOnly, active, verdict, local, failed, dir>>

\* Lifecycle.status, first half: `cd' and `test -f exit'.
ReadExit ==
  LET d == D(poll.job)
      answered == dir[d].made /\ Answers(d[1])
  IN /\ poll.stage = "exit"
     /\ \/ answered /\ dir[d].exit = "none" /\ PollTo("pid")
           /\ UNCHANGED <<since, heard>>
        \/ answered /\ dir[d].exit = "0" /\ PollTo("retrieve")
           /\ StopTimer /\ Heard
        \/ answered /\ dir[d].exit = "1" /\ PollTo("failed")
           /\ StopTimer /\ Heard
        \/ ~dir[d].made /\ UNCHANGED losses /\ PollTo("unreachable")
           /\ UNCHANGED <<since, heard>>
        \/ NoAnswer(d[1]) /\ PollTo("unreachable") /\ UNCHANGED <<since, heard>>
     /\ UNCHANGED <<pollOnly, active, verdict, local, failed, dir>>

\* Mutation: the timer is not cleared when the job runs.
ReadPid_KeepsTimer ==
  LET i == dir[D(poll.job)].pid
  IN /\ poll.stage = "pid"
     /\ Heard
     /\ IF i # 0 /\ Alive(proc[poll.job][i]) THEN Keep ELSE PollTo("failed")
     /\ UNCHANGED <<pollOnly, active, verdict, since, local, failed, dir,
                    losses>>

\* Second half: `kill -0 $(cat pid)', on a host that has already answered.
ReadPid ==
  LET j == poll.job
      i == dir[D(j)].pid
      running == i # 0 /\ Alive(proc[j][i])
  IN /\ poll.stage = "pid"
     /\ StopTimer /\ Heard
     /\ IF running THEN Keep ELSE PollTo("failed")
     /\ UNCHANGED <<pollOnly, active, verdict, local, failed, dir, losses>>

\* Mutation: a job whose host is silent is not yielded.
Unreachable_Drops ==
  /\ poll.stage = "unreachable"
  /\ since' = [since EXCEPT ![poll.job] = IF @ = NoTimer THEN 0 ELSE @]
  /\ IF since[poll.job] = Timeout THEN PollTo("timeout") ELSE Drop
  /\ UNCHANGED <<pollOnly, active, verdict, local, failed, heard, dir, losses>>

\* Mutation: every unanswered poll starts the timer afresh.
Unreachable_Restarts ==
  /\ poll.stage = "unreachable"
  /\ since' = [since EXCEPT ![poll.job] = 0]
  /\ Keep
  /\ UNCHANGED <<pollOnly, active, verdict, local, failed, heard, dir, losses>>

\* setdefault of the timer, then the comparison with unreachable_timeout.
Unreachable ==
  LET j == poll.job
      elapsed == IF since[j] = NoTimer THEN 0 ELSE since[j]
  IN /\ poll.stage = "unreachable"
     /\ heard' = [heard EXCEPT ![j] = @ /\ since[j] # NoTimer]
     /\ IF elapsed >= Timeout
        THEN StopTimer /\ PollTo("timeout")
        ELSE since' = [since EXCEPT ![j] = elapsed] /\ Keep
     /\ UNCHANGED <<pollOnly, active, verdict, local, failed, dir, losses>>

\* Mutation: a job that failed is yielded like one that runs.
ReportError_Yields ==
  /\ poll.stage \in {"timeout", "failed"}
  /\ verdict' = [verdict EXCEPT ![poll.job] = "error"]
  /\ failed' = TRUE
  /\ Keep
  /\ UNCHANGED <<pollOnly, active, since, local, heard, dir, losses>>

\* report_job_error comes first; the directory goes afterwards, if at all.
ReportError ==
  /\ poll.stage \in {"timeout", "failed"}
  /\ verdict' = [verdict EXCEPT ![poll.job] = "error"]
  /\ failed' = TRUE
  /\ IF RemoveFailed THEN PollTo("cleanup") ELSE Drop
  /\ UNCHANGED <<pollOnly, active, since, local, heard, dir, losses>>

\* rm -rf of the job directory: what runs in it keeps an unlinked directory.
Removed(j) ==
  /\ dir' = [dir EXCEPT ![D(j)] = Fresh]
  /\ proc' = [proc EXCEPT ![j] = [i \in DOMAIN proc[j] |->
                 [proc[j][i] EXCEPT !.here = @ /\ proc[j][i].host # host[j]]]]

\* Lifecycle.cleanup.  Its CommandError is not caught: it ends the polling
\* thread, with whatever that thread still held.
CleanUp(stage, after) ==
  /\ poll.stage = stage
  /\ \/ Answers(host[poll.job]) /\ Removed(poll.job) /\ after
     \/ NoAnswer(host[poll.job]) /\ UNCHANGED workerVars /\ PollTo("dead")
     \/ host[poll.job] \notin down /\ NoAnswer(host[poll.job])
        /\ Removed(poll.job) /\ PollTo("dead")
  /\ UNCHANGED <<attempt, host, next, sub, mode, unlisted, down, active,
                 verdict, since, local, failed, heard>>

CleanUpFailed == CleanUp("cleanup", Drop)
CleanUpSucceeded == CleanUp("discard", PollTo("report"))

\* Mutation: a failed retrieval is logged and the job goes on to success.
Retrieve_Swallows ==
  LET j == poll.job
  IN /\ poll.stage = "retrieve"
     /\ \/ /\ OutputsExist(j) /\ Answers(host[j])
           /\ local' = [local EXCEPT ![j] =
                           IF OutputsWhole(j) THEN "whole" ELSE "partial"]
        \/ NoAnswer(host[j]) /\ UNCHANGED local
     /\ PollTo("discard")
     /\ UNCHANGED <<pollOnly, active, verdict, failed, since, heard, dir>>

\* retrieve_outputs: test -e on the worker, then publish in the working
\* directory.  A failure is a verdict; the directory is kept.  One that comes
\* from the worker changes no output, a local one may come when some outputs,
\* or all, have been renamed into place.
Retrieve ==
  LET j == poll.job
  IN /\ poll.stage = "retrieve"
     /\ \/ /\ OutputsExist(j) /\ Answers(host[j])
           /\ local' = [local EXCEPT ![j] =
                           IF OutputsWhole(j) THEN "whole" ELSE "partial"]
           /\ PollTo("discard")
           /\ UNCHANGED <<verdict, failed>>
        \/ /\ \/ NoAnswer(host[j]) /\ UNCHANGED local
              \/ ~OutputsExist(j) /\ UNCHANGED <<losses, local>>
              \/ /\ "retrieve" \in Faults /\ OutputsExist(j) /\ Answers(host[j])
                 /\ \E o \in {local[j], "partial"}
                           \cup (IF OutputsWhole(j) THEN {"whole"} ELSE {}) :
                      local' = [local EXCEPT ![j] = o]
           /\ verdict' = [verdict EXCEPT ![j] = "error"]
           /\ failed' = TRUE
           /\ Drop
     /\ UNCHANGED <<pollOnly, active, since, heard, dir>>

ReportSuccess ==
  /\ poll.stage = "report"
  /\ verdict' = [verdict EXCEPT ![poll.job] = "success"]
  /\ Drop
  /\ UNCHANGED <<pollOnly, active, since, local, failed, heard, dir, losses>>

-----------------------------------------------------------------------------
(* Cancellation and shutdown                                               *)

\* Lifecycle.cancel reaches the workers of some jobs: the process group named
\* by the pid file gets SIGTERM, and nobody waits until it has ended.
Terminate(hit) ==
  /\ proc' = [j \in Jobs |-> [i \in DOMAIN proc[j] |->
       IF j \in hit /\ i = dir[D(j)].pid /\ Alive(proc[j][i])
       THEN [proc[j][i] EXCEPT !.term = TRUE] ELSE proc[j][i]]]
  /\ UNCHANGED dir

\* Ctrl-C: cancel_jobs gets the jobs in the list, not those being polled; a
\* job whose host does not answer is only logged.
Cancel ==
  /\ "cancel" \in Faults
  /\ mode = "run" /\ sub.stage \in {"idle", "raised"}
  /\ mode' = "cancelled"
  /\ failed' = (failed \/ active # {})
  /\ unlisted' = (active = {} /\ poll.stage # "sleep")
  /\ active' = {}
  /\ \E hit \in SUBSET {j \in active : host[j] \notin down} : Terminate(hit)
  /\ UNCHANGED <<attempt, verdict, host, next, sub, poll, since, local, heard,
                 netVars>>

Final(j) == \/ verdict[j] = "success"
            \/ verdict[j] = "error" /\ ~MayRestart(j)

\* shutdown joins the polling thread, then releases the hosts.
Shutdown ==
  /\ mode # "stopped"
  /\ \/ mode = "cancelled" \/ sub.stage = "raised" \/ poll.stage = "dead"
     \/ \A j \in Jobs : Final(j)
  /\ sub.stage \in {"idle", "raised"} /\ poll.stage \in {"sleep", "dead"}
  /\ mode' = "stopped"
  /\ UNCHANGED <<attempt, verdict, host, next, sub, active, poll, since, local,
                 failed, heard, unlisted, workerVars, netVars>>

-----------------------------------------------------------------------------
Submission == \/ Prepare \/ MakeIncoming \/ RsyncInputs \/ MoveInputs
              \/ LinkCache \/ Launch \/ LaunchReply
PollJob == \/ PollNext \/ PollRoundEnd \/ ReadExit \/ ReadPid
           \/ Unreachable \/ ReportError \/ CleanUpFailed \/ Retrieve
           \/ CleanUpSucceeded \/ ReportSuccess
ProcStep(j) == \E i \in DOMAIN proc[j] : ProcStart(j, i) \/ ProcEnd(j, i)

Others ==
  \/ Submission
  \/ PollJob
  \/ \E j \in Jobs : ProcStep(j) \/ \E i \in DOMAIN proc[j] : ProcKilled(j, i)
  \/ \E h \in Hosts : Partition(h)
  \/ Tick
  \/ Cancel
  \/ Shutdown

Next == (\E j \in Jobs : Submit(j)) \/ PollRound \/ Others

Spec == Init /\ [][Next]_vars

-----------------------------------------------------------------------------
(* Properties                                                              *)

Process == [host : Hosts, phase : {"born", "run", "done"}, ok : BOOLEAN,
            here : BOOLEAN, term : BOOLEAN, inputs : BOOLEAN]

TypeOK ==
  /\ attempt \in [Jobs -> 0..MaxAttempts]
  /\ verdict \in [Jobs -> {"none", "success", "error"}]
  /\ host \in [Jobs -> Hosts]
  /\ next \in Hosts
  /\ sub \in [job : Jobs \cup {NoJob}, stage : SubStages]
  /\ active \subseteq Jobs
  /\ poll \in [stage : PollStages, job : Jobs \cup {NoJob},
               todo : SUBSET Jobs, kept : SUBSET Jobs]
  /\ since \in [Jobs -> {NoTimer} \cup (0..Timeout)]
  /\ local \in [Jobs -> {"none", "partial", "whole"}]
  /\ failed \in BOOLEAN
  /\ mode \in {"run", "cancelled", "stopped"}
  /\ dir \in [Hosts \X Jobs ->
       [made : BOOLEAN, incoming : {"none", "empty", "full"}, staged : BOOLEAN,
        pid : Nat, exit : {"none", "0", "1"}]]
  /\ proc \in [Jobs -> Seq(Process)]
  /\ down \subseteq Hosts
  /\ losses \in 0..MaxLosses
  /\ heard \in [Jobs -> BOOLEAN]
  /\ unlisted \in BOOLEAN

\* A job is in the hands of exactly one thread, or of nobody.
InHands(j) == j \in active \cup poll.todo \cup poll.kept \cup {poll.job}

\* "Retrying this command would launch the same job twice": a job's process
\* never starts in a directory where another one of the job still runs.
RunsOnce == \A j \in Jobs, h \in Hosts : Cardinality(LiveIn(h, j)) <= 1

\* The executor "only reports success after outputs have been published
\* locally": those outputs are complete, not a snapshot of a running job.
SuccessIsPublished ==
  \A j \in Jobs : verdict[j] = "success" => local[j] = "whole"

\* The result of a command that succeeded is not thrown away: the directory
\* with its outputs stays until they are published, unless the job was
\* reported failed and remove_failed asked for it.
OutputsNeverLost ==
  \A j \in Jobs : \A i \in DOMAIN proc[j] :
    EndedWell(proc[j][i]) /\ ~proc[j][i].here
      => local[j] = "whole" \/ (RemoveFailed /\ verdict[j] = "error")

\* A process is never forgotten: while it runs and its job has no verdict,
\* some thread holds the job, unless the submission itself failed, the run
\* was cancelled or polling died.
NothingForgotten ==
  \A j \in Jobs :
    /\ verdict[j] = "none" /\ \E i \in DOMAIN proc[j] : Alive(proc[j][i])
    /\ mode = "run" /\ poll.stage # "dead"
    => InHands(j) \/ sub.job = j

\* A job fails as unreachable only if its host did not answer once since the
\* timer was started.
TimerSound == poll.stage = "timeout" => ~heard[poll.job]

\* keep = on-failure: the run hands its hosts back as not failed only if every
\* job it submitted succeeded, unless the polling thread died, or Ctrl-C came
\* while that thread held every job.
FailureSeen ==
  mode = "stopped" /\ ~failed /\ ~unlisted /\ poll.stage # "dead"
    => \A j \in Jobs : attempt[j] > 0 => verdict[j] = "success"

\* What Snakemake may rely on: one verdict per submission, success final.
Verdicts == INSTANCE JobVerdicts WITH outputs <- local
VerdictsSpec == Verdicts!Spec

\* The executor "retrieves outputs after successful jobs": in a run in which
\* every command succeeds and every host answers, no job is reported failed.
NoFaultNoFailure ==
  Faults = {} /\ MaxLosses = 0 => \A j \in Jobs : verdict[j] # "error"
=============================================================================
