# Verification of snakemake-guix

TLA+ models of the parts of snakemake-guix whose correctness depends on
interleavings, failures and retries, the TLC runs that check them on small
instances, and TLAPS proofs about them. Source paths are relative to `src/`;
`guixenv.py`, `instance.py` and so on name the one file of that name.

## 1. The system

Snakemake plugins that run rules in Guix environments, locally or on remote
workers.

| Component | Code | State it keeps | Operations |
|---|---|---|---|
| Persistent profile cache | `guixenv.py` 326-448 | one directory per environment hash: `.lock`, `.complete`, `profile`, temporary profiles | find, lock, realize, publish, mark, clean up |
| Remote job lifecycle (guix-ssh) | executor `__init__.py`, `lifecycle.py`, `commands.py` | active jobs, unreachable timers, next host; on a worker, a directory and a process per job | submit, launch, poll, retrieve, clean up, cancel, shut down |
| Transport | `transport.py` | what was deployed where; temporary files beside the targets | deploy, stage inputs, publish outputs, path mapping |
| Rented worker | `instance.py`, `cloud.py` | ids of the servers a run answers for; tagged servers in the cloud | acquire, adopt, delete, release |
| Reaper | `reap.py` | none | list expired servers, delete them |
| OpenStack executor | openstack `__init__.py` | start of the worker | allowlist, max-hours stop |
| Generated SSH configuration | `sshconfig.py` | `ssh_config`, `known_hosts`, shared by all runs | add, remove, preflight |
| Image maintenance | `image.py` | Glance images | ensure |
| Environment identity | `guixenv.py` 56-337, 456-517, `guixenvspec.py`, `channels.py`, `settings.py` | none; reads manifests, channel files, pages | resolve the pin, hash, describe to guix |
| Workflow sources | executor `__init__.py` 267-365 | none; reads the working directory | list the files a job needs |
| Host model and capacity | `model.py`, `hosts.py` | free resources | feasible, reserve, release |
| Contracts, wrapper | `contracts.py`, `command.py` | none | path resolution, argument lists |
| OpenRC parser, conda conversion, channel packages | `openrc.py`, `conda_to_guix.py`, `.guix/` | none | one-shot conversions |

How they interact:

- Snakemake's scheduler calls `run_job`; a polling thread of the executor calls
  `check_active_jobs` and reports verdicts, on which the scheduler may submit
  the job again while the polling thread goes on.
- The executor takes its workers from a host source: a static list, or
  `OpenStackHosts`, which rents a server at the first submission and gives it
  back at shutdown. Runs of one workflow find each other's servers through
  metadata, and the reaper finds all of them.
- A rule, on the controller or on a worker, runs in a profile of the cache. All
  Snakemake processes of a project share the cache directory.

What is hard: the cache is a protocol over single file operations that
unlocked readers observe; remote commands fail before or after they took
effect, and the directory of a job is the same for all its attempts; cloud
lists are stale when they are used; several steps of clean-up can fail one by
one; a controller can be killed at any point. `PROJECT.json` lists each of
these hazards at its line, with the properties aimed at it.

Each component is right if:

- cache: one realization at a time, no marker without a profile, a complete
  environment is reused, a profile in use is not taken away, every call ends
  unless a lock is left that nobody can release;
- jobs: a job's process never runs twice in one directory, success means
  complete outputs in the working directory, results are not thrown away,
  every job gets a verdict, a host that answers is never "unreachable";
- environment: whoever finds a profile under a hash would have been given the
  same one by guix;
- SSH configuration: a run's entries are there while it needs them, and gone
  after it, as far as runs that edit without a lock can have it;
- contracts, wrapper, sources: consumer and producer mean the same file, a
  script gets back what its rule says, a worker has the files of its job;
- rented worker: no server exists that nobody answers for, a run never deletes
  a server it was not configured to touch, everything is deleted in the end.

## 2. Modules

| Module | Models | Run by |
|---|---|---|
| `ProfileCache` | the cache directory and the processes that use it | `MCProfileCache` |
| `EnvironmentStore` | what the cache promises (abstract) | refined by `ProfileCache` |
| `ProfileCacheProofs` | theorems about both | TLAPS |
| `RemoteJobs` | the guix-ssh executor, its workers and the network | `MCRemoteJobs` |
| `JobVerdicts` | what an executor promises the scheduler (abstract) | refined by `RemoteJobs` |
| `OpenStackJobs` | the OpenStack executor: `RemoteJobs` with the max-hours limit | `MCOpenStackJobs` |
| `Publication` | how one job's outputs reach the working directory | `MCPublication` |
| `OpenStackHosts` | runs of one workflow, the cloud and the reaper | `MCOpenStackHosts` |
| `SshConfig` | the generated `ssh_config` and `known_hosts`, edited by several runs | `MCSshConfig` |
| `ImageEnsure` | `ensure_image` commands and Glance | `MCImageEnsure` |
| `EnvIdentity` | declarations and settings, their hash, and what guix is given | `MCDefinitions` |
| `Contracts`, `WrapperArgv`, `Staging` | paths between modules, arguments of a script, files for a worker: operators | `MCDefinitions` |
| `Definitions` | the four above together, one state per input of the operators | `MCDefinitions` |
| `RemoteJobsProofs`, `OpenStackJobsProofs`, `PublicationProofs`, `OpenStackHostsProofs`, `SshConfigProofs`, `ImageEnsureProofs`, `DefinitionsProofs` | theorems about the module of that name | TLAPS |

`OpenStackJobs` EXTENDS `RemoteJobs` and reuses its actions, as the Python class
inherits from the guix-ssh executor. The other modules are independent: their
code shares no state while they act, and the seams are one action each
(`Retrieve` in `RemoteJobs` stands for a whole run of `Publication`; `Prepare`
stands for acquiring the worker; `Realize` in `EnvIdentity` stands for the
protocol of `ProfileCache`; `Boot`, `Release` and `Fail` in `SshConfig` are the
parts of `OpenStackHosts` between its edits).

### The abstract specifications

`EnvironmentStore` has one call per process and one Boolean: a call asks, and
builds the environment, or has it because it is ready. `CallState` of
`ProfileCache` maps the lines of the code to these: a process between the lock
and the marker builds, after the marker it has the profile. `ready` is history
variable `complete`.

`JobVerdicts` has attempts, verdicts and outputs of each job: a submission gets
at most one verdict, and success only with whole outputs, after which nothing
touches them. `RemoteJobs` implements it with `outputs <- local`; all of the
workers, the network and the polling are hidden.

### ProfileCache

`pc[p]` is the line of `_ensure_cached_profile` (or a helper it called) that
process `p` stands at; `site[p]` tells which of the three calls of
`_profile_complete` is running (`fast`, before the directory is made; `loop`,
in the waiting loop; `held`, with the lock). `envdir`, `lock` and `marker` are
the existence of a file. `guix package -p T` makes two links: `T` itself and
`T-1-link`, the generation, to which `T` points by a relative name. The rename
of `T` to `profile` therefore leaves the generation link behind, and `profile`
resolves as long as that link is there: `links` holds the generation links,
`temps` the links `T` not yet renamed, `profile` the realization its link names.
`_cleanup_stale_temp_profiles` skips names that end in `-link`, which is what
keeps `profile` alive.

Every file operation is an action, since readers do not take the lock. Faults
(`Faults`): `guix` (non-zero exit, with or without the links), `mark` (the
marker cannot be written), `release` (`rmtree` with `ignore_errors` leaves the
lock), `interrupt` (KeyboardInterrupt at any statement), `crash` (SIGKILL),
`remove` (the user removes the directory), and `MaxBreaks` profiles lost to the
outside (garbage collection, a user). `AcquireLock` is `os.mkdir` and
`EnterTry` the statement after it, where the try block begins: an interrupt
between the two, or in the removal of the lock, is `InterruptUnguarded`, any
other goes through the handlers (`Interrupt`). A clean-up that is interrupted
or killed has removed some of what it was about to (`CutShort`). `complete`,
`gone` and `stray` are history: a usable profile was marked and not lost since;
realizations that were lost; a call ended and left the lock behind.

### RemoteJobs

The controller has two threads. `sub` is the submission under way (`run_job` is
called by one scheduler thread), from `preflight` to the reply of the launch;
an error in it is raised to the scheduler, which stops (`raised`). `poll` is the
polling thread: it takes the whole active list, visits each job and puts back
what the handler yields. `dir` is the directory of each job on each worker,
named `run_id/jobid` without the attempt; `proc` the processes ever launched,
with the directory they write in (`here` becomes FALSE when `rm -rf` unlinks
it). `Commands.run` is abstracted to its outcome: `Answers`, or `NoAnswer`
after all its attempts, before or after the effect. The status script is two
steps (`ReadExit`, `ReadPid`), as in the shell. `heard` is history: the host
answered since the job's timer was started. `unlisted` is history too: Ctrl-C
came while the polling thread held every job, so `cancel_jobs` got an empty
list. Which jobs are resubmitted is Snakemake's choice (`Restartable`).

### OpenStackJobs

`run_job` refuses a job once max-hours have elapsed (`Refuse`), and
`check_active_jobs` begins a round by testing the limit: after it, the round
does not poll but cancels and reports each job it took (`StopRound`, `StopJob`,
`StopRoundEnd`). A round that began earlier goes on as in `RemoteJobs`
(`Inherited`). `stopped` and `missed` are history: jobs reported because of the
limit, and those whose worker did not get the signal. `Terminate`, in
`RemoteJobs`, only marks the process as sent SIGTERM (`term`): `cancel` does not
wait, and the process ends, well or not, in a step of its own or never.

### Publication

`retrieve_outputs`, statement by statement: `Check` (`test -e`, before the try
block), `Copy` (one rsync per output to a temporary name beside its target),
`Rename`, or `SetAside`, `Swap`, `Restore`, `DropBackup` for a directory that
replaces a directory, and `Cleanup` (the finally clause). What lies at a path is
an entry: file or directory, the retrieval it comes from, whether all of it is
there, whether it is nested one level too deep, and whether files of an earlier
retrieval may be among it (rsync into a directory that is still there). Every
step may fail (`Error`), the removals of the finally clause included: `Cleanup`
then keeps the temporaries from that one on (`stuck`, history) and the retrieval
ends with an error, even if it had published everything.
The job may be retrieved again by the same process, under the same temporary
and backup names, which contain the process id.

### SshConfig

Each of the two files is a set of entries: the block of an alias, or the pin of
an address (with the run that put it there, which the file does not say but
which its key does). An edit is three steps per file: `Look` (`exists()`),
`Read`, `Write` (`os.replace` or `unlink`); in `add` the pin comes first, in
`remove` the block, from which it learns the address. A read or an unlink of a
file that vanished raises (`Raise`), and what the caller then does differs:
`_wait_for_ssh` logs a failed `add` and goes on, but not after a failed
`remove`. `Boot` gives a run a new server, whose addresses no standing server
has, or one that stands (on-existing "adopt"), which may be that of a run that
goes on; `Evict` is on-existing "delete", after which the cloud may give the
addresses out again (`gone`: runs whose server was deleted under them). `erred`
holds the runs whose caller got an error. History: `torn`, an edit replaced a
file that had changed since it was read; `shared`, a run got an address that
another one still worked with; `logged`, an `add` failed between its two files
and was only logged.

### EnvIdentity, Contracts, WrapperArgv, Staging, Definitions

`EnvIdentity` follows a declaration through `EnvSpec.__post_init__`,
`modify_source_paths`, the `_effective_*` methods and `_time_machine_pin` to
`RecordHash` (what `record_hash` feeds the digest, without a digest function)
and `GuixInputs` (what the manifest evaluates to and the flags say). A call
hashes, and later finds a profile under its hash or realizes one from what the
files hold by then. `Asked` is the reference: a set-based reading of the rule
and the options' help texts, recorded when the call begins. Bytes are opaque:
that no content imitates the separators is taken for granted.

The other three are pure operators; `Definitions` has one initial state for
each of their inputs (variable `case`, over constants that `MCDefinitions` gives
bounded sets), beside the calls of `EnvIdentity`. A path of `Contracts` is a
sequence of names that is joined as pathlib does it: an absolute right side
(which begins with "/") replaces the left one, ".." stays. The repository is
at "/". A value of a configuration is whether it is null, whether it is truthy,
and its `str()`, so that null falls back to the module's directory in one mode
and is the directory `None` in the other. Words of `WrapperArgv` are what `snake_to_kebab` joins, so that an
input `output_x` and an output `x` have one flag, as they do; `Staging` has
symbolic links at the top of the working directory that lead inside, outside or
to `.snakemake`, paths with ".." in any place, and environments of several
manifests. What a job declares (`Declared`) is defined from its rules,
configuration files and inputs, not from the list the executor makes.

### ImageEnsure

An image is named by the command that created it, since each creates at most
one; `Other` is an image that was there before. A record is abstracted to its
status, whether the digest and publisher properties are those of the file
(`ours`) and whether all other checks of `_verify` hold (`right`). `seen` is the
record the command last received, which may be stale. `race` and `blind` are
history: two commands both saw no image; a command could not look at what it
left behind.

### OpenStackHosts

A server is named by the run that asked for it, since `acquire` creates at most
one (`_acquired`). `pc[r]` is the stage of `acquire` or `release`; each API call
is a step, so other runs and the reaper act in between. Policy and keep are
chosen per run. A call fails before or after its effect (`Error`), which also
covers Ctrl-C, caught as `BaseException` in `acquire` and `_delete_ids`. `told`
(history) holds the servers the user was told of, in an error or a warning:
then a person can act. `claimed` (history) holds the servers that a run with
policy `adopt` or `delete` listed, `missed` (history) the servers that the lookup of a
failed `acquire` could not see or did not get to.

The reaper takes a list (`reap`) and walks it; the first failure ends it.

## 3. Runs

| Run | Instance | Shows |
|---|---|---|
| `profile_cache_safety` | 3 processes, 2 calls, 1 loss, faults guix, mark, release, crash, remove; symmetry | TypeOK, MutualExclusion, MarkerSound, UsersKeepProfile |
| `profile_cache_live` | 2 processes, 2 calls, faults guix, mark, release, interrupt, crash; fairness | ReuseCompleted, LockExplained, EveryCallEnds, StoreSpec (refinement) |
| `remote_jobs_safety` | 2 jobs, 2 hosts, 1 attempt, 2 lost commands, all faults; symmetry | TypeOK, RunsOnce, SuccessIsPublished, OutputsNeverLost, NothingForgotten, TimerSound, FailureSeen, VerdictsSpec (refinement) |
| `remote_jobs_lost` | no fault at all | NoFaultNoFailure violated (finding) |
| `remote_jobs_retry` | 2 attempts | SuccessIsPublished violated (finding) |
| `openstack_hosts` | 2 runs, all policies, 1 error, failing boot, kill, late server, Ctrl-C in the lookup (`interrupt`), lookup that fails three times (`lookup`), 3 clock values; fairness | TypeOK, NoOrphan, FailPreservesOthers, RunKeepsServer, EveryServerGoes |
| `openstack_jobs` | 1 host, 2 jobs of which one is retried once, failed directories removed, 1 lost command, faults partition and exit1; fairness | LimitCancels, EveryJobReported |
| `ssh_config` | 2 runs, 2 addresses, 2 registrations each, up to the first lost update; symmetry | TypeOK, EntryStays, NothingLeft |
| `definitions` | 7 declarations, 5 command lines, 4 files, 1 page, 2 calls, 1 edit; about 94,000 inputs of the pure parts | ProfileAsAsked, ContractsKept, ArgvTold, SourcesStaged |
| `publication` | 2 outputs, each file or directory, any existing targets, 3 retrievals, 3 errors | TypeOK, TargetsWhole, PublishedAll, NoTemporaryLeft, NothingBeforeAllCopied, NothingLost |
| `publication_directory` | the same | DirectoryAsOnWorker violated (finding) |
| `image_ensure` | 2 commands, any earlier image, 2 errors, 1 change by others, timeout 2 | TypeOK, OneImage, LeftoverNamed, EveryCommandEnds |

Why the bounds are enough. Cache: two processes are needed for a race, a third
to observe both while it runs in the profile; two calls so that a call meets
what an earlier one left, and one loss so that a marked environment can break.
Jobs: two jobs share hosts, the polling round and the list; two attempts are
the shortest retry; two lost commands allow a failure in the answer to a
failure. Servers: two runs give every race over one server; one failing call
per behaviour is one more than the code needs to take each error path, and the
clock has an instant before, at and after the first expiry. Publication: the
second output is what makes a failure partial; three errors allow a failed swap
whose repair and clean-up fail as well, and the third retrieval meets what two
failed ones left. SSH configuration: two runs
give every interleaving of two edits, the second registration is the loop's
next turn, and two addresses are needed for a pin that is not the other run's. TLC does
not go on from a state with a lost update (`CONSTRAINT Untorn`): `torn` is never
reset, and both properties but the type invariant are about states without it.
Definitions: two calls are the one that realizes and the one that finds; the
declarations have no, one and two manifests, named and by the deprecated alias,
beside packages, with each kind of pin, and the command lines override each of
them; one edit is enough to make a hash stale.
Images: the second command is the operator's retry, or the race; two
errors allow the lookup after a lost reply to fail too.

`CHECK_DEADLOCK FALSE` is set where the system stops: all calls made, the run
shut down, all servers gone.

Fairness. Cache: a process that is not killed keeps running (`WF` of its
steps); no outside event is promised. Nothing stronger is needed since a waiter
finds the marker or the free lock in its loop: with bounded calls, lock holders
come to an end. Jobs (`FairLimited`): both threads run, commands end and time
passes; that the limit is reached is not promised, so `EveryJobReported` holds
with and without it. Servers:
time passes, cron starts the reaper again and again, an accepted request gets
its server; nothing at all is promised of the runs, which may be killed or use
the worker for ever. Images: a command that has begun keeps running and time
passes; an image may stay queued for ever.

`LimitCancels` says that the processes of a reported job were sent SIGTERM, not
that they are gone: nobody waits for them. It is about the first submission of a
job: after a resubmission the pid file may be that of the attempt before
(finding 2), and the signal then misses the job.

What the properties exempt, and why. `FailureSeen`: a dead polling thread (an
uncaught error) and a Ctrl-C that found the list empty, since in both the code
does not set `_failed`. `EveryCallEnds`: a lock that the code cannot release (`stray`), which
later calls poll without end; `LockExplained` says that there is no other.
`EntryStays` and `NothingLeft`: a lost update, which the missing lock allows;
the first also an address two runs work with, the second errors the caller got
and an add that failed halfway and was only logged. `NoTemporaryLeft` and
`PublishedAll`: what a failing clean-up could not remove. `ProfileAsAsked`: a
profile realized after a change between its hash and guix. `ContractKept`: an
override, a producer whose configuration sends its outputs elsewhere, and, as
far as directories go, values that are absolute or have "..".
`StagedAsDeclared`: a path through a symbolic link, and what is Snakemake's own.
In each case the run fails without
the exemption.

## 4. What the runs found

1. *A job that ends between two tests of the status script is reported failed*
   (`remote_jobs_lost`): `lifecycle.py` 59-61 tests `exit`, then the process.
2. *A retry may be judged by the attempt before* (`remote_jobs_retry`):
   `launch` leaves `pid` and `exit` of the earlier attempt in place.
3. *A directory output is published one level too deep*
   (`publication_directory`): the rsync source `host:dir/value` has no trailing
   slash (`transport.py` 99), so the directory arrives inside the temporary one.

Seen while modelling and not given a run of their own:

- `reap.py` 41 makes the list, 49 deletes without looking at the expiry again: a
  server that a run adopts in between, with a new expiry, is deleted under it.
- `ssh_config` and `known_hosts` are read, changed and replaced without a lock
  (`sshconfig.py` 53-56, 86-111): two runs that start or end together can lose
  one's entry or bring back a removed one; a file unlinked between `exists()`
  and `read_text()` raises FileNotFoundError, which fails an acquisition.
- A profile realized after an edit between the hash and guix stays under the
  hash of the old content (`guixenv.py` 358, 432). An option given as `""`
  hashes like one not given (514-516) but is passed to guix (220-225). A branch
  is hashed by name, and without a pin the installed guix not at all.
- `_workflow_sources_fallback` hands on a `channels` that is a SWHID as if it
  were a file (executor `__init__.py` 327-338 only lets `://` pass), so a job
  whose environment is pinned that way (`channels.py` 14-23) cannot be
  submitted through guix-ssh: "workflow source is not a regular file".
- `_workflow_sources_fallback` takes of an environment only what
  `source_path_attributes` lists: `manifest_file` and `channels`, so the second
  and later `manifest_files` reach the worker only if the DAG names them.
- `load_provides` tests that values are strings, not that they are relative, as
  its message says: an absolute one, or one with "..", leaves the module's `out`
  directory (`contracts.py` 75, 140). `out: null` in the mode `required-config`
  is the directory `None` (44).
- `ctx.out()` follows the configured `out` directory and `ctx.require()` never
  does (`contracts.py` 75, 80).
- Flags of two namespaces can coincide (`command.py` 16-20): an input
  `output_x` and an output `x`, or an input and a parameter of one name.
- `.lock` is a directory made by `os.mkdir` (`guixenv.py` 372) and removed only
  by the holder's `finally`: after a SIGKILL, after a Ctrl-C between `os.mkdir`
  and the try (372-377) or inside the `rmtree` (387), and after an `rmtree` whose
  error is ignored, every later call for the environment polls for ever, and
  nothing says why.
- A reader that found a broken profile unlinks the marker by name and may
  remove a fresh one (396; `ReuseCompleted` fails with `MaxBreaks = 1`).
- The lookup of a failed `acquire` lists once when the list succeeds
  (`instance.py` 132): a server that appears later is not deleted. A second
  Ctrl-C in the lookup has the same effect (`except Exception` at 140 does not
  catch it). `NoOrphan` exempts both (`missed`); the reaper deletes such a
  server at its expiry, which `EveryServerGoes` shows.
- The first failing deletion ends a reaper invocation (`reap.py` 53): a server
  that can never be deleted starves those after it.
- `rm -rf` after `report_job_error` may hit the directory of the next attempt
  (executor `__init__.py` 423). `CommandError` from `cleanup` ends the polling
  thread (400, 417, 424): with `remove_failed` and an unreachable host no other
  job is watched any more. The retrieval-failure path ignores `remove_failed`
  (412-415).
- `cancel` sends SIGTERM and returns (`lifecycle.py` 86-91): a command that
  ignores it, or takes its time, runs on while its job is reported as cancelled.
- An error in the finally clause of `retrieve_outputs` (`transport.py` 117-122)
  replaces the one that led there, keeps all later temporaries, and makes a
  retrieval that has published everything fail; into a temporary directory that
  stayed, the next rsync adds files to those of the attempt before.
- An `add` that fails between its two files while the run waits for ssh is
  logged at debug level (`instance.py` 265-269) and nothing removed, because
  `registered` is still false: the pin stays after the run. A run that adopts
  a server in use shares its address, and whichever run removes its alias
  first drops the other's pin (`sshconfig.py` 107).
- A backup that `rmtree` could not remove stays, and every later retrieval of
  that directory by the process fails when it sets the new one aside.
- `_safe_paths` (`transport.py` 34-59) maps a symlinked input to what it
  resolves to, so the worker does not have the path the job declared, although
  executor `README.md` 39-40 says that declared inputs are staged; its test
  for distinct job paths cannot fail, because one mapped name comes from one
  resolved path.
- Two commands of `ensure_image` that both look before either uploads make two
  images of one name (`allow_duplicates=True`), after which every command for
  that file fails until someone deletes one. Ctrl-C during an upload skips the
  lookup (`image.py` 178 catches `Exception`).

## 5. Proofs

Eight modules, one per component, prove for every value of the constants (any
number of processes, jobs, runs, addresses, declarations, faults and retries)
what the runs of section 3 check on small instances. All 36 of the 40 checked
properties, counted per run, that are not about liveness are proved, with the
hypotheses named below. Of
each module the inductive invariants were checked with TLC before they were
proved. Every step lemma has one step per action.

Assumptions on constants. The `...Assumption`s of the modules, which TLC
evaluates for the instances: bounds are naturals; an output is listed once and
there is at least one (`Publication`: `_safe_paths` and the early return);
`NoJob` is no job, `None` and the reserved preflight address 192.0.2.1 are no
addresses of the cloud; a rule's `manifest_files` and `packages` are lists (what
`EnvSpec` makes of them); an image that was there before is no command's; a
producer is a module of the repository, the paths of its `provides.yaml` and the
manifests of an environment are lists of names, and commands and namespaces are
lists of values (`CasesAssumption`).

`ProfileCacheProofs`:

- `TypeCorrect`: `TypeOK`.
- `MutualExclusionHolds`, `MarkerSoundHolds`: from `SafetyInv`. The two
  properties are not inductive. What is added: only the loop tries to take the
  lock (`LockedFromLoop`); whoever works in the directory has found it unmarked,
  or removed the marker (`WorkingUnmarked`), so nobody writes a marker over an
  existing one; and the realization on its way to `profile` has its generation
  link (`RealizationLinked`), which the clean-up of stale profiles leaves alone
  because it removes a generation only together with its temporary link.
- `ReuseCompletedHolds`, assuming `NothingTaken` (no outside loss, no removal
  of the directory): `ReuseInv` adds that a complete environment is marked and
  that a process about to unlink the marker has not been overtaken.
- `UsersKeepProfileHolds`, assuming `NoInterrupt`: `UsersInv` adds where the
  realization of every process stands. With interrupts the property is false
  (`Ctrl-C` between the rename and the end of the try block).
- `LockExplainedHolds`: a lock that no process holds was left by one that was
  killed, interrupted between `os.mkdir` and the try or in the removal, or that
  could not remove it. `NoStaleLock`, assuming that only `guix`, `mark` and
  `remove` are faults: every lock is held. These are the safety half of
  `EveryCallEnds`.
- `StoreImplemented`, assuming `NothingTaken`: `Spec => StoreSpec`, that is,
  every behaviour of the cache is one of `EnvironmentStore`. `StoreInv` joins
  the two invariants above with types; the step lemma gives for each action the
  abstract step it is, or a stutter (`CallStateOfOthers`: only the acting
  process's call changes).

`RemoteJobsProofs`:

- `TypeCorrect`: `TypeInv` adds to `TypeOK` which job each thread may hold at
  each stage, and that a pid file names a process that was started.
- `TimerSoundHolds`: `TimerInv`, a timer runs only while the host is silent.
- `NothingForgottenHolds`: `HeldInv`, a submitted job without a verdict is in
  the submission, in the active list, or in one of the polling thread's three
  places; a job never submitted has no process.
- `FailureSeenHolds`: `FailureInv`, every verdict `error` and every raised
  submission has set `_failed`.
- `RunsOnceHolds`, `SuccessIsPublishedHolds`, `OutputsNeverLostHolds`, and
  `ImplementsVerdicts` (`Spec => VerdictsSpec`), assuming `OneSubmission` (no
  rule has retries, or one attempt). `OnceInv` says of a job submitted once that
  one thread has it (`InOneHand`), that it has the process its stage implies and
  files in its directory only from that process (`OneProcess`), and where its
  outputs are (`OutputsKept`). The hypothesis cannot be dropped:
  `remote_jobs_retry` shows `SuccessIsPublished` false with a second attempt
  (finding 2), and the other three fail in the same way, by the directory the
  attempts share. `OnceInv` itself is proved without it, job by job: a job
  submitted once is right even if others are resubmitted.
- `OneLaunchPerSubmission`, without that hypothesis: a job has at most as many
  processes as it was submitted. This is what is left of `RunsOnce` when jobs
  are submitted again, and it rests on the launch being the one command that
  `Commands.run` does not repeat.
- `OnlyTheRaceFails`, assuming `NoFault` (no fault, no lost command): a job
  submitted once is reported failed only if its process ended well. So finding 1
  is the only way in which a run without faults reports a failure; `CalmInv`
  says what rules out the others (inputs are staged before the launch, the
  directory of a watched job stays, nothing is given up while its process runs).

`OpenStackJobsProofs`: the subclass keeps what the guix-ssh executor promises.
`LimitedTypeCorrect`, `LimitedTimerSound`, `LimitedNothingForgotten`,
`LimitedFailureSeen`, `LimitedOneLaunchPerSubmission`, and
`LimitedSuccessIsPublished` for every job submitted once, hold for any number of
submissions; `LimitedRunsOnce`, `LimitedOutputsNeverLost` and
`LimitedImplementsVerdicts` (`SpecLimited => VerdictsSpec`) assume
`OneSubmission`. The inherited actions
keep the invariants by the lemmas of `RemoteJobsProofs`; what is new is that the
stop cancels and reports a job while it is in the hands of the polling thread
(`LimitHeld`), so that the verdict is its only one. `LimitCancelsHolds` adds that the pid of a job that is held is known once
it was started (`PidKnown`), so the signal finds its process, and that nothing
starts a process again after the stop (`StoppedDead`).

`OpenStackHostsProofs`:

- `TypeCorrect`.
- `NoOrphanHolds`: `KnowledgeInv` says who answers for each server: its run, by
  its id or because it has still to look it up; `Seen`: no id is in any list
  before its server was visible, so a deletion by id never meets a late server;
  `IdsKnown`: what `acquire` has recorded at each stage. The proof corrected the
  property: when all three lookups of a failed `acquire` fail (fault `lookup`),
  the run has no id and has told nobody until its message at the end, which
  names the server; `Accounted` now says so.
- `RunKeepsServerHolds`: `ClaimInv`, whoever has the id of another's server
  listed it in order to adopt or delete it, and what is in the reaper's list had
  expired when it was listed, or was adopted since.
- `FailPreservesOthersHolds`: `PolicyInv`, a run that fails on existing servers
  has only its own id anywhere, and becomes nobody's new owner.

`PublicationProofs`: all six properties from `PublicationInv`, which follows the
loops: which outputs are copied and which renamed at each index (`CopiesMade`,
`Renamed`), that the old directory is in the backup while the target is away
(`InBackup`), and that a temporary path holds something only if its name was
recorded (`TemporariesRecorded`), which is what makes the finally clause find
everything. `NothingBeforeAllCopied` and `NothingLost` are action properties.

`ImageEnsureProofs`: `TypeCorrect`; `LeftoverNamedHolds` with `OwnImage` (before
its upload a command has no image, and afterwards it waits for that one);
`OneImageHolds` with `OneUploader` (without the race one command at a time is
about to upload, and then no image is there).

`SshConfigProofs`:

- `TypeCorrect`, with `AddressKnown` (what a run registers is an address of its
  server).
- `EntryStaysHolds`: `ClaimsInv` says which addresses a run may still write or
  remove (`Claimed`), and that as long as no run got an address of another's
  (`shared`) these are nobody else's (`Separate`), so another run's `remove`
  never drops this run's pin; `Pinned` covers the moment between the two files
  of `add`.
- `NothingLeftHolds`: `TidyInv` gives for each stage the entries that a run has:
  none, or one block and one pin of one address.

`DefinitionsProofs`:

- `ProfileAsAskedHolds`. `Given` reads off the hash what guix
  would be given; `HashTells` is the fact about `record_hash` (two environments
  that guix would treat differently feed the digest differently), `EvaluatesAll`
  the one about the generated manifest (no file or package is lost, whether or not
  expressions are concatenated), `AskedIsGiven` that precedence of options,
  `channels=` and the deprecated aliases is as documented. `ProfileInv` then says
  that every profile that was realized in time is what its name stands for. The
  proof corrected the model: the kinds of a pin were given by a `CASE` with
  overlapping guards.
- `ContractsKeptHolds` and `SourcesStagedHolds`: by cases over where a key
  comes from, and over what puts a path among the sources of a job.
  `OwnDirectory` is the fact about joins: a relative path below the directory
  of a module is below that of no other. `SourcesStagedHolds` is proved for any
  `Resolve`, so for any rule of resolving links; TLC checks the one of `Walk`.
- `ArgvToldHolds`: for namespaces of any length. `Told` says that an argument
  list is made of pairs of a flag and a value, one for each slot of the rule, in
  their order; it holds for one item (`ItemTold`) and for lists put together
  (`ToldTogether`), hence for a namespace and a rule (`NamespaceTold`,
  `RuleTold`). The induction over the list of lists is over the set of indices
  for which the fact holds (`NatSetInduction`, `FlattenSteps`), since the
  library's induction rules cannot be instantiated.

Only model-checked: liveness (`EveryCallEnds`, `EveryJobReported`,
`EveryServerGoes`, `EveryCommandEnds`), which this prover does not handle.

## 6. Not modelled

- Snakemake itself: the scheduler is the caller of `run_job`, `cancel_jobs` and
  `shutdown`; its locks, its own retries beyond `restart-times` and its storage
  layer are outside.
- Contents: in `ProfileCache` a realization is its name, in `EnvIdentity`
  contents are opaque, outputs are absent, partial or whole.
- Log and benchmark retrieval, messages, metadata.json, sources.json.
- `wrapper.py`: the checks of the script's path and the default log. `WrapperArgv`
  is `build_argv` with the default `output_prefix` and `exclude_input`, as
  `wrapper.py` calls it.
- The components marked `not_modelled` in `PROJECT.json`, with the reasons.

- `Capacity` and `Host.parse` (`model.py`): additions and one string parse; the
  executors do not reserve.
- The clocks together: the limit of `OpenStackJobs` starts after the expiry of
  `OpenStackHosts` was computed (`instance.py` 291; 15 minutes of slack), so a
  slow preflight or deletion lets the reaper take a worker within its max-hours.
  The two modules would have to share a clock fine enough to tell the 15
  minutes; `openstack_hosts` with three instants is already the longest run.

## 7. What is left

- What survives of `RunsOnce` and `OutputsNeverLost` with resubmission, beyond
  `OneLaunchPerSubmission`: the exact condition on the attempt before under
  which they hold.
- The clocks of section 6.
