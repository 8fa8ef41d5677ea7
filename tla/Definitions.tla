---------------------------- MODULE Definitions -----------------------------
(***************************************************************************)
(* What a rule and its module declare: the calls of EnvIdentity, and       *)
(* beside them one state for each input of the operators of Contracts,     *)
(* WrapperArgv and Staging, which keep no state of their own.              *)
(***************************************************************************)
EXTENDS EnvIdentity, Contracts, WrapperArgv, Staging

CONSTANTS
  ContractCases,  \* a repository, two contexts in it and a logical key
  ArgvCases,      \* a command or script and the namespaces of its rule
  StagingCases    \* a job and the working directory it is submitted from

\* A producer is a module of the repository; the paths of provides.yaml, the
\* manifests of an environment, commands, namespaces and values are lists.
ASSUME CasesAssumption ==
  /\ \A c \in ContractCases :
       /\ c.of = "contract" /\ c.producer.module \in DOMAIN c.repo.provides
       /\ \A m \in DOMAIN c.repo.provides : LET file == c.repo.provides[m] IN
            \A k \in DOMAIN file.paths : file.paths[k] \in Seq(STRING)
  /\ \A c \in ArgvCases :
       c.of = "argv" /\ WellFormed(c.command, c.script, c.rule)
  /\ \A c \in StagingCases :
       c.of = "staging" /\ \A r \in c.job.rules : r.manifests \in Seq(Seq(STRING))

VARIABLE case

NoCase == [of |-> "calls"]
Cases == ContractCases \cup ArgvCases \cup StagingCases

DefinitionsInit == Init /\ case \in {NoCase} \cup Cases
DefinitionsNext == case = NoCase /\ Next /\ UNCHANGED case
DefinitionsSpec == DefinitionsInit /\ [][DefinitionsNext]_<<vars, case>>

-----------------------------------------------------------------------------
(* Properties                                                              *)

\* Contracts: a consumer finds what its producer writes, as ContractKept says.
ContractsKept ==
  case.of = "contract" =>
    ContractKept(case.repo, case.producer, case.consumer, case.key)

\* WrapperArgv: a script gets back every value of its rule.
ArgvTold ==
  case.of = "argv" => ArgvFaithful(case.command, case.script, case.rule)

\* Staging: a worker has what its job declares, as StagedAsDeclared says.
SourcesStaged ==
  case.of = "staging" => StagedAsDeclared(case.job, case.tree)
=============================================================================
