----------------------------- MODULE Contracts ------------------------------
(***************************************************************************)
(* How a module of a workflow finds its own outputs and those of others:   *)
(* snakemake_contracts.contracts, as operators.                            *)
(*                                                                         *)
(* A repository gives each module a Snakefile or not, and a provides.yaml  *)
(* that is absent, malformed or a mapping from logical keys to paths.  A   *)
(* context is the module with its configuration, a function from keys to   *)
(* values: whether a value is null, whether it is truthy, and its str() as *)
(* a path.  A path is the sequence of its names, which pathlib does not    *)
(* normalise; that of an absolute one begins with "/".                     *)
(***************************************************************************)
EXTENDS FiniteSets, SequencesExt

IsAbsolute(path) == path # <<>> /\ Head(path) = "/"

\* Path / str: an absolute right side replaces the left one.
Join(directory, path) == IF IsAbsolute(path) THEN path ELSE directory \o path

OutDir(module) == <<"/", "modules", module, "out">>

\* module_context: the module's own file is read only if the root workflow gave
\* no configuration, and must then be there in "required-config".
Starts(inherited, own, standalone) ==
  DOMAIN inherited # {} \/ own.exists \/ standalone = "local-defaults"
ModuleContext(module, inherited, own, standalone) ==
  [module |-> module, standalone |-> standalone,
   config |-> IF DOMAIN inherited = {} /\ own.exists THEN own.config ELSE inherited]

\* ctx.out_dir: only "local-defaults" takes null for a missing value.
OutDirKnown(ctx) == "out" \in DOMAIN ctx.config \/ ctx.standalone = "local-defaults"
ContextOutDir(ctx) ==
  IF /\ "out" \in DOMAIN ctx.config
     /\ ctx.standalone = "required-config" \/ ~ctx.config["out"].null
  THEN ctx.config["out"].path ELSE OutDir(ctx.module)

\* load_provides raises for a file that is absent or not a mapping of strings.
Loads(repo, module) == repo.provides[module].kind = "mapping"
Declares(repo, module, key) ==
  Loads(repo, module) /\ key \in DOMAIN repo.provides[module].paths

\* provides() of a declared key: from the producer's own out directory, whatever
\* its configuration.
Provides(repo, producer, key) ==
  Join(OutDir(producer), repo.provides[producer].paths[key])

\* ctx.out() of a declared key
Out(repo, ctx, key) ==
  Join(ContextOutDir(ctx), repo.provides[ctx.module].paths[key])

\* Mutation: a value that is not truthy overrides as well.
Overridden_Any(ctx, key) == key \in DOMAIN ctx.config

\* An override is by key alone.
Overridden(ctx, key) == key \in DOMAIN ctx.config /\ ctx.config[key].truthy

\* ctx.require() of a key that is overridden or declared; any other raises.
Required(repo, ctx, producer, key) == Overridden(ctx, key) \/ Declares(repo, producer, key)
Require(repo, ctx, producer, key) ==
  IF Overridden(ctx, key) THEN ctx.config[key].path ELSE Provides(repo, producer, key)

ListModules(repo) == DOMAIN repo.provides \cap repo.snakefiles

\* validate_repo: a module without provides.yaml is not a problem.
Problems(repo) ==
  {m \in ListModules(repo) : repo.provides[m].kind # "absent" /\ ~Loads(repo, m)}

-----------------------------------------------------------------------------
(* Property                                                                *)

\* Producer and consumer agree.  If the consumer's configuration says nothing
\* of the key (a value that is not truthy says nothing) and provides.yaml gives
\* it a path, what the consumer requires is the path a producer writes to when
\* it keeps to its default directory; null keeps to it only in "local-defaults".
\* If that path is relative and has no "..", it is in the directory of the
\* producer and of no other module; an absolute one, or one with "..", need not
\* be.  What cannot be required of a listed producer, in a repository without
\* problems, has no provides.yaml or is not in it.
ContractKept(repo, producer, consumer, key) ==
  LET module == producer.module
      file == repo.provides[module]
      required == Require(repo, consumer, module, key)
      silent == key \in DOMAIN consumer.config => ~consumer.config[key].truthy
      default ==
        \/ "out" \notin DOMAIN producer.config /\ producer.standalone = "local-defaults"
        \/ /\ "out" \in DOMAIN producer.config
           /\ \/ producer.config["out"].path = OutDir(module)
              \/ producer.config["out"].null /\ producer.standalone = "local-defaults"
      inside == ~IsAbsolute(file.paths[key]) /\ ".." \notin ToSet(file.paths[key])
  IN silent =>
       /\ file.kind = "mapping" /\ key \in DOMAIN file.paths =>
            /\ default => required = Out(repo, producer, key)
            /\ inside => \A other \in DOMAIN repo.provides :
                           IsPrefix(OutDir(other), required) <=> other = module
       /\ Problems(repo) = {} /\ module \in repo.snakefiles
            /\ ~Required(repo, consumer, module, key)
            => file.kind = "absent" \/ key \notin DOMAIN file.paths
=============================================================================
