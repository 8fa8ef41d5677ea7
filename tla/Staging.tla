------------------------------ MODULE Staging -------------------------------
(***************************************************************************)
(* Which files of the working directory a job takes to its worker:         *)
(* _workflow_sources of the guix-ssh executor, then _safe_paths of its     *)
(* transport, as operators.                                                *)
(*                                                                         *)
(* A path is the sequence of its names below the working directory, with   *)
(* ".." where it has one; an absolute path is one that begins with ".." if  *)
(* it lies elsewhere (links from elsewhere back into the working directory *)
(* are left out).  A tree is the set of its regular files, those over 10   *)
(* MB, and the symbolic links at its top, each with the path it leads to.  *)
(* The list of paths is a set here: rsync takes it in any order and at     *)
(* most once each.                                                         *)
(***************************************************************************)
EXTENDS SequencesExt

Outside(path) == path # <<>> /\ Head(path) = ".."

\* From the working directory, name by name.
Walk(links, path) ==
  LET Enter(done, name) ==
        IF name = ".." /\ done # <<>> /\ Last(done) # ".." THEN Front(done)
        ELSE IF done = <<>> /\ name \in DOMAIN links THEN links[name]
        ELSE Append(done, name)
  IN FoldLeft(Enter, <<>>, path)

\* os.path.relpath(), and Path.resolve() with relative_to(root)
Relpath(path) == Walk(<<>>, path)
Resolve(tree, path) == Walk(tree.links, path)

\* Beside a rule: a script or an environment file.
Beside(rule, path) == Relpath(rule.basedir \o path)
Scripts(job) == {Beside(rule, rule.script) : rule \in {r \in job.rules : r.script # <<>>}}
ChannelFiles(job) ==
  UNION {{Beside(rule, path) : path \in rule.channels} : rule \in job.rules}

\* _workflow_sources_fallback: what the workflow's registry names, scripts and
\* environment files relative to their rule.  Of an environment only the
\* attributes that source_path_attributes lists, so only the first manifest.
FallbackSources(job) ==
  job.included \cup job.configfiles \cup Scripts(job) \cup ChannelFiles(job)
  \cup {Beside(rule, Head(rule.manifests)) : rule \in {r \in job.rules : r.manifests # <<>>}}

\* The DAG's own list is lost when Snakemake trips over an environment in it;
\* any other error of it fails the submission, as a refused source does.
DagSources(job) == (IF job.dag.fails THEN {} ELSE job.dag.sources) \cup FallbackSources(job)

\* Mutation: a large source is left out without a word.
RefusedSource_LargeSkipped(job, tree, source) ==
  Outside(source) \/ Resolve(tree, source) \notin tree.files

\* A source must be a file here, and small unless it is an input as well.
RefusedSource(job, tree, source) ==
  \/ Outside(source) \/ Resolve(tree, source) \notin tree.files
  \/ /\ Resolve(tree, source) \in tree.large
     /\ \A path \in job.input : Resolve(tree, path) # Resolve(tree, source)

WorkflowSources(job, tree) ==
  {job.snakefile}
  \cup {s \in DagSources(job) : Resolve(tree, s) \notin tree.large}
  \cup job.input

\* _safe_paths: no ".." at all, and no link that leads out.
Refused(tree, path) == ".." \in ToSet(path) \/ Outside(Resolve(tree, path))
Skipped(tree, path) ==
  Resolve(tree, path) = <<>> \/ Head(Resolve(tree, path)) = ".snakemake"
SafePaths(tree, paths) ==
  {Resolve(tree, path) : path \in {p \in paths : ~Skipped(tree, p)}}

Submits(job, tree) ==
  /\ \A s \in DagSources(job) : ~RefusedSource(job, tree, s)
  /\ \A path \in WorkflowSources(job, tree) : ~Refused(tree, path)
Staged(job, tree) == SafePaths(tree, WorkflowSources(job, tree))

-----------------------------------------------------------------------------
(* Property                                                                *)

\* What a workflow declares of a job, whichever list the executor has it from;
\* an environment counts by its first manifest alone.
Declared(job) ==
  {job.snakefile} \cup job.included \cup job.configfiles \cup job.input
  \cup Scripts(job) \cup ChannelFiles(job)
  \cup UNION {{Beside(rule, rule.manifests[i]) : i \in DOMAIN rule.manifests \cap {1}} :
                rule \in job.rules}

\* A job that is submitted finds on its worker, under its own name, every file
\* it declares, but for two kinds: a path that leads through a symbolic link or
\* ".." (the worker has the file under the name it resolves to, and not the
\* path), and what is Snakemake's own or the working directory itself.  It finds
\* no file there but those that it declares or the DAG lists, none from outside,
\* none of Snakemake's own, and no large one but its inputs and its Snakefile.
StagedAsDeclared(job, tree) ==
  LET staged == Staged(job, tree)
      listed == IF job.dag.fails THEN {} ELSE job.dag.sources
  IN Submits(job, tree) =>
       /\ \A path \in Declared(job) :
            \/ path \in staged
            \/ Resolve(tree, path) # path /\ Resolve(tree, path) \in staged
            \/ Skipped(tree, path)
       /\ \A file \in staged :
            /\ Head(file) \notin {"..", ".snakemake"}
            /\ \E path \in Declared(job) \cup listed : Resolve(tree, path) = file
            /\ file \in tree.large => \E path \in job.input \cup {job.snakefile} :
                                        Resolve(tree, path) = file
=============================================================================
