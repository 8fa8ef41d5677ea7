--------------------------- MODULE MCDefinitions ----------------------------
(***************************************************************************)
(* Definitions for TLC: a few declarations and command lines, and the      *)
(* inputs of the operators.                                                *)
(***************************************************************************)
EXTENDS Definitions

-----------------------------------------------------------------------------
(* Declarations, in the working directory or in an included file elsewhere *)

File(n) == [kind |-> "file", value |-> n]
Url == [kind |-> "url", value |-> "page"]
Swhid == [kind |-> "swhid", value |-> "c1"]

Empty == [base |-> "cwd", manifest_files |-> <<>>, manifest_file |-> None,
          packages |-> <<>>, channels |-> None, channels_file |-> None,
          refs |-> NoRefs]
MCSpecs ==
  {[Empty EXCEPT !.packages = <<"p">>, !.channels = Swhid],
   [Empty EXCEPT !.base = "sub", !.manifest_files = <<"m">>],
   [Empty EXCEPT !.manifest_files = <<"m">>, !.packages = <<"p">>],
   [Empty EXCEPT !.base = "sub", !.manifest_file = "m", !.manifest_files = <<"n">>],
   [Empty EXCEPT !.manifest_file = "m", !.channels_file = File("n")],
   [Empty EXCEPT !.base = "sub", !.packages = <<"p">>, !.channels = File("n"),
                 !.channels_file = Url],
   [Empty EXCEPT !.packages = <<"p">>, !.refs["commit"] = "v1"]}

Plain == [container |-> FALSE, no_time_machine |-> FALSE, channels |-> None,
          channels_file |-> None, refs |-> NoRefs, switches |-> {},
          profile_cache |-> TRUE]
MCSettings ==
  {None,
   [Plain EXCEPT !.refs["commit"] = "v2", !.switches = {"unsafe"}, !.container = TRUE,
                 !.profile_cache = FALSE],
   [Plain EXCEPT !.container = TRUE, !.channels = Url],
   [Plain EXCEPT !.no_time_machine = TRUE, !.channels_file = [File("n") EXCEPT !.value = <<"cwd", "n">>]],
   [Plain EXCEPT !.channels_file = Url, !.switches = {"untrusted"}]}
MCPaths == {"cwd", "sub"} \X {"m", "n"}

\* The other disks are an edit away.
Disks == {(<<"cwd", "m">> :> "c1") @@ (<<"cwd", "n">> :> "c2")
          @@ (<<"sub", "m">> :> "c2") @@ (<<"sub", "n">> :> n) : n \in {"c1", None}}

-----------------------------------------------------------------------------
(* Repositories of two modules, rules of four namespaces, jobs in a tree   *)

Given == {<<"f">>, <<"/", "f">>, <<"..", "f">>}
Unread == [kind : {"absent", "malformed"}, paths : {<<>>}]
Mappings ==
  Unread \cup [kind : {"mapping"},
              paths : {<<>>, "report" :> <<"f">>} \cup {"reads" :> v : v \in Given}]
Repos ==
  {[provides |-> ("p" :> x[1]) @@ ("q" :> x[2]), snakefiles |-> x[3]] :
     x \in Mappings \X Unread \X SUBSET {"p", "q"}}
AsPath(path) == [null |-> FALSE, truthy |-> TRUE, path |-> path]
Null == [null |-> TRUE, truthy |-> FALSE, path |-> <<"None">>]
EmptyString == [null |-> FALSE, truthy |-> FALSE, path |-> <<>>]
Configs ==
  {<<>>} \cup {"out" :> v : v \in {AsPath(OutDir("p")), AsPath(<<"shared">>), Null}}
  \cup {"reads" :> v : v \in {Null, EmptyString, AsPath(<<"/", "else", "f">>)}}
Owns == [exists : {FALSE}, config : {<<>>}] \cup [exists : {TRUE}, config : Configs]
Modes == {"required-config", "local-defaults"}
Contexts(module) ==
  {ModuleContext(module, x[1], x[2], x[3]) :
     x \in {y \in Configs \X Owns \X Modes : Starts(y[1], y[2], y[3])}}
MCContractCases ==
  [of : {"contract"}, repo : Repos, producer : Contexts("p"), consumer : Contexts("q"),
   key : {"reads"}]

Scalar(words) == [words |-> words, scalar |-> TRUE, value |-> "v"]
Several(words) == [words |-> words, scalar |-> FALSE, value |-> <<"w", "v">>]
Inputs == {<<>>, <<Scalar(<<"script">>), Several(<<"x">>)>>,
           <<Scalar(<<"output", "x">>), [Several(<<"y">>) EXCEPT !.value = <<>>]>>}
Outputs == {<<>>, <<Scalar(<<"output">>)>>, <<Several(<<"x">>), Scalar(<<"output">>)>>}
Others == {<<>>, <<Scalar(<<"x">>)>>, <<Several(<<"script">>), Scalar(<<"log">>)>>}
MCArgvCases ==
  [of : {"argv"}, command : {<<>>, <<"python", "-u">>}, script : {<<>>, <<"s.py">>},
   rule : [input : Inputs, output : Outputs, log : Others, params : Others]]

Trees ==
  [files : {{<<"Snakefile">>, <<"s">>, <<"d", "s">>, <<"d", "big">>}},
   large : {{}, {<<"d", "big">>}, {<<"d", "big">>, <<"d", "s">>}},
   links : [{"a", "b"} -> {<<"d">>, <<"..", "d">>, <<".snakemake">>}]]
Somewhere == {<<"s">>, <<"d", "big">>, <<"a", "s">>, <<"b", "big">>, <<"d", "..", "s">>}
Plainly(basedir, script) ==
  [basedir |-> basedir, script |-> script, manifests |-> <<>>, channels |-> {}]
Script == Plainly(<<"d">>, <<"s">>)
Above == Plainly(<<"d">>, <<"..", "s">>)
Managed == [Plainly(<<"b">>, <<>>) EXCEPT !.manifests = <<<<"s">>, <<"big">>>>]
Jobs ==
  [snakefile : {<<"Snakefile">>, <<"a", "s">>}, input : SUBSET Somewhere,
   dag : [fails : BOOLEAN, sources : {{}, {<<"d", "s">>, <<"d", "big">>}, {<<"d", "..", "d", "big">>}}],
   included : {{<<"Snakefile">>}}, configfiles : {{}, {<<"..", "c">>}},
   rules : {{}, {Script, Above}, {Script, Managed},
            {[Managed EXCEPT !.channels = {<<"..", "d", "s">>}]}}]
MCStagingCases == [of : {"staging"}, job : Jobs, tree : Trees]

-----------------------------------------------------------------------------
(* The disks and pages worth a call; the cases need none                   *)

MCInit ==
  \/ Init /\ disk \in Disks /\ web["page"] # "c2"
     /\ (~modern => web["page"] = None) /\ case = NoCase
  \/ Init /\ modern /\ web = [p \in Pages |-> None] /\ disk = [p \in Paths |-> None]
     /\ case \in Cases
MCSpec == MCInit /\ [][DefinitionsNext]_<<vars, case>>
=============================================================================
