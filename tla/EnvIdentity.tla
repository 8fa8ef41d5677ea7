---------------------------- MODULE EnvIdentity -----------------------------
(***************************************************************************)
(* What a rule's environment is, how it is hashed, and what guix is asked  *)
(* for: EnvSpec, Settings and the methods of Env that combine them.        *)
(*                                                                         *)
(* A call hashes the environment, then either finds the profile of that    *)
(* hash or has guix read the same files again and realize one.  Files and  *)
(* web pages change in between and between calls.  The cache's locking is  *)
(* ProfileCache's; here a realization is one step, and what matters is     *)
(* that a directory named by a hash holds what its callers ask for.        *)
(* Contents, packages, URLs and revisions are opaque values; an update of  *)
(* the hash object is one token.                                           *)
(***************************************************************************)
EXTENDS Naturals, SequencesExt

CONSTANTS
  Specs,        \* declarations of rules: the arguments of EnvSpec
  Settings,     \* command lines: the fields of Settings, or None
  Paths,        \* local files, named by base directory and name
  Pages,        \* http(s) URLs of channel files
  Contents,     \* what a file or page may hold
  MaxCalls,     \* calls (bound)
  MaxEdits,     \* changes of a file or page (bound)
  None

ASSUME ConstantsAssumption == MaxCalls \in Nat /\ MaxEdits \in Nat

\* EnvSpec turns what a rule gives for these arguments into lists.
ASSUME SpecsAssumption == \A raw \in Specs :
  /\ raw.manifest_files \in Seq(ToSet(raw.manifest_files))
  /\ raw.packages \in Seq(ToSet(raw.packages))

VARIABLES
  disk, web,    \* contents of files and pages; None if there is none
  modern,       \* the installed guix knows -p and the time-machine switches
  cache,        \* profile directories by hash: what guix was given
  stage, spec, setting,  \* the call under way
  key,          \* its hash
  got,          \* what its command runs in
  asked,        \* history: what its rule and command line say
  stale,        \* history: a file or page changed since the call began
  calls, edits

vars == <<disk, web, modern, cache, stage, spec, setting, key, got, asked,
          stale, calls, edits>>

Error == "error"

-----------------------------------------------------------------------------
(* EnvSpec.__post_init__ and modify_source_paths                           *)

\* manifest_file= goes first, unless manifest_files= names it already.
Manifests(raw) ==
  IF raw.manifest_file = None \/ Contains(raw.manifest_files, raw.manifest_file)
  THEN raw.manifest_files
  ELSE <<raw.manifest_file>> \o raw.manifest_files

\* channels= hides channels_file=.
Channels(raw) == IF raw.channels # None THEN raw.channels ELSE raw.channels_file

\* A name in a rule is relative to the file that declares the rule.
At(base, name) == <<base, name>>

EnvSpec(raw) ==
  [manifests |-> [i \in DOMAIN Manifests(raw) |-> At(raw.base, Manifests(raw)[i])],
   packages |-> raw.packages,
   channels |-> LET c == Channels(raw) IN
     IF c # None /\ c.kind = "file"
     THEN [kind |-> "file", value |-> At(raw.base, c.value)] ELSE c,
   refs |-> raw.refs]

-----------------------------------------------------------------------------
(* The time-machine pin                                                    *)

Set(s, field) == s # None /\ s[field]

\* --sdm-guix-channels, else the deprecated option, else the rule; a file must
\* exist.
Exists(c) == c = None \/ c.kind # "file" \/ disk[c.value] # None
SettingsChannels(s) ==
  IF s = None THEN None
  ELSE IF s.channels # None THEN s.channels ELSE s.channels_file

EffectiveChannels(e, s) ==
  IF SettingsChannels(s) # None THEN SettingsChannels(s) ELSE e.channels

Refs == {"url", "commit", "branch"}
EffectiveRefs(e, s) ==
  [r \in Refs |-> IF s # None /\ s.refs[r] # None THEN s.refs[r] ELSE e.refs[r]]

NoRefs == [r \in Refs |-> None]
NoPin == [kind |-> "none", channels |-> None, refs |-> NoRefs]

\* Error if the file is missing or if both mechanisms apply.
TimeMachinePin(e, s) ==
  LET c == EffectiveChannels(e, s)
      refs == EffectiveRefs(e, s)
      kind == IF ~Exists(c) \/ (c # None /\ refs # NoRefs) THEN Error
              ELSE IF c # None THEN "channels"
              ELSE IF refs # NoRefs THEN "refs" ELSE "none"
  IN [kind |-> kind, channels |-> c, refs |-> refs]

\* no_time_machine is looked at first: the pin is not even resolved.
EffectivePin(e, s) == IF Set(s, "no_time_machine") THEN NoPin ELSE TimeMachinePin(e, s)

-----------------------------------------------------------------------------
(* record_hash                                                             *)

Content(c) == CASE c.kind = "file" -> disk[c.value]
                [] c.kind = "url" -> web[c.value]
                [] c.kind = "swhid" -> c.value  \* names its own content

\* Mutation: of a file or a page the name is hashed.
PinTokens_NoContent(pin) == [channels |-> <<pin.channels>>, refs |-> pin.refs]

\* A file and a page of one content are one environment; a SWHID is tagged.
PinTokens(pin) ==
  [channels |-> IF pin.kind # "channels" THEN <<>>
                ELSE <<pin.channels.kind = "swhid", Content(pin.channels)>>,
   refs |-> pin.refs]

Switches == {"untrusted", "unsafe", "unauthenticated"}
HashedSettings(s) ==
  IF s = None THEN <<>> ELSE <<s.container, s.switches, s.no_time_machine>>

ManifestContents(e) == [i \in DOMAIN e.manifests |-> disk[e.manifests[i]]]

\* The fields are hashed one after the other; without manifests and packages a
\* mark for that.
RecordHash(e, s) ==
  [manifests |-> ManifestContents(e), packages |-> e.packages,
   settings |-> HashedSettings(s), pin |-> PinTokens(EffectivePin(e, s))]

\* The configured cache and the deployment prefix are different roots.
ProfileDir(e, s) == <<Set(s, "profile_cache"), RecordHash(e, s)>>

\* open() of a manifest, the resolution of the pin or urlopen() raises.
Unhashable(e, s) ==
  LET pin == EffectivePin(e, s)
  IN \/ Contains(ManifestContents(e), None)
     \/ pin.kind = Error
     \/ pin.kind = "channels" /\ Content(pin.channels) = None

-----------------------------------------------------------------------------
(* What guix is given                                                      *)

NeedsAggregate(e) ==
  Len(e.manifests) > 1 \/ (e.manifests # <<>> /\ e.packages # <<>>)

\* The expressions of the generated manifest.  Without concatenate-manifests
\* the value of the file is that of its last expression, as for the rule's own
\* file, which is used when there is nothing to add.
Expressions(e) ==
  [i \in DOMAIN e.manifests |-> [load |-> {ManifestContents(e)[i]}, packages |-> {}]]
  \o (IF e.packages # <<>> THEN <<[load |-> {}, packages |-> ToSet(e.packages)]>>
      ELSE <<>>)

Evaluated(e) ==
  LET es == Expressions(e)
      used == IF es = <<>> THEN {}
              ELSE IF NeedsAggregate(e) THEN ToSet(es) ELSE {Last(es)}
  IN [load |-> UNION {x.load : x \in used}, packages |-> UNION {x.packages : x \in used}]

\* The -C, --url, --commit and --branch flags, and the switches, which are
\* given only with a pin.
Pinned(pin, s) ==
  [channels |-> IF pin.kind = "channels" THEN Content(pin.channels) ELSE None,
   refs |-> pin.refs,
   switches |-> IF pin = NoPin \/ s = None THEN {} ELSE s.switches]

GuixInputs(e, s) ==
  [evaluated |-> Evaluated(e), pinned |-> Pinned(EffectivePin(e, s), s)]

\* _require_time_machine_flag; guix itself refuses what cannot be read.
OldSwitch(e, s) ==
  ~modern /\ s # None /\ s.switches # {} /\ EffectivePin(e, s) # NoPin
GuixRefuses(e, s) == OldSwitch(e, s) \/ Unhashable(e, s)

-----------------------------------------------------------------------------
(* The call                                                                *)

\* Reference: everything the rule names is in the profile and nothing else; an
\* option of the command line "overrides any per-rule" value.
First(a, b) == IF a # None THEN a ELSE b
Asked(raw, s) ==
  LET c == First(SettingsChannels(s),
                 IF Channels(raw) # None /\ Channels(raw).kind = "file"
                 THEN [kind |-> "file", value |-> At(raw.base, Channels(raw).value)]
                 ELSE Channels(raw))
      refs == [r \in Refs |-> First(IF s = None THEN None ELSE s.refs[r], raw.refs[r])]
      pinned == ~Set(s, "no_time_machine") /\ (c # None \/ refs # NoRefs)
      named == ToSet(raw.manifest_files) \cup ({raw.manifest_file} \ {None})
  IN [made |->
        [evaluated |-> [load |-> {disk[At(raw.base, n)] : n \in named},
                        packages |-> ToSet(raw.packages)],
         pinned |-> [channels |-> IF pinned /\ c # None THEN Content(c) ELSE None,
                     refs |-> IF pinned THEN refs ELSE NoRefs,
                     switches |-> IF pinned /\ s # None THEN s.switches ELSE {}]],
      container |-> Set(s, "container")]

Nothing == [made |-> None, container |-> FALSE, fresh |-> TRUE]
Idle == {"idle", "done", "failed"}

Init ==
  /\ disk \in [Paths -> Contents \cup {None}]
  /\ web \in [Pages -> Contents \cup {None}]
  /\ modern \in BOOLEAN
  /\ cache = <<>>
  /\ stage = "idle" /\ spec = None /\ setting = None /\ key = <<>>
  /\ got = Nothing /\ asked = None
  /\ stale = FALSE /\ calls = 0 /\ edits = 0

Begin(raw, s, next, hash) ==
  /\ stage \in Idle /\ calls < MaxCalls
  /\ calls' = calls + 1
  /\ spec' = EnvSpec(raw) /\ setting' = s
  /\ stage' = next /\ key' = hash
  /\ asked' = IF next = "failed" THEN None ELSE Asked(raw, s)
  /\ got' = Nothing /\ stale' = FALSE
  /\ UNCHANGED <<disk, web, modern, cache, edits>>

\* decorate_shellcmd with a cache: an old guix has no -p for --container.
Hash(raw, s) ==
  /\ Set(s, "profile_cache")
  /\ LET e == EnvSpec(raw)
     IN IF Unhashable(e, s) \/ (s.container /\ ~modern)
        THEN Begin(raw, s, "failed", <<>>)
        ELSE Begin(raw, s, "hashed", ProfileDir(e, s))

\* realize(), for a remote job: a profile under the deployment prefix when no
\* cache is configured.  The worker's guix runs it.
HashForRemote(raw, s) ==
  LET e == EnvSpec(raw)
  IN IF Unhashable(e, s) THEN Begin(raw, s, "failed", <<>>)
     ELSE Begin(raw, s, "remote", ProfileDir(e, s))

\* Without a cache guix shell reads the manifest when the job runs.
Decorate(raw, s) ==
  /\ ~Set(s, "profile_cache")
  /\ IF EffectivePin(EnvSpec(raw), s).kind = Error \/ OldSwitch(EnvSpec(raw), s)
     THEN Begin(raw, s, "failed", <<>>)
     ELSE Begin(raw, s, "decorated", <<>>)

\* A local command runs in a profile through "guix shell -p", or on an old guix
\* by sourcing it; a remote one through the worker's guix shell.
Finish(made, fresh) ==
  /\ stage' = "done"
  /\ got' = [made |-> made, fresh |-> fresh,
             container |-> Set(setting, "container") /\ (stage = "hashed" => modern)]
  /\ UNCHANGED <<disk, web, modern, spec, setting, key, asked, stale, calls, edits>>

Cached == stage \in {"hashed", "remote"}

\* The directory named by the hash has a profile.
Reuse ==
  /\ Cached /\ key \in DOMAIN cache
  /\ Finish(cache[key].made, cache[key].fresh)
  /\ UNCHANGED cache

\* _realize_profile: guix package reads the manifest and the channels.
Realize ==
  /\ Cached /\ key \notin DOMAIN cache /\ ~GuixRefuses(spec, setting)
  /\ LET made == GuixInputs(spec, setting)
     IN /\ cache' = [k \in DOMAIN cache \cup {key} |->
                       IF k = key THEN [made |-> made, fresh |-> ~stale] ELSE cache[k]]
        /\ Finish(made, ~stale)

RunUncached ==
  /\ stage = "decorated" /\ ~GuixRefuses(spec, setting)
  /\ Finish(GuixInputs(spec, setting), ~stale)
  /\ UNCHANGED cache

\* guix fails, or refuses an old option, a missing file or a missing page.
Fail ==
  /\ \/ Cached /\ key \notin DOMAIN cache
     \/ stage = "decorated"
  /\ stage' = "failed"
  /\ UNCHANGED <<disk, web, modern, cache, spec, setting, key, got, asked, stale,
                 calls, edits>>

\* Someone edits a file, or a page changes.
Edit ==
  /\ edits < MaxEdits
  /\ \/ \E p \in Paths, c \in Contents : disk[p] # c /\ disk' = [disk EXCEPT ![p] = c]
        /\ UNCHANGED web
     \/ \E p \in Pages, c \in Contents : web[p] # c /\ web' = [web EXCEPT ![p] = c]
        /\ UNCHANGED disk
  /\ stale' = (stage \notin Idle)
  /\ edits' = edits + 1
  /\ UNCHANGED <<modern, cache, stage, spec, setting, key, got, asked, calls>>

Next ==
  \/ \E raw \in Specs, s \in Settings :
       Hash(raw, s) \/ HashForRemote(raw, s) \/ Decorate(raw, s)
  \/ Reuse \/ Realize \/ RunUncached \/ Fail \/ Edit

Spec == Init /\ [][Next]_vars

-----------------------------------------------------------------------------
(* Property                                                                *)

\* A command runs in what its rule and the command line asked for, whichever
\* call realized the profile it found under its hash: the contents of all
\* manifests, the packages, the pin that takes precedence, the switches, and a
\* container if one was wanted.  It fails only for a profile that was realized
\* after a file changed between its hash and guix.
ProfileAsAsked ==
  stage = "done" /\ got.fresh =>
    got.made = asked.made /\ got.container = asked.container
=============================================================================
