-------------------------- MODULE DefinitionsProofs ---------------------------
(***************************************************************************)
(* Proofs about what a rule and its module declare.                        *)
(*                                                                         *)
(* EnvIdentity, for any declarations, command lines, files and pages: what *)
(* guix is given can be read off the environment's hash (Given), and is    *)
(* what the rule asks for whenever the environment can be hashed at all.   *)
(*                                                                         *)
(* Contracts, WrapperArgv and Staging, for every input of their operators. *)
(* The arguments of a script are lists of lists put one after the other:   *)
(* each is told in pairs (Told), and what comes together stays told.       *)
(***************************************************************************)
EXTENDS Definitions, SequenceTheorems, FunctionTheorems, FiniteSetTheorems, TLAPS

\* The guix inputs that a profile directory stands for.
Given(k) ==
  LET h == k[2]
  IN [evaluated |-> [load |-> {h.manifests[i] : i \in DOMAIN h.manifests},
                     packages |-> ToSet(h.packages)],
      pinned |->
        [channels |-> IF h.pin.channels = <<>> THEN None ELSE h.pin.channels[2],
         refs |-> h.pin.refs,
         switches |-> IF (h.pin.channels = <<>> /\ h.pin.refs = NoRefs) \/ h.settings = <<>>
                      THEN {} ELSE h.settings[2]]]

-----------------------------------------------------------------------------
(* The invariant *)

\* A hash stands for what its caller wants.
KeyAsked ==
  Cached => asked.made = Given(key) /\ asked.container = Set(setting, "container")

\* Until a file changes the hash is that of what guix will read.
KeyCurrent ==
  Cached /\ ~stale =>
    /\ key = ProfileDir(spec, setting)
    /\ \E raw \in Specs : spec = EnvSpec(raw)

ContainerPossible == stage = "hashed" /\ Set(setting, "container") => modern

DecoratedAsked ==
  stage = "decorated" =>
    /\ asked.container = Set(setting, "container")
    /\ ~stale => \E raw \in Specs : spec = EnvSpec(raw) /\ asked = Asked(raw, setting)

\* A directory holds what its name stands for.
CacheGiven == \A k \in DOMAIN cache : cache[k].fresh => cache[k].made = Given(k)

ProfileInv ==
  KeyAsked /\ KeyCurrent /\ ContainerPossible /\ DecoratedAsked /\ CacheGiven
  /\ ProfileAsAsked

-----------------------------------------------------------------------------
(* Sequences *)

LEMMA ConcatSet ==
  ASSUME NEW S, NEW a \in Seq(S), NEW b \in Seq(S)
  PROVE  /\ a \o b \in Seq(S) /\ Len(a \o b) = Len(a) + Len(b)
         /\ ToSet(a \o b) = ToSet(a) \cup ToSet(b)
<1>1. /\ a \o b \in Seq(S) /\ Len(a \o b) = Len(a) + Len(b)
      /\ \A i \in 1 .. Len(a) + Len(b) :
           (a \o b)[i] = IF i <= Len(a) THEN a[i] ELSE b[i - Len(a)]
  BY ConcatProperties
<1>2. /\ DOMAIN a = 1 .. Len(a) /\ DOMAIN b = 1 .. Len(b)
      /\ DOMAIN (a \o b) = 1 .. Len(a) + Len(b)
      /\ Len(a) \in Nat /\ Len(b) \in Nat
  BY <1>1
<1>3. ASSUME NEW x \in ToSet(a \o b) PROVE x \in ToSet(a) \cup ToSet(b)
  <2>1. PICK i \in 1 .. Len(a) + Len(b) : x = (a \o b)[i]
    BY <1>2, <1>3 DEF ToSet
  <2>2. CASE i <= Len(a)
    BY <1>1, <1>2, <2>1, <2>2 DEF ToSet
  <2>3. CASE ~(i <= Len(a))
    <3>1. i - Len(a) \in 1 .. Len(b)
      BY <1>2, <2>3
    <3>2. QED
      BY <1>1, <1>2, <2>1, <2>3, <3>1 DEF ToSet
  <2>4. QED
    BY <2>2, <2>3
<1>4. ASSUME NEW x \in ToSet(a) PROVE x \in ToSet(a \o b)
  <2>1. PICK i \in 1 .. Len(a) : x = a[i]
    BY <1>2, <1>4 DEF ToSet
  <2>2. i \in 1 .. Len(a) + Len(b) /\ (a \o b)[i] = x
    BY <1>1, <1>2, <2>1
  <2>3. QED
    BY <1>2, <2>2 DEF ToSet
<1>5. ASSUME NEW x \in ToSet(b) PROVE x \in ToSet(a \o b)
  <2>1. PICK i \in 1 .. Len(b) : x = b[i]
    BY <1>2, <1>5 DEF ToSet
  <2>2. i + Len(a) \in 1 .. Len(a) + Len(b) /\ (a \o b)[i + Len(a)] = x
    BY <1>1, <1>2, <2>1
  <2>3. QED
    BY <1>2, <2>2 DEF ToSet
<1>6. QED
  BY <1>1, <1>3, <1>4, <1>5

LEMMA SeqOwnSet ==
  ASSUME NEW S, NEW s \in Seq(S)
  PROVE  s \in Seq(ToSet(s)) /\ DOMAIN s = 1 .. Len(s) /\ Len(s) \in Nat
<1>1. DOMAIN s = 1 .. Len(s) /\ Len(s) \in Nat
  OBVIOUS
<1>2. \A i \in 1 .. Len(s) : s[i] \in ToSet(s)
  BY <1>1 DEF ToSet
<1>3. s \in Seq(ToSet(s))
  BY <1>1, <1>2
<1>4. QED
  BY <1>1, <1>3

LEMMA ShortSequences ==
  ASSUME NEW S, NEW x \in S
  PROVE  /\ <<x>> \in Seq(S) /\ Len(<<x>>) = 1 /\ ToSet(<<x>>) = {x}
         /\ <<>> \in Seq(S) /\ Len(<<>>) = 0 /\ ToSet(<<>>) = {}
BY DEF ToSet

LEMMA FunctionSequence ==
  ASSUME NEW S, NEW n \in Nat, NEW f \in [1 .. n -> S]
  PROVE  f \in Seq(S) /\ Len(f) = n
OBVIOUS

\* The value of a sequence of at most one element is that element.
LEMMA LastIsAll ==
  ASSUME NEW S, NEW s \in Seq(S), Len(s) = 1
  PROVE  {Last(s)} = ToSet(s)
BY DEF Last, ToSet

-----------------------------------------------------------------------------
(* What a rule declares *)

\* The manifests of the environment are the files the rule names.
LEMMA ManifestsNamed ==
  ASSUME NEW raw \in Specs
  PROVE  LET named == ToSet(raw.manifest_files) \cup ({raw.manifest_file} \ {None})
         IN Manifests(raw) \in Seq(named) /\ ToSet(Manifests(raw)) = named
<1> DEFINE files == raw.manifest_files
           named == ToSet(files) \cup ({raw.manifest_file} \ {None})
<1>1. /\ files \in Seq(ToSet(files)) /\ files \in Seq(named)
      /\ DOMAIN files = 1 .. Len(files)
  <2>1. files \in Seq(ToSet(files))
    BY SpecsAssumption
  <2>2. DOMAIN files = 1 .. Len(files) /\ Len(files) \in Nat
    BY <2>1
  <2>3. \A i \in 1 .. Len(files) : files[i] \in named
    BY <2>2 DEF ToSet
  <2>4. QED
    BY <2>1, <2>2, <2>3
<1>2. CASE raw.manifest_file = None
  BY <1>1, <1>2 DEF Manifests
<1>3. CASE raw.manifest_file # None /\ Contains(files, raw.manifest_file)
  <2>1. raw.manifest_file \in ToSet(files)
    BY <1>1, <1>3 DEF Contains, ToSet
  <2>2. QED
    BY <1>1, <1>3, <2>1 DEF Manifests
<1>4. CASE raw.manifest_file # None /\ ~Contains(files, raw.manifest_file)
  <2> DEFINE one == <<raw.manifest_file>>
  <2>1. Manifests(raw) = one \o files
    BY <1>4 DEF Manifests
  <2>2. one \in Seq(named) /\ ToSet(one) = {raw.manifest_file}
    BY <1>4 DEF ToSet
  <2>3. one \o files \in Seq(named) /\ ToSet(one \o files) = ToSet(one) \cup ToSet(files)
    <3> HIDE DEF one, named, files
    <3>1. QED
      BY <1>1, <2>2, ConcatSet
  <2>4. QED
    BY <1>4, <2>1, <2>2, <2>3
<1>5. QED
  BY <1>2, <1>3, <1>4

LEMMA SpecTyped ==
  ASSUME NEW raw \in Specs
  PROVE  LET e == EnvSpec(raw)
         IN /\ e.manifests \in Seq(ToSet(e.manifests))
            /\ e.packages \in Seq(ToSet(e.packages))
            /\ e.packages = raw.packages
            /\ {disk[e.manifests[i]] : i \in DOMAIN e.manifests}
                 = {disk[At(raw.base, n)] : n \in ToSet(raw.manifest_files)
                                                \cup ({raw.manifest_file} \ {None})}
<1> DEFINE e == EnvSpec(raw)
           named == ToSet(raw.manifest_files) \cup ({raw.manifest_file} \ {None})
           m == Manifests(raw)
<1>1. m \in Seq(named) /\ ToSet(m) = named
  BY ManifestsNamed
<1>2. e.manifests = [i \in DOMAIN m |-> At(raw.base, m[i])] /\ e.packages = raw.packages
  BY DEF EnvSpec
<1>3. DOMAIN m = 1 .. Len(m) /\ Len(m) \in Nat
  BY <1>1
<1>4. e.manifests \in Seq(ToSet(e.manifests))
  <2> HIDE DEF e, m
  <2>1. \A i \in 1 .. Len(m) : e.manifests[i] \in ToSet(e.manifests)
    BY <1>2, <1>3 DEF ToSet
  <2>2. QED
    BY <1>2, <1>3, <2>1
<1>5. {disk[e.manifests[i]] : i \in DOMAIN e.manifests} = {disk[At(raw.base, n)] : n \in named}
  <2>1. \A i \in DOMAIN m : m[i] \in named
    BY <1>1, <1>3
  <2>2. \A n \in named : \E i \in DOMAIN m : n = m[i]
    BY <1>1 DEF ToSet
  <2> HIDE DEF e, m, named
  <2>3. QED
    BY <1>2, <2>1, <2>2
<1>6. QED
  BY <1>2, <1>4, <1>5, SpecsAssumption

-----------------------------------------------------------------------------
(* What guix is given *)

\* The generated manifest loses nothing: either all expressions are concatenated
\* or there is at most one.
LEMMA EvaluatesAll ==
  ASSUME NEW e, e.manifests \in Seq(ToSet(e.manifests)),
         e.packages \in Seq(ToSet(e.packages))
  PROVE  Evaluated(e) = [load |-> {disk[e.manifests[i]] : i \in DOMAIN e.manifests},
                         packages |-> ToSet(e.packages)]
<1> DEFINE m == e.manifests
           loads == [i \in DOMAIN m |-> [load |-> {ManifestContents(e)[i]}, packages |-> {}]]
           all == [load |-> {}, packages |-> ToSet(e.packages)]
           rest == IF e.packages # <<>> THEN <<all>> ELSE <<>>
           es == Expressions(e)
           S == {loads[i] : i \in DOMAIN m} \cup {all}
<1>1. /\ DOMAIN m = 1 .. Len(m) /\ Len(m) \in Nat
      /\ m = <<>> <=> Len(m) = 0
  OBVIOUS
<1>2. loads \in Seq(S) /\ Len(loads) = Len(m) /\ ToSet(loads) = {loads[i] : i \in DOMAIN m}
  <2>1. loads \in [1 .. Len(m) -> S]
    <3> HIDE DEF all
    <3>1. QED
      BY <1>1
  <2>2. Len(m) \in Nat /\ DOMAIN loads = DOMAIN m
    BY <1>1
  <2> HIDE DEF loads, S, m
  <2>3. loads \in Seq(S) /\ Len(loads) = Len(m)
    BY <2>1, <2>2, FunctionSequence
  <2>4. QED
    BY <2>2, <2>3 DEF ToSet
<1>3. /\ rest \in Seq(S)
      /\ Len(rest) = IF e.packages # <<>> THEN 1 ELSE 0
      /\ ToSet(rest) = IF e.packages # <<>> THEN {all} ELSE {}
  <2>1. all \in S
    OBVIOUS
  <2> HIDE DEF all, S
  <2>2. QED
    BY <2>1, ShortSequences
<1>4. /\ es = loads \o rest
      /\ es \in Seq(S) /\ Len(es) = Len(loads) + Len(rest)
      /\ ToSet(es) = ToSet(loads) \cup ToSet(rest)
  <2>1. es = loads \o rest
    BY DEF Expressions
  <2> HIDE DEF es, loads, rest, S
  <2>2. /\ loads \o rest \in Seq(S)
        /\ Len(loads \o rest) = Len(loads) + Len(rest)
        /\ ToSet(loads \o rest) = ToSet(loads) \cup ToSet(rest)
    <3>1. loads \in Seq(S) /\ rest \in Seq(S)
      BY <1>2, <1>3
    <3>2. QED
      BY <3>1, ConcatSet
  <2>3. QED
    BY <2>1, <2>2
<1> DEFINE used == IF es = <<>> THEN {}
                   ELSE IF NeedsAggregate(e) THEN ToSet(es) ELSE {Last(es)}
<1>5. used = ToSet(es)
  <2>1. CASE es = <<>>
    BY <2>1 DEF ToSet
  <2>2. CASE es # <<>> /\ NeedsAggregate(e)
    BY <2>2
  <2>3. CASE es # <<>> /\ ~NeedsAggregate(e)
    <3>1. Len(m) <= 1 /\ (Len(m) = 0 \/ e.packages = <<>>)
      BY <1>1, <2>3 DEF NeedsAggregate
    <3>2. Len(es) # 0
      <4> HIDE DEF es, S
      <4>1. QED
        BY <1>4, <2>3
    <3>3. Len(es) = 1
      <4> HIDE DEF es, S, m, loads, rest
      <4>1. QED
        BY <1>1, <1>2, <1>3, <1>4, <3>1, <3>2
    <3>4. {Last(es)} = ToSet(es)
      <4> HIDE DEF es, S
      <4>1. QED
        BY <1>4, <3>3, LastIsAll
    <3>5. QED
      BY <2>3, <3>4
  <2>4. QED
    BY <2>1, <2>2, <2>3
<1>6. Evaluated(e) = [load |-> UNION {x.load : x \in used},
                      packages |-> UNION {x.packages : x \in used}]
  BY DEF Evaluated
<1>7. used = {loads[i] : i \in DOMAIN m} \cup (IF e.packages # <<>> THEN {all} ELSE {})
  <2> HIDE DEF es, loads, all, rest, used
  <2>1. QED
    BY <1>2, <1>3, <1>4, <1>5
<1>8. \A i \in DOMAIN m : loads[i].load = {disk[m[i]]} /\ loads[i].packages = {}
  BY DEF ManifestContents
<1>9. UNION {x.load : x \in used} = {disk[m[i]] : i \in DOMAIN m}
  <2>1. all.load = {}
    OBVIOUS
  <2> HIDE DEF used, loads, all, m
  <2>2. ASSUME NEW c, c \in UNION {x.load : x \in used}
        PROVE  c \in {disk[m[i]] : i \in DOMAIN m}
    <3>1. PICK x \in used : c \in x.load
      BY <2>2
    <3>2. PICK i \in DOMAIN m : x = loads[i]
      BY <1>7, <2>1, <3>1
    <3>3. QED
      BY <1>8, <3>1, <3>2
  <2>3. ASSUME NEW i \in DOMAIN m PROVE disk[m[i]] \in UNION {x.load : x \in used}
    <3>1. loads[i] \in used
      BY <1>7
    <3>2. disk[m[i]] \in loads[i].load
      BY <1>8
    <3>3. QED
      BY <3>1, <3>2
  <2>4. QED
    BY <2>2, <2>3
<1>10. UNION {x.packages : x \in used} = ToSet(e.packages)
  <2>1. all.packages = ToSet(e.packages)
    OBVIOUS
  <2>2. e.packages = <<>> => ToSet(e.packages) = {}
    BY DEF ToSet
  <2> HIDE DEF used, loads, all, m
  <2>3. QED
    BY <1>7, <1>8, <2>1, <2>2
<1>11. QED
  BY <1>6, <1>9, <1>10

\* The pin that is in effect is resolved, or there is none.
LEMMA PinKinds ==
  ASSUME NEW e, NEW s
  PROVE  LET pin == EffectivePin(e, s)
         IN /\ pin.kind \in {Error, "channels", "refs", "none"}
            /\ pin.kind = "none" => pin = NoPin
            /\ pin.kind = "channels" => pin.channels # None /\ pin.refs = NoRefs
            /\ pin.kind = "refs" => pin.channels = None /\ pin.refs # NoRefs
            /\ pin = NoPin => pin.kind = "none"
<1> DEFINE pin == EffectivePin(e, s)
           c == EffectiveChannels(e, s)
           refs == EffectiveRefs(e, s)
<1>1. NoPin.kind = "none" /\ NoPin.channels = None /\ NoPin.refs = NoRefs
  BY DEF NoPin
<1>2. CASE Set(s, "no_time_machine")
  <2>1. pin = NoPin
    BY <1>2 DEF EffectivePin
  <2>2. QED
    BY <1>1, <2>1
<1>3. CASE ~Set(s, "no_time_machine")
  <2> DEFINE kind == IF ~Exists(c) \/ (c # None /\ refs # NoRefs) THEN Error
                     ELSE IF c # None THEN "channels"
                     ELSE IF refs # NoRefs THEN "refs" ELSE "none"
  <2>1. pin = [kind |-> kind, channels |-> c, refs |-> refs]
    BY <1>3 DEF EffectivePin, TimeMachinePin
  <2> HIDE DEF c, refs
  <2>2. CASE ~Exists(c) \/ (c # None /\ refs # NoRefs)
    <3>1. kind = Error
      BY <2>2
    <3>2. QED
      BY <1>1, <2>1, <3>1 DEF Error
  <2>3. CASE Exists(c) /\ c # None /\ refs = NoRefs
    <3>1. kind = "channels"
      BY <2>3
    <3>2. QED
      BY <1>1, <2>1, <2>3, <3>1 DEF Error
  <2>4. CASE Exists(c) /\ c = None /\ refs # NoRefs
    <3>1. kind = "refs"
      BY <2>4
    <3>2. QED
      BY <1>1, <2>1, <2>4, <3>1 DEF Error
  <2>5. CASE Exists(c) /\ c = None /\ refs = NoRefs
    <3>1. kind = "none"
      BY <2>5
    <3>2. pin = NoPin
      BY <2>1, <2>5, <3>1 DEF NoPin
    <3>3. QED
      BY <1>1, <3>2
  <2>6. QED
    BY <2>2, <2>3, <2>4, <2>5
<1>4. QED
  BY <1>2, <1>3

\* What guix is given can be read off the hash.
LEMMA HashTells ==
  ASSUME NEW raw \in Specs, NEW s, ~Unhashable(EnvSpec(raw), s)
  PROVE  GuixInputs(EnvSpec(raw), s) = Given(ProfileDir(EnvSpec(raw), s))
<1> DEFINE e == EnvSpec(raw)
           pin == EffectivePin(e, s)
           h == RecordHash(e, s)
<1>1. Evaluated(e) = [load |-> {disk[e.manifests[i]] : i \in DOMAIN e.manifests},
                      packages |-> ToSet(e.packages)]
  <2> HIDE DEF e
  <2>1. e.manifests \in Seq(ToSet(e.manifests)) /\ e.packages \in Seq(ToSet(e.packages))
    BY SpecTyped DEF e
  <2>2. QED
    BY <2>1, EvaluatesAll
<1> HIDE DEF e
<1>2. h.manifests = [i \in DOMAIN e.manifests |-> disk[e.manifests[i]]]
      /\ h.packages = e.packages /\ h.settings = HashedSettings(s) /\ h.pin = PinTokens(pin)
  BY DEF RecordHash, ManifestContents
<1>3. {h.manifests[i] : i \in DOMAIN h.manifests}
        = {disk[e.manifests[i]] : i \in DOMAIN e.manifests}
  <2> HIDE DEF h
  <2>1. QED
    BY <1>2
<1>4. pin.kind # Error
  BY DEF Unhashable, e
<1> HIDE DEF pin, h
<1>5. /\ pin.kind \in {"channels", "refs", "none"}
      /\ pin.kind = "none" <=> pin = NoPin
      /\ pin.kind = "channels" => pin.refs = NoRefs
      /\ pin.kind = "refs" => pin.refs # NoRefs
  BY <1>4, PinKinds DEF pin, NoPin
<1>6. /\ h.pin.refs = pin.refs
      /\ h.pin.channels = <<>> <=> pin.kind # "channels"
      /\ pin.kind = "channels" => h.pin.channels[2] = Content(pin.channels)
  BY <1>2 DEF PinTokens
<1>7. pin = NoPin <=> h.pin.channels = <<>> /\ h.pin.refs = NoRefs
  BY <1>5, <1>6 DEF NoPin
<1>8. /\ h.settings = <<>> <=> s = None
      /\ s # None => h.settings[2] = s.switches
  BY <1>2 DEF HashedSettings
<1>9. Pinned(pin, s) =
        [channels |-> IF h.pin.channels = <<>> THEN None ELSE h.pin.channels[2],
         refs |-> h.pin.refs,
         switches |-> IF (h.pin.channels = <<>> /\ h.pin.refs = NoRefs) \/ h.settings = <<>>
                      THEN {} ELSE h.settings[2]]
  BY <1>6, <1>7, <1>8 DEF Pinned
<1>10. ProfileDir(e, s)[2] = h
  BY DEF ProfileDir, h
<1>11. GuixInputs(e, s) = [evaluated |-> Evaluated(e), pinned |-> Pinned(pin, s)]
  BY DEF GuixInputs, pin
<1>12. Given(ProfileDir(e, s)) =
         [evaluated |-> [load |-> {h.manifests[i] : i \in DOMAIN h.manifests},
                         packages |-> ToSet(h.packages)],
          pinned |-> Pinned(pin, s)]
  BY <1>9, <1>10 DEF Given
<1>13. GuixInputs(e, s) = Given(ProfileDir(e, s))
  BY <1>1, <1>2, <1>3, <1>11, <1>12
<1>14. QED
  BY <1>13 DEF e

-----------------------------------------------------------------------------
(* What the rule asks for *)

\* An environment that can be resolved is the one its rule and the command line
\* ask for.
LEMMA AskedIsGiven ==
  ASSUME NEW raw \in Specs, NEW s,
         EffectivePin(EnvSpec(raw), s).kind # Error
  PROVE  Asked(raw, s).made = GuixInputs(EnvSpec(raw), s)
<1> DEFINE e == EnvSpec(raw)
           pin == EffectivePin(e, s)
           c == First(SettingsChannels(s),
                      IF Channels(raw) # None /\ Channels(raw).kind = "file"
                      THEN [kind |-> "file", value |-> At(raw.base, Channels(raw).value)]
                      ELSE Channels(raw))
           refs == [r \in Refs |-> First(IF s = None THEN None ELSE s.refs[r], raw.refs[r])]
           pinned == ~Set(s, "no_time_machine") /\ (c # None \/ refs # NoRefs)
           named == ToSet(raw.manifest_files) \cup ({raw.manifest_file} \ {None})
<1>1. Evaluated(e) = [load |-> {disk[At(raw.base, n)] : n \in named},
                      packages |-> ToSet(raw.packages)]
  <2>1. /\ e.manifests \in Seq(ToSet(e.manifests)) /\ e.packages \in Seq(ToSet(e.packages))
        /\ e.packages = raw.packages
        /\ {disk[e.manifests[i]] : i \in DOMAIN e.manifests}
             = {disk[At(raw.base, n)] : n \in named}
    BY SpecTyped
  <2> HIDE DEF e, named
  <2>2. QED
    BY <2>1, EvaluatesAll
<1>2. EffectiveChannels(e, s) = c
  BY DEF EffectiveChannels, First, EnvSpec
<1>3. EffectiveRefs(e, s) = refs
  <2>1. e.refs = raw.refs
    BY DEF EnvSpec
  <2> HIDE DEF e
  <2>2. QED
    BY <2>1 DEF EffectiveRefs, First
<1> HIDE DEF e, c, refs, named
<1>4. CASE Set(s, "no_time_machine")
  <2>1. pin = NoPin /\ ~pinned
    BY <1>4 DEF EffectivePin
  <2>2. Pinned(pin, s) = [channels |-> None, refs |-> NoRefs, switches |-> {}]
    BY <2>1 DEF Pinned, NoPin
  <2>3. QED
    BY <1>1, <2>1, <2>2 DEF Asked, GuixInputs, c, refs, named, e
<1>5. CASE ~Set(s, "no_time_machine")
  <2>1. pin.channels = c /\ pin.refs = refs
    BY <1>2, <1>3, <1>5 DEF EffectivePin, TimeMachinePin
  <2>2. /\ pin.kind \in {"channels", "refs", "none"}
        /\ pin.kind = "none" <=> pin = NoPin
        /\ pin.kind = "channels" => c # None /\ refs = NoRefs
        /\ pin.kind = "refs" => c = None /\ refs # NoRefs
    <3>1. pin.kind # Error
      BY DEF e
    <3> HIDE DEF pin
    <3>2. QED
      BY <2>1, <3>1, PinKinds DEF pin
  <2>3. pin = NoPin => c = None /\ refs = NoRefs
    <3> HIDE DEF pin
    <3>1. QED
      BY <2>1 DEF NoPin
  <2> HIDE DEF pin
  <2>4. /\ pinned <=> pin # NoPin
        /\ pin.kind = "channels" <=> c # None
        /\ pin = NoPin => refs = NoRefs
    BY <1>5, <2>2, <2>3
  <2>5. Pinned(pin, s) =
          [channels |-> IF pinned /\ c # None THEN Content(c) ELSE None,
           refs |-> IF pinned THEN refs ELSE NoRefs,
           switches |-> IF pinned /\ s # None THEN s.switches ELSE {}]
    <3> HIDE DEF pinned
    <3>1. QED
      BY <2>1, <2>2, <2>3, <2>4 DEF Pinned
  <2>6. QED
    BY <1>1, <2>5 DEF Asked, GuixInputs, c, refs, named, e, pin
<1>6. QED
  BY <1>4, <1>5

\* The hash of an environment stands for what its rule asks for.
LEMMA AskedByKey ==
  ASSUME NEW raw \in Specs, NEW s, ~Unhashable(EnvSpec(raw), s)
  PROVE  /\ Asked(raw, s).made = Given(ProfileDir(EnvSpec(raw), s))
         /\ Asked(raw, s).container = Set(s, "container")
<1>1. EffectivePin(EnvSpec(raw), s).kind # Error
  BY DEF Unhashable
<1>2. Asked(raw, s).container = Set(s, "container")
  BY DEF Asked
<1>3. QED
  BY <1>1, <1>2, AskedIsGiven, HashTells

-----------------------------------------------------------------------------
(* The invariant is inductive *)

\* A new call asks for what it hashed; nothing else moves.
LEMMA BeginKeeps ==
  ASSUME ProfileInv, NEW raw \in Specs, NEW s, NEW next, NEW hash,
         Begin(raw, s, next, hash),
         \/ next = "failed"
         \/ /\ next \in {"hashed", "remote"} /\ hash = ProfileDir(EnvSpec(raw), s)
            /\ ~Unhashable(EnvSpec(raw), s)
            /\ next = "hashed" /\ Set(s, "container") => modern
         \/ next = "decorated"
  PROVE  ProfileInv'
<1>1. /\ spec' = EnvSpec(raw) /\ setting' = s /\ stage' = next /\ key' = hash
      /\ asked' = IF next = "failed" THEN None ELSE Asked(raw, s)
      /\ disk' = disk /\ web' = web /\ modern' = modern /\ cache' = cache
  BY DEF Begin
<1>2. ProfileDir(spec, setting)' = ProfileDir(EnvSpec(raw), s)
  BY <1>1 DEF ProfileDir, RecordHash, ManifestContents, HashedSettings, PinTokens,
              Content, EffectivePin, TimeMachinePin, Exists, EffectiveChannels,
              EffectiveRefs, SettingsChannels, Set
<1>3. Asked(raw, setting)' = Asked(raw, s)
  BY <1>1 DEF Asked, Content, SettingsChannels, Set
<1>4. KeyAsked' /\ KeyCurrent'
  <2>1. CASE next \in {"hashed", "remote"}
    <3>1. asked' = Asked(raw, s) /\ key' = ProfileDir(EnvSpec(raw), s)
          /\ ~Unhashable(EnvSpec(raw), s)
      BY <1>1, <2>1
    <3>2. KeyAsked'
      BY <1>1, <3>1, AskedByKey DEF KeyAsked, Set
    <3>3. KeyCurrent'
      BY <1>1, <1>2, <3>1 DEF KeyCurrent
    <3>4. QED
      BY <3>2, <3>3
  <2>2. CASE next \in {"failed", "decorated"}
    BY <1>1, <2>2 DEF KeyAsked, KeyCurrent, Cached
  <2>3. QED
    BY <2>1, <2>2
<1>5. ContainerPossible'
  BY <1>1 DEF ContainerPossible, Set
<1>6. DecoratedAsked'
  <2>1. Asked(raw, s).container = Set(s, "container")
    BY DEF Asked
  <2>2. QED
    BY <1>1, <1>3, <2>1 DEF DecoratedAsked, Set
<1>7. CacheGiven'
  BY <1>1 DEF ProfileInv, CacheGiven
<1>8. ProfileAsAsked'
  BY <1>1 DEF ProfileAsAsked
<1>9. QED
  BY <1>4, <1>5, <1>6, <1>7, <1>8 DEF ProfileInv

\* A call ends with a command in a profile as its rule asks, or one that is not
\* fresh.
LEMMA FinishKeeps ==
  ASSUME ProfileInv, NEW made, NEW fresh, Finish(made, fresh), CacheGiven',
         stage \in {"hashed", "remote", "decorated"}, fresh => made = asked.made
  PROVE  ProfileInv'
<1>1. /\ stage' = "done" /\ asked' = asked
      /\ got' = [made |-> made, fresh |-> fresh,
                 container |-> Set(setting, "container") /\ (stage = "hashed" => modern)]
  BY DEF Finish
<1>2. asked.container = Set(setting, "container")
  BY DEF ProfileInv, KeyAsked, DecoratedAsked, Cached
<1>3. (Set(setting, "container") /\ (stage = "hashed" => modern)) = Set(setting, "container")
  BY DEF ProfileInv, ContainerPossible, Set
<1>4. ProfileAsAsked'
  BY <1>1, <1>2, <1>3 DEF ProfileAsAsked
<1>5. /\ KeyAsked' /\ KeyCurrent' /\ ContainerPossible' /\ DecoratedAsked'
  BY <1>1 DEF KeyAsked, KeyCurrent, ContainerPossible, DecoratedAsked, Cached
<1>6. QED
  BY <1>4, <1>5 DEF ProfileInv

\* With the hash of what is read now, guix is given what the hash stands for.
LEMMA RealizedByKey ==
  ASSUME ProfileInv, Cached, ~stale, ~Unhashable(spec, setting)
  PROVE  GuixInputs(spec, setting) = Given(key)
<1>1. PICK raw \in Specs : spec = EnvSpec(raw)
  BY DEF ProfileInv, KeyCurrent
<1>2. key = ProfileDir(spec, setting)
  BY DEF ProfileInv, KeyCurrent
<1>3. QED
  BY <1>1, <1>2, HashTells

LEMMA ReuseKeeps ==
  ASSUME ProfileInv, Reuse
  PROVE  ProfileInv'
<1>1. /\ Cached /\ key \in DOMAIN cache /\ cache' = cache
      /\ Finish(cache[key].made, cache[key].fresh)
  BY DEF Reuse
<1>2. CacheGiven'
  BY <1>1 DEF ProfileInv, CacheGiven
<1>3. cache[key].fresh => cache[key].made = asked.made
  BY <1>1 DEF ProfileInv, CacheGiven, KeyAsked
<1>4. stage \in {"hashed", "remote", "decorated"}
  BY <1>1 DEF Cached
<1>5. QED
  BY <1>1, <1>2, <1>3, <1>4, FinishKeeps

LEMMA RealizeKeeps ==
  ASSUME ProfileInv, Realize
  PROVE  ProfileInv'
<1> DEFINE made == GuixInputs(spec, setting)
<1>1. /\ Cached /\ key \notin DOMAIN cache /\ ~Unhashable(spec, setting)
      /\ cache' = [k \in DOMAIN cache \cup {key} |->
                     IF k = key THEN [made |-> made, fresh |-> ~stale] ELSE cache[k]]
      /\ Finish(made, ~stale)
  BY DEF Realize, GuixRefuses
<1>2. ~stale => made = Given(key)
  BY <1>1, RealizedByKey
<1> HIDE DEF made
<1>3. CacheGiven'
  <2>1. SUFFICES ASSUME NEW k \in DOMAIN cache', cache'[k].fresh
                 PROVE  cache'[k].made = Given(k)
    BY DEF CacheGiven
  <2>2. CASE k = key
    BY <1>1, <1>2, <2>1, <2>2
  <2>3. CASE k # key
    BY <1>1, <2>1, <2>3 DEF ProfileInv, CacheGiven
  <2>4. QED
    BY <2>2, <2>3
<1>4. ~stale => made = asked.made
  BY <1>1, <1>2 DEF ProfileInv, KeyAsked
<1>5. stage \in {"hashed", "remote", "decorated"}
  BY <1>1 DEF Cached
<1>6. QED
  BY <1>1, <1>3, <1>4, <1>5, FinishKeeps

LEMMA UncachedKeeps ==
  ASSUME ProfileInv, RunUncached
  PROVE  ProfileInv'
<1> DEFINE made == GuixInputs(spec, setting)
<1>1. /\ stage = "decorated" /\ ~Unhashable(spec, setting) /\ cache' = cache
      /\ Finish(made, ~stale)
  BY DEF RunUncached, GuixRefuses
<1>2. ~stale => made = asked.made
  <2>1. SUFFICES ASSUME ~stale PROVE made = asked.made
    OBVIOUS
  <2>2. PICK raw \in Specs : spec = EnvSpec(raw) /\ asked = Asked(raw, setting)
    BY <1>1, <2>1 DEF ProfileInv, DecoratedAsked
  <2>3. EffectivePin(EnvSpec(raw), setting).kind # Error
    BY <1>1, <2>2 DEF Unhashable
  <2>4. QED
    BY <2>2, <2>3, AskedIsGiven
<1> HIDE DEF made
<1>3. CacheGiven'
  BY <1>1 DEF ProfileInv, CacheGiven
<1>4. QED
  BY <1>1, <1>2, <1>3, FinishKeeps

\* An edit makes the call under way stale; between calls it concerns no one.
LEMMA EditKeeps ==
  ASSUME ProfileInv, Edit
  PROVE  ProfileInv'
<1>1. /\ stale' = (stage \notin Idle)
      /\ UNCHANGED <<modern, cache, stage, setting, key, got, asked>>
  BY DEF Edit
<1>2. KeyAsked' /\ ContainerPossible' /\ CacheGiven' /\ ProfileAsAsked'
  BY <1>1 DEF ProfileInv, KeyAsked, ContainerPossible, CacheGiven, ProfileAsAsked,
              Cached, Set
<1>3. KeyCurrent'
  BY <1>1 DEF KeyCurrent, Cached, Idle
<1>4. DecoratedAsked'
  BY <1>1 DEF ProfileInv, DecoratedAsked, Idle, Set
<1>5. QED
  BY <1>2, <1>3, <1>4 DEF ProfileInv

LEMMA UnchangedKeeps ==
  ASSUME ProfileInv, UNCHANGED vars
  PROVE  ProfileInv'
<1>1. /\ disk' = disk /\ web' = web /\ modern' = modern /\ cache' = cache /\ stage' = stage
      /\ spec' = spec /\ setting' = setting /\ key' = key /\ got' = got /\ asked' = asked
      /\ stale' = stale
  BY DEF vars
<1>2. ProfileDir(spec, setting)' = ProfileDir(spec, setting)
  BY <1>1 DEF ProfileDir, RecordHash, ManifestContents, HashedSettings, PinTokens,
              Content, EffectivePin, TimeMachinePin, Exists, EffectiveChannels,
              EffectiveRefs, SettingsChannels, Set
<1>3. \A raw : Asked(raw, setting)' = Asked(raw, setting)
  BY <1>1 DEF Asked, Content, SettingsChannels, Set
<1>4. KeyAsked' /\ ContainerPossible' /\ CacheGiven' /\ ProfileAsAsked'
  BY <1>1 DEF ProfileInv, KeyAsked, ContainerPossible, CacheGiven, ProfileAsAsked,
              Cached, Set
<1>5. KeyCurrent'
  BY <1>1, <1>2 DEF ProfileInv, KeyCurrent, Cached
<1>6. DecoratedAsked'
  BY <1>1, <1>3 DEF ProfileInv, DecoratedAsked, Set
<1>7. QED
  BY <1>4, <1>5, <1>6 DEF ProfileInv

LEMMA FailKeeps ==
  ASSUME ProfileInv, Fail
  PROVE  ProfileInv'
<1>1. stage' = "failed" /\ cache' = cache
  BY DEF Fail
<1>2. CacheGiven'
  BY <1>1 DEF ProfileInv, CacheGiven
<1>3. QED
  BY <1>1, <1>2 DEF ProfileInv, KeyAsked, KeyCurrent, ContainerPossible, DecoratedAsked,
                    ProfileAsAsked, Cached

LEMMA CallKeeps ==
  ASSUME ProfileInv, NEW raw \in Specs, NEW s \in Settings,
         Hash(raw, s) \/ HashForRemote(raw, s) \/ Decorate(raw, s)
  PROVE  ProfileInv'
<1> DEFINE e == EnvSpec(raw)
<1>1. CASE Hash(raw, s)
  <2>1. CASE Begin(raw, s, "failed", <<>>)
    BY <2>1, BeginKeeps
  <2>2. CASE /\ ~(Unhashable(e, s) \/ (s.container /\ ~modern))
             /\ Begin(raw, s, "hashed", ProfileDir(e, s))
    <3>1. Set(s, "container") => modern
      BY <2>2 DEF Set
    <3>2. QED
      BY <2>2, <3>1, BeginKeeps
  <2>3. QED
    BY <1>1, <2>1, <2>2 DEF Hash
<1>2. CASE HashForRemote(raw, s)
  <2>1. CASE Begin(raw, s, "failed", <<>>)
    BY <2>1, BeginKeeps
  <2>2. CASE ~Unhashable(e, s) /\ Begin(raw, s, "remote", ProfileDir(e, s))
    BY <2>2, BeginKeeps
  <2>3. QED
    BY <1>2, <2>1, <2>2 DEF HashForRemote
<1>3. CASE Decorate(raw, s)
  BY <1>3, BeginKeeps DEF Decorate
<1>4. QED
  BY <1>1, <1>2, <1>3

LEMMA ProfileInvHolds == Spec => []ProfileInv
<1>1. Init => ProfileInv
  BY DEF Init, ProfileInv, KeyAsked, KeyCurrent, ContainerPossible, DecoratedAsked,
         CacheGiven, ProfileAsAsked, Cached
<1>2. ProfileInv /\ [Next]_vars => ProfileInv'
  BY CallKeeps, ReuseKeeps, RealizeKeeps, UncachedKeeps, FailKeeps, EditKeeps,
     UnchangedKeeps DEF Next
<1>3. QED
  BY <1>1, <1>2, PTL DEF Spec

\* ProfileAsAsked: a command runs in what its rule and the command line ask for,
\* for any declarations, files, pages and number of calls, because record_hash
\* tells apart whatever guix would be given; unless a file changed between the
\* hash and the realization.
THEOREM ProfileAsAskedHolds == Spec => []ProfileAsAsked
<1>1. ProfileInv => ProfileAsAsked
  BY DEF ProfileInv
<1>2. QED
  BY <1>1, ProfileInvHolds, PTL
-----------------------------------------------------------------------------
(* Induction over the numbers, and lists put one after the other *)

\* A set of numbers that has 0 and with each the next has all of them.
LEMMA NatSetInduction ==
  ASSUME NEW S, 0 \in S, \A n \in Nat : n \in S => n + 1 \in S
  PROVE  Nat \subseteq S
<1> DEFINE R == OpToRel(<, Nat)
<1> DEFINE T == Nat \ S
<1>1. SUFFICES ASSUME T # {} PROVE FALSE
  OBVIOUS
<1>2. IsWellFoundedOn(R, Nat)
  BY NatLessThanWellFounded
<1>3. T \subseteq Nat
  OBVIOUS
<1>4. PICK x \in T : \A y \in T : <<y, x>> \notin R
  <2> HIDE DEF R, T
  <2> QED
    BY <1>1, <1>2, <1>3, WFMin
<1>5. x # 0 /\ x - 1 \in Nat /\ x - 1 < x
  OBVIOUS
<1>6. x - 1 \in T
  OBVIOUS
<1>7. <<x - 1, x>> \in R
  BY <1>5, <1>6 DEF OpToRel
<1>8. QED
  BY <1>4, <1>6, <1>7

\* The same for the numbers from 1 to n.
LEMMA UpTo ==
  ASSUME NEW n \in Nat, NEW S, 1 \in S, \A m \in 1 .. n - 1 : m \in S => m + 1 \in S
  PROVE  1 .. n \subseteq S
<1> DEFINE T == {m \in Nat : m + 1 <= n => m + 1 \in S}
<1>1. 0 \in T
  OBVIOUS
<1>2. \A m \in Nat : m \in T => m + 1 \in T
  OBVIOUS
<1>3. Nat \subseteq T
  <2> HIDE DEF T
  <2> QED
    BY <1>1, <1>2, NatSetInduction
<1>4. SUFFICES ASSUME NEW m \in 1 .. n PROVE m \in S
  OBVIOUS
<1>5. m - 1 \in Nat /\ (m - 1) + 1 = m /\ m <= n
  OBVIOUS
<1>6. m - 1 \in T
  BY <1>3, <1>5
<1>7. QED
  BY <1>5, <1>6

\* FlattenSeq appends one list after the other; that its recursive function
\* exists is shown by constructing it up to each index.
LEMMA FlattenSteps ==
  ASSUME NEW E, NEW seqs \in Seq(Seq(E)), Len(seqs) # 0
  PROVE  \E f \in [1 .. Len(seqs) -> Seq(E)] :
           /\ FlattenSeq(seqs) = f[Len(seqs)] /\ f[1] = seqs[1]
           /\ \A i \in 1 .. Len(seqs) - 1 : f[i + 1] = f[i] \o seqs[i + 1]
<1> DEFINE n == Len(seqs)
<1> DEFINE Steps(f, m) ==
      f[1] = seqs[1] /\ \A i \in 1 .. m - 1 : f[i + 1] = f[i] \o seqs[i + 1]
<1> DEFINE S == {m \in 1 .. n : \E f \in [1 .. m -> Seq(E)] : Steps(f, m)}
<1>1. n \in Nat /\ n >= 1 /\ \A i \in 1 .. n : seqs[i] \in Seq(E)
  OBVIOUS
<1>2. 1 \in S
  <2> DEFINE g == [i \in 1 .. 1 |-> seqs[1]]
  <2>1. g \in [1 .. 1 -> Seq(E)] /\ Steps(g, 1)
    BY <1>1
  <2>2. 1 \in 1 .. n
    BY <1>1
  <2> HIDE DEF Steps, g
  <2>3. QED
    BY <2>1, <2>2
<1>3. ASSUME NEW m \in 1 .. n - 1, m \in S
      PROVE  m + 1 \in S
  <2>1. PICK f \in [1 .. m -> Seq(E)] : Steps(f, m)
    BY <1>3
  <2> DEFINE g == [i \in 1 .. m + 1 |-> IF i <= m THEN f[i] ELSE f[m] \o seqs[m + 1]]
  <2>2. m \in 1 .. m /\ m + 1 \in 1 .. n /\ 1 \in 1 .. m
    BY <1>1
  <2>3. f[m] \in Seq(E) /\ seqs[m + 1] \in Seq(E)
    BY <1>1, <2>2
  <2>4. f[m] \o seqs[m + 1] \in Seq(E)
    BY <2>3
  <2>5. g \in [1 .. m + 1 -> Seq(E)]
    <3>1. \A i \in 1 .. m + 1 : i <= m => i \in 1 .. m
      OBVIOUS
    <3>2. QED
      BY <2>4, <3>1
  <2>6. g[1] = seqs[1]
    BY <2>1, <2>2
  <2>7. ASSUME NEW i \in 1 .. m
        PROVE  g[i + 1] = g[i] \o seqs[i + 1]
    <3>1. CASE i = m
      <4>1. g[i] = f[m] /\ g[i + 1] = f[m] \o seqs[m + 1]
        BY <2>2, <3>1
      <4>2. QED
        BY <3>1, <4>1
    <3>2. CASE i # m
      <4>1. i \in 1 .. m - 1 /\ g[i] = f[i] /\ g[i + 1] = f[i + 1]
        BY <3>2
      <4>2. QED
        BY <2>1, <4>1
    <3>3. QED
      BY <3>1, <3>2
  <2>8. Steps(g, m + 1)
    <3>1. (m + 1) - 1 = m
      OBVIOUS
    <3> HIDE DEF g
    <3>2. QED
      BY <2>6, <2>7, <3>1
  <2> HIDE DEF Steps, g
  <2>9. QED
    BY <2>2, <2>5, <2>8
<1>4. n \in S
  <2> HIDE DEF S
  <2>1. \A m \in 1 .. n - 1 : m \in S => m + 1 \in S
    BY <1>3
  <2>2. n \in Nat /\ n \in 1 .. n
    BY <1>1
  <2> HIDE DEF n
  <2>3. 1 .. n \subseteq S
    BY <1>2, <2>1, <2>2, UpTo
  <2>4. QED
    BY <2>2, <2>3
<1>5. PICK h \in [1 .. n -> Seq(E)] : Steps(h, n)
  BY <1>4
<1> DEFINE Equation(f) == f = [i \in 1 .. n |-> IF i = 1 THEN seqs[i] ELSE f[i - 1] \o seqs[i]]
<1>6. Equation(h)
  <2>1. \A i \in 1 .. n : i # 1 => i - 1 \in 1 .. n - 1 /\ (i - 1) + 1 = i
    BY <1>1
  <2>2. \A i \in 1 .. n : h[i] = IF i = 1 THEN seqs[i] ELSE h[i - 1] \o seqs[i]
    BY <1>5, <2>1
  <2>3. h = [i \in 1 .. n |-> h[i]]
    OBVIOUS
  <2>4. QED
    BY <2>2, <2>3
<1> DEFINE flatten == CHOOSE f : Equation(f)
<1>7. Equation(flatten)
  <2> HIDE DEF Equation
  <2> QED
    BY <1>6
<1>8. FlattenSeq(seqs) = flatten[n]
  BY Zenon DEF FlattenSeq
<1> HIDE DEF flatten
<1>9. flatten = [i \in 1 .. n |-> flatten[i]] /\ \A i \in 1 .. n :
        flatten[i] = IF i = 1 THEN seqs[i] ELSE flatten[i - 1] \o seqs[i]
  BY <1>7
<1>10. flatten[1] = seqs[1] /\ \A i \in 1 .. n - 1 : flatten[i + 1] = flatten[i] \o seqs[i + 1]
  <2>1. 1 \in 1 .. n /\ \A i \in 1 .. n - 1 : i + 1 \in 1 .. n /\ i + 1 # 1 /\ (i + 1) - 1 = i
    BY <1>1
  <2>2. QED
    BY <1>9, <2>1
<1>11. flatten \in [1 .. n -> Seq(E)]
  <2> DEFINE T == {i \in 1 .. n : flatten[i] \in Seq(E)}
  <2>1. 1 \in T
    BY <1>1, <1>10
  <2>2. ASSUME NEW i \in 1 .. n - 1, i \in T
        PROVE  i + 1 \in T
    <3>1. i + 1 \in 1 .. n /\ flatten[i] \in Seq(E) /\ seqs[i + 1] \in Seq(E)
      BY <1>1, <2>2
    <3>2. flatten[i] \o seqs[i + 1] \in Seq(E)
      BY <3>1
    <3>3. QED
      BY <1>10, <3>1, <3>2
  <2>3. 1 .. n \subseteq T
    <3>1. n \in Nat /\ \A i \in 1 .. n - 1 : i \in T => i + 1 \in T
      BY <1>1, <2>2
    <3> HIDE DEF n, T
    <3>2. QED
      BY <2>1, <3>1, UpTo
  <2>4. \A i \in 1 .. n : flatten[i] \in Seq(E)
    BY <2>3
  <2>5. QED
    BY <1>9, <2>4
<1>12. QED
  BY <1>8, <1>10, <1>11

-----------------------------------------------------------------------------
(* The arguments of a script *)

\* A list of arguments tells slots, each a value of an item: it is one pair of a
\* flag and a value for each, those of an item in order.
Told(args, slots, flags, values) ==
  \E n \in Nat : \E place \in [slots -> 1 .. n] :
    /\ Len(args) = 2 * n
    /\ \A s \in slots : args[2 * place[s] - 1] = flags[s] /\ args[2 * place[s]] = values[s]
    /\ \A s, t \in slots : place[s] = place[t] => s = t
    /\ \A p \in 1 .. n : \E s \in slots : place[s] = p
    /\ \A s, t \in slots : s[1] = t[1] /\ s[2] < t[2] => place[s] < place[t]

\* Slots of one item come in order.
Precede(slots, others) ==
  \A s \in slots, t \in others : s[1] = t[1] => s[2] < t[2]

\* Two lists that tell their slots, one after the other.
LEMMA ToldTogether ==
  ASSUME NEW E, NEW a \in Seq(E), NEW b \in Seq(E), NEW flags, NEW values, NEW A, NEW B,
         \A s \in A \cup B : s[2] \in Nat,
         Told(a, A, flags, values), Told(b, B, flags, values), Precede(A, B)
  PROVE  Told(a \o b, A \cup B, flags, values)
<1>1a. PICK m \in Nat : \E f \in [A -> 1 .. m] :
        /\ Len(a) = 2 * m
        /\ \A s \in A : a[2 * f[s] - 1] = flags[s] /\ a[2 * f[s]] = values[s]
        /\ \A s, t \in A : f[s] = f[t] => s = t
        /\ \A p \in 1 .. m : \E s \in A : f[s] = p
        /\ \A s, t \in A : s[1] = t[1] /\ s[2] < t[2] => f[s] < f[t]
  BY DEF Told
<1>1. PICK f \in [A -> 1 .. m] :
        /\ Len(a) = 2 * m
        /\ \A s \in A : a[2 * f[s] - 1] = flags[s] /\ a[2 * f[s]] = values[s]
        /\ \A s, t \in A : f[s] = f[t] => s = t
        /\ \A p \in 1 .. m : \E s \in A : f[s] = p
        /\ \A s, t \in A : s[1] = t[1] /\ s[2] < t[2] => f[s] < f[t]
  BY <1>1a
<1>2a. PICK n \in Nat : \E g \in [B -> 1 .. n] :
        /\ Len(b) = 2 * n
        /\ \A s \in B : b[2 * g[s] - 1] = flags[s] /\ b[2 * g[s]] = values[s]
        /\ \A s, t \in B : g[s] = g[t] => s = t
        /\ \A p \in 1 .. n : \E s \in B : g[s] = p
        /\ \A s, t \in B : s[1] = t[1] /\ s[2] < t[2] => g[s] < g[t]
  BY DEF Told
<1>2. PICK g \in [B -> 1 .. n] :
        /\ Len(b) = 2 * n
        /\ \A s \in B : b[2 * g[s] - 1] = flags[s] /\ b[2 * g[s]] = values[s]
        /\ \A s, t \in B : g[s] = g[t] => s = t
        /\ \A p \in 1 .. n : \E s \in B : g[s] = p
        /\ \A s, t \in B : s[1] = t[1] /\ s[2] < t[2] => g[s] < g[t]
  BY <1>2a
<1> DEFINE place == [s \in A \cup B |-> IF s \in A THEN f[s] ELSE m + g[s]]
<1>3. \A s \in A : f[s] \in 1 .. m /\ place[s] = f[s]
  OBVIOUS
<1>4. \A s \in A, t \in B : s # t /\ ~(s[1] = t[1] /\ t[2] < s[2])
  BY DEF Precede
<1>5. \A s \in B : s \notin A /\ g[s] \in 1 .. n /\ place[s] = m + g[s]
  BY <1>4
<1>6. place \in [A \cup B -> 1 .. m + n]
  <2>1. \A s \in A \cup B : place[s] \in 1 .. m + n
    BY <1>3, <1>5
  <2>2. QED
    BY <2>1
<1>7. /\ Len(a \o b) = 2 * (m + n)
      /\ \A i \in 1 .. 2 * m : (a \o b)[i] = a[i]
      /\ \A i \in 1 .. 2 * n : (a \o b)[2 * m + i] = b[i]
  <2>1. Len(a) = 2 * m /\ Len(b) = 2 * n
    BY <1>1, <1>2
  <2>2. /\ Len(a \o b) = Len(a) + Len(b)
        /\ \A i \in 1 .. Len(a) + Len(b) :
             (a \o b)[i] = IF i <= Len(a) THEN a[i] ELSE b[i - Len(a)]
    BY ConcatProperties
  <2>3. ASSUME NEW i \in 1 .. 2 * n
        PROVE  (a \o b)[2 * m + i] = b[i]
    <3>1. /\ 2 * m + i \in 1 .. Len(a) + Len(b) /\ ~(2 * m + i <= Len(a))
          /\ (2 * m + i) - Len(a) = i
      BY <2>1
    <3>2. QED
      BY <2>2, <3>1
  <2>4. \A i \in 1 .. 2 * m : i \in 1 .. Len(a) + Len(b) /\ i <= Len(a)
    BY <2>1
  <2>5. Len(a \o b) = 2 * (m + n)
    BY <2>1, <2>2
  <2>6. QED
    BY <2>2, <2>3, <2>4, <2>5
<1> HIDE DEF place
<1>8. ASSUME NEW s \in A \cup B
      PROVE  (a \o b)[2 * place[s] - 1] = flags[s] /\ (a \o b)[2 * place[s]] = values[s]
  <2>1. CASE s \in A
    <3>1. 2 * f[s] - 1 \in 1 .. 2 * m /\ 2 * f[s] \in 1 .. 2 * m
      BY <1>3, <2>1
    <3>2. QED
      BY <1>1, <1>3, <1>7, <2>1, <3>1
  <2>2. CASE s \in B
    <3>1. /\ 2 * g[s] - 1 \in 1 .. 2 * n /\ 2 * g[s] \in 1 .. 2 * n
          /\ 2 * place[s] - 1 = 2 * m + (2 * g[s] - 1) /\ 2 * place[s] = 2 * m + 2 * g[s]
      BY <1>5, <2>2
    <3>2. /\ (a \o b)[2 * m + (2 * g[s] - 1)] = b[2 * g[s] - 1]
          /\ (a \o b)[2 * m + 2 * g[s]] = b[2 * g[s]]
      BY <1>7, <3>1
    <3>3. b[2 * g[s] - 1] = flags[s] /\ b[2 * g[s]] = values[s]
      BY <1>2, <2>2
    <3>4. QED
      BY <3>1, <3>2, <3>3
  <2>3. QED
    BY <2>1, <2>2
<1>9. \A s, t \in A \cup B : place[s] = place[t] => s = t
  BY <1>1, <1>2, <1>3, <1>5
<1>10. ASSUME NEW p \in 1 .. m + n
       PROVE  \E s \in A \cup B : place[s] = p
  <2>1. CASE p <= m
    BY <1>1, <1>3, <2>1
  <2>2. CASE p > m
    <3>1. p - m \in 1 .. n
      BY <2>2
    <3>2. PICK s \in B : g[s] = p - m
      BY <1>2, <3>1
    <3>3. place[s] = m + (p - m)
      BY <1>5, <3>2
    <3>4. s \in A \cup B /\ m + (p - m) = p
      OBVIOUS
    <3>5. QED
      BY <3>3, <3>4
  <2>3. QED
    BY <2>1, <2>2
<1>11. ASSUME NEW s \in A \cup B, NEW t \in A \cup B, s[1] = t[1], s[2] < t[2]
       PROVE  place[s] < place[t]
  <2>1. s[2] \in Nat /\ t[2] \in Nat
    OBVIOUS
  <2>2. CASE s \in A /\ t \in A
    BY <1>1, <1>3, <1>11, <2>2
  <2>3. CASE s \in B /\ t \in B
    BY <1>2, <1>5, <1>11, <2>3
  <2>4. CASE s \in A /\ t \in B
    BY <1>3, <1>5, <2>4
  <2>5. CASE s \in B /\ t \in A
    BY <1>4, <1>11, <2>5
  <2>6. QED
    BY <2>2, <2>3, <2>4, <2>5
<1>12. m + n \in Nat
  OBVIOUS
<1>13. Len(a \o b) = 2 * (m + n)
  BY <1>7
<1>14. \E p \in [A \cup B -> 1 .. m + n] :
         /\ Len(a \o b) = 2 * (m + n)
         /\ \A s \in A \cup B :
              (a \o b)[2 * p[s] - 1] = flags[s] /\ (a \o b)[2 * p[s]] = values[s]
         /\ \A s, t \in A \cup B : p[s] = p[t] => s = t
         /\ \A q \in 1 .. m + n : \E s \in A \cup B : p[s] = q
         /\ \A s, t \in A \cup B : s[1] = t[1] /\ s[2] < t[2] => p[s] < p[t]
  BY <1>6, <1>13, <1>8, <1>9, <1>10, <1>11, Zenon
<1>15. QED
  BY <1>12, <1>14 DEF Told

LEMMA ToldNothing ==
  ASSUME NEW E, NEW flags, NEW values
  PROVE  <<>> \in Seq(E) /\ Told(<<>>, {}, flags, values)
<1>1. <<>> \in Seq(E) /\ Len(<<>>) = 2 * 0 /\ 0 \in Nat /\ 1 .. 0 = {}
  OBVIOUS
<1>2. PICK f \in [{} -> 1 .. 0] : TRUE
  <2>1. [s \in {} |-> 0] \in [{} -> 1 .. 0]
    OBVIOUS
  <2>2. QED
    BY <2>1
<1> DEFINE a == <<>>
<1>3. Len(a) = 2 * 0
  BY <1>1
<1> HIDE DEF a
<1>4. Told(a, {}, flags, values)
  BY <1>1, <1>2, <1>3 DEF Told
<1>5. QED
  BY <1>1, <1>4 DEF a

LEMMA ToldOne ==
  ASSUME NEW E, NEW flags, NEW values, NEW s, flags[s] \in E, values[s] \in E,
         s[2] \in Nat
  PROVE  /\ <<flags[s], values[s]>> \in Seq(E)
         /\ Told(<<flags[s], values[s]>>, {s}, flags, values)
<1> DEFINE a == <<flags[s], values[s]>>
<1> DEFINE f == [t \in {s} |-> 1]
<1>1. /\ a \in Seq(E) /\ Len(a) = 2 * 1 /\ 1 \in Nat
      /\ a[2 * 1 - 1] = flags[s] /\ a[2 * 1] = values[s]
  OBVIOUS
<1>2. f \in [{s} -> 1 .. 1] /\ f[s] = 1
  OBVIOUS
<1> HIDE DEF a, f
<1>3. Told(a, {s}, flags, values)
  BY <1>1, <1>2 DEF Told
<1>4. QED
  BY <1>1, <1>3 DEF a

\* Any number of them.
LEMMA ToldInTurn ==
  ASSUME NEW E, NEW seqs \in Seq(Seq(E)), NEW slots, NEW flags, NEW values,
         \A i \in 1 .. Len(seqs) : Told(seqs[i], slots[i], flags, values),
         \A i \in 1 .. Len(seqs) : \A s \in slots[i] : s[2] \in Nat,
         \A i, j \in 1 .. Len(seqs) : i < j => Precede(slots[i], slots[j])
  PROVE  /\ FlattenSeq(seqs) \in Seq(E)
         /\ Told(FlattenSeq(seqs), UNION {slots[i] : i \in 1 .. Len(seqs)}, flags, values)
<1> DEFINE Upto(m) == UNION {slots[i] : i \in 1 .. m}
<1>0. Len(seqs) \in Nat
  OBVIOUS
<1>1. CASE Len(seqs) = 0
  <2>1. seqs = <<>> /\ FlattenSeq(seqs) = seqs
    BY <1>1 DEF FlattenSeq
  <2>2. Upto(Len(seqs)) = {}
    BY <1>1
  <2> HIDE DEF Upto
  <2>3. FlattenSeq(seqs) \in Seq(E) /\ Told(FlattenSeq(seqs), Upto(Len(seqs)), flags, values)
    BY <2>1, <2>2, ToldNothing
  <2>4. QED
    BY <2>3 DEF Upto
<1>2. CASE Len(seqs) # 0
  <2>1. PICK f \in [1 .. Len(seqs) -> Seq(E)] :
          /\ FlattenSeq(seqs) = f[Len(seqs)] /\ f[1] = seqs[1]
          /\ \A i \in 1 .. Len(seqs) - 1 : f[i + 1] = f[i] \o seqs[i + 1]
    BY <1>2, FlattenSteps
  <2> DEFINE S == {m \in 1 .. Len(seqs) : Told(f[m], Upto(m), flags, values)}
  <2>2. 1 \in 1 .. Len(seqs) /\ Len(seqs) \in 1 .. Len(seqs)
    BY <1>0, <1>2
  <2>3. 1 \in S
    <3>1. Upto(1) = slots[1]
      OBVIOUS
    <3> HIDE DEF Upto
    <3>2. QED
      BY <2>1, <2>2, <3>1
  <2>4. ASSUME NEW m \in 1 .. Len(seqs) - 1, m \in S
        PROVE  m + 1 \in S
    <3>1. m \in 1 .. Len(seqs) /\ m + 1 \in 1 .. Len(seqs) /\ m \in Nat
      BY <1>0
    <3>2. Upto(m + 1) = Upto(m) \cup slots[m + 1]
      <4>1. 1 .. m + 1 = 1 .. m \cup {m + 1}
        BY <3>1
      <4>2. QED
        BY <4>1
    <3>3. Precede(Upto(m), slots[m + 1])
      <4>1. ASSUME NEW s \in Upto(m), NEW t \in slots[m + 1], s[1] = t[1]
            PROVE  s[2] < t[2]
        <5>1. PICK i \in 1 .. m : s \in slots[i]
          OBVIOUS
        <5>2. i \in 1 .. Len(seqs) /\ i < m + 1
          BY <3>1
        <5>3. Precede(slots[i], slots[m + 1])
          BY <3>1, <5>2
        <5>4. QED
          BY <4>1, <5>1, <5>3 DEF Precede
      <4>2. QED
        BY <4>1 DEF Precede
    <3>4. \A s \in Upto(m) \cup slots[m + 1] : s[2] \in Nat
      <4>1. \A i \in 1 .. m : i \in 1 .. Len(seqs)
        BY <3>1
      <4>2. QED
        BY <3>1, <4>1
    <3>5. Told(f[m], Upto(m), flags, values) /\ Told(seqs[m + 1], slots[m + 1], flags, values)
      BY <2>4, <3>1
    <3>6. f[m] \in Seq(E) /\ seqs[m + 1] \in Seq(E)
      BY <3>1
    <3> HIDE DEF Upto
    <3>7. Told(f[m] \o seqs[m + 1], Upto(m) \cup slots[m + 1], flags, values)
      BY <3>3, <3>4, <3>5, <3>6, ToldTogether
    <3>8. QED
      BY <2>1, <3>1, <3>2, <3>7
  <2>5. 1 .. Len(seqs) \subseteq S
    <3> HIDE DEF S
    <3>1. QED
      BY <1>0, <2>3, <2>4, UpTo
  <2>6. Told(f[Len(seqs)], Upto(Len(seqs)), flags, values) /\ f[Len(seqs)] \in Seq(E)
    BY <2>2, <2>5
  <2>7. QED
    BY <2>1, <2>6
<1>3. QED
  BY <1>1, <1>2

\* What the assumption calls a list is a sequence.
LEMMA ListSequence ==
  ASSUME NEW s, IsList(s)
  PROVE  DOMAIN s = 1 .. Len(s) /\ Len(s) \in Nat /\ \E S : s \in Seq(S)
<1>1. DOMAIN s = 1 .. Len(s) /\ Len(s) \in Nat
  BY DEF IsList
<1> DEFINE S == {s[i] : i \in 1 .. Len(s)}
<1>2. s \in [1 .. Len(s) -> S]
  BY DEF IsList
<1>3. s \in Seq(S)
  <2> HIDE DEF S
  <2> QED
    BY <1>1, <1>2
<1>4. QED
  BY <1>1, <1>3

\* _extend_namespace, for one item that is not excluded.
LEMMA ItemTold ==
  ASSUME NEW E, NEW flags, NEW values, NEW namespace, NEW item, NEW x,
         IsList(Values(item)),
         \A k \in DOMAIN Values(item) :
           /\ flags[<<x, k>>] = [flag |-> NamespaceFlag(namespace, item.words)]
           /\ values[<<x, k>>] = [value |-> Values(item)[k]]
           /\ flags[<<x, k>>] \in E /\ values[<<x, k>>] \in E,
         ~Excluded(namespace, item)
  PROVE  /\ ItemArgs(namespace, item) \in Seq(E)
         /\ Told(ItemArgs(namespace, item), {x} \X DOMAIN Values(item), flags, values)
<1> DEFINE n == Len(Values(item))
<1> DEFINE slots == [i \in 1 .. n |-> {<<x, i>>}]
<1> DEFINE seqs == [i \in 1 .. n |-> <<flags[<<x, i>>], values[<<x, i>>]>>]
<1>1. DOMAIN Values(item) = 1 .. n /\ n \in Nat
  BY ListSequence
<1>2. ItemArgs(namespace, item) = FlattenSeq(seqs)
  <2>1. \A i \in 1 .. n : <<[flag |-> NamespaceFlag(namespace, item.words)],
                           [value |-> Values(item)[i]]>>
                         = <<flags[<<x, i>>], values[<<x, i>>]>>
    BY <1>1
  <2>2. [i \in DOMAIN Values(item) |->
          <<[flag |-> NamespaceFlag(namespace, item.words)], [value |-> Values(item)[i]]>>]
        = seqs
    BY <1>1, <2>1
  <2> HIDE DEF seqs
  <2>3. QED
    BY <2>2 DEF ItemArgs
<1>3. \A i \in 1 .. n : /\ seqs[i] \in Seq(E) /\ seqs[i] = <<flags[<<x, i>>], values[<<x, i>>]>>
                        /\ Told(seqs[i], {<<x, i>>}, flags, values)
  <2>1. SUFFICES ASSUME NEW i \in 1 .. n
                 PROVE  /\ seqs[i] \in Seq(E)
                        /\ seqs[i] = <<flags[<<x, i>>], values[<<x, i>>]>>
                        /\ Told(seqs[i], {<<x, i>>}, flags, values)
    OBVIOUS
  <2>2. seqs[i] = <<flags[<<x, i>>], values[<<x, i>>]>>
    OBVIOUS
  <2>3. flags[<<x, i>>] \in E /\ values[<<x, i>>] \in E /\ <<x, i>>[2] \in Nat
    <3>1. i \in DOMAIN Values(item) /\ i \in Nat
      BY <1>1
    <3>2. flags[<<x, i>>] \in E /\ values[<<x, i>>] \in E
      BY <3>1
    <3>3. QED
      BY <3>1, <3>2
  <2> HIDE DEF seqs
  <2>4. /\ <<flags[<<x, i>>], values[<<x, i>>]>> \in Seq(E)
        /\ Told(<<flags[<<x, i>>], values[<<x, i>>]>>, {<<x, i>>}, flags, values)
    BY <2>3, ToldOne
  <2>5. QED
    BY <2>2, <2>4
<1>4. seqs \in Seq(Seq(E)) /\ Len(seqs) = n
  <2>1. seqs \in [1 .. n -> Seq(E)]
    BY <1>3
  <2> HIDE DEF seqs, n
  <2>2. QED
    BY <1>1, <2>1
<1>5. \A i \in 1 .. n : slots[i] = {<<x, i>>}
  OBVIOUS
<1>6. UNION {slots[i] : i \in 1 .. n} = {x} \X DOMAIN Values(item)
  BY <1>1, <1>5
<1> HIDE DEF seqs, slots, n
<1>7. /\ \A i \in 1 .. Len(seqs) : Told(seqs[i], slots[i], flags, values)
      /\ \A i \in 1 .. Len(seqs) : \A s \in slots[i] : s[2] \in Nat
      /\ \A i, j \in 1 .. Len(seqs) : i < j => Precede(slots[i], slots[j])
  <2>1. \A i \in 1 .. Len(seqs) : Told(seqs[i], slots[i], flags, values)
    BY <1>3, <1>4, <1>5
  <2>2. \A i \in 1 .. n : i \in Nat
    BY <1>1
  <2>3. QED
    BY <1>4, <1>5, <2>1, <2>2 DEF Precede
<1>8. /\ FlattenSeq(seqs) \in Seq(E)
      /\ Told(FlattenSeq(seqs), UNION {slots[i] : i \in 1 .. Len(seqs)}, flags, values)
  BY <1>4, <1>7, ToldInTurn
<1>9. QED
  BY <1>2, <1>4, <1>6, <1>8

\* A slot is an item and the place of one of its values.
ItemSlots(rule, x) == IF x \in Own(rule) THEN {x} \X DOMAIN Values(Item(rule, x)) ELSE {}
NamespaceSlots(rule, n) == UNION {ItemSlots(rule, <<n, i>>) : i \in 1 .. Len(rule[n])}
Slots(rule) == UNION {{x} \X DOMAIN Values(Item(rule, x)) : x \in Own(rule)}

\* What each slot of a rule is told as.
Names(rule, flags, values, E) ==
  \A x \in Own(rule) : \A k \in DOMAIN Values(Item(rule, x)) :
    /\ flags[<<x, k>>] = [flag |-> DocumentedFlag(rule, x)]
    /\ values[<<x, k>>] = [value |-> Values(Item(rule, x))[k]]
    /\ flags[<<x, k>>] \in E /\ values[<<x, k>>] \in E

LEMMA SlotPlaces ==
  ASSUME NEW rule, WellFormed(<<>>, <<>>, rule), NEW x \in Items(rule), NEW s \in ItemSlots(rule, x)
  PROVE  s[1] = x /\ s[2] \in Nat
<1>1. PICK n \in ToSet(Namespaces) : x \in {n} \X DOMAIN rule[n]
  BY DEF Items
<1>2. PICK i \in DOMAIN rule[n] : x = <<n, i>>
  BY <1>1
<1>3. IsList(Values(rule[n][i]))
  BY DEF WellFormed
<1>4. Item(rule, x) = rule[n][i]
  BY <1>2 DEF Item
<1>5. DOMAIN Values(Item(rule, x)) = 1 .. Len(Values(Item(rule, x)))
  BY <1>3, <1>4, ListSequence
<1>6. s \in {x} \X DOMAIN Values(Item(rule, x))
  BY DEF ItemSlots
<1>7. Len(Values(Item(rule, x))) \in Nat
  BY <1>3, <1>4, ListSequence
<1>8. QED
  BY <1>5, <1>6, <1>7

\* One namespace, then all of them.
LEMMA NamespaceTold ==
  ASSUME NEW E, NEW flags, NEW values, NEW rule, NEW n \in ToSet(Namespaces),
         WellFormed(<<>>, <<>>, rule), Names(rule, flags, values, E)
  PROVE  /\ NamespaceArgs(n, rule[n]) \in Seq(E)
         /\ Told(NamespaceArgs(n, rule[n]), NamespaceSlots(rule, n), flags, values)
<1> DEFINE m == Len(rule[n])
<1> DEFINE slots == [i \in 1 .. m |-> ItemSlots(rule, <<n, i>>)]
<1> DEFINE seqs == [i \in 1 .. m |-> ItemArgs(n, rule[n][i])]
<1>1. /\ DOMAIN rule[n] = 1 .. m /\ m \in Nat
      /\ \A i \in 1 .. m : IsList(Values(rule[n][i]))
  <2>1. IsList(rule[n]) /\ \A i \in DOMAIN rule[n] : IsList(Values(rule[n][i]))
    BY DEF WellFormed
  <2>2. QED
    BY <2>1, ListSequence
<1>2. ASSUME NEW i \in 1 .. m
      PROVE  /\ <<n, i>> \in Items(rule) /\ Item(rule, <<n, i>>) = rule[n][i]
             /\ DocumentedFlag(rule, <<n, i>>) = NamespaceFlag(n, rule[n][i].words)
             /\ <<n, i>> \in Own(rule) <=> ~Excluded(n, rule[n][i])
  <2>1. <<n, i>> \in Items(rule)
    BY <1>1 DEF Items
  <2>2. Item(rule, <<n, i>>) = rule[n][i]
    BY DEF Item
  <2>3. DocumentedFlag(rule, <<n, i>>) = NamespaceFlag(n, rule[n][i].words)
    BY <2>2 DEF DocumentedFlag, NamespaceFlag
  <2>4. <<n, i>> \in Own(rule) <=>
          (DocumentedFlag(rule, <<n, i>>) = <<"script">> => n # "input")
    BY <2>1 DEF Own
  <2>5. n = "input" => NamespaceFlag(n, rule[n][i].words) = rule[n][i].words
    BY DEF NamespaceFlag
  <2>6. QED
    BY <2>1, <2>2, <2>3, <2>4, <2>5 DEF Excluded
<1>3. ASSUME NEW i \in 1 .. m
      PROVE  /\ ItemArgs(n, rule[n][i]) \in Seq(E)
             /\ Told(ItemArgs(n, rule[n][i]), ItemSlots(rule, <<n, i>>), flags, values)
  <2>1. CASE Excluded(n, rule[n][i])
    <3>1. ItemArgs(n, rule[n][i]) = <<>> /\ ItemSlots(rule, <<n, i>>) = {}
      BY <1>2, <2>1 DEF ItemArgs, ItemSlots
    <3>2. QED
      BY <3>1, ToldNothing
  <2>2. CASE ~Excluded(n, rule[n][i])
    <3> DEFINE x == <<n, i>>
    <3> DEFINE item == rule[n][i]
    <3>1. x \in Own(rule) /\ Item(rule, x) = item /\ IsList(Values(item))
      BY <1>1, <1>2, <2>2
    <3>2. ItemSlots(rule, x) = {x} \X DOMAIN Values(item)
      BY <3>1 DEF ItemSlots
    <3>3. DocumentedFlag(rule, x) = NamespaceFlag(n, item.words)
      BY <1>2
    <3>4. ~Excluded(n, item)
      BY <2>2
    <3> HIDE DEF x, item
    <3>5. \A k \in DOMAIN Values(item) :
            /\ flags[<<x, k>>] = [flag |-> NamespaceFlag(n, item.words)]
            /\ values[<<x, k>>] = [value |-> Values(item)[k]]
            /\ flags[<<x, k>>] \in E /\ values[<<x, k>>] \in E
      BY <3>1, <3>3 DEF Names
    <3>6. /\ ItemArgs(n, item) \in Seq(E)
          /\ Told(ItemArgs(n, item), {x} \X DOMAIN Values(item), flags, values)
      BY <3>1, <3>4, <3>5, ItemTold
    <3>7. QED
      BY <3>2, <3>6 DEF x, item
  <2>3. QED
    BY <2>1, <2>2
<1>4. NamespaceArgs(n, rule[n]) = FlattenSeq(seqs)
  BY <1>1 DEF NamespaceArgs
<1>5. seqs \in Seq(Seq(E)) /\ Len(seqs) = m
  <2>1. seqs \in [1 .. m -> Seq(E)]
    BY <1>3
  <2> HIDE DEF seqs, m
  <2>2. QED
    BY <1>1, <2>1
<1>6. \A i \in 1 .. m : seqs[i] = ItemArgs(n, rule[n][i]) /\ slots[i] = ItemSlots(rule, <<n, i>>)
  OBVIOUS
<1>7. UNION {slots[i] : i \in 1 .. m} = NamespaceSlots(rule, n)
  BY <1>6 DEF NamespaceSlots
<1>8. ASSUME NEW i \in 1 .. m, NEW s \in slots[i]
      PROVE  s[1] = <<n, i>> /\ s[2] \in Nat
  <2>1. s \in ItemSlots(rule, <<n, i>>)
    BY <1>6
  <2>2. QED
    BY <1>2, <2>1, SlotPlaces
<1> HIDE DEF seqs, slots, m
<1>9. /\ \A i \in 1 .. Len(seqs) : Told(seqs[i], slots[i], flags, values)
      /\ \A i \in 1 .. Len(seqs) : \A s \in slots[i] : s[2] \in Nat
      /\ \A i, j \in 1 .. Len(seqs) : i < j => Precede(slots[i], slots[j])
  <2>1. \A i \in 1 .. Len(seqs) : Told(seqs[i], slots[i], flags, values)
    BY <1>3, <1>5, <1>6
  <2>2. ASSUME NEW i \in 1 .. m, NEW j \in 1 .. m, i < j
        PROVE  Precede(slots[i], slots[j])
    <3>1. i # j
      BY <1>1, <2>2
    <3>2. \A s \in slots[i], t \in slots[j] : s[1] = <<n, i>> /\ t[1] = <<n, j>>
      BY <1>8
    <3>3. QED
      BY <3>1, <3>2 DEF Precede
  <2>3. QED
    BY <1>5, <1>8, <2>1, <2>2
<1>10. /\ FlattenSeq(seqs) \in Seq(E)
       /\ Told(FlattenSeq(seqs), UNION {slots[i] : i \in 1 .. Len(seqs)}, flags, values)
  BY <1>5, <1>9, ToldInTurn
<1>11. QED
  BY <1>4, <1>5, <1>7, <1>10

\* The arguments after the command.
RuleArgs(rule) ==
  FlattenSeq([n \in DOMAIN Namespaces |-> NamespaceArgs(Namespaces[n], rule[Namespaces[n]])])

LEMMA RuleTold ==
  ASSUME NEW E, NEW flags, NEW values, NEW rule,
         WellFormed(<<>>, <<>>, rule), Names(rule, flags, values, E)
  PROVE  RuleArgs(rule) \in Seq(E) /\ Told(RuleArgs(rule), Slots(rule), flags, values)
<1> DEFINE slots == [q \in 1 .. 4 |-> NamespaceSlots(rule, Namespaces[q])]
<1> DEFINE seqs == [q \in 1 .. 4 |-> NamespaceArgs(Namespaces[q], rule[Namespaces[q]])]
<1>1. /\ DOMAIN Namespaces = 1 .. 4 /\ ToSet(Namespaces) = {Namespaces[q] : q \in 1 .. 4}
      /\ \A q, r \in 1 .. 4 : Namespaces[q] = Namespaces[r] => q = r
  BY DEF Namespaces, ToSet
<1>2. \A q \in 1 .. 4 : Namespaces[q] \in ToSet(Namespaces)
  BY <1>1
<1>3. \A q \in 1 .. 4 :
        /\ NamespaceArgs(Namespaces[q], rule[Namespaces[q]]) \in Seq(E)
        /\ Told(NamespaceArgs(Namespaces[q], rule[Namespaces[q]]),
                NamespaceSlots(rule, Namespaces[q]), flags, values)
  BY <1>2, NamespaceTold
<1>4. RuleArgs(rule) = FlattenSeq(seqs)
  BY <1>1 DEF RuleArgs
<1>5. seqs \in Seq(Seq(E)) /\ Len(seqs) = 4
  <2>1. seqs \in [1 .. 4 -> Seq(E)] /\ 4 \in Nat
    BY <1>3
  <2> HIDE DEF seqs
  <2>2. QED
    BY <2>1, FunctionSequence
<1>6. \A q \in 1 .. 4 : /\ seqs[q] = NamespaceArgs(Namespaces[q], rule[Namespaces[q]])
                        /\ slots[q] = NamespaceSlots(rule, Namespaces[q])
  OBVIOUS
<1> HIDE DEF seqs, slots
<1>7. ASSUME NEW q \in 1 .. 4, NEW s \in slots[q]
      PROVE  s[1][1] = Namespaces[q] /\ s[2] \in Nat
  <2> DEFINE n == Namespaces[q]
  <2>1. n \in ToSet(Namespaces) /\ s \in NamespaceSlots(rule, n)
    BY <1>2, <1>6
  <2>2. DOMAIN rule[n] = 1 .. Len(rule[n])
    BY <2>1, ListSequence DEF WellFormed
  <2>3. PICK i \in 1 .. Len(rule[n]) : s \in ItemSlots(rule, <<n, i>>)
    BY <2>1 DEF NamespaceSlots
  <2>4. <<n, i>> \in Items(rule)
    BY <2>1, <2>2 DEF Items
  <2>5. s[1] = <<n, i>> /\ s[2] \in Nat
    BY <2>3, <2>4, SlotPlaces
  <2>6. QED
    BY <2>5
<1>8. UNION {slots[q] : q \in 1 .. 4} = Slots(rule)
  <2>1. ASSUME NEW s \in UNION {slots[q] : q \in 1 .. 4}
        PROVE  s \in Slots(rule)
    <3>1. PICK q \in 1 .. 4 : s \in NamespaceSlots(rule, Namespaces[q])
      BY <1>6
    <3>2. PICK i \in 1 .. Len(rule[Namespaces[q]]) : s \in ItemSlots(rule, <<Namespaces[q], i>>)
      BY <3>1 DEF NamespaceSlots
    <3>3. QED
      BY <3>2 DEF ItemSlots, Slots
  <2>2. ASSUME NEW s \in Slots(rule)
        PROVE  s \in UNION {slots[q] : q \in 1 .. 4}
    <3>1. PICK x \in Own(rule) : s \in {x} \X DOMAIN Values(Item(rule, x))
      BY DEF Slots
    <3>2. PICK n \in ToSet(Namespaces) : x \in {n} \X DOMAIN rule[n]
      BY DEF Own, Items
    <3>3. PICK i \in DOMAIN rule[n] : x = <<n, i>>
      BY <3>2
    <3>4. PICK q \in 1 .. 4 : n = Namespaces[q]
      BY <1>1
    <3>5. DOMAIN rule[n] = 1 .. Len(rule[n])
      BY ListSequence DEF WellFormed
    <3>6. s \in ItemSlots(rule, <<n, i>>)
      BY <3>1, <3>3 DEF ItemSlots
    <3>7. s \in NamespaceSlots(rule, n)
      BY <3>5, <3>6 DEF NamespaceSlots
    <3>8. s \in slots[q]
      BY <1>6, <3>4, <3>7
    <3>9. QED
      BY <3>8
  <2>3. QED
    BY <2>1, <2>2
<1>9. /\ \A q \in 1 .. Len(seqs) : Told(seqs[q], slots[q], flags, values)
      /\ \A q \in 1 .. Len(seqs) : \A s \in slots[q] : s[2] \in Nat
      /\ \A q, r \in 1 .. Len(seqs) : q < r => Precede(slots[q], slots[r])
  <2>1. \A q \in 1 .. Len(seqs) : Told(seqs[q], slots[q], flags, values)
    BY <1>3, <1>5, <1>6
  <2>2. ASSUME NEW q \in 1 .. 4, NEW r \in 1 .. 4, q < r
        PROVE  Precede(slots[q], slots[r])
    <3>1. Namespaces[q] # Namespaces[r]
      BY <1>1, <2>2
    <3>2. \A s \in slots[q], t \in slots[r] : s[1] # t[1]
      BY <1>7, <3>1
    <3>3. QED
      BY <3>2 DEF Precede
  <2>3. QED
    BY <1>5, <1>7, <2>1, <2>2
<1>10. /\ FlattenSeq(seqs) \in Seq(E)
       /\ Told(FlattenSeq(seqs), UNION {slots[q] : q \in 1 .. Len(seqs)}, flags, values)
  BY <1>5, <1>9, ToldInTurn
<1>11. QED
  BY <1>4, <1>5, <1>8, <1>10

\* What a list of pairs for all slots says to the script.
LEMMA ToldIsCollected ==
  ASSUME NEW rule, WellFormed(<<>>, <<>>, rule), NEW E, NEW flags, NEW values,
         Names(rule, flags, values, E),
         NEW args, Told(args, Slots(rule), flags, values)
  PROVE  /\ \A x \in Own(rule) :
              (\A y \in Own(rule) \ {x} : DocumentedFlag(rule, y) # DocumentedFlag(rule, x)) =>
                Collects(args, DocumentedFlag(rule, x), Values(Item(rule, x)))
         /\ \A p \in 1 .. (Len(args) \div 2) :
              \E x \in Own(rule) : args[2 * p - 1] = [flag |-> DocumentedFlag(rule, x)]
         /\ Len(args) = 2 * Cardinality(Slots(rule))
<1>1a. PICK n \in Nat : \E place \in [Slots(rule) -> 1 .. n] :
    /\ Len(args) = 2 * n
    /\ \A s \in Slots(rule) : args[2 * place[s] - 1] = flags[s] /\ args[2 * place[s]] = values[s]
    /\ \A s, t \in Slots(rule) : place[s] = place[t] => s = t
    /\ \A p \in 1 .. n : \E s \in Slots(rule) : place[s] = p
    /\ \A s, t \in Slots(rule) : s[1] = t[1] /\ s[2] < t[2] => place[s] < place[t]
  BY DEF Told
<1>1. PICK place \in [Slots(rule) -> 1 .. n] :
    /\ Len(args) = 2 * n
    /\ \A s \in Slots(rule) : args[2 * place[s] - 1] = flags[s] /\ args[2 * place[s]] = values[s]
    /\ \A s, t \in Slots(rule) : place[s] = place[t] => s = t
    /\ \A p \in 1 .. n : \E s \in Slots(rule) : place[s] = p
    /\ \A s, t \in Slots(rule) : s[1] = t[1] /\ s[2] < t[2] => place[s] < place[t]
  BY <1>1a
<1>2. Len(args) \div 2 = n
  BY <1>1
<1>3. \A s \in Slots(rule) :
        \E x \in Own(rule) : \E k \in DOMAIN Values(Item(rule, x)) : s = <<x, k>>
  BY DEF Slots
<1>4. \A x \in Own(rule) : \A k \in DOMAIN Values(Item(rule, x)) : <<x, k>> \in Slots(rule)
  BY DEF Slots
<1>5. ASSUME NEW p \in 1 .. n
      PROVE  \E x \in Own(rule) : \E k \in DOMAIN Values(Item(rule, x)) :
               place[<<x, k>>] = p /\ args[2 * p - 1] = [flag |-> DocumentedFlag(rule, x)]
  <2>1. PICK s \in Slots(rule) : place[s] = p
    BY <1>1
  <2>2a. PICK x \in Own(rule) : \E k \in DOMAIN Values(Item(rule, x)) : s = <<x, k>>
    BY <1>3
  <2>2. PICK k \in DOMAIN Values(Item(rule, x)) : s = <<x, k>>
    BY <2>2a
  <2>3. args[2 * p - 1] = flags[s]
    BY <1>1, <2>1
  <2>4. flags[s] = [flag |-> DocumentedFlag(rule, x)]
    BY <2>2 DEF Names
  <2>5. QED
    BY <2>1, <2>2, <2>3, <2>4
<1>6. Len(args) = 2 * Cardinality(Slots(rule))
  <2>1. place \in Bijection(Slots(rule), 1 .. n)
    BY <1>1 DEF Bijection, Injection, Surjection, IsInjective
  <2>2. ExistsBijection(1 .. n, Slots(rule))
    BY <2>1, Fun_ExistsBijSymmetric DEF ExistsBijection
  <2>3. IsFiniteSet(1 .. n) /\ Cardinality(1 .. n) = n
    BY FS_Interval
  <2>4. Cardinality(Slots(rule)) = n
    BY <2>2, <2>3, FS_Bijection
  <2>5. QED
    BY <1>1, <2>4
<1>7. ASSUME NEW x \in Own(rule),
             \A y \in Own(rule) \ {x} : DocumentedFlag(rule, y) # DocumentedFlag(rule, x)
      PROVE  Collects(args, DocumentedFlag(rule, x), Values(Item(rule, x)))
  <2> DEFINE list == Values(Item(rule, x))
  <2> DEFINE flag == DocumentedFlag(rule, x)
  <2> DEFINE f == [k \in DOMAIN list |-> place[<<x, k>>]]
  <2>1. DOMAIN list = 1 .. Len(list) /\ Len(list) \in Nat
    <3>1. PICK m \in ToSet(Namespaces) : x \in {m} \X DOMAIN rule[m]
      BY DEF Own, Items
    <3>2. PICK i \in DOMAIN rule[m] : x = <<m, i>>
      BY <3>1
    <3>3. IsList(Values(rule[m][i])) /\ Item(rule, x) = rule[m][i]
      BY <3>2 DEF WellFormed, Item
    <3>4. QED
      BY <3>3, ListSequence
  <2>2. \A k \in DOMAIN list : <<x, k>> \in Slots(rule) /\ f[k] = place[<<x, k>>]
    BY <1>4
  <2>3. f \in [DOMAIN list -> 1 .. n]
    BY <2>2
  <2>4. ASSUME NEW k \in DOMAIN list
        PROVE  /\ args[2 * f[k] - 1] = [flag |-> flag]
               /\ args[2 * f[k]] = [value |-> list[k]]
    <3>1. /\ flags[<<x, k>>] = [flag |-> flag]
          /\ values[<<x, k>>] = [value |-> list[k]]
      BY DEF Names
    <3> DEFINE s == <<x, k>>
    <3>2. s \in Slots(rule) /\ f[k] = place[s]
      BY <2>2
    <3> HIDE DEF f, s
    <3>3. args[2 * f[k] - 1] = flags[s] /\ args[2 * f[k]] = values[s]
      BY <1>1, <3>2
    <3>4. QED
      BY <3>1, <3>3 DEF s
  <2>5. ASSUME NEW i \in DOMAIN list, NEW j \in DOMAIN list, i < j
        PROVE  f[i] < f[j]
    <3>1. <<x, i>>[1] = <<x, j>>[1] /\ <<x, i>>[2] < <<x, j>>[2]
      BY <2>5
    <3>2. QED
      BY <1>1, <2>2, <3>1
  <2>6. ASSUME NEW p \in 1 .. n, args[2 * p - 1] = [flag |-> flag]
        PROVE  \E i \in DOMAIN list : f[i] = p
    <3>1a. PICK y \in Own(rule) : \E k \in DOMAIN Values(Item(rule, y)) :
             place[<<y, k>>] = p /\ args[2 * p - 1] = [flag |-> DocumentedFlag(rule, y)]
      BY <1>5
    <3>1. PICK k \in DOMAIN Values(Item(rule, y)) :
            place[<<y, k>>] = p /\ args[2 * p - 1] = [flag |-> DocumentedFlag(rule, y)]
      BY <3>1a
    <3>2. DocumentedFlag(rule, y) = flag
      <4> HIDE DEF flag
      <4> QED
        BY <2>6, <3>1
    <3>3. y = x
      BY <1>7, <3>2
    <3>4. QED
      BY <2>2, <3>1, <3>3
  <2> HIDE DEF f, list, flag
  <2>7. \A p \in 1 .. n : args[2 * p - 1] = [flag |-> flag] <=> \E i \in DOMAIN list : f[i] = p
    BY <2>4, <2>6
  <2>8. Collects(args, flag, list)
    BY <1>2, <2>3, <2>4, <2>5, <2>7 DEF Collects
  <2>9. QED
    BY <2>8 DEF flag, list
<1>8. QED
  BY <1>2, <1>5, <1>6, <1>7

LEMMA SequenceAmong ==
  ASSUME NEW S, NEW s \in Seq(S), NEW U, S \subseteq U
  PROVE  s \in Seq(U)
<1>1. Len(s) \in Nat /\ s \in [1 .. Len(s) -> S]
  OBVIOUS
<1>2. s \in [1 .. Len(s) -> U]
  BY <1>1
<1>3. QED
  BY <1>1, <1>2, FunctionSequence

\* What follows a prefix.
LEMMA AfterPrefix ==
  ASSUME NEW U, NEW a \in Seq(U), NEW b \in Seq(U)
  PROVE  IsPrefix(a, a \o b) /\ SubSeq(a \o b, Len(a) + 1, Len(a \o b)) = b
<1> DEFINE c == a \o b
<1>1. /\ c \in Seq(U) /\ Len(c) = Len(a) + Len(b)
      /\ \A i \in 1 .. Len(a) + Len(b) : c[i] = IF i <= Len(a) THEN a[i] ELSE b[i - Len(a)]
  BY ConcatProperties
<1>2. Len(a) \in Nat /\ Len(b) \in Nat
  OBVIOUS
<1> HIDE DEF c
<1>3. SubSeq(a, 1, Len(a)) = a /\ SubSeq(c, 1, Len(a)) = a
  <2>1. SubSeq(a, 1, Len(a)) = a
    OBVIOUS
  <2>2. SubSeq(c, 1, Len(a)) \in Seq(U) /\ Len(SubSeq(c, 1, Len(a))) = Len(a)
    BY <1>1, <1>2
  <2>3. \A i \in 1 .. Len(a) : SubSeq(c, 1, Len(a))[i] = a[i]
    BY <1>1, <1>2
  <2>4. QED
    BY <2>1, <2>2, <2>3
<1>4. SubSeq(c, Len(a) + 1, Len(c)) = b
  <2> DEFINE d == SubSeq(c, Len(a) + 1, Len(c))
  <2>1. d \in Seq(U) /\ Len(d) = Len(b)
    BY <1>1, <1>2
  <2>2. ASSUME NEW i \in 1 .. Len(b)
        PROVE  d[i] = b[i]
    <3>1. d[i] = c[Len(a) + i]
      BY <1>1, <1>2
    <3>2. /\ Len(a) + i \in 1 .. Len(a) + Len(b) /\ ~(Len(a) + i <= Len(a))
          /\ (Len(a) + i) - Len(a) = i
      BY <1>2
    <3>3. QED
      BY <1>1, <3>1, <3>2
  <2> HIDE DEF d
  <2>3. d = b
    BY <2>1, <2>2
  <2>4. QED
    BY <2>3 DEF d
<1>5. QED
  BY <1>1, <1>2, <1>3, <1>4 DEF IsPrefix, c

\* The arguments of any rule.
LEMMA ArgvIsFaithful ==
  ASSUME NEW command, NEW script, NEW rule, WellFormed(command, script, rule)
  PROVE  ArgvFaithful(command, script, rule)
<1> DEFINE flags == [s \in Slots(rule) |-> [flag |-> DocumentedFlag(rule, s[1])]]
<1> DEFINE values == [s \in Slots(rule) |-> [value |-> Values(Item(rule, s[1]))[s[2]]]]
<1> DEFINE E == {flags[s] : s \in Slots(rule)} \cup {values[s] : s \in Slots(rule)}
<1>1. WellFormed(<<>>, <<>>, rule)
  <2>1. IsList(<<>>)
    BY DEF IsList
  <2>2. QED
    BY <2>1 DEF WellFormed
<1>2. Names(rule, flags, values, E)
  <2>1. ASSUME NEW x \in Own(rule), NEW k \in DOMAIN Values(Item(rule, x))
        PROVE  /\ flags[<<x, k>>] = [flag |-> DocumentedFlag(rule, x)]
               /\ values[<<x, k>>] = [value |-> Values(Item(rule, x))[k]]
               /\ flags[<<x, k>>] \in E /\ values[<<x, k>>] \in E
    <3>1. <<x, k>> \in Slots(rule)
      BY DEF Slots
    <3>2. flags[<<x, k>>] \in E /\ values[<<x, k>>] \in E
      BY <3>1
    <3>3. QED
      BY <3>1, <3>2
  <2>2. QED
    BY <2>1 DEF Names
<1> HIDE DEF flags, values, E
<1>3. RuleArgs(rule) \in Seq(E) /\ Told(RuleArgs(rule), Slots(rule), flags, values)
  BY <1>1, <1>2, RuleTold
<1>4. PICK S : command \in Seq(S)
  BY ListSequence DEF WellFormed
<1>5. PICK T : script \in Seq(T)
  BY ListSequence DEF WellFormed
<1> DEFINE U == (S \cup T) \cup E
<1>6. command \in Seq(U) /\ script \in Seq(U) /\ RuleArgs(rule) \in Seq(U)
  <2>1. S \subseteq U /\ T \subseteq U /\ E \subseteq U
    OBVIOUS
  <2> HIDE DEF U
  <2>2. QED
    BY <1>3, <1>4, <1>5, <2>1, SequenceAmong
<1> HIDE DEF U
<1> DEFINE head == command \o script
<1>7. head \in Seq(U)
  BY <1>6
<1>8. BuildArgv(command, script, rule) = head \o RuleArgs(rule)
  BY DEF BuildArgv, RuleArgs
<1> HIDE DEF head
<1>9. /\ IsPrefix(head, BuildArgv(command, script, rule))
      /\ SubSeq(BuildArgv(command, script, rule), Len(head) + 1,
                Len(BuildArgv(command, script, rule))) = RuleArgs(rule)
  BY <1>6, <1>7, <1>8, AfterPrefix
<1>10. /\ \A x \in Own(rule) :
            (\A y \in Own(rule) \ {x} : DocumentedFlag(rule, y) # DocumentedFlag(rule, x)) =>
              Collects(RuleArgs(rule), DocumentedFlag(rule, x), Values(Item(rule, x)))
       /\ \A p \in 1 .. (Len(RuleArgs(rule)) \div 2) :
            \E x \in Own(rule) : RuleArgs(rule)[2 * p - 1] = [flag |-> DocumentedFlag(rule, x)]
       /\ Len(RuleArgs(rule)) = 2 * Cardinality(Slots(rule))
  BY <1>1, <1>2, <1>3, ToldIsCollected
<1>11. Slots(rule) = UNION {{x} \X DOMAIN Values(Item(rule, x)) : x \in Own(rule)}
  BY DEF Slots
<1>12. QED
  BY <1>9, <1>10, <1>11, Zenon DEF ArgvFaithful, head

-----------------------------------------------------------------------------
(* Paths between modules, and files for a worker *)

\* A path joined below the out directory of a module is in no other module's.
LEMMA OwnDirectory ==
  ASSUME NEW module, NEW other, NEW path \in Seq(STRING)
  PROVE  IsPrefix(OutDir(other), OutDir(module) \o path) <=> other = module
<1> DEFINE U == {"/", "modules", "out", module, other} \cup STRING
<1> DEFINE whole == OutDir(module) \o path
<1>1. OutDir(module) \in Seq(U) /\ OutDir(other) \in Seq(U) /\ path \in Seq(U)
  <2>1. OutDir(module) \in Seq(U) /\ OutDir(other) \in Seq(U)
    BY DEF OutDir
  <2>2. path \in Seq(U)
    BY SequenceAmong
  <2>3. QED
    BY <2>1, <2>2
<1>2. /\ Len(OutDir(module)) = 4 /\ OutDir(module)[3] = module
      /\ Len(OutDir(other)) = 4 /\ OutDir(other)[3] = other
  BY DEF OutDir
<1> HIDE DEF U
<1>3. IsPrefix(OutDir(module), whole)
  BY <1>1, AfterPrefix
<1>4. ASSUME IsPrefix(OutDir(other), whole)
      PROVE  other = module
  <2>1. SubSeq(OutDir(other), 1, 4)[3] = SubSeq(OutDir(module), 1, 4)[3]
    BY <1>2, <1>3, <1>4, Zenon DEF IsPrefix
  <2>2. SubSeq(OutDir(other), 1, 4)[3] = other /\ SubSeq(OutDir(module), 1, 4)[3] = module
    BY <1>1, <1>2
  <2>3. QED
    BY <2>1, <2>2
<1>5. QED
  BY <1>3, <1>4

\* Without an override, by the cases of provides(): any repository and modules.
LEMMA ContractIsKept ==
  ASSUME NEW repo, NEW producer, NEW consumer, NEW logical,
         producer.module \in DOMAIN repo.provides,
         \A m \in DOMAIN repo.provides : \A k \in DOMAIN repo.provides[m].paths :
           repo.provides[m].paths[k] \in Seq(STRING)
  PROVE  ContractKept(repo, producer, consumer, logical)
<1> DEFINE module == producer.module
<1> DEFINE required == Require(repo, consumer, module, logical)
<1> DEFINE file == repo.provides[module]
<1>1. SUFFICES ASSUME ~Overridden(consumer, logical)
               PROVE  ContractKept(repo, producer, consumer, logical)
  BY DEF ContractKept, Overridden
<1>2. required = Join(OutDir(module), file.paths[logical])
  BY <1>1 DEF Require, Provides
<1>3. ASSUME \/ "out" \notin DOMAIN producer.config /\ producer.standalone = "local-defaults"
             \/ /\ "out" \in DOMAIN producer.config
                /\ \/ producer.config["out"].path = OutDir(module)
                   \/ producer.config["out"].null /\ producer.standalone = "local-defaults"
      PROVE  required = Out(repo, producer, logical)
  <2>1. ContextOutDir(producer) = OutDir(module)
    BY <1>3 DEF ContextOutDir
  <2>2. QED
    BY <1>2, <2>1 DEF Out
<1>4. ASSUME logical \in DOMAIN file.paths, ~IsAbsolute(file.paths[logical]), NEW other
      PROVE  IsPrefix(OutDir(other), required) <=> other = module
  <2>1. required = OutDir(module) \o file.paths[logical]
    BY <1>2, <1>4 DEF Join
  <2>2. file.paths[logical] \in Seq(STRING)
    BY <1>4
  <2>3. QED
    BY <2>1, <2>2, OwnDirectory
<1>5. ASSUME Problems(repo) = {}, module \in repo.snakefiles,
             ~Required(repo, consumer, module, logical)
      PROVE  file.kind = "absent" \/ logical \notin DOMAIN file.paths
  <2>1. ~Declares(repo, module, logical)
    BY <1>5 DEF Required
  <2>2. module \in ListModules(repo)
    BY <1>5 DEF ListModules
  <2>3. file.kind = "absent" \/ Loads(repo, module)
    BY <1>5, <2>2 DEF Problems
  <2>4. QED
    BY <2>1, <2>3 DEF Declares
<1>6. QED
  BY <1>3, <1>4, <1>5 DEF ContractKept

\* A large source is there only through the input that leads to the same file.
LEMMA StagingIsDeclared ==
  ASSUME NEW job, NEW tree, \A r \in job.rules : r.manifests \in Seq(Seq(STRING))
  PROVE  StagedAsDeclared(job, tree)
<1> DEFINE staged == Staged(job, tree)
<1> DEFINE listed == IF job.dag.fails THEN {} ELSE job.dag.sources
<1>1. SUFFICES ASSUME Submits(job, tree)
               PROVE  StagedAsDeclared(job, tree)
  BY DEF StagedAsDeclared
<1>2. ASSUME NEW path \in WorkflowSources(job, tree)
      PROVE  Skipped(tree, path) \/ Resolve(tree, path) \in staged
  BY DEF Staged, SafePaths
<1>3. /\ Declared(job) \subseteq ({job.snakefile} \cup DagSources(job)) \cup job.input
      /\ FallbackSources(job) \subseteq Declared(job)
  <2> DEFINE heads ==
        {Beside(rule, Head(rule.manifests)) : rule \in {r \in job.rules : r.manifests # <<>>}}
  <2> DEFINE firsts ==
        UNION {{Beside(rule, rule.manifests[i]) : i \in DOMAIN rule.manifests \cap {1}} :
                 rule \in job.rules}
  <2>1. ASSUME NEW rule \in job.rules
        PROVE  /\ rule.manifests # <<>> =>
                    1 \in DOMAIN rule.manifests /\ Head(rule.manifests) = rule.manifests[1]
               /\ 1 \in DOMAIN rule.manifests => rule.manifests # <<>>
    <3>1. rule.manifests \in Seq(Seq(STRING))
      OBVIOUS
    <3>2. QED
      BY <3>1
  <2>2. heads = firsts
    <3> HIDE DEF Beside
    <3>1. heads \subseteq firsts
      BY <2>1
    <3>2. firsts \subseteq heads
      BY <2>1
    <3>3. QED
      BY <3>1, <3>2
  <2> HIDE DEF heads, firsts
  <2>3. FallbackSources(job) =
          (((job.included \cup job.configfiles) \cup Scripts(job)) \cup ChannelFiles(job)) \cup heads
    BY DEF FallbackSources, heads
  <2>4. Declared(job) =
          (((({job.snakefile} \cup job.included) \cup job.configfiles) \cup job.input)
           \cup Scripts(job)) \cup ChannelFiles(job) \cup firsts
    BY DEF Declared, firsts
  <2>5. FallbackSources(job) \subseteq DagSources(job)
    BY DEF DagSources
  <2>6. QED
    BY <2>2, <2>3, <2>4, <2>5
<1>4. ASSUME NEW path \in Declared(job)
      PROVE  Resolve(tree, path) \in staged \/ Skipped(tree, path)
  <2>1. CASE path \in WorkflowSources(job, tree)
    BY <1>2, <2>1
  <2>2. CASE path \notin WorkflowSources(job, tree)
    <3>1. path \in DagSources(job) /\ Resolve(tree, path) \in tree.large
      BY <1>3, <2>2 DEF WorkflowSources
    <3>2. ~RefusedSource(job, tree, path)
      BY <1>1, <3>1 DEF Submits
    <3>3. PICK p \in job.input : Resolve(tree, p) = Resolve(tree, path)
      BY <3>1, <3>2 DEF RefusedSource
    <3>4. p \in WorkflowSources(job, tree)
      BY DEF WorkflowSources
    <3>5. Skipped(tree, p) \/ Resolve(tree, p) \in staged
      BY <1>2, <3>4
    <3>6. QED
      BY <3>3, <3>5 DEF Skipped
  <2>3. QED
    BY <2>1, <2>2
<1>5. ASSUME NEW f \in staged
      PROVE  /\ Head(f) \notin {"..", ".snakemake"}
             /\ \E path \in Declared(job) \cup listed : Resolve(tree, path) = f
             /\ f \in tree.large =>
                  \E path \in job.input \cup {job.snakefile} : Resolve(tree, path) = f
  <2>1. PICK path \in WorkflowSources(job, tree) :
          ~Skipped(tree, path) /\ f = Resolve(tree, path)
    BY DEF Staged, SafePaths
  <2>2. ~Refused(tree, path)
    BY <1>1 DEF Submits
  <2>3. Head(f) \notin {"..", ".snakemake"}
    BY <2>1, <2>2 DEF Refused, Outside, Skipped
  <2>4. f \in tree.large => path \in job.input \cup {job.snakefile}
    BY <2>1 DEF WorkflowSources
  <2>5. path \in Declared(job) \cup listed
    <3>1. path \in ({job.snakefile} \cup DagSources(job)) \cup job.input
      BY DEF WorkflowSources
    <3>2. DagSources(job) \subseteq listed \cup FallbackSources(job)
      BY DEF DagSources
    <3>3. {job.snakefile} \cup job.input \subseteq Declared(job)
      BY DEF Declared
    <3>4. QED
      BY <1>3, <3>1, <3>2, <3>3
  <2>6. QED
    BY <2>1, <2>3, <2>4, <2>5
<1>6. QED
  <2>1. \A path \in Declared(job) :
          \/ path \in staged
          \/ Resolve(tree, path) # path /\ Resolve(tree, path) \in staged
          \/ Skipped(tree, path)
    BY <1>4
  <2>2. QED
    BY <1>5, <2>1, Zenon DEF StagedAsDeclared

-----------------------------------------------------------------------------
(* The cases *)

\* No step changes the input of an operator.
LEMMA CaseStays ==
  DefinitionsSpec => [](case \in {NoCase} \cup Cases)
<1>1. DefinitionsInit => case \in {NoCase} \cup Cases
  BY DEF DefinitionsInit
<1>2. case \in {NoCase} \cup Cases /\ [DefinitionsNext]_<<vars, case>>
        => (case \in {NoCase} \cup Cases)'
  BY DEF DefinitionsNext, NoCase, Cases
<1>3. QED
  BY <1>1, <1>2, PTL DEF DefinitionsSpec

LEMMA CaseKinds ==
  ASSUME case \in {NoCase} \cup Cases
  PROVE  /\ case.of = "contract" =>
              /\ case.producer.module \in DOMAIN case.repo.provides
              /\ \A m \in DOMAIN case.repo.provides :
                   \A k \in DOMAIN case.repo.provides[m].paths :
                     case.repo.provides[m].paths[k] \in Seq(STRING)
         /\ case.of = "argv" => WellFormed(case.command, case.script, case.rule)
         /\ case.of = "staging" =>
              \A r \in case.job.rules : r.manifests \in Seq(Seq(STRING))
<1>1. NoCase.of = "calls"
  BY DEF NoCase
<1>2. QED
  BY <1>1, CasesAssumption DEF Cases

\* Whatever the repository, the two modules, how either is configured and which
\* key it is (contracts.py): a consumer whose configuration says nothing of the
\* key requires the path that its producer writes to while that keeps to its
\* default directory; a path that provides.yaml gives relatively is in the
\* directory of the producer and of no other module if it has no "..", and what
\* cannot be required of a listed module of a repository without problems is
\* not declared.
THEOREM ContractsKeptHolds == DefinitionsSpec => []ContractsKept
<1>1. case \in {NoCase} \cup Cases => ContractsKept
  BY CaseKinds, ContractIsKept DEF ContractsKept
<1>2. QED
  BY <1>1, CaseStays, PTL

\* Whatever the names and values of inputs, outputs, logs and parameters and
\* however many there are (command.py): the arguments of the script are one flag
\* and one value for each value of an item, in order, and an item whose flag is
\* its own gets back its values.
THEOREM ArgvToldHolds == DefinitionsSpec => []ArgvTold
<1>1. case \in {NoCase} \cup Cases => ArgvTold
  BY CaseKinds, ArgvIsFaithful DEF ArgvTold
<1>2. QED
  BY <1>1, CaseStays, PTL

\* Whatever the job's sources and inputs, its rules and the symbolic links of the
\* working directory (_workflow_sources, _safe_paths): a job that is submitted has
\* on its worker every file it declares (an environment counting by its first
\* manifest), under its own name or, where that leads through a link or "..",
\* under the resolved one only; what is Snakemake's own apart.  It has no file
\* that neither the job declares nor the DAG lists, none from outside, none of
\* Snakemake's own and no large one but its inputs and its Snakefile.
THEOREM SourcesStagedHolds == DefinitionsSpec => []SourcesStaged
<1>1. case \in {NoCase} \cup Cases => SourcesStaged
  BY CaseKinds, StagingIsDeclared DEF SourcesStaged
<1>2. QED
  BY <1>1, CaseStays, PTL
=============================================================================
