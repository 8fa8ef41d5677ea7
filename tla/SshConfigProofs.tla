-------------------------- MODULE SshConfigProofs ---------------------------
(***************************************************************************)
(* Proofs about SshConfig, for any number of runs and addresses.           *)
(***************************************************************************)
EXTENDS SshConfig, TLAPS

AllAddresses == Addresses \cup {PreflightAddress, None}

\* The entry of a run is named after it, and after what it does.
LEMMA OwnName ==
  ASSUME NEW r \in Runs
  PROVE  /\ Name(r) \in {<<r, "pre">>, <<r, "run">>}
         /\ Name(r) \in Names /\ Name(r)[1] = r
BY DEF Name, Names

LEMMA NamesTyped ==
  ASSUME NEW e \in Entries
  PROVE  /\ e.name[1] \in Runs
         /\ e.name = <<e.name[1], "pre">> \/ e.name = <<e.name[1], "run">>
         /\ e.addr \in Addresses \cup {PreflightAddress}
BY DEF Entries, Names

LEMMA StagesTyped ==
  /\ Adding \subseteq Stages /\ Removing \subseteq Stages
  /\ Adding \cap Removing = {}
  /\ \A s \in Adding \cup Removing : AfterEdit(s) \in Stages /\ AfterError(s) \in Stages
  /\ \A s \in Stages : FirstFile(s) \in Files
  /\ \A f \in Files : OtherFile(f) \in Files /\ OtherFile(f) # f
BY DEF Stages, Adding, Removing, AfterEdit, AfterError, FirstFile, OtherFile, Files

\* A run goes to another stage.
LEMMA EnterTyped ==
  ASSUME TypeOK, NEW r \in Runs, NEW s \in Stages, NEW a \in AllAddresses,
         Enter(r, s, a)
  PROVE  stage' \in [Runs -> Stages] /\ edit' \in [Runs -> Edits]
BY StagesTyped DEF TypeOK, Enter, Edits, AllAddresses

LEMMA ProceedTyped ==
  ASSUME TypeOK, NEW r \in Runs, stage[r] \in Adding \cup Removing, Proceed(r)
  PROVE  stage' \in [Runs -> Stages] /\ edit' \in [Runs -> Edits]
<1>1. edit[r].addr \in AllAddresses /\ edit[r].file \in Files
  BY DEF TypeOK, Edits, AllAddresses
<1>2. CASE edit[r].file = FirstFile(stage[r])
  BY <1>1, <1>2, StagesTyped DEF TypeOK, Proceed, Edits
<1>3. CASE edit[r].file # FirstFile(stage[r])
  BY <1>1, <1>3, StagesTyped, EnterTyped DEF Proceed
<1>4. QED
  BY <1>2, <1>3

LEMMA RaiseTyped ==
  ASSUME TypeOK, NEW r \in Runs, stage[r] \in Adding \cup Removing, Raise(r)
  PROVE  /\ stage' \in [Runs -> Stages] /\ edit' \in [Runs -> Edits]
         /\ erred' \subseteq Runs /\ logged' \subseteq Runs
BY StagesTyped, EnterTyped DEF Raise, TypeOK, AllAddresses

\* What remove finds in its own block, if there is one.
LEMMA FoundAddress ==
  ASSUME TypeOK, NEW r \in Runs
  PROVE  /\ Own(r, Content(r)) \subseteq Content(r)
         /\ Content(r) \subseteq Entries
         /\ \/ Found(r) = edit[r].addr
            \/ /\ edit[r].file = "config"
               /\ \E e \in Own(r, Content(r)) : Found(r) = e.addr
         /\ stage[r] \in Removing /\ edit[r].file = "config" /\ Own(r, Content(r)) # {}
              => \E e \in Own(r, Content(r)) : Found(r) = e.addr
         /\ Found(r) \in AllAddresses
<1>1. edit[r].addr \in AllAddresses /\ edit[r].file \in Files
  BY DEF TypeOK, Edits, AllAddresses
<1>2. Content(r) \subseteq Entries /\ Own(r, Content(r)) \subseteq Content(r)
  BY <1>1 DEF TypeOK, Content, Own
<1>3. ASSUME Own(r, Content(r)) # {}
      PROVE  (CHOOSE e \in Own(r, Content(r)) : TRUE) \in Own(r, Content(r))
  BY <1>3
<1>4. \A e \in Entries : e.addr \in AllAddresses
  BY DEF Entries, AllAddresses
<1>5. QED
  BY <1>1, <1>2, <1>3, <1>4 DEF Found

-----------------------------------------------------------------------------
(***************************************************************************)
(* The address a run works with.  A run has addresses once it has booted;  *)
(* it registers one of them.                                               *)
(***************************************************************************)

AddressKnown ==
  \A r \in Runs :
    /\ stage[r] \in {"start", "boot"} \cup Preflight => addrs[r] = {}
    /\ stage[r] \in {"preadd", "inspect"} => edit[r].addr = PreflightAddress
    /\ stage[r] \in {"register", "connect", "up"} => edit[r].addr \in addrs[r]

TypeInv == TypeOK /\ AddressKnown

\* What an edit puts down is an entry.
LEMMA EditedTyped ==
  ASSUME TypeInv, NEW r \in Runs, Editing(r, "write")
  PROVE  /\ stage[r] \in Adding => Entry(r) \in Entries
         /\ Edited(r) \subseteq Entries
<1>1. edit[r].seen \subseteq Entries /\ TypeOK
  BY DEF TypeInv, TypeOK, Edits
<1>2. ASSUME stage[r] \in Adding PROVE Entry(r) \in Entries
  <2>1. edit[r].addr \in Addresses \cup {PreflightAddress}
    BY <1>1, <1>2 DEF TypeInv, TypeOK, AddressKnown, Adding
  <2>2. QED
    BY <2>1, OwnName DEF Entry, Entries
<1>3. QED
  BY <1>1, <1>2 DEF Edited, Own

\* The first step of an edit, or its next one: the run stays where it is, or
\* it goes on to the other file, or to what comes after.
LEMMA EditSteps ==
  ASSUME TypeOK, NEW r \in Runs, Look(r) \/ Read(r) \/ Write(r)
  PROVE  /\ stage[r] \in Adding \cup Removing
         /\ \/ UNCHANGED stage /\ edit' = [edit EXCEPT ![r].at = "read"]
            \/ UNCHANGED stage /\ edit' = [edit EXCEPT ![r].at = "write"]
            \/ /\ UNCHANGED stage
               /\ edit' = [edit EXCEPT ![r].at = "write", ![r].seen = Content(r),
                                       ![r].addr = Found(r)]
            \/ Proceed(r)
            \/ Raise(r)
BY DEF Look, Read, Write, Editing

LEMMA TypeInit == Init => TypeInv
<1> SUFFICES ASSUME Init PROVE TypeInv
  OBVIOUS
<1>1. stage \in [Runs -> Stages] /\ edit \in [Runs -> Edits]
  BY DEF Init, NoEdit, Edits, Files, Stages
<1>2. file \in [Files -> SUBSET Entries] /\ addrs \in [Runs -> SUBSET Addresses]
  BY DEF Init
<1>3. tries \in [Runs -> 0..MaxTries]
  BY ConstantsAssumption DEF Init
<1>4. /\ gone \subseteq Runs /\ kept \subseteq Runs
      /\ erred \subseteq Runs /\ logged \subseteq Runs
      /\ torn \in BOOLEAN /\ shared \in BOOLEAN
  BY DEF Init
<1>5. AddressKnown
  BY DEF Init, AddressKnown
<1>6. QED
  BY <1>1, <1>2, <1>3, <1>4, <1>5 DEF TypeInv, TypeOK

LEMMA TypeStep == TypeInv /\ [Next]_vars => TypeOK'
<1> SUFFICES ASSUME TypeInv, [Next]_vars PROVE TypeOK'
  OBVIOUS
<1>0. TypeOK
  BY DEF TypeInv
<1>1. ASSUME NEW r \in Runs, Look(r) \/ Read(r) \/ Write(r)
      PROVE  stage' \in [Runs -> Stages] /\ edit' \in [Runs -> Edits]
  <2>1. CASE Proceed(r)
    BY <1>0, <1>1, <2>1, EditSteps, ProceedTyped
  <2>2. CASE Raise(r)
    BY <1>0, <1>1, <2>2, EditSteps, RaiseTyped
  <2>3. Content(r) \subseteq Entries /\ Found(r) \in AllAddresses
    BY <1>0, FoundAddress
  <2>4. edit[r] \in Edits /\ edit \in [Runs -> Edits] /\ stage \in [Runs -> Stages]
    BY <1>0 DEF TypeOK
  <2>5. /\ [edit[r] EXCEPT !.at = "read"] \in Edits
        /\ [edit[r] EXCEPT !.at = "write"] \in Edits
        /\ [edit[r] EXCEPT !.at = "write", !.seen = Content(r), !.addr = Found(r)]
             \in Edits
    BY <2>3, <2>4 DEF Edits, AllAddresses
  <2>6. CASE UNCHANGED stage /\ edit' = [edit EXCEPT ![r].at = "read"]
    BY <2>4, <2>5, <2>6
  <2>7. CASE UNCHANGED stage /\ edit' = [edit EXCEPT ![r].at = "write"]
    BY <2>4, <2>5, <2>7
  <2>8. CASE /\ UNCHANGED stage
             /\ edit' = [edit EXCEPT ![r].at = "write", ![r].seen = Content(r),
                                     ![r].addr = Found(r)]
    BY <2>4, <2>5, <2>8
  <2>9. QED
    BY <1>0, <1>1, <2>1, <2>2, <2>6, <2>7, <2>8, EditSteps
<1>2. ASSUME NEW r \in Runs, NEW from, NEW to \in Stages, NEW a \in AllAddresses,
             Goto(r, from, to, a)
      PROVE  stage' \in [Runs -> Stages] /\ edit' \in [Runs -> Edits]
  BY <1>0, <1>2, EnterTyped DEF Goto
<1>3. \A r \in Runs : addrs[r] \subseteq AllAddresses /\ edit[r].addr \in AllAddresses
                      /\ {None, PreflightAddress} \subseteq AllAddresses
  BY <1>0 DEF TypeOK, Edits, AllAddresses
<1>4. {"preadd", "inspect", "predrop", "refuse", "pick", "failing", "register",
       "up", "retract", "ended", "giveback", "undo"} \subseteq Stages
  BY DEF Stages, Adding, Removing
<1>5. ASSUME NEW r \in Runs, Look(r) PROVE TypeOK'
  <2>1. erred' \subseteq Runs
    BY <1>0, <1>5 DEF Look, TypeOK
  <2>2. QED
    BY <1>0, <1>1, <1>5, <2>1 DEF Look, TypeOK
<1>6. ASSUME NEW r \in Runs, Read(r) PROVE TypeOK'
  <2>1. erred' \subseteq Runs /\ logged' \subseteq Runs
    BY <1>0, <1>6 DEF Read, Raise, TypeOK
  <2>2. QED
    BY <1>0, <1>1, <1>6, <2>1 DEF Read, TypeOK
<1>7. ASSUME NEW r \in Runs, Write(r) PROVE TypeOK'
  <2>1. erred' \subseteq Runs /\ logged' \subseteq Runs
    BY <1>0, <1>7 DEF Write, Raise, TypeOK
  <2>2. file' \in [Files -> SUBSET Entries]
    BY <1>0, <1>7, EditedTyped DEF Write, TypeOK
  <2>3. torn' \in BOOLEAN
    BY <1>0, <1>7 DEF Write, TypeOK
  <2>4. QED
    BY <1>0, <1>1, <1>7, <2>1, <2>2, <2>3 DEF Write, TypeOK
<1>8. ASSUME NEW r \in Runs, Start(r) \/ Inspect(r) \/ GiveUp(r) \/ Connect(r)
      PROVE  TypeOK'
  <2>1. stage' \in [Runs -> Stages] /\ edit' \in [Runs -> Edits]
    BY <1>2, <1>3, <1>4, <1>8 DEF Start, Inspect, GiveUp, Connect
  <2>2. QED
    BY <1>0, <1>8, <2>1 DEF Start, Inspect, GiveUp, Connect, TypeOK
<1>9. ASSUME NEW r \in Runs, Boot(r) PROVE TypeOK'
  <2>1. stage' \in [Runs -> Stages] /\ edit' \in [Runs -> Edits]
    BY <1>2, <1>3, <1>4, <1>9 DEF Boot
  <2>2. addrs' \in [Runs -> SUBSET Addresses]
    <3>1. ASSUME NEW some \in (SUBSET (Addresses \ InUse) \ {{}}) \cup Standing
          PROVE  some \subseteq Addresses
      BY <1>0, <3>1 DEF Standing, TypeOK
    <3>2. QED
      BY <1>0, <1>9, <3>1 DEF Boot, TypeOK
  <2>3. shared' \in BOOLEAN
    BY <1>0, <1>9 DEF Boot, TypeOK
  <2>4. QED
    BY <1>0, <1>9, <2>1, <2>2, <2>3 DEF Boot, TypeOK
<1>10. ASSUME NEW r \in Runs, Register(r) PROVE TypeOK'
  <2>1. stage' \in [Runs -> Stages] /\ edit' \in [Runs -> Edits]
    BY <1>2, <1>3, <1>4, <1>10 DEF Register
  <2>2. tries' \in [Runs -> 0..MaxTries]
    BY <1>0, <1>10, ConstantsAssumption DEF Register, TypeOK
  <2>3. QED
    BY <1>0, <1>10, <2>1, <2>2 DEF Register, TypeOK
<1>11. ASSUME NEW r \in Runs, NEW b, Delete(r, b)
       PROVE  /\ addrs' \in [Runs -> SUBSET Addresses]
              /\ erred' \subseteq Runs /\ gone' \subseteq Runs
  BY <1>0, <1>11 DEF Delete, Sharers, TypeOK
<1>12. ASSUME NEW r \in Runs, Release(r) PROVE TypeOK'
  <2>1. stage' \in [Runs -> Stages] /\ edit' \in [Runs -> Edits]
    BY <1>2, <1>3, <1>4, <1>12 DEF Release
  <2>2. addrs' \in [Runs -> SUBSET Addresses] /\ erred' \subseteq Runs
        /\ gone' \subseteq Runs
    BY <1>0, <1>11, <1>12 DEF Release, TypeOK
  <2>3. kept' \subseteq Runs
    BY <1>0, <1>12 DEF Release, TypeOK
  <2>4. QED
    BY <1>0, <1>12, <2>1, <2>2, <2>3 DEF Release, TypeOK
<1>13. ASSUME NEW r \in Runs, Fail(r) PROVE TypeOK'
  <2>1. stage' \in [Runs -> Stages] /\ edit' \in [Runs -> Edits]
    BY <1>2, <1>3, <1>4, <1>13 DEF Fail
  <2>2. addrs' \in [Runs -> SUBSET Addresses] /\ erred' \subseteq Runs
        /\ gone' \subseteq Runs
    BY <1>11, <1>13 DEF Fail
  <2>3. QED
    BY <1>0, <1>13, <2>1, <2>2 DEF Fail, TypeOK
<1>14. ASSUME NEW r \in Runs, Evict(r) PROVE TypeOK'
  BY <1>0, <1>14 DEF Evict, Sharers, TypeOK
<1>15. CASE UNCHANGED vars
  BY <1>0, <1>15 DEF vars, TypeOK
<1>16. QED
  BY <1>5, <1>6, <1>7, <1>8, <1>9, <1>10, <1>12, <1>13, <1>14, <1>15 DEF Next, Step


\* How an edit moves the run that makes it: to its next step, to the second
\* file, to what comes after, or to the handler of its error.
LEMMA EditOutcome ==
  ASSUME TypeOK, NEW r \in Runs, Look(r) \/ Read(r) \/ Write(r)
  PROVE  /\ stage[r] \in Adding \cup Removing
         /\ \/ /\ stage'[r] = stage[r] /\ edit'[r].file = edit[r].file
               /\ edit'[r].addr \in {edit[r].addr, Found(r)}
            \/ /\ edit[r].file = FirstFile(stage[r])
               /\ stage'[r] = stage[r] /\ edit'[r].file = OtherFile(edit[r].file)
               /\ edit'[r].addr = edit[r].addr /\ edit'[r].at = "look"
            \/ /\ edit[r].file # FirstFile(stage[r])
               /\ stage'[r] = AfterEdit(stage[r]) /\ edit'[r].addr = edit[r].addr
               /\ edit'[r].file = FirstFile(stage'[r]) /\ edit'[r].at = "look"
            \/ /\ stage'[r] = AfterError(stage[r]) /\ edit'[r].addr = None
               /\ edit'[r].file = FirstFile(stage'[r])
<1>0. edit[r] \in Edits /\ edit \in [Runs -> Edits] /\ stage \in [Runs -> Stages]
  BY DEF TypeOK
<1>1. stage[r] \in Adding \cup Removing
  BY EditSteps
<1>2. CASE UNCHANGED stage /\ edit' = [edit EXCEPT ![r].at = "read"]
  BY <1>0, <1>1, <1>2 DEF Edits
<1>3. CASE UNCHANGED stage /\ edit' = [edit EXCEPT ![r].at = "write"]
  BY <1>0, <1>1, <1>3 DEF Edits
<1>4. CASE /\ UNCHANGED stage
           /\ edit' = [edit EXCEPT ![r].at = "write", ![r].seen = Content(r),
                                   ![r].addr = Found(r)]
  BY <1>0, <1>1, <1>4 DEF Edits
<1>5. CASE Proceed(r)
  BY <1>0, <1>1, <1>5 DEF Proceed, Enter, Edits
<1>6. CASE Raise(r)
  BY <1>0, <1>1, <1>6 DEF Raise, Enter, Edits
<1>7. QED
  BY <1>2, <1>3, <1>4, <1>5, <1>6, EditSteps

\* A run goes on by itself, from one stage to another.
LEMMA GotoOutcome ==
  ASSUME TypeOK, NEW r \in Runs, NEW from, NEW to, NEW a, Goto(r, from, to, a)
  PROVE  /\ stage[r] = from /\ stage'[r] = to /\ edit'[r].addr = a
         /\ edit'[r].file = FirstFile(to) /\ edit'[r].at = "look"
BY DEF Goto, Enter, TypeOK

\* A step of one run leaves the stage, the edit and the addresses of the others.
LEMMA Bystander ==
  ASSUME TypeOK, NEW q \in Runs, NEW r \in Runs, q # r, Step(q)
  PROVE  /\ stage'[r] = stage[r] /\ edit'[r] = edit[r] /\ addrs'[r] = addrs[r]
         /\ (r \in erred' <=> r \in erred) /\ (r \in logged' <=> r \in logged)
         /\ (r \in kept' <=> r \in kept)
<1>0. edit \in [Runs -> Edits] /\ stage \in [Runs -> Stages]
      /\ addrs \in [Runs -> SUBSET Addresses]
  BY DEF TypeOK
<1>1. ASSUME NEW s, NEW a, Enter(q, s, a)
      PROVE  stage'[r] = stage[r] /\ edit'[r] = edit[r]
  BY <1>0, <1>1 DEF Enter
<1>2. ASSUME Raise(q)
      PROVE  /\ stage'[r] = stage[r] /\ edit'[r] = edit[r]
             /\ (r \in erred' <=> r \in erred) /\ (r \in logged' <=> r \in logged)
  BY <1>1, <1>2 DEF Raise
<1>3. ASSUME Proceed(q) PROVE stage'[r] = stage[r] /\ edit'[r] = edit[r]
  BY <1>0, <1>1, <1>3 DEF Proceed
<1>4. CASE Look(q)
  BY <1>0, <1>3, <1>4 DEF Look
<1>5. CASE Read(q)
  BY <1>0, <1>2, <1>5 DEF Read
<1>6. CASE Write(q)
  BY <1>0, <1>2, <1>3, <1>6 DEF Write
<1>7. CASE Start(q) \/ Inspect(q) \/ GiveUp(q) \/ Connect(q) \/ Register(q)
  BY <1>1, <1>7 DEF Start, Inspect, GiveUp, Connect, Register, Goto
<1>8. CASE Boot(q)
  BY <1>0, <1>1, <1>8 DEF Boot, Goto
<1>9. ASSUME NEW b, Delete(q, b)
      PROVE  addrs'[r] = addrs[r] /\ (r \in erred' <=> r \in erred)
  BY <1>0, <1>9 DEF Delete
<1>10. CASE Release(q)
  BY <1>1, <1>9, <1>10 DEF Release, Goto
<1>11. CASE Fail(q)
  BY <1>1, <1>9, <1>11 DEF Fail, Goto
<1>12. CASE Evict(q)
  BY <1>12 DEF Evict
<1>13. QED
  BY <1>4, <1>5, <1>6, <1>7, <1>8, <1>10, <1>11, <1>12 DEF Step

LEMMA AddressStep == TypeInv /\ [Next]_vars => AddressKnown'
<1> SUFFICES ASSUME TypeInv, [Next]_vars, NEW r \in Runs
             PROVE  /\ stage'[r] \in {"start", "boot"} \cup Preflight => addrs'[r] = {}
                    /\ stage'[r] \in {"preadd", "inspect"}
                         => edit'[r].addr = PreflightAddress
                    /\ stage'[r] \in {"register", "connect", "up"}
                         => edit'[r].addr \in addrs'[r]
  BY DEF AddressKnown
<1>0. /\ TypeOK
      /\ stage[r] \in {"start", "boot"} \cup Preflight => addrs[r] = {}
      /\ stage[r] \in {"preadd", "inspect"} => edit[r].addr = PreflightAddress
      /\ stage[r] \in {"register", "connect", "up"} => edit[r].addr \in addrs[r]
  BY DEF TypeInv, AddressKnown
<1>1. ASSUME NEW q \in Runs, q # r, Step(q)
      PROVE  /\ stage'[r] = stage[r] /\ edit'[r] = edit[r] /\ addrs'[r] = addrs[r]
  BY <1>0, <1>1, Bystander
<1>2. CASE Look(r) \/ Read(r) \/ Write(r)
  <2>1. addrs' = addrs
    BY <1>2 DEF Look, Read, Write
  <2>2. stage[r] \in Adding => Found(r) = edit[r].addr
    BY StagesTyped DEF Found
  <2>3. QED
    BY <1>0, <1>2, <2>1, <2>2, EditOutcome
    DEF Adding, Removing, Preflight, AfterEdit, AfterError
<1>3. CASE Start(r)
  BY <1>0, <1>3, GotoOutcome DEF Start, Preflight
<1>4. CASE Inspect(r)
  BY <1>0, <1>4, GotoOutcome DEF Inspect, Preflight
<1>5. CASE Boot(r)
  <2>1. CASE Goto(r, "boot", "failing", None)
    BY <1>0, <2>1, GotoOutcome DEF Preflight
  <2>2. CASE Goto(r, "boot", "pick", None)
    BY <1>0, <2>2, GotoOutcome DEF Preflight
  <2>3. QED
    BY <1>5, <2>1, <2>2 DEF Boot
<1>6. CASE Register(r)
  BY <1>0, <1>6, GotoOutcome DEF Register, Preflight
<1>7. CASE GiveUp(r)
  BY <1>0, <1>7, GotoOutcome DEF GiveUp, Preflight
<1>8. CASE Connect(r)
  BY <1>0, <1>8, GotoOutcome DEF Connect, Preflight
<1>9. CASE Release(r)
  <2>1. CASE Goto(r, "up", "ended", None)
    BY <1>0, <2>1, GotoOutcome DEF Preflight
  <2>2. CASE Goto(r, "up", "giveback", None)
    BY <1>0, <2>2, GotoOutcome DEF Preflight
  <2>3. QED
    BY <1>9, <2>1, <2>2 DEF Release
<1>10. CASE Fail(r)
  <2>1. CASE Goto(r, "failing", "undo", None)
    BY <1>0, <2>1, GotoOutcome DEF Preflight
  <2>2. CASE Goto(r, "failing", "ended", None)
    BY <1>0, <2>2, GotoOutcome DEF Preflight
  <2>3. QED
    BY <1>10, <2>1, <2>2 DEF Fail
<1>11. CASE Evict(r) \/ UNCHANGED vars
  BY <1>0, <1>11 DEF Evict, vars
<1>12. QED
  BY <1>0, <1>1, <1>2, <1>3, <1>4, <1>5, <1>6, <1>7, <1>8, <1>9, <1>10, <1>11
  DEF Next, Step

LEMMA TypeInvStep == TypeInv /\ [Next]_vars => TypeInv'
BY TypeStep, AddressStep DEF TypeInv

\* TypeOK: whatever is found in files that others change, an edit works with an
\* address and puts down an entry.
THEOREM TypeCorrect == Spec => []TypeOK
<1>1. TypeInv => TypeOK
  BY DEF TypeInv
<1>2. QED
  BY <1>1, TypeInit, TypeInvStep, PTL DEF Spec

-----------------------------------------------------------------------------
(***************************************************************************)
(* What a step does to the files, as long as no update is lost.            *)
(***************************************************************************)

\* The file an edit works on gets the new content, made from the present one.
Replaced(q) ==
  /\ edit[q].seen = file[edit[q].file]
  /\ file' = [file EXCEPT ![edit[q].file] = Edited(q)]

\* A write replaces what has been read; every other step leaves the files.
LEMMA FileOutcome ==
  ASSUME TypeInv, NEW q \in Runs, Step(q), ~torn'
  PROVE  /\ ~torn
         /\ \/ file' = file
            \/ Write(q) /\ Replaced(q)
<1>1. CASE Write(q)
  BY <1>1 DEF Write, Content, Replaced
<1>2. CASE Look(q) \/ Read(q) \/ Start(q) \/ Inspect(q) \/ Evict(q) \/ Boot(q)
           \/ Register(q)
  BY <1>2 DEF Look, Read, Start, Inspect, Evict, Boot, Register
<1>3. CASE GiveUp(q) \/ Connect(q) \/ Release(q) \/ Fail(q)
  <2>1. UNCHANGED <<file, torn>>
    BY <1>3 DEF GiveUp, Connect, Release, Fail
  <2>2. QED
    BY <2>1
<1>4. QED
  BY <1>1, <1>2, <1>3 DEF Step

\* What the two files hold of the run that writes.
LEMMA OwnWrite ==
  ASSUME TypeInv, NEW q \in Runs, Replaced(q)
  PROVE  LET new == IF stage[q] \in Adding THEN {Entry(q)} ELSE {}
         IN /\ edit[q].file = "config" =>
                 /\ Mine(q, "config")' =
                      {e \in Mine(q, "config") : e.name # Name(q)} \cup new
                 /\ Mine(q, "known_hosts")' = Mine(q, "known_hosts")
            /\ edit[q].file = "known_hosts" =>
                 /\ Mine(q, "known_hosts")' =
                      {e \in Mine(q, "known_hosts") : e.addr # edit[q].addr} \cup new
                 /\ Mine(q, "config")' = Mine(q, "config")
<1>0. TypeOK /\ edit[q].file \in Files /\ file \in [Files -> SUBSET Entries]
  BY DEF TypeInv, TypeOK, Edits
<1>1. Entry(q).name[1] = q
  BY OwnName DEF Entry
<1>2. edit[q].seen = file[edit[q].file]
      /\ file' = [file EXCEPT ![edit[q].file] = Edited(q)]
  BY DEF Replaced
<1>3. CASE edit[q].file = "config"
  <2>1. file'["config"] = Edited(q) /\ file'["known_hosts"] = file["known_hosts"]
    BY <1>0, <1>2, <1>3 DEF Files
  <2>2. Edited(q) = IF stage[q] \in Adding
                    THEN {e \in file["config"] : e.name # Name(q)} \cup {Entry(q)}
                    ELSE {e \in file["config"] : e.name # Name(q)}
    BY <1>2, <1>3 DEF Edited, Own
  <2>3. QED
    BY <1>1, <1>3, <2>1, <2>2 DEF Mine
<1>4. CASE edit[q].file = "known_hosts"
  <2>1. file'["known_hosts"] = Edited(q) /\ file'["config"] = file["config"]
    BY <1>0, <1>2, <1>4 DEF Files
  <2>2. Edited(q) = IF stage[q] \in Adding
                    THEN {e \in file["known_hosts"] : e.addr # edit[q].addr}
                           \cup {Entry(q)}
                    ELSE {e \in file["known_hosts"] : e.addr # edit[q].addr}
    BY <1>2, <1>4 DEF Edited
  <2>3. QED
    BY <1>1, <1>4, <2>1, <2>2 DEF Mine
<1>5. QED
  BY <1>0, <1>3, <1>4 DEF Files

\* A run keeps the blocks of the others, and of their pins all that are not of
\* the address it works with.
LEMMA OthersKept ==
  ASSUME TypeInv, NEW q \in Runs, NEW r \in Runs, q # r, Step(q), ~torn'
  PROVE  /\ Mine(r, "config")' = Mine(r, "config")
         /\ Mine(r, "known_hosts")' \subseteq Mine(r, "known_hosts")
         /\ \A e \in Mine(r, "known_hosts") :
              e \in Mine(r, "known_hosts")'
                \/ (e.addr = edit[q].addr /\ stage[q] \in Adding \cup Removing)
<1>1. CASE file' = file
  BY <1>1 DEF Mine
<1>2. CASE file' # file
  <2>0. TypeOK /\ edit[q].file \in Files /\ file \in [Files -> SUBSET Entries]
        /\ stage[q] \in Adding \cup Removing
    BY <1>2, FileOutcome DEF TypeInv, TypeOK, Edits, Write, Editing
  <2>1. Entry(q).name[1] = q
    BY OwnName DEF Entry
  <2>2. edit[q].seen = file[edit[q].file]
        /\ file' = [file EXCEPT ![edit[q].file] = Edited(q)]
    BY <1>2, FileOutcome DEF Replaced
  <2>3. CASE edit[q].file = "config"
    <3>1. file'["config"] = Edited(q) /\ file'["known_hosts"] = file["known_hosts"]
      BY <2>0, <2>2, <2>3 DEF Files
    <3>2. \A e : e.name[1] = r => (e \in Edited(q) <=> e \in file["config"])
      <4>1. Name(q)[1] = q
        BY OwnName
      <4>2. QED
        BY <2>1, <2>2, <2>3, <4>1 DEF Edited, Own
    <3>3. QED
      BY <3>1, <3>2 DEF Mine
  <2>4. CASE edit[q].file = "known_hosts"
    <3>1. file'["known_hosts"] = Edited(q) /\ file'["config"] = file["config"]
      BY <2>0, <2>2, <2>4 DEF Files
    <3>2. \A e : e.name[1] = r => (e \in Edited(q) <=> e \in file["known_hosts"]
                                                      /\ e.addr # edit[q].addr)
      BY <2>1, <2>2, <2>4 DEF Edited
    <3>3. QED
      BY <2>0, <3>1, <3>2 DEF Mine
  <2>5. QED
    BY <2>0, <2>3, <2>4 DEF Files
<1>3. QED
  BY <1>1, <1>2

-----------------------------------------------------------------------------
(***************************************************************************)
(* No run claims an address that another one claims, or the pin of the one *)
(* would go with an edit of the other.                                     *)
(***************************************************************************)

Separate ==
  ~torn /\ ~shared => \A q, r \in Runs : q # r => Claimed(q) \cap Claimed(r) = {}

ClaimsInv == TypeInv /\ Separate

\* A run that has ended does nothing any more.
LEMMA NoReturn ==
  ASSUME TypeOK, NEW q \in Runs, Step(q), ~ Evict(q)
  PROVE  stage[q] # "ended"
<1>1. CASE Look(q) \/ Read(q) \/ Write(q)
  BY <1>1, EditSteps DEF Adding, Removing
<1>2. QED
  BY <1>1 DEF Step, Start, Inspect, Boot, Register, GiveUp, Connect, Release, Fail, Goto

\* The claims of a run, without the case of one that has ended.
Claims(q) == addrs[q] \cup {edit[q].addr} \cup {e.addr : e \in Mine(q, "config")}

\* A step adds to what a run works with only the addresses it boots with.
LEMMA ClaimsGrow ==
  ASSUME TypeInv, NEW q \in Runs, Step(q), ~torn'
  PROVE  Claims(q)' \subseteq Claims(q) \cup {None, PreflightAddress} \cup addrs'[q]
<1>0. TypeOK /\ edit[q].file \in Files
  BY DEF TypeInv, TypeOK, Edits
<1>1. ASSUME NEW e \in Mine(q, "config")' PROVE e.addr \in Claims(q)
  <2>1. e \in Mine(q, "config") \/ e = Entry(q)
    <3>1. CASE file' = file
      BY <1>1, <3>1 DEF Mine
    <3>2. CASE file' # file
      BY <1>0, <1>1, <3>2, FileOutcome, OwnWrite DEF Files
    <3>3. QED
      BY <3>1, <3>2
  <2>2. Entry(q).addr = edit[q].addr
    BY DEF Entry
  <2>3. QED
    BY <2>1, <2>2 DEF Claims
<1>2. edit'[q].addr \in Claims(q) \cup {None, PreflightAddress}
  <2>1. CASE Look(q) \/ Read(q) \/ Write(q)
    <3>1. Found(q) \in Claims(q)
      <4>1. ASSUME NEW e \in Own(q, Content(q)), edit[q].file = "config"
            PROVE  e.addr \in Claims(q)
        BY <4>1, OwnName DEF Own, Content, Claims, Mine
      <4>2. edit[q].addr \in Claims(q)
        BY DEF Claims
      <4>3. QED
        BY <1>0, <4>1, <4>2, FoundAddress
    <3>2. edit'[q].addr \in {edit[q].addr, Found(q), None}
      BY <1>0, <2>1, EditOutcome
    <3>3. QED
      BY <3>1, <3>2 DEF Claims
  <2>2. CASE Start(q) \/ Inspect(q) \/ GiveUp(q) \/ Connect(q)
    BY <1>0, <2>2, GotoOutcome DEF Start, Inspect, GiveUp, Connect, Claims
  <2>3. CASE Boot(q)
    BY <1>0, <2>3, GotoOutcome DEF Boot
  <2>4. CASE Register(q)
    BY <1>0, <2>4, GotoOutcome DEF Register, Claims
  <2>5. CASE Release(q)
    BY <1>0, <2>5, GotoOutcome DEF Release
  <2>6. CASE Fail(q)
    BY <1>0, <2>6, GotoOutcome DEF Fail
  <2>7. CASE Evict(q)
    BY <2>7 DEF Evict, Claims
  <2>8. QED
    BY <2>1, <2>2, <2>3, <2>4, <2>5, <2>6, <2>7 DEF Step
<1>3. Claims(q)' = addrs'[q] \cup {edit'[q].addr} \cup {e.addr : e \in Mine(q, "config")'}
  BY DEF Claims
<1>4. QED
  BY <1>1, <1>2, <1>3

\* A step leaves the claims of the others, and the run that boots gets addresses
\* nobody claims, unless they are shared from then on.
LEMMA ClaimsOfOthers ==
  ASSUME TypeInv, NEW q \in Runs, NEW r \in Runs, q # r, Step(q), ~torn'
  PROVE  /\ Claimed(r)' = Claimed(r)
         /\ ~shared' => addrs'[q] \subseteq addrs[q] \/ addrs'[q] \cap Claimed(r) = {}
<1>0. addrs \in [Runs -> SUBSET Addresses]
  BY DEF TypeInv, TypeOK
<1>1. Claimed(r)' = Claimed(r)
  <2>1. /\ Mine(r, "config")' = Mine(r, "config")
        /\ edit'[r] = edit[r] /\ stage'[r] = stage[r] /\ addrs'[r] = addrs[r]
    BY OthersKept, Bystander DEF TypeInv
  <2>2. Claimed(r)' =
          IF stage'[r] = "ended" THEN {}
          ELSE (addrs'[r] \cup {edit'[r].addr} \cup {e.addr : e \in Mine(r, "config")'})
               \ {None, PreflightAddress}
    BY DEF Claimed
  <2>3. QED
    BY <2>1, <2>2 DEF Claimed
<1>2. ASSUME ~shared'
      PROVE  addrs'[q] \subseteq addrs[q] \/ addrs'[q] \cap Claimed(r) = {}
  <2>1. CASE UNCHANGED addrs
    BY <2>1
  <2>2. CASE Boot(q) /\ ~ UNCHANGED addrs
    <3>1. PICK some : /\ addrs' = [addrs EXCEPT ![q] = some]
                      /\ \A p \in Runs \ {q} : Claimed(p) \cap some = {}
      BY <1>2, <2>2 DEF Boot
    <3>2. QED
      BY <1>0, <3>1
  <2>3. CASE \E b : Delete(q, b)
    BY <1>0, <2>3 DEF Delete
  <2>4. Look(q) \/ Read(q) \/ Write(q) \/ Start(q) \/ Inspect(q) \/ Register(q)
          \/ GiveUp(q) \/ Connect(q) \/ Evict(q) => UNCHANGED addrs
    BY DEF Look, Read, Write, Start, Inspect, Register, GiveUp, Connect, Evict
  <2>5. Release(q) \/ Fail(q) => UNCHANGED addrs \/ \E b : Delete(q, b)
    BY DEF Release, Fail
  <2>6. QED
    BY <2>1, <2>2, <2>3, <2>4, <2>5 DEF Step
<1>3. QED
  BY <1>1, <1>2

\* The histories never go back.
LEMMA HistoryGrows == Next => (~torn' => ~torn) /\ (~shared' => ~shared)
<1> SUFFICES ASSUME NEW r \in Runs, Step(r)
             PROVE  (~torn' => ~torn) /\ (~shared' => ~shared)
  BY DEF Next
<1>1. CASE Write(r)
  BY <1>1, Zenon DEF Write
<1>2. CASE Boot(r)
  <2>1. UNCHANGED torn
    BY <1>2 DEF Boot
  <2>2. ~shared' => ~shared
    BY <1>2, Zenon DEF Boot
  <2>3. QED
    BY <2>1, <2>2
<1>3. CASE Look(r) \/ Read(r) \/ Start(r) \/ Inspect(r) \/ Register(r) \/ GiveUp(r)
           \/ Connect(r) \/ Evict(r) \/ Release(r) \/ Fail(r)
  <2>1. UNCHANGED <<torn, shared>>
    BY <1>3
    DEF Look, Read, Start, Inspect, Register, GiveUp, Connect, Evict, Release, Fail
  <2>2. QED
    BY <2>1
<1>4. QED
  BY <1>1, <1>2, <1>3 DEF Step

LEMMA ClaimsInit == Init => ClaimsInv
<1> SUFFICES ASSUME Init PROVE Separate
  BY TypeInit DEF ClaimsInv
<1>1. \A r \in Runs : addrs[r] = {} /\ edit[r].addr = None /\ Mine(r, "config") = {}
  BY DEF Init, NoEdit, Mine, Files
<1>2. QED
  BY <1>1 DEF Separate, Claimed

\* The claims of the run that steps, seen from another one.
LEMMA SeparateFrom ==
  ASSUME TypeInv, Separate, NEW q \in Runs, NEW r \in Runs, q # r, Step(q),
         ~torn', ~shared'
  PROVE  Claimed(q)' \cap Claimed(r)' = {}
<1>0. TypeOK /\ ~torn /\ ~shared
  BY HistoryGrows DEF TypeInv, Next
<1>1. Claimed(q) \cap Claimed(r) = {}
  BY <1>0 DEF Separate
<1>2. Claimed(r)' = Claimed(r)
  BY ClaimsOfOthers
<1>3. Claimed(q)' = IF stage'[q] = "ended" THEN {}
                    ELSE Claims(q)' \ {None, PreflightAddress}
  BY DEF Claimed, Claims
<1>4. Claims(q)' \subseteq Claims(q) \cup {None, PreflightAddress} \cup addrs'[q]
  BY ClaimsGrow
<1>5. CASE Evict(q)
  <2>1. stage' = stage /\ addrs' = addrs
    BY <1>5 DEF Evict
  <2>2. stage[q] # "ended"
    BY <1>5 DEF Evict
  <2>3. Claimed(q) = Claims(q) \ {None, PreflightAddress} /\ addrs'[q] \subseteq Claims(q)
    BY <2>1, <2>2 DEF Claimed, Claims
  <2>4. QED
    BY <1>1, <1>2, <1>3, <1>4, <2>3
<1>6. CASE ~ Evict(q)
  <2>1. Claimed(q) = Claims(q) \ {None, PreflightAddress} /\ addrs[q] \subseteq Claims(q)
    BY <1>0, <1>6, NoReturn DEF Claimed, Claims
  <2>2. CASE addrs'[q] \subseteq addrs[q]
    BY <1>1, <1>2, <1>3, <1>4, <2>1, <2>2
  <2>3. CASE addrs'[q] \cap Claimed(r) = {}
    <3>1. Claimed(q)' \subseteq Claimed(q) \cup addrs'[q]
      BY <1>3, <1>4, <2>1
    <3>2. QED
      BY <1>1, <1>2, <2>3, <3>1
  <2>4. QED
    BY <2>2, <2>3, ClaimsOfOthers
<1>7. QED
  BY <1>5, <1>6

LEMMA ClaimsStep == ClaimsInv /\ [Next]_vars => ClaimsInv'
<1> SUFFICES ASSUME ClaimsInv, [Next]_vars PROVE Separate'
  BY TypeInvStep DEF ClaimsInv
<1>1. ASSUME NEW p \in Runs, Step(p), ~torn', ~shared',
             NEW q \in Runs, NEW r \in Runs, q # r
      PROVE  Claimed(q)' \cap Claimed(r)' = {}
  <2>0. TypeInv /\ Separate /\ ~torn /\ ~shared
    BY <1>1, HistoryGrows DEF ClaimsInv, Next
  <2>1. CASE p = q
    BY <1>1, <2>0, <2>1, SeparateFrom
  <2>2. CASE p = r
    BY <1>1, <2>0, <2>2, SeparateFrom
  <2>3. CASE p # q /\ p # r
    BY <1>1, <2>0, <2>3, ClaimsOfOthers DEF Separate
  <2>4. QED
    BY <2>1, <2>2, <2>3
<1>2. CASE Next
  BY <1>1, <1>2 DEF Separate, Next
<1>3. CASE UNCHANGED vars
  BY <1>3 DEF vars, ClaimsInv, Separate, Claimed, Mine
<1>4. QED
  BY <1>2, <1>3

-----------------------------------------------------------------------------
(***************************************************************************)
(* One edit, step by step.                                                 *)
(***************************************************************************)

LEMMA ProceedOutcome ==
  ASSUME TypeOK, NEW r \in Runs, stage[r] \in Adding \cup Removing, Proceed(r)
  PROVE  /\ edit'[r].addr = edit[r].addr /\ edit'[r].at = "look"
         /\ \/ /\ edit[r].file = FirstFile(stage[r]) /\ stage'[r] = stage[r]
               /\ edit'[r].file = OtherFile(edit[r].file)
            \/ /\ edit[r].file # FirstFile(stage[r])
               /\ stage'[r] = AfterEdit(stage[r])
               /\ edit'[r].file = FirstFile(stage'[r])
<1>0. edit[r] \in Edits /\ edit \in [Runs -> Edits] /\ stage \in [Runs -> Stages]
  BY DEF TypeOK
<1>1. QED
  BY <1>0 DEF Proceed, Enter, Edits

\* The run, and the files, after a step of an edit.
LEMMA EditEffect ==
  ASSUME TypeInv, NEW r \in Runs, Look(r) \/ Read(r) \/ Write(r), ~torn'
  PROVE  /\ stage[r] \in Adding \cup Removing /\ UNCHANGED kept
         /\ \/ /\ edit[r].at = "look" /\ file' = file /\ UNCHANGED <<stage, erred>>
               /\ edit'[r].file = edit[r].file /\ edit'[r].addr = edit[r].addr
               /\ edit'[r].at = "read" \/ stage[r] \in Adding
            \/ /\ edit[r].at = "read" /\ file' = file /\ UNCHANGED <<stage, erred>>
               /\ edit'[r].file = edit[r].file /\ edit'[r].addr = Found(r)
            \/ /\ edit[r].at = "look" /\ file' = file /\ UNCHANGED erred
               /\ stage[r] \in Removing /\ Content(r) = {} /\ Proceed(r)
            \/ /\ edit[r].at = "write" /\ Replaced(r) /\ UNCHANGED erred /\ Proceed(r)
            \/ file' = file /\ Raise(r)
<1>0. edit[r] \in Edits /\ edit \in [Runs -> Edits] /\ stage \in [Runs -> Stages]
  BY DEF TypeInv, TypeOK
<1>1. CASE Look(r)
  <2>1. stage[r] \in Adding \cup Removing /\ edit[r].at = "look"
        /\ UNCHANGED <<file, erred, kept>>
    BY <1>1 DEF Look, Editing
  <2>2. CASE Content(r) # {}
    BY <1>0, <1>1, <2>1, <2>2 DEF Look, Edits
  <2>3. CASE Content(r) = {} /\ stage[r] \in Adding
    BY <1>0, <1>1, <2>1, <2>3 DEF Look, Edits
  <2>4. CASE Content(r) = {} /\ stage[r] \notin Adding
    BY <1>1, <2>1, <2>4 DEF Look
  <2>5. QED
    BY <2>2, <2>3, <2>4
<1>2. CASE Read(r)
  <2>1. stage[r] \in Adding \cup Removing /\ edit[r].at = "read"
        /\ UNCHANGED <<file, kept>>
    BY <1>2 DEF Read, Editing
  <2>2. CASE Content(r) = {}
    BY <1>2, <2>1, <2>2 DEF Read
  <2>3. CASE Content(r) # {}
    BY <1>0, <1>2, <2>1, <2>3 DEF Read, Edits
  <2>4. QED
    BY <2>2, <2>3
<1>3. CASE Write(r)
  BY <1>3 DEF Write, Editing, Replaced, Content
<1>4. QED
  BY <1>1, <1>2, <1>3

-----------------------------------------------------------------------------
(***************************************************************************)
(* The entries of a run stay while it needs them.  The pin comes first and *)
(* must survive until the block is there.                                  *)
(***************************************************************************)

Pinned ==
  ~torn /\ ~shared => \A r \in Runs :
    stage[r] = "register" /\ edit[r].file = "config"
      => Entry(r) \in file["known_hosts"]

EntryInv == ClaimsInv /\ EntryStays /\ Pinned

\* A step of another run.
LEMMA EntryKept ==
  ASSUME EntryInv, NEW r \in Runs, NEW p \in Runs, p # r, Step(p), ~torn', ~shared'
  PROVE  /\ stage'[r] = stage[r] /\ edit'[r] = edit[r] /\ Entry(r)' = Entry(r)
         /\ Entry(r) \in file["config"] => Entry(r) \in file'["config"]
         /\ stage[r] \in {"register", "connect", "up"} /\ Entry(r) \in file["known_hosts"]
              => Entry(r) \in file'["known_hosts"]
<1>0. TypeInv /\ TypeOK /\ ~torn /\ ~shared
  BY HistoryGrows DEF EntryInv, ClaimsInv, TypeInv, Next
<1>1. stage'[r] = stage[r] /\ edit'[r] = edit[r]
  BY <1>0, Bystander
<1>2. Entry(r)' = Entry(r)
  <2>1. Name(r)' = Name(r)
    BY <1>1 DEF Name
  <2>2. QED
    BY <1>1, <2>1 DEF Entry
<1>3. Entry(r).name[1] = r /\ Entry(r).addr = edit[r].addr
  BY OwnName DEF Entry
<1>4. Mine(r, "config")' = Mine(r, "config")
  BY <1>0, OthersKept
<1>5. ASSUME stage[r] \in {"register", "connect", "up"}, stage[p] # "ended"
      PROVE  Entry(r).addr # edit[p].addr
  <2>1. Entry(r).addr \in addrs[r] /\ Entry(r).addr \in Addresses
    BY <1>0, <1>3, <1>5 DEF TypeInv, TypeOK, AddressKnown
  <2>2. Entry(r).addr \in Claimed(r)
    BY <1>5, <2>1, AddressAssumption DEF Claimed
  <2>3. Claimed(p) \cap Claimed(r) = {}
    BY <1>0 DEF EntryInv, ClaimsInv, Separate
  <2>4. stage[p] # "ended" => edit[p].addr \in Claimed(p) \cup {None, PreflightAddress}
    BY DEF Claimed
  <2>5. QED
    BY <1>5, <2>1, <2>2, <2>3, <2>4, AddressAssumption
<1>6. ASSUME stage[r] \in {"register", "connect", "up"}, Entry(r) \in file["known_hosts"]
      PROVE  Entry(r) \in Mine(r, "known_hosts")'
  BY <1>0, <1>3, <1>5, <1>6, OthersKept DEF Mine, Adding, Removing
<1>7. QED
  BY <1>1, <1>2, <1>3, <1>4, <1>6 DEF Mine

\* A step of the run itself.
LEMMA EntryMade ==
  ASSUME EntryInv, NEW r \in Runs, Step(r), ~torn', ~shared'
  PROVE  /\ stage'[r] \in {"inspect", "connect", "up"} => Entry(r)' \in file'["config"]
         /\ stage'[r] \in {"connect", "up"} => Entry(r)' \in file'["known_hosts"]
         /\ stage'[r] = "register" /\ edit'[r].file = "config"
              => Entry(r)' \in file'["known_hosts"]
<1>0. TypeInv /\ TypeOK /\ ~torn /\ ~shared
  BY HistoryGrows DEF EntryInv, ClaimsInv, TypeInv, Next
<1>1. /\ stage[r] \in {"inspect", "connect", "up"} => Entry(r) \in file["config"]
      /\ stage[r] \in {"connect", "up"} => Entry(r) \in file["known_hosts"]
      /\ stage[r] = "register" /\ edit[r].file = "config"
           => Entry(r) \in file["known_hosts"]
  BY <1>0 DEF EntryInv, EntryStays, Pinned
<1>2. Entry(r)' = [name |-> Name(r)', addr |-> edit'[r].addr]
  BY DEF Entry
<1>3. CASE Look(r) \/ Read(r) \/ Write(r)
  <2>0. stage[r] \in Adding \cup Removing
    BY <1>0, <1>3, EditEffect
  <2>1. CASE Raise(r)
    <3>1. stage'[r] = AfterError(stage[r])
      BY <1>0, <2>1 DEF Raise, Enter, TypeOK
    <3>2. QED
      BY <2>0, <3>1 DEF AfterError, Adding, Removing
  <2>2. CASE stage[r] \in Removing /\ ~Raise(r)
    BY <1>0, <1>3, <2>2, EditOutcome, EditEffect, ProceedOutcome
    DEF Removing, AfterEdit
  <2>3. CASE /\ stage[r] \in Adding /\ ~Raise(r) /\ UNCHANGED <<file, stage>>
             /\ edit'[r].file = edit[r].file /\ edit'[r].addr \in {edit[r].addr, Found(r)}
    <3>1. Found(r) = edit[r].addr
      BY <2>3, StagesTyped DEF Found
    <3>2. Entry(r)' = Entry(r)
      BY <1>2, <2>3, <3>1 DEF Entry, Name
    <3>3. QED
      BY <1>1, <2>3, <3>2
  <2>4. CASE stage[r] \in Adding /\ Replaced(r) /\ Proceed(r)
    <3>1. FirstFile(stage[r]) = "known_hosts" /\ edit[r].file \in Files
      BY <1>0, <2>4 DEF FirstFile, TypeOK, Edits
    <3>2. CASE edit[r].file = "known_hosts"
      <4>1. Entry(r) \in file'["known_hosts"]
        BY <1>0, <2>4, <3>2, OwnWrite DEF Mine
      <4>2. stage'[r] = stage[r] /\ edit'[r].addr = edit[r].addr
        BY <1>0, <2>0, <2>4, <3>1, <3>2, ProceedOutcome
      <4>3. Entry(r)' = Entry(r)
        BY <1>2, <4>2 DEF Entry, Name
      <4>4. QED
        BY <2>4, <4>1, <4>2, <4>3 DEF Adding
    <3>3. CASE edit[r].file = "config"
      <4>1. Entry(r) \in file'["config"]
        BY <1>0, <2>4, <3>3, OwnWrite DEF Mine
      <4>2. stage'[r] = AfterEdit(stage[r]) /\ edit'[r].addr = edit[r].addr
        BY <1>0, <2>0, <2>4, <3>1, <3>3, ProceedOutcome
      <4>3. Entry(r)' = Entry(r)
        BY <1>2, <2>4, <4>2 DEF Entry, Name, AfterEdit, Adding, Preflight
      <4>4. Entry(r) \in file["known_hosts"] => Entry(r) \in file'["known_hosts"]
        <5>1. Mine(r, "known_hosts")' = Mine(r, "known_hosts")
          BY <1>0, <2>4, <3>3, OwnWrite
        <5>2. Entry(r).name[1] = r
          BY OwnName DEF Entry
        <5>3. QED
          BY <5>1, <5>2 DEF Mine
      <4>5. QED
        BY <1>1, <2>4, <3>3, <4>1, <4>2, <4>3, <4>4 DEF AfterEdit, Adding
    <3>4. QED
      BY <3>1, <3>2, <3>3 DEF Files
  <2>5. QED
    BY <1>0, <1>3, <2>0, <2>1, <2>2, <2>3, <2>4, EditEffect, StagesTyped
<1>4. CASE Connect(r)
  <2>1. CASE Goto(r, "connect", "up", edit[r].addr)
    <3>1. stage[r] = "connect" /\ stage'[r] = "up" /\ edit'[r].addr = edit[r].addr
      BY <1>0, <2>1, GotoOutcome
    <3>2. Entry(r)' = Entry(r) /\ file' = file
      BY <1>2, <1>4, <3>1 DEF Connect, Entry, Name, Preflight
    <3>3. QED
      BY <1>1, <3>1, <3>2
  <2>2. CASE Goto(r, "connect", "retract", None)
    BY <1>0, <2>2, GotoOutcome
  <2>3. QED
    BY <1>4, <2>1, <2>2 DEF Connect
<1>5. CASE Start(r) \/ Inspect(r) \/ Boot(r) \/ GiveUp(r) \/ Release(r) \/ Fail(r)
  <2>1. stage'[r] \notin {"inspect", "connect", "up", "register"}
    <3>1. \E from, a : \E to \in {"preadd", "predrop", "refuse", "pick", "failing",
                                 "ended", "giveback", "undo"} : Goto(r, from, to, a)
      BY <1>5 DEF Start, Inspect, Boot, GiveUp, Release, Fail
    <3>2. QED
      BY <1>0, <3>1, GotoOutcome
  <2>2. QED
    BY <2>1
<1>6. CASE Register(r)
  BY <1>0, <1>6, GotoOutcome DEF Register, FirstFile, Adding
<1>7. CASE Evict(r)
  <2>1. UNCHANGED <<stage, edit, file>>
    BY <1>7 DEF Evict
  <2>2. QED
    BY <1>1, <2>1 DEF Entry, Name
<1>8. QED
  BY <1>3, <1>4, <1>5, <1>6, <1>7 DEF Step

LEMMA EntryStep == EntryInv /\ [Next]_vars => EntryInv'
<1> SUFFICES ASSUME EntryInv, [Next]_vars PROVE EntryStays' /\ Pinned'
  BY ClaimsStep DEF EntryInv
<1>1. ASSUME NEW p \in Runs, Step(p), ~torn', ~shared', NEW r \in Runs
      PROVE  /\ stage'[r] \in {"inspect", "connect", "up"}
                  => Entry(r)' \in file'["config"]
             /\ stage'[r] \in {"connect", "up"} => Entry(r)' \in file'["known_hosts"]
             /\ stage'[r] = "register" /\ edit'[r].file = "config"
                  => Entry(r)' \in file'["known_hosts"]
  <2>1. CASE p = r
    BY <1>1, <2>1, EntryMade
  <2>2. CASE p # r
    <3>1. ~torn /\ ~shared
      BY <1>1, HistoryGrows DEF Next
    <3>2. /\ stage[r] \in {"inspect", "connect", "up"} => Entry(r) \in file["config"]
          /\ stage[r] \in {"connect", "up"} => Entry(r) \in file["known_hosts"]
          /\ stage[r] = "register" /\ edit[r].file = "config"
               => Entry(r) \in file["known_hosts"]
      BY <3>1 DEF EntryInv, EntryStays, Pinned
    <3>3. QED
      BY <1>1, <2>2, <3>2, EntryKept
  <2>3. QED
    BY <2>1, <2>2
<1>2. CASE Next
  BY <1>1, <1>2 DEF Next, EntryStays, Pinned
<1>3. CASE UNCHANGED vars
  BY <1>3 DEF vars, EntryInv, EntryStays, Pinned, Entry, Name
<1>4. QED
  BY <1>2, <1>3

\* EntryStays: while a run inspects its preflight alias, connects, or works on
\* its server, its block is in ssh_config and the pin of the server in
\* known_hosts, whatever any number of other runs add and remove, unless an
\* update was lost or a run got an address another one still worked with.
THEOREM EntryStaysHolds == Spec => []EntryStays
<1>1. Init => EntryInv
  BY ClaimsInit DEF Init, EntryInv, EntryStays, Pinned
<1>2. EntryInv => EntryStays
  BY DEF EntryInv
<1>3. QED
  BY <1>1, <1>2, EntryStep, PTL DEF Spec

-----------------------------------------------------------------------------
(***************************************************************************)
(* What a run that got no error has in the two files, at every point of    *)
(* its edits: nothing, or one block and at most the pin of its address,    *)
(* which is how remove finds the pin.                                      *)
(***************************************************************************)

Clean(r) == Mine(r, "config") = {} /\ Mine(r, "known_hosts") = {}

Single(r, e) == Mine(r, "config") = {e} /\ Mine(r, "known_hosts") \subseteq {e}

Tidy(r) ==
  /\ stage[r] \in {"start", "boot", "pick", "failing", "undo"} => Clean(r)
  /\ stage[r] = "ended" /\ r \notin kept => Clean(r)
  /\ stage[r] \in {"inspect", "connect", "up"} => Single(r, Entry(r))
  /\ stage[r] \in Adding /\ edit[r].file = "known_hosts" => Clean(r)
  /\ stage[r] \in Adding /\ edit[r].file = "config"
       => Mine(r, "config") = {} /\ Mine(r, "known_hosts") \subseteq {Entry(r)}
  /\ stage[r] \in Removing \ {"undo"} /\ edit[r].file = "config"
       => \E a \in Addresses \cup {PreflightAddress} :
            /\ Single(r, [name |-> Name(r), addr |-> a])
            /\ edit[r].at = "write" => edit[r].addr = a
  /\ stage[r] \in Removing \ {"undo"} /\ edit[r].file = "known_hosts"
       => /\ Mine(r, "config") = {}
          /\ \A e \in Mine(r, "known_hosts") : e.addr = edit[r].addr

AllTidy == ~torn => \A r \in Runs \ (erred \cup logged) : Tidy(r)

TidyInv == TypeInv /\ AllTidy

LEMMA TidyInit == Init => TidyInv
<1> SUFFICES ASSUME Init, NEW r \in Runs PROVE Tidy(r)
  BY TypeInit DEF TidyInv, AllTidy
<1>1. stage[r] = "start" /\ Clean(r)
  BY DEF Init, Clean, Mine, Files
<1>2. QED
  BY <1>1 DEF Tidy, Adding, Removing

\* The others only take pins away, and never a block.
LEMMA TidyKept ==
  ASSUME TypeInv, NEW r \in Runs, NEW p \in Runs, p # r, Step(p), ~torn', Tidy(r)
  PROVE  Tidy(r)'
<1>1. /\ stage'[r] = stage[r] /\ edit'[r] = edit[r]
      /\ (r \in kept' <=> r \in kept)
  BY Bystander DEF TypeInv
<1>2. Mine(r, "config")' = Mine(r, "config")
      /\ Mine(r, "known_hosts")' \subseteq Mine(r, "known_hosts")
  BY OthersKept
<1>3. Name(r)' = Name(r) /\ Entry(r)' = Entry(r)
  BY <1>1 DEF Name, Entry
<1>4. /\ Clean(r) => Clean(r)'
      /\ \A e : Single(r, e) => Mine(r, "config")' = {e}
                               /\ Mine(r, "known_hosts")' \subseteq {e}
  BY <1>2 DEF Clean, Single
<1>5. Single(r, Entry(r)) => Single(r, Entry(r))'
  BY <1>3, <1>4 DEF Single
<1>6. \A a : Single(r, [name |-> Name(r), addr |-> a])
               => Single(r, [name |-> Name(r), addr |-> a])'
  BY <1>3, <1>4 DEF Single
<1>7. QED
  BY <1>1, <1>2, <1>3, <1>4, <1>5, <1>6 DEF Tidy

\* Where a run goes decides what it may have.
LEMMA TidyWhere ==
  ASSUME NEW r \in Runs, TypeOK'
  PROVE  /\ stage'[r] \in {"start", "boot", "pick", "failing", "undo", "ended"}
              /\ Clean(r)' => Tidy(r)'
         /\ stage'[r] \in {"inspect", "connect", "up"} /\ Single(r, Entry(r))'
              => Tidy(r)'
         /\ stage'[r] = "ended" /\ r \in kept' => Tidy(r)'
         /\ stage'[r] \in Adding /\ edit'[r].file = "known_hosts" /\ Clean(r)'
              => Tidy(r)'
         /\ stage'[r] \in Adding /\ edit'[r].file = "config"
              /\ Mine(r, "config")' = {} /\ Mine(r, "known_hosts")' \subseteq {Entry(r)'}
              => Tidy(r)'
         /\ stage'[r] \in Removing \ {"undo"} /\ edit'[r].file = "config"
              /\ (\E a \in Addresses \cup {PreflightAddress} :
                    /\ Single(r, [name |-> Name(r), addr |-> a])'
                    /\ edit'[r].at = "write" => edit'[r].addr = a)
              => Tidy(r)'
         /\ stage'[r] \in Removing \ {"undo"} /\ edit'[r].file = "known_hosts"
              /\ Mine(r, "config")' = {}
              /\ (\A e \in Mine(r, "known_hosts")' : e.addr = edit'[r].addr)
              => Tidy(r)'
BY DEF Tidy, Adding, Removing

\* While add works on the second file, the pin is made.
LEMMA TidyAdding ==
  ASSUME TypeInv, TypeOK', NEW r \in Runs, Look(r) \/ Read(r) \/ Write(r), ~torn',
         r \notin erred' \cup logged', Tidy(r), stage[r] \in Adding
  PROVE  Tidy(r)'
<1>0. /\ TypeOK /\ FirstFile(stage[r]) = "known_hosts" /\ stage[r] \notin Removing
      /\ edit[r].file \in Files
  BY StagesTyped DEF TypeInv, TypeOK, FirstFile, Edits
<1>1. Entry(r)' = [name |-> Name(r)', addr |-> edit'[r].addr]
  BY DEF Entry
<1>2. Found(r) = edit[r].addr
  BY <1>0 DEF Found
<1>3. CASE /\ UNCHANGED <<file, stage>> /\ edit'[r].file = edit[r].file
           /\ edit'[r].addr = edit[r].addr
  <2>1. Entry(r)' = Entry(r) /\ Mine(r, "config")' = Mine(r, "config")
        /\ Mine(r, "known_hosts")' = Mine(r, "known_hosts")
    BY <1>1, <1>3 DEF Entry, Name, Mine
  <2>2. CASE edit[r].file = "known_hosts"
    BY <1>3, <2>1, <2>2, TidyWhere DEF Tidy, Clean
  <2>3. CASE edit[r].file = "config"
    <3>1. Mine(r, "config") = {} /\ Mine(r, "known_hosts") \subseteq {Entry(r)}
      BY <2>3 DEF Tidy
    <3>2. stage'[r] \in Adding /\ edit'[r].file = "config"
      BY <1>3, <2>3
    <3>3. QED
      BY <2>1, <3>1, <3>2, TidyWhere
  <2>4. QED
    BY <1>0, <2>2, <2>3 DEF Files
<1>4. CASE Replaced(r) /\ Proceed(r)
  <2>1. CASE edit[r].file = "known_hosts"
    <3>1. Clean(r)
      BY <2>1 DEF Tidy
    <3>2. Mine(r, "config")' = {} /\ Mine(r, "known_hosts")' = {Entry(r)}
      BY <1>4, <2>1, <3>1, OwnWrite DEF Clean
    <3>3. stage'[r] = stage[r] /\ edit'[r].addr = edit[r].addr
          /\ edit'[r].file = "config"
      BY <1>0, <1>4, <2>1, ProceedOutcome DEF OtherFile
    <3>4. Entry(r)' = Entry(r)
      BY <1>1, <3>3 DEF Entry, Name
    <3>5. QED
      BY <3>2, <3>3, <3>4, TidyWhere
  <2>2. CASE edit[r].file = "config"
    <3>1. Mine(r, "config") = {} /\ Mine(r, "known_hosts") \subseteq {Entry(r)}
      BY <2>2 DEF Tidy
    <3>2. Mine(r, "config")' = {Entry(r)} /\ Mine(r, "known_hosts")' \subseteq {Entry(r)}
      BY <1>4, <2>2, <3>1, OwnWrite
    <3>3. stage'[r] = AfterEdit(stage[r]) /\ edit'[r].addr = edit[r].addr
      BY <1>0, <1>4, <2>2, ProceedOutcome
    <3>4. Entry(r)' = Entry(r) /\ stage'[r] \in {"inspect", "connect"}
      BY <1>1, <3>3 DEF Entry, Name, AfterEdit, Adding, Preflight
    <3>5. QED
      BY <3>2, <3>4, TidyWhere DEF Single
  <2>3. QED
    BY <1>0, <2>1, <2>2 DEF Files
<1>5. CASE file' = file /\ Raise(r)
  <2>1. stage[r] = "register" /\ edit[r].file = "known_hosts" /\ stage'[r] = "pick"
    BY <1>0, <1>5 DEF Raise, Enter, AfterError, TypeOK, Files
  <2>2. Clean(r)
    BY <2>1 DEF Tidy, Adding
  <2>3. Clean(r)'
    BY <1>5, <2>2 DEF Clean, Mine
  <2>4. QED
    BY <2>1, <2>3, TidyWhere
<1>6. QED
  BY <1>0, <1>2, <1>3, <1>4, <1>5, EditEffect

\* remove learns the address of the pin from the block before it drops it.
LEMMA TidyRemoving ==
  ASSUME TypeInv, TypeOK', NEW r \in Runs, Look(r) \/ Read(r) \/ Write(r), ~torn',
         r \notin erred' \cup logged', Tidy(r), stage[r] \in Removing \ {"undo"}
  PROVE  Tidy(r)'
<1>0. /\ TypeOK /\ FirstFile(stage[r]) = "config" /\ stage[r] \notin Adding
      /\ edit[r].file \in Files
  BY StagesTyped DEF TypeInv, TypeOK, FirstFile, Edits
<1>1. ~Raise(r)
  BY DEF Raise, Removing
<1>2. AfterEdit(stage[r]) \in {"boot", "failing", "pick", "ended"}
  BY DEF Removing, AfterEdit
<1>3. CASE edit[r].file = "config"
  <2>1. PICK a \in Addresses \cup {PreflightAddress} :
          /\ Single(r, [name |-> Name(r), addr |-> a])
          /\ edit[r].at = "write" => edit[r].addr = a
    BY <1>3 DEF Tidy
  <2> DEFINE mine == [name |-> Name(r), addr |-> a]
  <2>2. Mine(r, "config") = {mine} /\ Mine(r, "known_hosts") \subseteq {mine}
    BY <2>1 DEF Single
  <2>3. Content(r) # {} /\ Own(r, Content(r)) = {mine}
    <3>1. \A e \in file["config"] : e.name = Name(r) => e \in Mine(r, "config")
      BY OwnName DEF Mine
    <3>2. mine \in file["config"] /\ mine.name = Name(r)
      BY <2>2 DEF Mine
    <3>3. QED
      BY <1>3, <2>2, <3>1, <3>2 DEF Content, Own
  <2>4. Found(r) = a
    <3>1. \E e \in Own(r, Content(r)) : Found(r) = e.addr
      BY <1>0, <1>3, <2>3, FoundAddress
    <3>2. mine.addr = a
      OBVIOUS
    <3>3. QED
      BY <2>3, <3>1, <3>2
  <2>5. CASE /\ UNCHANGED <<file, stage>> /\ edit'[r].file = "config"
             /\ edit'[r].at = "write" => edit'[r].addr = a
    <3>1. Name(r)' = Name(r) /\ Mine(r, "config")' = Mine(r, "config")
          /\ Mine(r, "known_hosts")' = Mine(r, "known_hosts")
      BY <2>5 DEF Name, Mine
    <3>2. Single(r, [name |-> Name(r), addr |-> a])'
      BY <2>2, <3>1 DEF Single
    <3>3. QED
      BY <2>5, <3>2, TidyWhere
  <2>6. CASE edit[r].at = "write" /\ Replaced(r) /\ Proceed(r)
    <3>1. /\ Mine(r, "config")' = {e \in Mine(r, "config") : e.name # Name(r)}
          /\ Mine(r, "known_hosts")' = Mine(r, "known_hosts")
      BY <1>0, <1>3, <2>6, OwnWrite
    <3>2. Mine(r, "config")' = {}
      BY <2>2, <3>1
    <3>3. stage'[r] = stage[r] /\ edit'[r].addr = a /\ edit'[r].file = "known_hosts"
      BY <1>0, <1>3, <2>1, <2>6, ProceedOutcome DEF OtherFile
    <3>4. \A e \in Mine(r, "known_hosts")' : e.addr = edit'[r].addr
      BY <2>2, <3>1, <3>3
    <3>5. QED
      BY <3>2, <3>3, <3>4, TidyWhere
  <2>7. QED
    BY <1>0, <1>1, <1>3, <2>1, <2>3, <2>4, <2>5, <2>6, EditEffect
<1>4. CASE edit[r].file = "known_hosts"
  <2>1. Mine(r, "config") = {} /\ \A e \in Mine(r, "known_hosts") : e.addr = edit[r].addr
    BY <1>4 DEF Tidy
  <2>2. Found(r) = edit[r].addr
    BY <1>4 DEF Found
  <2>3. CASE /\ UNCHANGED <<file, stage>> /\ edit'[r].file = edit[r].file
             /\ edit'[r].addr = edit[r].addr
    <3>1. Mine(r, "config")' = Mine(r, "config")
          /\ Mine(r, "known_hosts")' = Mine(r, "known_hosts")
      BY <2>3 DEF Mine
    <3>2. stage'[r] \in Removing \ {"undo"} /\ edit'[r].file = "known_hosts"
      BY <1>4, <2>3
    <3>3. \A e \in Mine(r, "known_hosts")' : e.addr = edit'[r].addr
      BY <2>1, <2>3, <3>1
    <3>4. QED
      BY <2>1, <3>1, <3>2, <3>3, TidyWhere
  <2>4. CASE Proceed(r)
    <3>1. stage'[r] \in {"boot", "failing", "pick", "ended"}
      BY <1>0, <1>2, <1>4, <2>4, ProceedOutcome
    <3>2. CASE file' = file /\ Content(r) = {}
      <4>1. file["known_hosts"] = {}
        BY <1>4, <3>2 DEF Content
      <4>2. Mine(r, "config")' = {} /\ Mine(r, "known_hosts")' = {}
        BY <2>1, <3>2, <4>1 DEF Mine
      <4>3. QED
        BY <3>1, <4>2, TidyWhere DEF Clean
    <3>3. CASE Replaced(r)
      <4>1. Mine(r, "config")' = {} /\ Mine(r, "known_hosts")' = {}
        BY <1>0, <1>4, <2>1, <3>3, OwnWrite
      <4>2. QED
        BY <3>1, <4>1, TidyWhere DEF Clean
    <3>4. QED
      BY <1>0, <1>1, <2>2, <2>3, <3>2, <3>3, EditEffect
  <2>5. QED
    BY <1>0, <1>1, <2>2, <2>3, <2>4, EditEffect
<1>5. QED
  BY <1>0, <1>3, <1>4 DEF Files

\* A run whose acquire failed has nothing any more; it looks all the same.
LEMMA TidyUndo ==
  ASSUME TypeInv, TypeOK', NEW r \in Runs, Look(r) \/ Read(r) \/ Write(r), ~torn',
         r \notin erred' \cup logged', Tidy(r), stage[r] = "undo"
  PROVE  Tidy(r)'
<1>0. TypeOK /\ edit[r].file \in Files /\ stage[r] \in Removing /\ stage[r] \notin Adding
  BY DEF TypeInv, TypeOK, Edits, Removing, Adding
<1>1. Mine(r, "config") = {} /\ Mine(r, "known_hosts") = {}
  BY DEF Tidy, Clean
<1>2. Mine(r, "config")' = {} /\ Mine(r, "known_hosts")' = {}
  <2>1. CASE file' = file
    BY <1>1, <2>1 DEF Mine
  <2>2. CASE Replaced(r)
    BY <1>0, <1>1, <2>2, OwnWrite DEF Files
  <2>3. QED
    BY <2>1, <2>2, EditEffect
<1>3. stage'[r] \in {"undo", "ended"}
  BY <1>0, EditOutcome DEF AfterEdit, AfterError
<1>4. QED
  BY <1>2, <1>3, TidyWhere DEF Clean

LEMMA TidyMade ==
  ASSUME TypeInv, TypeOK', NEW r \in Runs, Step(r), ~torn',
         r \notin erred' \cup logged', Tidy(r)
  PROVE  Tidy(r)'
<1>0. TypeOK /\ FirstFile("register") = "known_hosts" /\ FirstFile("preadd") = "known_hosts"
      /\ \A s \in Removing : FirstFile(s) = "config"
  BY DEF TypeInv, FirstFile, Adding, Removing
<1>1. CASE Look(r) \/ Read(r) \/ Write(r)
  BY <1>1, <1>0, EditEffect, TidyAdding, TidyRemoving, TidyUndo
<1>2. ASSUME UNCHANGED file
      PROVE  Mine(r, "config")' = Mine(r, "config")
             /\ Mine(r, "known_hosts")' = Mine(r, "known_hosts")
  BY <1>2 DEF Mine
<1>3. ASSUME NEW from \in {"start", "boot", "pick", "failing"}, NEW a,
             NEW to \in {"preadd", "register", "pick", "failing", "undo", "ended"},
             Goto(r, from, to, a), UNCHANGED file
      PROVE  Tidy(r)'
  <2>1. stage[r] = from /\ stage'[r] = to /\ edit'[r].file = FirstFile(to)
    BY <1>0, <1>3, GotoOutcome
  <2>2. Clean(r)
    BY <2>1 DEF Tidy
  <2>3. Clean(r)'
    BY <1>2, <1>3, <2>2 DEF Clean
  <2>4. QED
    BY <1>0, <2>1, <2>3, TidyWhere DEF Adding
<1>4. ASSUME NEW from \in {"inspect", "connect", "up"},
             NEW to \in {"predrop", "refuse", "retract", "giveback"},
             from = "inspect" <=> to \in {"predrop", "refuse"},
             Goto(r, from, to, None), UNCHANGED file
      PROVE  Tidy(r)'
  <2>1. stage[r] = from /\ stage'[r] = to /\ edit'[r].file = "config"
        /\ edit'[r].at = "look"
    BY <1>0, <1>4, GotoOutcome DEF Removing
  <2>2. Single(r, Entry(r))
    BY <2>1 DEF Tidy
  <2>3. Name(r)' = Name(r)
    BY <1>4, <2>1 DEF Name, Preflight
  <2>4. edit[r].addr \in Addresses \cup {PreflightAddress}
    BY <2>1 DEF TypeInv, TypeOK, AddressKnown
  <2>5. Single(r, [name |-> Name(r), addr |-> edit[r].addr])
    BY <2>2 DEF Entry
  <2>6. \E a \in Addresses \cup {PreflightAddress} :
          Single(r, [name |-> Name(r), addr |-> a])'
    BY <1>2, <1>4, <2>3, <2>4, <2>5 DEF Single
  <2>7. QED
    BY <2>1, <2>6, TidyWhere DEF Removing
<1>5. CASE Start(r)
  BY <1>3, <1>5 DEF Start
<1>6. CASE Inspect(r)
  BY <1>4, <1>6 DEF Inspect
<1>7. CASE Boot(r)
  BY <1>3, <1>7 DEF Boot
<1>8. CASE Register(r)
  BY <1>3, <1>8 DEF Register
<1>9. CASE GiveUp(r)
  BY <1>3, <1>9 DEF GiveUp
<1>10. CASE Connect(r)
  <2>1. CASE Goto(r, "connect", "up", edit[r].addr)
    <3>1. stage[r] = "connect" /\ stage'[r] = "up" /\ edit'[r].addr = edit[r].addr
          /\ UNCHANGED file
      BY <1>0, <1>10, <2>1, GotoOutcome DEF Connect
    <3>2. Entry(r)' = Entry(r)
      <4>1. Entry(r)' = [name |-> Name(r)', addr |-> edit'[r].addr]
        BY DEF Entry
      <4>2. Name(r)' = Name(r)
        BY <3>1 DEF Name, Preflight
      <4>3. QED
        BY <3>1, <4>1, <4>2 DEF Entry
    <3>3. Single(r, Entry(r))
      BY <3>1 DEF Tidy
    <3>4. Single(r, Entry(r))'
      BY <1>2, <3>1, <3>2, <3>3 DEF Single
    <3>5. QED
      BY <3>1, <3>4, TidyWhere
  <2>2. CASE Goto(r, "connect", "retract", None)
    BY <1>4, <1>10, <2>2 DEF Connect
  <2>3. QED
    BY <1>10, <2>1, <2>2 DEF Connect
<1>11. CASE Release(r)
  <2>1. CASE Goto(r, "up", "ended", None) /\ kept' = kept \cup {r}
    <3>1. stage'[r] = "ended" /\ r \in kept'
      BY <1>0, <2>1, GotoOutcome
    <3>2. QED
      BY <3>1, TidyWhere
  <2>2. CASE Goto(r, "up", "giveback", None)
    BY <1>4, <1>11, <2>2 DEF Release
  <2>3. QED
    BY <1>11, <2>1, <2>2 DEF Release
<1>12. CASE Fail(r)
  BY <1>3, <1>12 DEF Fail
<1>13. CASE Evict(r)
  BY <1>13 DEF Evict, Tidy, Clean, Single, Mine, Entry, Name
<1>14. QED
  BY <1>1, <1>5, <1>6, <1>7, <1>8, <1>9, <1>10, <1>11, <1>12, <1>13 DEF Step

LEMMA TidyStep == TidyInv /\ [Next]_vars => TidyInv'
<1> SUFFICES ASSUME TidyInv, [Next]_vars PROVE TidyInv'
  OBVIOUS
<1>0. TypeInv /\ TypeInv' /\ TypeOK'
  BY TypeInvStep DEF TidyInv, TypeInv
<1>1. ASSUME NEW p \in Runs, Step(p), ~torn', NEW r \in Runs,
             r \notin erred' \cup logged'
      PROVE  Tidy(r)'
  <2>1. ~torn
    BY <1>1, HistoryGrows DEF Next
  <2>2. r \notin erred \cup logged
    BY <1>1 DEF Step, Look, Read, Write, Raise, Start, Inspect, Evict, Boot, Register,
       GiveUp, Connect, Release, Fail, Delete
  <2>3. Tidy(r)
    BY <2>1, <2>2 DEF TidyInv, AllTidy
  <2>4. QED
    BY <1>0, <1>1, <2>3, TidyKept, TidyMade
<1>2. CASE Next
  BY <1>0, <1>1, <1>2 DEF Next, TidyInv, AllTidy
<1>3. CASE UNCHANGED vars
  BY <1>0, <1>3
  DEF vars, TidyInv, AllTidy, Tidy, Clean, Single, Mine, Entry, Name
<1>4. QED
  BY <1>2, <1>3

\* NothingLeft: a run that has ended without being told of an error, and did not
\* keep its server, has neither a block nor a pin, whatever other runs did to
\* the files in between, unless an update was lost or an add of the run failed
\* between its two files and was only logged.
THEOREM NothingLeftHolds == Spec => []NothingLeft
<1>1. TidyInv => NothingLeft
  <2> SUFFICES ASSUME TidyInv, ~torn, NEW r \in Runs, r \notin kept,
                      r \notin erred \cup logged, stage[r] = "ended"
               PROVE  \A f \in Files : \A e \in file[f] : e.name[1] # r
    BY DEF NothingLeft
  <2>1. Clean(r)
    BY DEF TidyInv, AllTidy, Tidy
  <2>2. QED
    BY <2>1 DEF Clean, Mine, Files
<1>2. QED
  BY <1>1, TidyInit, TidyStep, PTL DEF Spec
=============================================================================
