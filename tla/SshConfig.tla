----------------------------- MODULE SshConfig ------------------------------
(***************************************************************************)
(* The generated ssh_config and known_hosts, which every run of the        *)
(* OpenStack executor on this machine edits without a lock.                *)
(*                                                                         *)
(* SSHConfig.add and SSHConfig.remove look whether a file exists, read it, *)
(* and replace (or unlink) it: three steps per file, between which other   *)
(* runs do the same.  A run adds and removes a preflight alias, then       *)
(* registers the addresses of its server in turn until ssh answers, and    *)
(* removes its alias when it gives the server back.  The server may be one *)
(* it creates or one it adopts, of a run that ended or that still goes on. *)
(* A file that does not exist is an empty set of entries, since an empty   *)
(* one is unlinked.                                                        *)
(***************************************************************************)
EXTENDS Naturals, FiniteSets

CONSTANTS
  Runs,       \* runs of the executor on this machine
  Addresses,  \* floating addresses of the cloud
  MaxTries    \* registrations before the boot timeout (bound)

ASSUME ConstantsAssumption == MaxTries \in Nat \ {0}

VARIABLES
  stage,   \* what each run is doing
  edit,    \* its edit: file, step, address, content read
  file,    \* the entries of both files: an alias, or the run that pinned the
           \* key, with an address
  addrs,   \* the addresses of the server each run works with
  gone,    \* runs whose server another one has deleted
  tries,   \* registrations so far
  kept,    \* runs that ended and kept their server
  erred,   \* runs told of an error: of an edit, or of a deletion
  torn,    \* history: an edit replaced a file changed since it was read
  shared,  \* history: a run got an address another run still worked with
  logged   \* history: runs of which an add failed between its two files, and
           \* was only logged

vars == <<stage, edit, file, addrs, gone, tries, kept, erred, torn, shared, logged>>

Files == {"known_hosts", "config"}
Adding == {"preadd", "register"}
Removing == {"predrop", "refuse", "retract", "giveback", "undo"}
Preflight == {"preadd", "inspect", "predrop", "refuse"}
Stages == Adding \cup Removing
          \cup {"start", "inspect", "boot", "pick", "connect", "up", "failing",
                "ended"}

None == "none"
PreflightAddress == "192.0.2.1"

\* An address of the cloud is neither missing nor the reserved one.
ASSUME AddressAssumption == Addresses \cap {None, PreflightAddress} = {}

Names == Runs \X {"pre", "run"}
Entries == [name : Names, addr : Addresses \cup {PreflightAddress}]

\* sgo-preflight-<uuid> or sgo-<run>, and what the run put down for it.
Name(r) == <<r, IF stage[r] \in Preflight THEN "pre" ELSE "run">>
Entry(r) == [name |-> Name(r), addr |-> edit[r].addr]

FirstFile(s) == IF s \in Adding THEN "known_hosts" ELSE "config"
OtherFile(f) == IF f = "config" THEN "known_hosts" ELSE "config"
NoEdit == [file |-> "config", at |-> "look", addr |-> None, seen |-> {}]

Init ==
  /\ stage = [r \in Runs |-> "start"]
  /\ edit = [r \in Runs |-> NoEdit]
  /\ file = [f \in Files |-> {}]
  /\ addrs = [r \in Runs |-> {}]
  /\ gone = {}
  /\ tries = [r \in Runs |-> 0]
  /\ kept = {}
  /\ erred = {}
  /\ torn = FALSE
  /\ shared = FALSE
  /\ logged = {}

Enter(r, s, address) ==
  /\ stage' = [stage EXCEPT ![r] = s]
  /\ edit' = [edit EXCEPT ![r] = [file |-> FirstFile(s), at |-> "look",
                                  addr |-> address, seen |-> {}]]

-----------------------------------------------------------------------------
(* SSHConfig.add and SSHConfig.remove                                      *)

\* Where the caller goes on after the edit, and after an OSError in it: the
\* loop of _wait_for_ssh catches one of add, but not one of its own remove.
AfterEdit(s) ==
  CASE s = "preadd" -> "inspect" [] s = "predrop" -> "boot"
    [] s = "refuse" -> "failing" [] s = "register" -> "connect"
    [] s = "retract" -> "pick"   [] OTHER -> "ended"
AfterError(s) ==
  CASE s = "preadd" -> "refuse"  [] s = "register" -> "pick"
    [] s \in {"giveback", "undo"} -> "ended" [] OTHER -> "failing"

\* The other file, or the end of the edit.
Proceed(r) ==
  IF edit[r].file = FirstFile(stage[r])
  THEN /\ edit' = [edit EXCEPT ![r].at = "look", ![r].seen = {},
                         ![r].file = OtherFile(edit[r].file)]
       /\ UNCHANGED stage
  ELSE Enter(r, AfterEdit(stage[r]), edit[r].addr)

\* _wait_for_ssh logs the OSError of an add and goes on to the next address,
\* with the pin in place if the add had come to ssh_config.  Every other error
\* reaches the caller of acquire or release.
Raise(r) ==
  /\ Enter(r, AfterError(stage[r]), None)
  /\ IF stage[r] # "register" THEN erred' = erred \cup {r} /\ UNCHANGED logged
     ELSE /\ logged' = IF edit[r].file = "config" THEN logged \cup {r} ELSE logged
          /\ UNCHANGED erred

Editing(r, step) == stage[r] \in Adding \cup Removing /\ edit[r].at = step
Content(r) == file[edit[r].file]

\* path.exists()
Look(r) ==
  /\ Editing(r, "look")
  /\ IF Content(r) # {} THEN edit' = [edit EXCEPT ![r].at = "read"]
                             /\ UNCHANGED stage
     ELSE IF stage[r] \in Adding THEN edit' = [edit EXCEPT ![r].at = "write"]
                                      /\ UNCHANGED stage
     ELSE Proceed(r)
  /\ UNCHANGED <<file, addrs, gone, tries, kept, erred, torn, shared, logged>>

\* read_text(); remove learns the address from its own block.
Own(r, entries) == {e \in entries : e.name = Name(r)}
Found(r) ==
  IF stage[r] \in Removing /\ edit[r].file = "config" /\ Own(r, Content(r)) # {}
  THEN (CHOOSE e \in Own(r, Content(r)) : TRUE).addr
  ELSE edit[r].addr

Read(r) ==
  /\ Editing(r, "read")
  /\ IF Content(r) = {} THEN Raise(r)
     ELSE /\ edit' = [edit EXCEPT ![r].at = "write", ![r].seen = Content(r),
                                  ![r].addr = Found(r)]
          /\ UNCHANGED <<stage, erred, logged>>
  /\ UNCHANGED <<file, addrs, gone, tries, kept, torn, shared>>

\* Mutation: remove drops every pin when the alias is unknown.
Edited_DropsAll(r) ==
  LET seen == edit[r].seen
      others == IF edit[r].file = "config" THEN seen \ Own(r, seen)
                ELSE {e \in seen : e.addr # edit[r].addr /\ edit[r].addr # None}
  IN IF stage[r] \in Adding THEN others \cup {Entry(r)} ELSE others

\* The new content: a block replaces the block of its alias, a pin the pins of
\* its address; without an address no pin is dropped.
Edited(r) ==
  LET seen == edit[r].seen
      others == IF edit[r].file = "config" THEN seen \ Own(r, seen)
                ELSE {e \in seen : e.addr # edit[r].addr}
  IN IF stage[r] \in Adding THEN others \cup {Entry(r)} ELSE others

\* _atomic_write, or unlink() when nothing is left.
Write(r) ==
  /\ Editing(r, "write")
  /\ IF Edited(r) = {} /\ Content(r) = {} THEN Raise(r) /\ UNCHANGED <<file, torn>>
     ELSE /\ file' = [file EXCEPT ![edit[r].file] = Edited(r)]
          /\ torn' = (torn \/ Content(r) # edit[r].seen)
          /\ Proceed(r)
          /\ UNCHANGED <<erred, logged>>
  /\ UNCHANGED <<addrs, gone, tries, kept, shared>>

-----------------------------------------------------------------------------
(* OpenStackHosts, as far as the two files are concerned                   *)

Goto(r, from, to, address) == stage[r] = from /\ Enter(r, to, address)

Start(r) ==
  /\ Goto(r, "start", "preadd", PreflightAddress)
  /\ UNCHANGED <<file, addrs, gone, tries, kept, erred, torn, shared, logged>>

\* ssh -G must show the alias; it never does if ~/.ssh/config has no Include.
Inspect(r) ==
  /\ \/ Entry(r) \in file["config"] /\ Goto(r, "inspect", "predrop", None)
     \/ Goto(r, "inspect", "refuse", None)
  /\ UNCHANGED <<file, addrs, gone, tries, kept, erred, torn, shared, logged>>

\* The addresses a run may still write or remove: those of its server, the one
\* its edit works with, and those of its blocks, where remove looks for one.
Mine(q, f) == {e \in file[f] : e.name[1] = q}
Claimed(q) ==
  IF stage[q] = "ended" THEN {}
  ELSE (addrs[q] \cup {edit[q].addr} \cup {e.addr : e \in Mine(q, "config")})
       \ {None, PreflightAddress}

\* The runs that work with the server of r besides it.
Sharers(r) == {q \in Runs \ {r} : addrs[q] \cap addrs[r] # {}}

\* on-existing "delete": the server of another run goes before this one boots.
\* The cloud may give its addresses out again; the other has still to find out.
Evict(r) ==
  /\ stage[r] = "boot"
  /\ \E q \in Runs \ ({r} \cup gone) :
        /\ addrs[q] # {}
        /\ gone' = gone \cup {q} \cup Sharers(q)
  /\ UNCHANGED <<stage, edit, file, addrs, tries, kept, erred, torn, shared, logged>>

InUse == UNION {addrs[q] : q \in Runs \ gone}
Standing == {addrs[q] : q \in Runs \ gone} \ {{}}

\* A new server has addresses no other has; with on-existing "adopt" the server
\* is one that stands, which may be that of a run still going on.
Boot(r) ==
  \/ /\ \E some \in (SUBSET (Addresses \ InUse) \ {{}}) \cup Standing :
          /\ addrs' = [addrs EXCEPT ![r] = some]
          /\ shared' = (shared \/ \E q \in Runs \ {r} : Claimed(q) \cap some # {})
     /\ Goto(r, "boot", "pick", None)
     /\ UNCHANGED <<file, gone, tries, kept, erred, torn, logged>>
  \/ /\ Goto(r, "boot", "failing", None)
     /\ UNCHANGED <<file, addrs, gone, tries, kept, erred, torn, shared, logged>>

\* Mutation: the boot timeout is never tested.
Register_NoTimeout(r) ==
  /\ tries' = [tries EXCEPT ![r] = @ + 1]
  /\ \E a \in addrs[r] : Goto(r, "pick", "register", a)
  /\ UNCHANGED <<file, addrs, gone, kept, erred, torn, shared, logged>>

\* _wait_for_ssh: the next address, or the boot timeout.
Register(r) ==
  /\ tries[r] < MaxTries
  /\ tries' = [tries EXCEPT ![r] = @ + 1]
  /\ \E a \in addrs[r] : Goto(r, "pick", "register", a)
  /\ UNCHANGED <<file, addrs, gone, kept, erred, torn, shared, logged>>

GiveUp(r) ==
  /\ Goto(r, "pick", "failing", None)
  /\ UNCHANGED <<file, addrs, gone, tries, kept, erred, torn, shared, logged>>

\* Mutation: a failed connection leaves its entry to the next registration.
Connect_NoRetract(r) ==
  /\ \/ Entry(r) \in file["known_hosts"] /\ Goto(r, "connect", "up", edit[r].addr)
     \/ Goto(r, "connect", "pick", None)
  /\ UNCHANGED <<file, addrs, gone, tries, kept, erred, torn, shared, logged>>

\* StrictHostKeyChecking: no connection without the pin.
Connect(r) ==
  /\ \/ Entry(r) \in file["known_hosts"] /\ Goto(r, "connect", "up", edit[r].addr)
     \/ Goto(r, "connect", "retract", None)
  /\ UNCHANGED <<file, addrs, gone, tries, kept, erred, torn, shared, logged>>

\* A deletion that fails keeps the server and its address, and is reported.
Delete(r, deleted) ==
  /\ addrs' = IF deleted THEN [addrs EXCEPT ![r] = {}] ELSE addrs
  /\ gone' = IF deleted /\ r \notin gone THEN gone \cup Sharers(r) ELSE gone
  /\ erred' = IF deleted THEN erred ELSE erred \cup {r}

\* release: a server that is kept keeps its entry; the entry of another is
\* removed after the server, whether or not its deletion failed.
Release(r) ==
  /\ \/ /\ Goto(r, "up", "ended", None)
        /\ kept' = kept \cup {r}
        /\ UNCHANGED <<addrs, gone, erred>>
     \/ /\ Goto(r, "up", "giveback", None)
        /\ \E deleted \in BOOLEAN : Delete(r, deleted)
        /\ UNCHANGED kept
  /\ UNCHANGED <<file, tries, torn, shared, logged>>

\* acquire failed: its server goes first, and if that fails nothing else does.
Fail(r) ==
  /\ \/ Goto(r, "failing", "undo", None) /\ Delete(r, TRUE)
     \/ addrs[r] # {} /\ Goto(r, "failing", "ended", None) /\ Delete(r, FALSE)
  /\ UNCHANGED <<file, tries, kept, torn, shared, logged>>

Step(r) == \/ Look(r) \/ Read(r) \/ Write(r)
           \/ Start(r) \/ Inspect(r) \/ Evict(r) \/ Boot(r) \/ Register(r)
           \/ GiveUp(r) \/ Connect(r) \/ Release(r) \/ Fail(r)

Next == \E r \in Runs : Step(r)

Spec == Init /\ [][Next]_vars

-----------------------------------------------------------------------------
(* Properties                                                              *)

Edits == [file : Files, at : {"look", "read", "write"},
          addr : Addresses \cup {PreflightAddress, None}, seen : SUBSET Entries]

TypeOK ==
  /\ stage \in [Runs -> Stages]
  /\ edit \in [Runs -> Edits]
  /\ file \in [Files -> SUBSET Entries]
  /\ addrs \in [Runs -> SUBSET Addresses]
  /\ tries \in [Runs -> 0..MaxTries]
  /\ gone \subseteq Runs /\ kept \subseteq Runs
  /\ erred \subseteq Runs /\ logged \subseteq Runs
  /\ torn \in BOOLEAN /\ shared \in BOOLEAN

\* While a run inspects its preflight alias, connects, or works on its server,
\* the alias is in ssh_config, and the pin of a server in known_hosts, whatever
\* the others add and remove: it takes a lost update, or a run that got an
\* address another still worked with (by adopting its server, or because the
\* server was deleted before the entry), to lose them.
EntryStays ==
  ~torn /\ ~shared => \A r \in Runs :
    /\ stage[r] \in {"inspect", "connect", "up"} => Entry(r) \in file["config"]
    /\ stage[r] \in {"connect", "up"} => Entry(r) \in file["known_hosts"]

\* "remove cleans run entry": a run that has ended and kept no server has no
\* alias and no pin, unless an update was lost, or an edit or a deletion raised
\* an error that its caller got or, for an add that failed between its two
\* files while the run waited for ssh, that was only logged.
NothingLeft ==
  ~torn => \A r \in Runs \ (kept \cup erred \cup logged) : stage[r] = "ended" =>
    \A f \in Files : \A e \in file[f] : e.name[1] # r
=============================================================================
