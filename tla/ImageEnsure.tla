---------------------------- MODULE ImageEnsure -----------------------------
(***************************************************************************)
(* ensure_image: reuse the one validated private image that carries the    *)
(* name derived from a local file, or upload the file once.  Invocations   *)
(* for the same file run one after the other (an operator tries again) or  *)
(* at the same time; each creates at most one image, which is named after  *)
(* the invocation.  Only images of that name are modelled.                 *)
(***************************************************************************)
EXTENDS Naturals, FiniteSets

CONSTANTS
  Invocations,
  Other,     \* an image that others may have made
  Timeout,   \* the timeout option, in clock ticks
  MaxErrors, \* API calls that fail (bound)
  MaxEvents  \* images deactivated or removed by others (bound)

ASSUME ConstantsAssumption ==
  /\ Other \notin Invocations
  /\ Timeout \in Nat /\ MaxErrors \in Nat /\ MaxEvents \in Nat

VARIABLES
  pc,     \* where ensure_image stands
  image,  \* the images in Glance
  id,     \* the candidate, or the created image
  seen,   \* what the last answer of Glance said of it
  waited, \* ticks since the wait began
  named,  \* images the error names
  errors, events,
  race,   \* history: two invocations saw no image before either made one
  blind   \* history: the invocation could not look what it left behind

local == <<pc, id, seen, waited, named>>
vars == <<local, image, errors, events, race, blind>>

Ids == Invocations \cup {Other}
\* ours: the digest and publisher properties are those of the file; right:
\* owner, visibility, formats, size, checksum and region are as they must be.
Image(status, ours, right) ==
  [status |-> status, ours |-> ours, right |-> right]
Absent == Image("absent", FALSE, FALSE)
Records == [status : {"queued", "active", "bad"}, ours : BOOLEAN, right : BOOLEAN]
Images == {Absent} \cup Records
Present == {x \in Ids : image[x] # Absent}

Init ==
  /\ pc = [i \in Invocations |-> "idle"]
  /\ image \in [Ids -> Images]
  /\ Present \subseteq {Other}
  /\ id = [i \in Invocations |-> i]
  /\ seen = [i \in Invocations |-> Absent]
  /\ waited = [i \in Invocations |-> 0]
  /\ named = [i \in Invocations |-> {}]
  /\ errors = 0 /\ events = 0 /\ race = FALSE
  /\ blind = [i \in Invocations |-> FALSE]

Ok == UNCHANGED errors
Error == errors < MaxErrors /\ errors' = errors + 1
Goto(i, label) == pc' = [pc EXCEPT ![i] = label]
Fail(i, ids) == Goto(i, "failed") /\ named' = [named EXCEPT ![i] = ids]
\* A new deadline.
StartClock(i) == waited' = [waited EXCEPT ![i] = 0]
Unnamed == UNCHANGED named

-----------------------------------------------------------------------------
\* The file is read and image_scope asked for project and region.
Begin(i) ==
  /\ pc[i] = "idle"
  /\ \/ Ok /\ Goto(i, "list") /\ Unnamed
     \/ Error /\ Fail(i, {})
  /\ UNCHANGED <<image, id, seen, waited, events, race, blind>>

\* Mutation: images that are not active yet are passed over.
Matches_Active == {x \in Present : image[x].status = "active"}

\* _existing: the images of that name, whatever their status.
Matches == Present

ListNone(i) ==
  /\ pc[i] = "list" /\ Matches = {}
  /\ Ok /\ Goto(i, "upload") /\ Unnamed
  /\ race' = (race \/ \E j \in Invocations \ {i} : pc[j] = "upload")
  /\ UNCHANGED <<image, id, seen, waited, events, blind>>

\* The only match must carry the digest and the publisher.
ListOne(i) ==
  /\ pc[i] = "list"
  /\ \E x \in Matches :
       /\ Matches = {x}
       /\ \/ /\ image[x].ours
             /\ Goto(i, "wait") /\ Unnamed /\ StartClock(i)
             /\ id' = [id EXCEPT ![i] = x]
             /\ seen' = [seen EXCEPT ![i] = image[x]]
          \/ ~image[x].ours /\ Fail(i, {x}) /\ UNCHANGED <<id, seen, waited>>
  /\ Ok
  /\ UNCHANGED <<image, events, race, blind>>

ListFails(i) ==
  /\ pc[i] = "list"
  /\ \/ Cardinality(Matches) > 1 /\ Ok /\ Fail(i, Matches)
     \/ Error /\ Fail(i, {})
  /\ UNCHANGED <<image, id, seen, waited, events, race, blind>>

-----------------------------------------------------------------------------
(* Upload: create_image(wait=True, allow_duplicates=True)                  *)

\* The record is made, then the data is sent; or the call fails before.
Upload(i) ==
  /\ pc[i] = "upload"
  /\ \/ /\ Ok /\ Goto(i, "uploading") /\ StartClock(i)
        /\ \E right \in BOOLEAN :
             image' = [image EXCEPT ![i] = Image("queued", TRUE, right)]
     \/ Error /\ Goto(i, "recover") /\ UNCHANGED <<image, waited>>
  /\ UNCHANGED <<id, seen, named, events, race, blind>>

\* Mutation: an answer without an ID is taken for the image.
UploadEnds_NoId(i) ==
  /\ pc[i] = "uploading" /\ image[i].status = "active"
  /\ \/ Ok /\ id' = [id EXCEPT ![i] = i]
     \/ Error /\ id' = [id EXCEPT ![i] = "unknown"]
  /\ Goto(i, "wait") /\ StartClock(i)
  /\ seen' = [seen EXCEPT ![i] = image[i]]
  /\ UNCHANGED <<image, named, events, race, blind>>

\* The call returns the image, or without an ID.
UploadEnds(i) ==
  /\ pc[i] = "uploading" /\ image[i].status = "active"
  /\ \/ /\ Ok /\ Goto(i, "wait") /\ Unnamed /\ StartClock(i)
        /\ id' = [id EXCEPT ![i] = i]
        /\ seen' = [seen EXCEPT ![i] = image[i]]
        /\ UNCHANGED blind
     \/ /\ Error /\ Fail(i, {}) /\ blind' = [blind EXCEPT ![i] = TRUE]
        /\ UNCHANGED <<id, seen, waited>>
  /\ UNCHANGED <<image, events, race>>

\* It raises: the image went bad, the SDK's own wait is over, or the answer is
\* lost.  The SDK may have removed the record again.
UploadRaises(i) ==
  /\ pc[i] = "uploading"
  /\ \/ image[i].status \in {"bad", "absent"} /\ Ok
     \/ waited[i] = Timeout /\ Ok
     \/ Error
  /\ Goto(i, "recover")
  /\ image' \in {image, [image EXCEPT ![i] = Absent]}
  /\ UNCHANGED <<id, seen, waited, named, events, race, blind>>

\* Mutation: the lookup is for an image that can be reused.
Recover_Active(i) ==
  /\ pc[i] = "recover"
  /\ \/ /\ Ok /\ UNCHANGED blind
        /\ Fail(i, {x \in Present : image[x].ours /\ image[x].status = "active"})
     \/ Error /\ Fail(i, {}) /\ blind' = [blind EXCEPT ![i] = TRUE]
  /\ UNCHANGED <<image, id, seen, waited, events, race>>

\* "The API may have accepted the upload even if its response was lost."
Recover(i) ==
  /\ pc[i] = "recover"
  /\ \/ Ok /\ Fail(i, {x \in Present : image[x].ours}) /\ UNCHANGED blind
     \/ Error /\ Fail(i, {}) /\ blind' = [blind EXCEPT ![i] = TRUE]
  /\ UNCHANGED <<image, id, seen, waited, events, race>>

-----------------------------------------------------------------------------
(* _wait_for_active, then the image is fetched again and verified          *)

\* Mutation: the status of a pending image is asked for without a deadline.
Wait_NoDeadline(i) ==
  /\ pc[i] = "wait"
  /\ \/ seen[i].status = "active" /\ Goto(i, "fetch") /\ Unnamed
     \/ seen[i].status = "bad" /\ Fail(i, {id[i]})
     \/ seen[i].status = "queued" /\ Goto(i, "poll") /\ Unnamed
  /\ Ok
  /\ UNCHANGED <<image, id, seen, waited, events, race, blind>>

Wait(i) ==
  /\ pc[i] = "wait"
  /\ \/ seen[i].status = "active" /\ Goto(i, "fetch") /\ Unnamed
     \/ seen[i].status = "bad" /\ Fail(i, {id[i]})
     \/ seen[i].status = "queued" /\ waited[i] = Timeout /\ Fail(i, {id[i]})
     \/ seen[i].status = "queued" /\ waited[i] < Timeout
        /\ Goto(i, "poll") /\ Unnamed
  /\ Ok
  /\ UNCHANGED <<image, id, seen, waited, events, race, blind>>

\* An error of the API is raised with the ID of an image just uploaded, and
\* as it is for an image that was found.
Poll(i) ==
  /\ pc[i] = "poll"
  /\ \/ /\ image[id[i]] # Absent /\ Ok
        /\ seen' = [seen EXCEPT ![i] = image[id[i]]]
        /\ Goto(i, "wait") /\ Unnamed
     \/ image[id[i]] = Absent /\ Ok /\ Fail(i, {id[i]}) /\ UNCHANGED seen
     \/ Error /\ Fail(i, {id[i]} \cap {i}) /\ UNCHANGED seen
  /\ UNCHANGED <<image, id, waited, events, race, blind>>

\* _verify of the fresh record.
Verified(record) == record.status = "active" /\ record.ours /\ record.right

Fetch(i) ==
  /\ pc[i] = "fetch"
  /\ \/ Verified(image[id[i]]) /\ Ok /\ Goto(i, "done") /\ Unnamed
     \/ ~Verified(image[id[i]]) /\ Ok /\ Fail(i, {id[i]})
     \/ Error /\ Fail(i, {id[i]} \cap {i})
  /\ UNCHANGED <<image, id, seen, waited, events, race, blind>>

-----------------------------------------------------------------------------
(* Glance, other people and the clock                                      *)

Progress(x) ==
  /\ image[x].status = "queued"
  /\ \E s \in {"active", "bad"} : image' = [image EXCEPT ![x].status = s]
  /\ UNCHANGED <<local, errors, events, race, blind>>

Disturb(x) ==
  /\ events < MaxEvents /\ events' = events + 1
  /\ image[x] # Absent
  /\ image' \in {[image EXCEPT ![x].status = "bad"],
                 [image EXCEPT ![x] = Absent]}
  /\ UNCHANGED <<local, errors, race, blind>>

Clocked(i) == pc[i] \in {"uploading", "wait", "poll"} /\ waited[i] < Timeout

Tick ==
  /\ \E i \in Invocations : Clocked(i)
  /\ waited' = [i \in Invocations |->
                  IF Clocked(i) THEN waited[i] + 1 ELSE waited[i]]
  /\ UNCHANGED <<pc, image, id, seen, named, errors, events, race, blind>>

Step(i) == \/ Begin(i) \/ ListNone(i) \/ ListOne(i) \/ ListFails(i)
           \/ Upload(i) \/ UploadEnds(i) \/ UploadRaises(i) \/ Recover(i)
           \/ Wait(i) \/ Poll(i) \/ Fetch(i)

Next == \/ \E i \in Invocations : Step(i)
        \/ \E x \in Ids : Progress(x) \/ Disturb(x)
        \/ Tick

Spec == Init /\ [][Next]_vars

\* A command that has begun keeps running, and time passes; an image need
\* never leave the queue.
Fairness == WF_vars(Tick) /\ \A i \in Invocations :
                               WF_vars(pc[i] # "idle" /\ Step(i))
FairSpec == Spec /\ Fairness

-----------------------------------------------------------------------------
(* Properties                                                              *)

TypeOK ==
  /\ pc \in [Invocations -> {"idle", "list", "upload", "uploading", "recover",
                             "wait", "poll", "fetch", "done", "failed"}]
  /\ image \in [Ids -> Images]
  /\ id \in [Invocations -> Ids]
  /\ seen \in [Invocations -> Images]
  /\ waited \in [Invocations -> 0..Timeout]
  /\ named \in [Invocations -> SUBSET Ids]
  /\ errors \in 0..MaxErrors /\ events \in 0..MaxEvents
  /\ race \in BOOLEAN
  /\ blind \in [Invocations -> BOOLEAN]

\* "Publish the local qcow2 once": whatever replies are lost, trying again
\* makes no second image of the name.  Only two invocations that both look
\* before either uploads can.
OneImage == ~race => Cardinality(Present) <= 1

\* A command never deletes; so the image it leaves behind when it fails is
\* named in its error, unless it could not look.
LeftoverNamed ==
  \A i \in Invocations :
    pc[i] = "failed" /\ image[i] # Absent /\ ~blind[i] => i \in named[i]

\* Every command ends, although an image may stay in the queue for ever.
EveryCommandEnds ==
  \A i \in Invocations : pc[i] = "list" ~> pc[i] \in {"done", "failed"}
=============================================================================
