------------------------- MODULE ImageEnsureProofs --------------------------
(***************************************************************************)
(* Proofs about ImageEnsure, for any number of invocations, of failing     *)
(* calls and of images that others change, and for every timeout.          *)
(***************************************************************************)
EXTENDS ImageEnsure, FiniteSetTheorems, TLAPS

Labels == {"idle", "list", "upload", "uploading", "recover", "wait", "poll",
           "fetch", "done", "failed"}

\* An API call that fails is counted.
LEMMA ErrorsBounded ==
  ASSUME errors \in 0..MaxErrors, Ok \/ Error PROVE errors' \in 0..MaxErrors
BY ConstantsAssumption DEF Ok, Error

\* An upload makes a record of this file, which is not the absent one.
LEMMA UploadedRecord ==
  ASSUME NEW right \in BOOLEAN
  PROVE  /\ Image("queued", TRUE, right) \in Records
         /\ Image("queued", TRUE, right).ours
BY DEF Image, Records

LEMMA AbsentIsNoRecord == Absent \notin Records /\ Absent.status = "absent"
BY DEF Image, Absent, Records

\* The images of the name that a list may answer.
LEMMA PresentIds ==
  /\ Present \subseteq Ids
  /\ Invocations \subseteq Ids
  /\ Matches = Present
BY DEF Present, Ids, Matches

LEMMA TypeCorrectInit == Init => TypeOK
<1> SUFFICES ASSUME Init PROVE TypeOK
  OBVIOUS
<1>1. image \in [Ids -> Images] /\ Absent \in Images
  BY DEF Init, Images
<1>2. pc \in [Invocations -> Labels] /\ seen \in [Invocations -> Images]
  BY <1>1 DEF Init, Labels
<1>3. id \in [Invocations -> Ids] /\ named \in [Invocations -> SUBSET Ids]
  BY DEF Init, Ids
<1>4. waited \in [Invocations -> 0..Timeout] /\ blind \in [Invocations -> BOOLEAN]
  BY ConstantsAssumption DEF Init
<1>5. race \in BOOLEAN
  BY DEF Init
<1>6. errors \in 0..MaxErrors /\ events \in 0..MaxEvents
  BY ConstantsAssumption DEF Init
<1>7. QED
  BY <1>1, <1>2, <1>3, <1>4, <1>5, <1>6 DEF TypeOK, Labels

LEMMA TypeCorrectStep == TypeOK /\ [Next]_vars => TypeOK'
<1> SUFFICES ASSUME TypeOK, [Next]_vars PROVE TypeOK'
  OBVIOUS
<1> USE ConstantsAssumption, PresentIds DEF TypeOK
<1> USE DEF Goto, Fail, StartClock, Unnamed
<1>0. ASSUME Ok \/ Error PROVE errors' \in 0..MaxErrors
  BY <1>0, ErrorsBounded
<1>1. ASSUME NEW i \in Invocations, Begin(i) PROVE TypeOK'
  BY <1>0, <1>1 DEF Begin
<1>2. ASSUME NEW i \in Invocations, ListNone(i) PROVE TypeOK'
  BY <1>0, <1>2 DEF ListNone
<1>3. ASSUME NEW i \in Invocations, ListOne(i) PROVE TypeOK'
  <2>1. PICK x \in Matches :
          \/ /\ Goto(i, "wait") /\ Unnamed /\ StartClock(i)
             /\ id' = [id EXCEPT ![i] = x]
             /\ seen' = [seen EXCEPT ![i] = image[x]]
          \/ Fail(i, {x}) /\ UNCHANGED <<id, seen, waited>>
    BY ONLY <1>3, Zenon DEF ListOne
  <2>2. x \in Ids
    OBVIOUS
  <2>3. pc' \in [Invocations -> Labels] /\ named' \in [Invocations -> SUBSET Ids]
    BY <2>1, <2>2 DEF Labels
  <2>4. id' \in [Invocations -> Ids] /\ seen' \in [Invocations -> Images]
        /\ waited' \in [Invocations -> 0..Timeout]
    BY <2>1, <2>2
  <2>5. QED
    BY <1>0, <1>3, <2>3, <2>4 DEF ListOne, Labels
<1>4. ASSUME NEW i \in Invocations, ListFails(i) PROVE TypeOK'
  BY <1>0, <1>4 DEF ListFails
<1>5. ASSUME NEW i \in Invocations, Upload(i) PROVE TypeOK'
  <2>1. \/ \E record \in Records : image' = [image EXCEPT ![i] = record]
        \/ UNCHANGED image
    BY <1>5, UploadedRecord, Zenon DEF Upload
  <2>2. image' \in [Ids -> Images]
    BY <2>1 DEF Images
  <2>3. \/ Goto(i, "uploading") /\ StartClock(i)
        \/ Goto(i, "recover") /\ UNCHANGED waited
    BY ONLY <1>5, Zenon DEF Upload
  <2>4. pc' \in [Invocations -> Labels] /\ waited' \in [Invocations -> 0..Timeout]
    BY <2>3 DEF Labels
  <2>5. QED
    BY <1>0, <1>5, <2>2, <2>4 DEF Upload, Labels
<1>6. ASSUME NEW i \in Invocations, UploadEnds(i) PROVE TypeOK'
  <2>1. pc' \in [Invocations -> Labels] /\ waited' \in [Invocations -> 0..Timeout]
        /\ named' \in [Invocations -> SUBSET Ids]
    BY <1>6 DEF UploadEnds, Labels
  <2>2. id' \in [Invocations -> Ids] /\ seen' \in [Invocations -> Images]
        /\ blind' \in [Invocations -> BOOLEAN]
    BY <1>6 DEF UploadEnds
  <2>3. QED
    BY <1>0, <1>6, <2>1, <2>2 DEF UploadEnds, Labels
<1>7. ASSUME NEW i \in Invocations, UploadRaises(i) PROVE TypeOK'
  BY <1>0, <1>7 DEF UploadRaises, Images
<1>8. ASSUME NEW i \in Invocations, Recover(i) PROVE TypeOK'
  BY <1>0, <1>8 DEF Recover
<1>9. ASSUME NEW i \in Invocations, Wait(i) PROVE TypeOK'
  BY <1>0, <1>9 DEF Wait
<1>10. ASSUME NEW i \in Invocations, Poll(i) PROVE TypeOK'
  <2>1. pc' \in [Invocations -> Labels] /\ named' \in [Invocations -> SUBSET Ids]
    BY <1>10 DEF Poll, Labels
  <2>2. seen' \in [Invocations -> Images]
    BY <1>10 DEF Poll
  <2>3. QED
    BY <1>0, <1>10, <2>1, <2>2 DEF Poll, Labels
<1>11. ASSUME NEW i \in Invocations, Fetch(i) PROVE TypeOK'
  <2>1. pc' \in [Invocations -> Labels] /\ named' \in [Invocations -> SUBSET Ids]
    BY <1>11 DEF Fetch, Labels
  <2>2. QED
    BY <1>0, <1>11, <2>1 DEF Fetch, Labels
<1>12. ASSUME NEW x \in Ids, Progress(x) PROVE TypeOK'
  <2>1. image' \in [Ids -> Images]
    BY <1>12, AbsentIsNoRecord DEF Progress, Images, Records
  <2>2. QED
    BY <1>12, <2>1 DEF Progress, local
<1>13. ASSUME NEW x \in Ids, Disturb(x) PROVE TypeOK'
  <2>1. [image[x] EXCEPT !.status = "bad"] \in Images
    BY <1>13 DEF Disturb, Images, Records
  <2>2. image' \in [Ids -> Images]
    BY <1>13, <2>1 DEF Disturb, Images
  <2>3. QED
    BY <1>13, <2>2 DEF Disturb, local
<1>14. CASE Tick
  BY <1>14 DEF Tick, Clocked
<1>15. CASE UNCHANGED vars
  BY <1>15 DEF vars, local
<1>16. QED
  BY <1>1, <1>2, <1>3, <1>4, <1>5, <1>6, <1>7, <1>8, <1>9, <1>10, <1>11,
     <1>12, <1>13, <1>14, <1>15 DEF Next, Step

\* TypeOK: a wait never passes its deadline, and what a command reports are
\* images of the name, whatever Glance answers.
THEOREM TypeCorrect == Spec => []TypeOK
BY TypeCorrectInit, TypeCorrectStep, PTL DEF Spec

-----------------------------------------------------------------------------
(***************************************************************************)
(* The images a command may leave behind.  Its own image exists only from  *)
(* the upload on, while it waits for an image of another it has none, and  *)
(* an image it uploaded carries the properties of the file, which is how   *)
(* the lookup after a failure finds it.                                    *)
(***************************************************************************)

OwnImage ==
  \A i \in Invocations :
    /\ pc[i] \in {"idle", "list", "upload"} => image[i] = Absent
    /\ pc[i] \in {"wait", "poll", "fetch"} /\ id[i] # i => image[i] = Absent
    /\ image[i] # Absent => image[i].ours

LeftoverInv == TypeOK /\ OwnImage /\ LeftoverNamed

LEMMA LeftoverInit == Init => LeftoverInv
<1> SUFFICES ASSUME Init PROVE OwnImage /\ LeftoverNamed
  BY TypeCorrectInit DEF LeftoverInv
<1>1. \A i \in Invocations : image[i] = Absent
  BY PresentIds, ConstantsAssumption DEF Init, Present
<1>2. QED
  BY <1>1 DEF Init, OwnImage, LeftoverNamed

\* What happens to the images.  Only an upload makes one.
LEMMA ImagesChange ==
  ASSUME TypeOK, [Next]_vars, NEW j \in Invocations, image[j] = Absent,
         ~ Upload(j)
  PROVE  image'[j] = Absent
<1> USE PresentIds, AbsentIsNoRecord DEF TypeOK
<1>1. CASE UNCHANGED image
  BY <1>1
<1>2. ASSUME NEW i \in Invocations, Upload(i) PROVE image'[j] = Absent
  <2>1. i # j
    BY <1>2
  <2>2. \/ UNCHANGED image
        \/ \E record \in Records : image' = [image EXCEPT ![i] = record]
    BY <1>2, UploadedRecord, Zenon DEF Upload
  <2>3. QED
    BY <2>1, <2>2
<1>3. ASSUME NEW i \in Invocations, UploadRaises(i) PROVE image'[j] = Absent
  BY <1>3 DEF UploadRaises
<1>4. ASSUME NEW x \in Ids, Progress(x) PROVE image'[j] = Absent
  BY <1>4 DEF Progress
<1>5. ASSUME NEW x \in Ids, Disturb(x) PROVE image'[j] = Absent
  BY <1>5 DEF Disturb
<1>6. QED
  BY <1>1, <1>2, <1>3, <1>4, <1>5
  DEF Next, Step, vars, Begin, ListNone, ListOne, ListFails, UploadEnds,
      Recover, Wait, Poll, Fetch, Tick

\* An image of this program never becomes one of another file.
LEMMA OursStays ==
  ASSUME TypeOK, OwnImage, [Next]_vars, NEW j \in Invocations,
         image'[j] # Absent
  PROVE  image'[j].ours
<1> USE PresentIds DEF TypeOK
<1>0. image[j] # Absent => image[j].ours
  BY DEF OwnImage
<1>1. CASE UNCHANGED image
  BY <1>0, <1>1
<1>2. ASSUME NEW i \in Invocations, Upload(i) PROVE image'[j].ours
  <2>1. \/ UNCHANGED image
        \/ \E record \in Records : record.ours /\ image' = [image EXCEPT ![i] = record]
    BY <1>2, UploadedRecord, Zenon DEF Upload
  <2>2. QED
    BY <1>0, <2>1
<1>3. ASSUME NEW i \in Invocations, UploadRaises(i) PROVE image'[j].ours
  BY <1>0, <1>3 DEF UploadRaises
<1>4. ASSUME NEW x \in Ids, Progress(x) PROVE image'[j].ours
  <2>1. image[j] # Absent
    BY <1>4, AbsentIsNoRecord DEF Progress
  <2>2. QED
    BY <1>0, <1>4, <2>1 DEF Progress, Images, Records
<1>5. ASSUME NEW x \in Ids, Disturb(x) PROVE image'[j].ours
  <2>1. image[j] # Absent
    BY <1>5, AbsentIsNoRecord DEF Disturb
  <2>2. QED
    BY <1>0, <1>5, <2>1 DEF Disturb, Images, Records
<1>6. QED
  BY <1>1, <1>2, <1>3, <1>4, <1>5
  DEF Next, Step, vars, Begin, ListNone, ListOne, ListFails, UploadEnds,
      Recover, Wait, Poll, Fetch, Tick

\* The conjuncts about one invocation, after a step.
LEMMA LeftoverStep == LeftoverInv /\ [Next]_vars => LeftoverInv'
<1> SUFFICES ASSUME LeftoverInv, [Next]_vars PROVE LeftoverInv'
  OBVIOUS
<1>0. TypeOK /\ OwnImage /\ LeftoverNamed
  BY DEF LeftoverInv
<1>1. TypeOK'
  BY <1>0, TypeCorrectStep
<1>2. SUFFICES ASSUME NEW j \in Invocations
      PROVE  /\ pc'[j] \in {"idle", "list", "upload"} => image'[j] = Absent
             /\ pc'[j] \in {"wait", "poll", "fetch"} /\ id'[j] # j
                  => image'[j] = Absent
             /\ image'[j] # Absent => image'[j].ours
             /\ pc'[j] = "failed" /\ image'[j] # Absent /\ ~blind'[j]
                  => j \in named'[j]
  BY <1>0, <1>1 DEF LeftoverInv, OwnImage, LeftoverNamed
<1>3. image'[j] # Absent => image'[j].ours
  BY <1>0, OursStays
<1>4. /\ pc[j] \in {"idle", "list", "upload"} => image[j] = Absent
      /\ pc[j] \in {"wait", "poll", "fetch"} /\ id[j] # j => image[j] = Absent
      /\ image[j] # Absent => image[j].ours
      /\ pc[j] = "failed" /\ image[j] # Absent /\ ~blind[j] => j \in named[j]
  BY <1>0 DEF OwnImage, LeftoverNamed
<1>5. image[j] = Absent /\ ~Upload(j) => image'[j] = Absent
  BY <1>0, ImagesChange
<1> DEFINE Kept == /\ pc'[j] = pc[j] /\ id'[j] = id[j]
                   /\ named'[j] = named[j] /\ blind'[j] = blind[j]
<1>6. CASE Kept
  <2>1. ~ Upload(j)
    BY <1>0, <1>6 DEF Upload, Goto, TypeOK
  <2>2. QED
    BY <1>3, <1>4, <1>5, <1>6, <2>1
<1>7. CASE Upload(j)
  BY <1>0, <1>3, <1>7 DEF Upload, Goto, TypeOK
<1>8. ASSUME Begin(j) \/ ListNone(j) \/ ListOne(j) \/ ListFails(j)
      PROVE  image'[j] = Absent /\ pc'[j] \in {"list", "upload", "wait", "failed"}
  BY <1>0, <1>4, <1>8
  DEF Begin, ListNone, ListOne, ListFails, Goto, Fail, TypeOK
<1>9. ASSUME UploadEnds(j)
      PROVE  \/ pc'[j] = "wait" /\ id'[j] = j
             \/ pc'[j] = "failed" /\ blind'[j]
  BY <1>0, <1>9 DEF UploadEnds, Goto, Fail, TypeOK
<1>10. ASSUME UploadRaises(j) PROVE pc'[j] = "recover"
  BY <1>0, <1>10 DEF UploadRaises, Goto, TypeOK
<1>11. ASSUME Recover(j)
       PROVE  pc'[j] = "failed" /\ (image'[j] # Absent /\ ~blind'[j] => j \in named'[j])
  BY <1>0, <1>4, <1>11, PresentIds DEF Recover, Goto, Fail, TypeOK, Present
<1>12. ASSUME Wait(j) \/ Poll(j) \/ Fetch(j)
       PROVE  /\ pc'[j] \in {"wait", "poll", "fetch", "done", "failed"}
              /\ id'[j] = id[j] /\ image'[j] = image[j]
              /\ pc'[j] = "failed" => image[j] = Absent \/ j \in named'[j]
  <2>1. pc[j] \in {"wait", "poll", "fetch"} /\ UNCHANGED <<id, image>>
    BY <1>12 DEF Wait, Poll, Fetch
  <2>2. \/ \E label \in {"wait", "poll", "fetch", "done"} : Goto(j, label)
        \/ Fail(j, {id[j]}) \/ Fail(j, {id[j]} \cap {j})
    BY <1>12 DEF Wait, Poll, Fetch
  <2>3. image[j] = Absent \/ id[j] = j
    BY <1>4, <2>1
  <2>4. CASE \E label \in {"wait", "poll", "fetch", "done"} : Goto(j, label)
    BY <1>0, <2>1, <2>4 DEF Goto, TypeOK
  <2>5. CASE Fail(j, {id[j]}) \/ Fail(j, {id[j]} \cap {j})
    <3>1. pc'[j] = "failed" /\ named'[j] \in {{id[j]}, {id[j]} \cap {j}}
      BY <1>0, <2>5 DEF Goto, Fail, TypeOK
    <3>2. QED
      BY <2>1, <2>3, <3>1
  <2>6. QED
    BY <2>2, <2>4, <2>5
<1>13. ASSUME NEW i \in Invocations, i # j, Step(i) PROVE Kept
  BY <1>0, <1>13
  DEF Step, Begin, ListNone, ListOne, ListFails, Upload, UploadEnds, UploadRaises,
      Recover, Wait, Poll, Fetch, Goto, Fail, Unnamed, TypeOK
<1>14. ASSUME NEW x \in Ids, Progress(x) \/ Disturb(x) PROVE Kept
  BY <1>14 DEF Progress, Disturb, local
<1>15. CASE Tick \/ UNCHANGED vars
  BY <1>6, <1>15 DEF Tick, vars, local
<1>16. ASSUME Step(j)
       PROVE  /\ pc'[j] \in {"idle", "list", "upload"} => image'[j] = Absent
              /\ pc'[j] \in {"wait", "poll", "fetch"} /\ id'[j] # j
                   => image'[j] = Absent
              /\ pc'[j] = "failed" /\ image'[j] # Absent /\ ~blind'[j]
                   => j \in named'[j]
  <2>1. pc[j] \in {"wait", "poll", "fetch"} <=> Wait(j) \/ Poll(j) \/ Fetch(j)
    BY <1>0, <1>16
    DEF Step, Begin, ListNone, ListOne, ListFails, Upload, UploadEnds,
        UploadRaises, Recover, Wait, Poll, Fetch
  <2>2. QED
    BY <1>3, <1>4, <1>7, <1>8, <1>9, <1>10, <1>11, <1>12, <1>16, <2>1 DEF Step
<1>17. QED
  BY <1>3, <1>6, <1>13, <1>14, <1>15, <1>16 DEF Next

\* LeftoverNamed: an image that a failed command leaves in the project is named
\* in its error, whatever answers were lost and whatever others did to images;
\* only if the failing call was the lookup itself, or an upload that returned
\* without an ID, it is not.
THEOREM LeftoverNamedHolds == Spec => []LeftoverNamed
<1>1. LeftoverInv => LeftoverNamed
  BY DEF LeftoverInv
<1>2. QED
  BY <1>1, LeftoverInit, LeftoverStep, PTL DEF Spec

-----------------------------------------------------------------------------
(***************************************************************************)
(* One image.  An invocation that saw no image is alone with that view     *)
(* until it uploads, unless two of them looked before either uploaded.     *)
(***************************************************************************)

OneUploader ==
  ~race =>
    /\ \A i, j \in Invocations : pc[i] = "upload" /\ pc[j] = "upload" => i = j
    /\ \A i \in Invocations : pc[i] = "upload" => Present = {}
    /\ \A x, y \in Present : x = y

OneImageInv == TypeOK /\ OneUploader

LEMMA OneImageInit == Init => OneImageInv
<1> SUFFICES ASSUME Init PROVE OneUploader
  BY TypeCorrectInit DEF OneImageInv
<1>1. \A i \in Invocations : pc[i] # "upload"
  BY DEF Init
<1>2. \A x, y \in Present : x = y
  BY DEF Init
<1>3. QED
  BY <1>1, <1>2 DEF OneUploader

\* Only an upload adds an image, its own, and only a list with an empty answer
\* leads to an upload.
LEMMA PresentChange ==
  ASSUME TypeOK, [Next]_vars
  PROVE  /\ \/ Present' \subseteq Present
            \/ \E i \in Invocations : Upload(i) /\ Present' \subseteq Present \cup {i}
         /\ \A j \in Invocations :
              pc'[j] = "upload" => (pc[j] = "upload" /\ ~Upload(j)) \/ ListNone(j)
<1> USE PresentIds, AbsentIsNoRecord DEF TypeOK, Present
<1>1. ASSUME NEW i \in Invocations, Upload(i) PROVE Present' \subseteq Present \cup {i}
  BY <1>1 DEF Upload
<1>2. ASSUME NEW i \in Invocations, UploadRaises(i) PROVE Present' \subseteq Present
  BY <1>2 DEF UploadRaises
<1>3. ASSUME NEW x \in Ids, Progress(x) PROVE Present' \subseteq Present
  BY <1>3 DEF Progress
<1>4. ASSUME NEW x \in Ids, Disturb(x) PROVE Present' \subseteq Present
  BY <1>4 DEF Disturb
<1>5. ASSUME UNCHANGED image PROVE Present' \subseteq Present
  BY <1>5
<1>6. \/ Present' \subseteq Present
      \/ \E i \in Invocations : Upload(i) /\ Present' \subseteq Present \cup {i}
  BY <1>1, <1>2, <1>3, <1>4, <1>5
  DEF Next, Step, vars, Begin, ListNone, ListOne, ListFails, UploadEnds,
      Recover, Wait, Poll, Fetch, Tick
<1>7. ASSUME NEW j \in Invocations, pc'[j] = "upload"
      PROVE  (pc[j] = "upload" /\ ~Upload(j)) \/ ListNone(j)
  <2>1. ASSUME NEW i \in Invocations, Step(i), i # j PROVE pc'[j] = pc[j]
    BY <2>1
    DEF Step, Begin, ListNone, ListOne, ListFails, Upload, UploadEnds, UploadRaises,
        Recover, Wait, Poll, Fetch, Goto, Fail
  <2>2. CASE Step(j)
    BY <1>7, <2>2
    DEF Step, Begin, ListOne, ListFails, Upload, UploadEnds, UploadRaises,
        Recover, Wait, Poll, Fetch, Goto, Fail
  <2>3. ~ Upload(j)
    BY <1>7 DEF Upload, Goto
  <2>4. CASE UNCHANGED pc
    BY <1>7, <2>3, <2>4
  <2>5. QED
    BY <1>7, <2>1, <2>2, <2>3, <2>4 DEF Next, vars, local, Progress, Disturb, Tick
<1>8. QED
  BY <1>6, <1>7

LEMMA OneImageStep == OneImageInv /\ [Next]_vars => OneImageInv'
<1> SUFFICES ASSUME OneImageInv, [Next]_vars, ~race' PROVE OneUploader'
  BY TypeCorrectStep DEF OneImageInv, OneUploader
<1>0. TypeOK /\ OneUploader
  BY DEF OneImageInv
<1>1. ~race
  BY <1>0
  DEF Next, Step, vars, Begin, ListNone, ListOne, ListFails, Upload, UploadEnds,
      UploadRaises, Recover, Wait, Poll, Fetch, Tick, Progress, Disturb
<1>2. /\ \A i, j \in Invocations : pc[i] = "upload" /\ pc[j] = "upload" => i = j
      /\ \A i \in Invocations : pc[i] = "upload" => Present = {}
      /\ \A x, y \in Present : x = y
  BY <1>0, <1>1 DEF OneUploader
<1>3. CASE \E i \in Invocations : ListNone(i)
  <2>1. PICK i \in Invocations : ListNone(i)
    BY <1>3
  <2>2. \A j \in Invocations \ {i} : pc[j] # "upload"
    BY <2>1 DEF ListNone
  <2>3. Present' = {}
    BY <2>1, PresentIds DEF ListNone, Present
  <2>4. \A j \in Invocations \ {i} : pc'[j] # "upload"
    BY <1>0, <2>1, <2>2 DEF ListNone, Goto, TypeOK
  <2>5. QED
    BY <2>3, <2>4 DEF OneUploader
<1>4. CASE ~ \E i \in Invocations : ListNone(i)
  <2>1. \A j \in Invocations : pc'[j] = "upload" => pc[j] = "upload" /\ ~Upload(j)
    BY <1>0, <1>4, PresentChange
  <2>2. CASE Present' \subseteq Present
    BY <1>2, <2>1, <2>2 DEF OneUploader
  <2>3. ASSUME NEW i \in Invocations, Upload(i), Present' \subseteq Present \cup {i}
        PROVE  OneUploader'
    <3>1. pc[i] = "upload" /\ Present = {}
      BY <1>2, <2>3 DEF Upload
    <3>2. \A j \in Invocations : pc'[j] # "upload"
      BY <1>2, <2>1, <2>3, <3>1
    <3>3. QED
      BY <2>3, <3>1, <3>2 DEF OneUploader
  <2>4. QED
    BY <1>0, <2>2, <2>3, PresentChange
<1>5. QED
  BY <1>3, <1>4

\* OneImage: however often the command is tried again and whatever replies are
\* lost, there is at most one image of the name, that of another included,
\* unless two invocations both looked before either uploaded.
THEOREM OneImageHolds == Spec => []OneImage
<1>1. OneImageInv => OneImage
  <2> SUFFICES ASSUME OneImageInv, ~race PROVE Cardinality(Present) <= 1
    BY DEF OneImage
  <2>1. \A x, y \in Present : x = y
    BY DEF OneImageInv, OneUploader
  <2>2. CASE Present = {}
    BY <2>2, FS_EmptySet
  <2>3. CASE \E x : Present = {x}
    BY <2>3, FS_Singleton
  <2>4. QED
    BY <2>1, <2>2, <2>3
<1>2. QED
  BY <1>1, OneImageInit, OneImageStep, PTL DEF Spec

=============================================================================
