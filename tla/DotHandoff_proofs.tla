------------------------- MODULE DotHandoff_proofs -------------------------
(***************************************************************************)
(* Proofs about the publication of a dot handoff, for every reason and     *)
(* every number of I/O errors and crashes: the artifacts are whole, none   *)
(* is ever replaced, and a retry is blocked only with a cause.             *)
(***************************************************************************)
EXTENDS DotHandoff, TLAPS

\* An artifact with the text of this handoff, under one or two names.
Good(n) == [content |-> Reason, whole |-> TRUE, links |-> n]

\* The first reason is published, however often it is retried.
OneText ==
    /\ text = Reason
    /\ phase # "DECISION_RECEIVED" => handoffReason = Reason

\* The phase the process works in.
InPhase ==
    /\ pc = "judged" => phase = "DECISION_RECEIVED"
    /\ pc \in Publishing => phase = "HANDOFF_PENDING"
    /\ pc = "idle" => phase # "DECISION_RECEIVED"

\* Whatever is at a path is this handoff, whole, or somebody else's; it has a
\* second name only between link and unlink or since a fault fell there.
Paths ==
    \A a \in Artifacts :
        /\ files[a] \in {NoFile, Foreign, Good(1), Good(2)}
        /\ files[a] = Foreign /\ Foreign # Good(1) => foreign
        /\ files[a] = Good(2) => cutLink \/ (pc = "unlink" /\ a = Artifact)

\* What the current publication has done so far.
InStep ==
    /\ pc = "write" => temp = [content |-> Reason, whole |-> FALSE, links |-> 1]
    /\ pc = "link" => temp = Good(1)
    /\ pc = "unlink" => Here \in {Foreign, Good(2)}
    /\ pc \in {"write", "link"} => Here \in {NoFile, Foreign}
    /\ pc = "reread" => Here \in {Foreign, Good(1)}
    /\ pc \in Publishing /\ turn = 2 => files["json"] = Good(1)
    /\ pc = "commit" => turn = 2 /\ files["md"] = Good(1)

Complete == phase = "DOT_HANDOFF" => \A a \in Artifacts : files[a] = Good(1)

IInv == TypeOK /\ OneText /\ InPhase /\ Paths /\ InStep /\ Complete /\ BlockedWithCause
-----------------------------------------------------------------------------
(* Artifacts and what is read of them. *)

LEMMA TwoArtifacts == Len(Order) = 2
  BY DEF Order

LEMMA Turns ==
  ASSUME TypeOK
  PROVE  /\ turn \in {1, 2} /\ Len(Order) = 2
         /\ turn = 1 => Artifact = "json"
         /\ turn = 2 => Artifact = "md"
         /\ Artifact \in Artifacts
  BY DEF TypeOK, Order, Artifact, Artifacts

LEMMA SameFile ==
  ASSUME NEW f \in File, NEW g \in File,
         f.content = g.content, f.whole = g.whole, f.links = g.links
  PROVE  f = g
  BY DEF File

LEMMA FileExcept ==
  ASSUME NEW f \in File
  PROVE  /\ LET g == [f EXCEPT !.whole = TRUE]
            IN  g \in File /\ g.content = f.content /\ g.whole /\ g.links = f.links
         /\ \A n \in 0 .. 2 :
               LET g == [f EXCEPT !.links = n]
               IN  g \in File /\ g.content = f.content /\ g.whole = f.whole /\ g.links = n
  BY DEF File

\* A file of this handoff differs from none, and in its names only from another.
LEMMA FileFacts ==
  /\ NoFile \in File /\ Foreign \in File
  /\ \A n \in {1, 2} : Good(n) \in File /\ Good(n) # NoFile
  /\ Foreign # NoFile /\ Good(1) # Good(2) /\ Foreign # Good(2)
  /\ NoFile.links = 0 /\ Foreign.links = 1 /\ Good(1).links = 1 /\ Good(2).links = 2
  /\ Foreign.whole /\ Good(1).whole /\ Good(2).whole
  /\ Good(1).content = Good(2).content
  /\ [content |-> Reason, whole |-> FALSE, links |-> 1] \in File
  /\ [[content |-> Reason, whole |-> FALSE, links |-> 1] EXCEPT !.whole = TRUE] = Good(1)
  /\ [Good(1) EXCEPT !.links = 2] = Good(2)
  /\ [Good(2) EXCEPT !.links = 1] = Good(1)
<1>. DEFINE half == [content |-> Reason, whole |-> FALSE, links |-> 1]
<1>1. NoFile \in File /\ Foreign \in File /\ half \in File
  BY DEF NoFile, Foreign, File, Texts
<1>2. \A n \in {1, 2} : Good(n) \in File /\ Good(n) # NoFile
  BY DEF Good, File, Texts, NoFile
<1>3. /\ Foreign # NoFile /\ Good(1) # Good(2) /\ Foreign # Good(2)
      /\ NoFile.links = 0 /\ Foreign.links = 1 /\ Good(1).links = 1 /\ Good(2).links = 2
      /\ Foreign.whole /\ Good(1).whole /\ Good(2).whole
      /\ Good(1).content = Good(2).content
  BY DEF Foreign, NoFile, Good
<1>4. /\ half.content = Reason /\ half.links = 1
      /\ \A n \in {1, 2} : Good(n).content = Reason /\ Good(n).whole = TRUE /\ Good(n).links = n
  BY DEF Good
<1>. HIDE DEF half
<1>5. [half EXCEPT !.whole = TRUE] = Good(1)
  <2>. DEFINE g == [half EXCEPT !.whole = TRUE]
  <2>1. g \in File /\ g.content = Reason /\ g.whole = TRUE /\ g.links = 1
    BY <1>1, <1>4, FileExcept, Zenon DEF File
  <2>. HIDE DEF g
  <2>2. g = Good(1)
    BY <1>2, <1>4, <2>1, SameFile
  <2>. QED
    BY <2>2 DEF g
<1>6. ASSUME NEW m \in {1, 2}, NEW n \in {1, 2}
      PROVE  [Good(m) EXCEPT !.links = n] = Good(n)
  <2>. DEFINE g == [Good(m) EXCEPT !.links = n]
  <2>1. Good(m) \in File /\ n \in 0 .. 2
    BY <1>2
  <2>2. g \in File /\ g.content = Good(m).content /\ g.whole = Good(m).whole /\ g.links = n
    BY <2>1, FileExcept
  <2>. HIDE DEF g
  <2>3. g = Good(n)
    BY <1>2, <1>4, <2>2, SameFile
  <2>. QED
    BY <2>3 DEF g
<1>. QED
  BY <1>1, <1>2, <1>3, <1>5, <1>6 DEF half

LEMMA ReadsIs ==
  ASSUME text = Reason
  PROVE  /\ Reads(NoFile) = "absent"
         /\ Reads(Good(1)) = "same"
         /\ Reads(Good(2)) = "DOT_HANDOFF_ARTIFACT_INVALID"
         /\ Foreign # Good(1) => Reads(Foreign) = "DOT_HANDOFF_CONTENT_MISMATCH"
  BY FileFacts DEF Reads, Good, Foreign, NoFile

LEMMA HandoffInit == Init => IInv
<1>. SUFFICES ASSUME Init PROVE IInv
  OBVIOUS
<1>1. TypeOK
  <2>1. files \in [Artifacts -> File] /\ temp \in File
    BY FileFacts DEF Init
  <2>2. turn \in 1 .. Len(Order)
    BY TwoArtifacts DEF Init
  <2>3. faults \in 0 .. MaxFaults
    BY HandoffAssumption DEF Init
  <2>. QED
    BY <2>1, <2>2, <2>3 DEF Init, TypeOK, Texts, Reasons
<1>2. OneText /\ InPhase /\ InStep /\ Complete /\ BlockedWithCause
  BY DEF Init, OneText, InPhase, Publishing, InStep, Complete, BlockedWithCause
<1>3. Paths
  BY FileFacts DEF Init, Paths
<1>. QED
  BY <1>1, <1>2, <1>3 DEF IInv

\* The files stay, and no step between link and unlink begins or ends.
LEMMA PathsStay ==
  ASSUME Paths, files' = files, foreign' = foreign,
         cutLink' = cutLink \/ cutLink',
         pc # "unlink" \/ cutLink'
  PROVE  Paths'
  BY DEF Paths
-----------------------------------------------------------------------------
(* The steps, by what they do. *)

\* An artifact is there as it should be: the next one, or the final save.
LEMMA PublishedStep ==
  ASSUME IInv, pc \in {"check", "reread"}, Here = Good(1), Published
  PROVE  IInv'
<1>. USE DEF IInv
<1>1. UNCHANGED <<row, files, temp, text, faults, foreign, cutLink>>
  BY DEF Published
<1>2. \/ turn = 1 /\ turn' = 2 /\ pc' = "check" /\ files["json"] = Good(1)
      \/ turn = 2 /\ turn' = 2 /\ pc' = "commit" /\ files["md"] = Good(1)
  <2>1. turn \in {1, 2} /\ Len(Order) = 2
    BY Turns
  <2>2. CASE turn = 1
    <3>1. files["json"] = Good(1)
      BY <2>2, Turns DEF Here
    <3>. QED
      BY <2>1, <2>2, <3>1 DEF Published
  <2>3. CASE turn = 2
    <3>1. files["md"] = Good(1)
      BY <2>3, Turns DEF Here
    <3>. QED
      BY <2>1, <2>3, <3>1 DEF Published
  <2>. QED
    BY <2>1, <2>2, <2>3
<1>3. TypeOK'
  <2>1. turn' \in 1 .. Len(Order) /\ pc' \in Publishing
    BY <1>2, Turns DEF Publishing
  <2>. QED
    BY <1>1, <2>1 DEF TypeOK, row
<1>4. OneText' /\ InPhase' /\ Complete' /\ BlockedWithCause'
  BY <1>1, <1>2 DEF OneText, InPhase, Complete, BlockedWithCause, row, Publishing
<1>5. Paths'
  BY <1>1, PathsStay
<1>6. InStep'
  BY <1>1, <1>2 DEF InStep, Publishing
<1>. QED
  BY <1>3, <1>4, <1>5, <1>6

\* A refusal has a cause.
LEMMA RefuseStep ==
  ASSUME IInv, pc \in Publishing, pc # "unlink", foreign \/ cutLink,
         NEW why \in {"DOT_HANDOFF_ARTIFACT_INVALID", "DOT_HANDOFF_CONTENT_MISMATCH"},
         Refuse(why)
  PROVE  IInv'
<1>. USE DEF IInv
<1>1. /\ UNCHANGED <<handoffReason, files, turn, text, faults, foreign, cutLink>>
      /\ phase' = "BLOCKED" /\ reason' = why /\ temp' = NoFile /\ pc' = "idle"
  BY DEF Refuse, Blocked
<1>2. TypeOK'
  BY <1>1, FileFacts DEF TypeOK, Reasons
<1>3. OneText' /\ InPhase' /\ Complete' /\ BlockedWithCause' /\ InStep'
  BY <1>1 DEF OneText, InPhase, Complete, BlockedWithCause, InStep, Publishing
<1>4. Paths'
  BY <1>1, PathsStay
<1>. QED
  BY <1>2, <1>3, <1>4

\* What has been read decides between the two.
LEMMA ReadCause ==
  ASSUME IInv, pc \in {"check", "reread"}, Here # NoFile, Here # Good(1)
  PROVE  /\ foreign \/ cutLink
         /\ Reads(Here) \in {"DOT_HANDOFF_ARTIFACT_INVALID", "DOT_HANDOFF_CONTENT_MISMATCH"}
<1>1. Artifact \in Artifacts /\ text = Reason
  BY Turns DEF IInv, OneText
<1>2. /\ Here \in {NoFile, Foreign, Good(1), Good(2)}
      /\ Here = Foreign /\ Foreign # Good(1) => foreign
      /\ Here = Good(2) => cutLink
  BY <1>1 DEF IInv, Paths, Here
<1>. QED
  BY <1>1, <1>2, ReadsIs

LEMMA PendStep == IInv /\ (Pend \/ Resume) => IInv'
<1>. SUFFICES ASSUME IInv, Pend \/ Resume PROVE IInv'
  OBVIOUS
<1>. USE DEF IInv
<1>1. /\ UNCHANGED <<files, temp, faults, foreign, cutLink>>
      /\ phase' = "HANDOFF_PENDING" /\ handoffReason' = Reason /\ text' = Reason
      /\ turn' = 1 /\ pc' = "check" /\ pc # "unlink"
      /\ reason' \in {reason, Reason}
  BY DEF Pend, Resume, OneText, row, RetryText
<1>2. TypeOK'
  BY <1>1, Turns DEF TypeOK, Texts, Reasons, Publishing
<1>3. OneText' /\ InPhase' /\ Complete' /\ BlockedWithCause' /\ InStep'
  BY <1>1 DEF OneText, InPhase, Complete, BlockedWithCause, InStep, Publishing
<1>4. Paths'
  BY <1>1, PathsStay
<1>. QED
  BY <1>2, <1>3, <1>4

LEMMA CheckStep == IInv /\ (Check \/ Reread) => IInv'
<1>. SUFFICES ASSUME IInv, Check \/ Reread PROVE IInv'
  OBVIOUS
<1>0. pc \in {"check", "reread"} /\ pc \in Publishing /\ text = Reason
  BY DEF Check, Reread, Publishing, IInv, OneText
<1>1. CASE Here = Good(1)
  <2>1. Published
    BY <1>0, <1>1, ReadsIs DEF Check, Reread
  <2>. QED
    BY <1>0, <1>1, <2>1, PublishedStep
<1>2. CASE Here = NoFile
  <2>. USE DEF IInv
  <2>1. Check /\ Reads(Here) = "absent"
    BY <1>0, <1>2, ReadsIs, FileFacts DEF Reread, InStep
  <2>2. /\ temp' = [content |-> Reason, whole |-> FALSE, links |-> 1]
        /\ pc = "check" /\ pc' = "write"
        /\ UNCHANGED <<row, files, turn, text, faults, foreign, cutLink>>
    BY <1>0, <2>1 DEF Check
  <2>3. TypeOK'
    BY <2>2, FileFacts DEF TypeOK, row, Publishing
  <2>4. OneText' /\ InPhase' /\ Complete' /\ BlockedWithCause'
    BY <2>2 DEF OneText, InPhase, Complete, BlockedWithCause, row, Publishing
  <2>5. Paths'
    BY <2>2, PathsStay
  <2>6. InStep'
    BY <1>2, <2>2 DEF InStep, Publishing, Here, Artifact
  <2>. QED
    BY <2>3, <2>4, <2>5, <2>6
<1>3. CASE Here # NoFile /\ Here # Good(1)
  <2>1. /\ foreign \/ cutLink
        /\ Reads(Here) \in {"DOT_HANDOFF_ARTIFACT_INVALID", "DOT_HANDOFF_CONTENT_MISMATCH"}
    BY <1>0, <1>3, ReadCause
  <2>2. Refuse(Reads(Here))
    BY <2>1 DEF Check, Reread
  <2>. QED
    BY <1>0, <2>1, <2>2, RefuseStep
<1>. QED
  BY <1>1, <1>2, <1>3

LEMMA WriteStep == IInv /\ Write => IInv'
<1>. SUFFICES ASSUME IInv, Write PROVE IInv'
  OBVIOUS
<1>. USE DEF IInv
<1>1. /\ temp' = Good(1) /\ pc = "write" /\ pc' = "link"
      /\ UNCHANGED <<row, files, turn, text, faults, foreign, cutLink>>
  BY FileFacts DEF Write, InStep
<1>2. TypeOK'
  BY <1>1, FileFacts DEF TypeOK, row, Publishing
<1>3. OneText' /\ InPhase' /\ Complete' /\ BlockedWithCause'
  BY <1>1 DEF OneText, InPhase, Complete, BlockedWithCause, row, Publishing
<1>4. Paths'
  BY <1>1, PathsStay
<1>5. InStep'
  BY <1>1 DEF InStep, Publishing, Here, Artifact
<1>. QED
  BY <1>2, <1>3, <1>4, <1>5

LEMMA LinkStep == IInv /\ Link => IInv'
<1>. SUFFICES ASSUME IInv, Link PROVE IInv'
  OBVIOUS
<1>. USE DEF IInv
<1>1. /\ pc = "link" /\ pc' = "unlink" /\ temp = Good(1)
      /\ UNCHANGED <<row, temp, turn, text, faults, foreign, cutLink>>
      /\ Artifact' = Artifact
  BY DEF Link, InStep, Artifact
<1>2. Artifact \in Artifacts /\ files \in [Artifacts -> File]
  BY Turns DEF TypeOK
<1>3. /\ files' \in [Artifacts -> File]
      /\ files'[Artifact] \in {Foreign, Good(2)}
      /\ files'[Artifact] = Foreign => files[Artifact] = Foreign
      /\ \A a \in Artifacts : a # Artifact => files'[a] = files[a]
  <2>1. CASE Here = NoFile
    <3>1. files' = [files EXCEPT ![Artifact] = Good(2)]
      BY <1>1, <2>1, FileFacts DEF Link, Linked
    <3>. QED
      BY <1>2, <3>1, FileFacts
  <2>2. CASE Here # NoFile
    BY <1>1, <1>2, <2>2 DEF Link, Linked, InStep, Here
  <2>. QED
    BY <2>1, <2>2
<1>4. TypeOK'
  BY <1>1, <1>3 DEF TypeOK, row, Publishing
<1>5. OneText' /\ InPhase' /\ BlockedWithCause'
  BY <1>1 DEF OneText, InPhase, BlockedWithCause, row, Publishing
<1>6. Complete'
  BY <1>1 DEF Complete, InPhase, row, Publishing
<1>7. Paths'
  <2>. SUFFICES ASSUME NEW a \in Artifacts
                PROVE  /\ files'[a] \in {NoFile, Foreign, Good(1), Good(2)}
                       /\ files'[a] = Foreign /\ Foreign # Good(1) => foreign'
                       /\ files'[a] = Good(2) =>
                             cutLink' \/ (pc' = "unlink" /\ a = Artifact')
    BY DEF Paths
  <2>1. CASE a = Artifact
    BY <1>1, <1>2, <1>3, <2>1 DEF Paths
  <2>2. CASE a # Artifact
    BY <1>1, <1>3, <2>2 DEF Paths
  <2>. QED
    BY <2>1, <2>2
<1>8. InStep'
  <2>1. turn = 2 => files'["json"] = files["json"]
    BY <1>3, Turns DEF Artifacts
  <2>. QED
    BY <1>1, <1>3, <2>1 DEF InStep, Publishing, Here
<1>. QED
  BY <1>4, <1>5, <1>6, <1>7, <1>8

LEMMA UnlinkStep == IInv /\ Unlink => IInv'
<1>. SUFFICES ASSUME IInv, Unlink PROVE IInv'
  OBVIOUS
<1>. USE DEF IInv
<1>1. /\ pc = "unlink" /\ pc' = "reread" /\ temp' = NoFile
      /\ UNCHANGED <<row, turn, text, faults, foreign, cutLink>>
      /\ Artifact' = Artifact
  BY DEF Unlink, Artifact
<1>2. Artifact \in Artifacts /\ files \in [Artifacts -> File]
  BY Turns DEF TypeOK
<1>3. /\ files' \in [Artifacts -> File]
      /\ files'[Artifact] \in {Foreign, Good(1)}
      /\ files'[Artifact] = Foreign /\ Foreign # Good(1) => files[Artifact] = Foreign
      /\ \A a \in Artifacts : a # Artifact => files'[a] = files[a]
  <2>1. CASE Here = Good(2)
    <3>. DEFINE f == [files[Artifact] EXCEPT !.links = 1]
    <3>1. f = Good(1)
      BY <2>1, FileFacts DEF Here
    <3>2. files' = [files EXCEPT ![Artifact] = f]
      BY <1>1, <2>1, FileFacts DEF Unlink
    <3>. HIDE DEF f
    <3>. QED
      BY <1>2, <3>1, <3>2, FileFacts
  <2>2. CASE Here = Foreign
    BY <1>1, <1>2, <2>2, FileFacts DEF Unlink, Here
  <2>. QED
    BY <1>1, <2>1, <2>2 DEF InStep
<1>4. TypeOK'
  BY <1>1, <1>3, FileFacts DEF TypeOK, row, Publishing
<1>5. OneText' /\ InPhase' /\ BlockedWithCause'
  BY <1>1 DEF OneText, InPhase, BlockedWithCause, row, Publishing
<1>6. Complete'
  BY <1>1 DEF Complete, InPhase, row, Publishing
<1>7. Paths'
  <2>. SUFFICES ASSUME NEW a \in Artifacts
                PROVE  /\ files'[a] \in {NoFile, Foreign, Good(1), Good(2)}
                       /\ files'[a] = Foreign /\ Foreign # Good(1) => foreign'
                       /\ files'[a] = Good(2) => cutLink'
    BY DEF Paths
  <2>1. CASE a = Artifact
    BY <1>1, <1>2, <1>3, <2>1, FileFacts DEF Paths
  <2>2. CASE a # Artifact
    BY <1>1, <1>3, <2>2 DEF Paths
  <2>. QED
    BY <2>1, <2>2
<1>8. InStep'
  <2>1. turn = 2 => files'["json"] = files["json"]
    BY <1>3, Turns DEF Artifacts
  <2>. QED
    BY <1>1, <1>3, <2>1 DEF InStep, Publishing, Here
<1>. QED
  BY <1>4, <1>5, <1>6, <1>7, <1>8

LEMMA CommitStep == IInv /\ Commit => IInv'
<1>. SUFFICES ASSUME IInv, Commit PROVE IInv'
  OBVIOUS
<1>. USE DEF IInv
<1>1. /\ pc = "commit" /\ pc' = "idle" /\ phase' = "DOT_HANDOFF" /\ reason' = Reason
      /\ UNCHANGED <<handoffReason, files, temp, turn, text, faults, foreign, cutLink>>
      /\ handoffReason = Reason
  BY DEF Commit, OneText, InPhase, Publishing
<1>2. TypeOK'
  BY <1>1 DEF TypeOK, Reasons, Texts
<1>3. Complete'
  BY <1>1 DEF Complete, InStep, Artifacts, Publishing
<1>4. OneText' /\ InPhase' /\ BlockedWithCause' /\ InStep'
  BY <1>1 DEF OneText, InPhase, BlockedWithCause, InStep, Publishing
<1>5. Paths'
  BY <1>1, PathsStay
<1>. QED
  BY <1>2, <1>3, <1>4, <1>5

\* An open that fails leaves the files as they are.
LEMMA OpenStep == IInv /\ OpenFails => IInv'
<1>. SUFFICES ASSUME IInv, OpenFails PROVE IInv'
  OBVIOUS
<1>. USE DEF IInv
<1>1. /\ UNCHANGED <<handoffReason, files, turn, text, foreign, cutLink>>
      /\ phase' = "BLOCKED" /\ reason' = "DOT_HANDOFF_PATH_INVALID"
      /\ temp' = NoFile /\ pc' = "idle"
      /\ pc # "unlink" /\ pc \in Publishing
  BY DEF OpenFails, Blocked, Publishing
<1>2. faults' \in 0 .. MaxFaults
  BY HandoffAssumption DEF OpenFails, TypeOK
<1>3. TypeOK'
  BY <1>1, <1>2, FileFacts DEF TypeOK, Reasons
<1>4. OneText' /\ InPhase' /\ Complete' /\ BlockedWithCause' /\ InStep'
  BY <1>1 DEF OneText, InPhase, Complete, BlockedWithCause, InStep, Publishing
<1>5. Paths'
  BY <1>1, PathsStay
<1>. QED
  BY <1>3, <1>4, <1>5

\* A fault between link and unlink leaves the second name, and is the cause of
\* what a retry then refuses.
LEMMA FaultStep == IInv /\ (IOError \/ Crash) => IInv'
<1>. SUFFICES ASSUME IInv, IOError \/ Crash PROVE IInv'
  OBVIOUS
<1>. USE DEF IInv
<1>1. /\ pc \in Publishing /\ Fault
      /\ reason' \in {reason, "DOT_HANDOFF_IO_RETRY_REQUIRED"}
  BY DEF IOError, Crash
<1>2. /\ faults' = faults + 1 /\ faults < MaxFaults
      /\ temp' = NoFile /\ pc' = "idle"
      /\ UNCHANGED <<phase, handoffReason, files, turn, text, foreign>>
      /\ phase = "HANDOFF_PENDING"
  BY <1>1 DEF Fault, InPhase
<1>3. cutLink' = (cutLink \/ (pc = "unlink" /\ Here.links = 2)) /\ cutLink' \in BOOLEAN
  BY <1>1, Zenon DEF Fault
<1>4. TypeOK'
  <2>1. faults' \in 0 .. MaxFaults
    BY <1>2, HandoffAssumption DEF TypeOK
  <2>. QED
    BY <1>1, <1>2, <1>3, <2>1, FileFacts DEF TypeOK, Reasons, Texts
<1>5. OneText' /\ InPhase' /\ Complete' /\ BlockedWithCause' /\ InStep'
  BY <1>2 DEF OneText, InPhase, Complete, BlockedWithCause, InStep, Publishing
<1>6. Paths'
  <2>. SUFFICES ASSUME NEW a \in Artifacts, files[a] = Good(2)
                PROVE  cutLink'
    BY <1>2 DEF Paths
  <2>1. CASE cutLink
    BY <1>3, <2>1, Zenon
  <2>2. CASE ~cutLink
    <3>1. pc = "unlink" /\ a = Artifact
      BY <2>2 DEF Paths
    <3>2. Here.links = 2
      BY <3>1, FileFacts DEF Here
    <3>. QED
      BY <1>3, <3>1, <3>2, Zenon
  <2>. QED
    BY <2>1, <2>2
<1>. QED
  BY <1>4, <1>5, <1>6

LEMMA ForeignStep == IInv /\ PutForeign => IInv'
<1>. SUFFICES ASSUME IInv, PutForeign PROVE IInv'
  OBVIOUS
<1>. USE DEF IInv
<1>1. PICK b \in Artifacts : files[b] = NoFile /\ files' = [files EXCEPT ![b] = Foreign]
  BY DEF PutForeign
<1>2. /\ foreign' = TRUE /\ phase # "DOT_HANDOFF"
      /\ UNCHANGED <<row, temp, pc, turn, text, faults, cutLink>>
      /\ Artifact' = Artifact
  BY DEF PutForeign, Artifact
<1>3. /\ files' \in [Artifacts -> File] /\ files'[b] = Foreign
      /\ \A a \in Artifacts : a # b => files'[a] = files[a]
  BY <1>1, FileFacts DEF TypeOK
<1>4. TypeOK'
  BY <1>2, <1>3 DEF TypeOK, row
<1>5. OneText' /\ InPhase' /\ Complete' /\ BlockedWithCause'
  BY <1>2 DEF OneText, InPhase, Complete, BlockedWithCause, row
<1>6. Paths'
  BY <1>1, <1>2, <1>3, FileFacts DEF Paths
<1>7. InStep'
  <2>1. Here' = Here \/ (Here = NoFile /\ Here' = Foreign)
    BY <1>1, <1>2, <1>3, Turns DEF Here
  <2>2. \A a \in Artifacts : files[a] = Good(1) => files'[a] = Good(1)
    BY <1>1, <1>3, FileFacts
  <2>. QED
    BY <1>2, <2>1, <2>2, FileFacts DEF InStep, Artifacts
<1>. QED
  BY <1>4, <1>5, <1>6, <1>7

LEMMA HandoffStep == IInv /\ [Next]_vars => IInv'
<1>1. IInv /\ UNCHANGED vars => IInv'
  BY DEF vars, row, IInv, TypeOK, OneText, InPhase, Paths, InStep, Complete,
         BlockedWithCause, Here, Artifact
<1>. QED
  BY <1>1, PendStep, CheckStep, WriteStep, LinkStep, UnlinkStep, CommitStep, OpenStep,
     FaultStep, ForeignStep
  DEF Next

LEMMA HandoffInvariant == Spec => []IInv
  BY HandoffInit, HandoffStep, PTL DEF Spec

\* The state row, the artifacts and the process have their types.
THEOREM HandoffTypes == Spec => []TypeOK
<1>1. IInv => TypeOK
  BY DEF IInv
<1>. QED
  BY <1>1, HandoffInvariant, PTL

\* No fault leaves half an artifact, and DOT_HANDOFF means that both are there
\* with the reason the review was first handed over for.
THEOREM WholeHandoff == Spec => []HandoffIsWhole
<1>1. IInv => HandoffIsWhole
  BY FileFacts DEF IInv, Paths, Complete, HandoffIsWhole, Good
<1>. QED
  BY <1>1, HandoffInvariant, PTL

\* Nothing an earlier attempt has left blocks a retry, but for the second name
\* of a fault between link and unlink: otherwise it takes somebody else's file or
\* an open that fails.
THEOREM RetriesAreSafe == Spec => []BlockedWithCause
<1>1. IInv => BlockedWithCause
  BY DEF IInv
<1>. QED
  BY <1>1, HandoffInvariant, PTL

\* os.link replaces nothing, and neither does anything else here.
THEOREM NothingOverwritten == Spec => NeverOverwritten
<1>. DEFINE Keeps == \A a \in Artifacts :
                        files[a] # NoFile => files'[a].content = files[a].content
<1>1. IInv /\ [Next]_vars => [Keeps]_vars
  <2>. SUFFICES ASSUME IInv, Next PROVE Keeps
    OBVIOUS
  <2>1. CASE files' = files
    BY <2>1
  <2>2. CASE Link
    BY <2>2, Turns DEF Link, Linked, Here, IInv, TypeOK
  <2>3. CASE Unlink
    <3>1. CASE Here.links = 2
      <4>. DEFINE f == [files[Artifact] EXCEPT !.links = 1]
      <4>1. files' = [files EXCEPT ![Artifact] = f]
        BY <2>3, <3>1 DEF Unlink
      <4>2. f.content = files[Artifact].content
        BY Turns DEF IInv, TypeOK, File
      <4>. HIDE DEF f
      <4>. QED
        BY <4>1, <4>2, Turns DEF IInv, TypeOK
    <3>2. CASE Here.links # 2
      BY <2>3, <3>2 DEF Unlink
    <3>. QED
      BY <3>1, <3>2
  <2>4. CASE PutForeign
    BY <2>4 DEF PutForeign, IInv, TypeOK
  <2>. QED
    BY <2>1, <2>2, <2>3, <2>4
    DEF Next, Pend, Resume, Check, Published, Refuse, Blocked, Write, Reread, Commit,
        OpenFails, IOError, Crash, Fault
<1>. QED
  BY <1>1, HandoffInvariant, PTL DEF Spec, NeverOverwritten
=====
