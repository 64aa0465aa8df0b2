---------------------------- MODULE DotHandoff ----------------------------
(***************************************************************************)
(* Publication of a dot handoff: _dot_handoff of outcome/engine.py and     *)
(* build_dot_handoff, _publish_matching and _read_artifact of              *)
(* outcome/supervisor.py, one file operation per action, with I/O errors   *)
(* and crashes between any two and a retry by each later run.  An error of *)
(* the open of an artifact is not retried: _read_artifact makes it a       *)
(* ControlError, which blocks the session.                                 *)
(*                                                                         *)
(* The two artifacts have one stem, revision and evidence, so only one     *)
(* pair is in play.  Their text is a function of the contract, of state    *)
(* that does not change while the handoff is pending, and of the reason    *)
(* _dot_handoff is given; content is therefore that reason.                *)
(***************************************************************************)
EXTENDS Integers, Sequences

CONSTANTS
    Reason,     \* why the review goes to dot
    MaxFaults   \* I/O errors and crashes in one behaviour

ASSUME HandoffAssumption == MaxFaults \in Nat /\ Reason # "DOT_HANDOFF_IO_RETRY_REQUIRED"

VARIABLES
    phase, reason, handoffReason,  \* of the state row
    files,      \* the file at each path
    temp,       \* the temporary file of the current publication
    pc,         \* the step of the process holding the lock, or "idle"
    turn,       \* the artifact being published
    text,       \* the reason this call publishes
    faults,
    foreign,    \* somebody else has put a file at a path
    cutLink     \* a crash or an error fell between link and unlink

vars == <<phase, reason, handoffReason, files, temp, pc, turn, text,
          faults, foreign, cutLink>>
row == <<phase, reason, handoffReason>>

Order == <<"json", "md">>
Artifacts == {"json", "md"}
Texts == {Reason, "DOT_HANDOFF_IO_RETRY_REQUIRED"}
Reasons == Texts \cup {"DECISION_VALIDATED", "DOT_HANDOFF_ARTIFACT_INVALID",
                      "DOT_HANDOFF_CONTENT_MISMATCH", "DOT_HANDOFF_PATH_INVALID"}

\* A file is its content, whether that is all of it, and its link count; one
\* of somebody else's may be too open, have other names or simply be different.
NoFile == [content |-> "none", whole |-> FALSE, links |-> 0]
Foreign == [content |-> "foreign", whole |-> TRUE, links |-> 1]
File == [content : Texts \cup {"none", "foreign"}, whole : BOOLEAN, links : 0 .. 2]

Artifact == Order[turn]
Here == files[Artifact]

\* What _read_artifact makes of a path: nothing, an exact match, or a refusal.
Reads(file) == IF file = NoFile THEN "absent"
               ELSE IF file.links # 1 THEN "DOT_HANDOFF_ARTIFACT_INVALID"
               ELSE IF file = [content |-> text, whole |-> TRUE, links |-> 1]
                    THEN "same" ELSE "DOT_HANDOFF_CONTENT_MISMATCH"
-----------------------------------------------------------------------------
\* _dot_handoff saves HANDOFF_PENDING before it publishes anything.
Pend ==
    /\ pc = "judged"
    /\ phase' = "HANDOFF_PENDING"
    /\ reason' = Reason
    /\ handoffReason' = Reason
    /\ text' = Reason
    /\ turn' = 1
    /\ pc' = "check"
    /\ UNCHANGED <<files, temp, faults, foreign, cutLink>>

RetryTextCurrent == reason                                        \* mutant
RetryText == handoffReason

\* A later run publishes with the reason first recorded.
Resume ==
    /\ pc = "idle"
    /\ phase = "HANDOFF_PENDING"
    /\ text' = RetryText
    /\ turn' = 1
    /\ pc' = "check"
    /\ UNCHANGED <<row, files, temp, faults, foreign, cutLink>>

\* A ControlError ends the run BLOCKED; the finally clause removes the temporary.
Blocked(why) ==
    /\ phase' = "BLOCKED"
    /\ reason' = why
    /\ temp' = NoFile
    /\ pc' = "idle"
    /\ UNCHANGED <<handoffReason, files, turn, text, foreign, cutLink>>
Refuse(why) == Blocked(why) /\ UNCHANGED faults

PublishedPastEnd ==                                               \* mutant
    /\ turn' = turn + 1 /\ pc' = "check"
    /\ UNCHANGED <<row, files, temp, text, faults, foreign, cutLink>>
PublishedFirst ==                                                 \* mutant
    /\ turn' = turn /\ pc' = "commit"
    /\ UNCHANGED <<row, files, temp, text, faults, foreign, cutLink>>
\* _publish_matching has this artifact; the next one, or the final save.
Published ==
    /\ IF turn < Len(Order) THEN turn' = turn + 1 /\ pc' = "check"
                            ELSE turn' = turn /\ pc' = "commit"
    /\ UNCHANGED <<row, files, temp, text, faults, foreign, cutLink>>

Check ==
    /\ pc = "check"
    /\ IF Reads(Here) = "same" THEN Published
       ELSE IF Reads(Here) = "absent"
       THEN /\ temp' = [content |-> text, whole |-> FALSE, links |-> 1]
            /\ pc' = "write"
            /\ UNCHANGED <<row, files, turn, text, faults, foreign, cutLink>>
       ELSE Refuse(Reads(Here))

\* Write, flush and fsync the temporary file.
Write ==
    /\ pc = "write"
    /\ temp' = [temp EXCEPT !.whole = TRUE]
    /\ pc' = "link"
    /\ UNCHANGED <<row, files, turn, text, faults, foreign, cutLink>>

Renamed == [files EXCEPT ![Artifact] = [temp EXCEPT !.links = 2]]  \* mutant
\* os.link never replaces a file: FileExistsError is let pass.
Linked == IF Here = NoFile
          THEN [files EXCEPT ![Artifact] = [temp EXCEPT !.links = 2]] ELSE files

Link ==
    /\ pc = "link"
    /\ files' = Linked
    /\ pc' = "unlink"
    /\ UNCHANGED <<row, temp, turn, text, faults, foreign, cutLink>>

Unlink ==
    /\ pc = "unlink"
    /\ temp' = NoFile
    /\ files' = IF Here.links = 2 THEN [files EXCEPT ![Artifact].links = 1] ELSE files
    /\ pc' = "reread"
    /\ UNCHANGED <<row, turn, text, faults, foreign, cutLink>>

Reread ==
    /\ pc = "reread"
    /\ IF Reads(Here) = "same" THEN Published
       ELSE Refuse(IF Reads(Here) = "absent" THEN "DOT_HANDOFF_CONTENT_MISMATCH"
                   ELSE Reads(Here))

\* fsync of the directory, then the save of DOT_HANDOFF.
Commit ==
    /\ pc = "commit"
    /\ phase' = "DOT_HANDOFF"
    /\ reason' = text
    /\ pc' = "idle"
    /\ UNCHANGED <<handoffReason, files, temp, turn, text, faults,
                   foreign, cutLink>>
-----------------------------------------------------------------------------
Publishing == {"check", "write", "link", "unlink", "reread", "commit"}

\* The step between link and unlink is lost, and the second link stays.
Fault ==
    /\ faults < MaxFaults
    /\ faults' = faults + 1
    /\ cutLink' = (cutLink \/ (pc = "unlink" /\ Here.links = 2))
    /\ temp' = NoFile
    /\ pc' = "idle"
    /\ UNCHANGED <<phase, handoffReason, files, turn, text, foreign>>

\* os.open of an artifact fails, with anything but FileNotFoundError (EIO, EMFILE,
\* EACCES; ELOOP of a symlink somebody has put there).
OpenFails ==
    /\ pc \in {"check", "reread"}
    /\ faults < MaxFaults
    /\ faults' = faults + 1
    /\ Blocked("DOT_HANDOFF_PATH_INVALID")

\* An OSError of any other file operation, the read of an artifact included,
\* ends the run at the checkpoint, for an explicit retry.
IOError ==
    /\ pc \in Publishing
    /\ Fault
    /\ reason' = "DOT_HANDOFF_IO_RETRY_REQUIRED"

\* The process dies.  Temporary files it leaves are never read again.
Crash ==
    /\ pc \in Publishing
    /\ Fault
    /\ UNCHANGED reason

\* Somebody else's file turns up at a path nothing has been published to.
PutForeign ==
    /\ ~foreign
    /\ phase # "DOT_HANDOFF"
    /\ foreign' = TRUE
    /\ \E a \in Artifacts :
          files[a] = NoFile /\ files' = [files EXCEPT ![a] = Foreign]
    /\ UNCHANGED <<row, temp, pc, turn, text, faults, cutLink>>

Init ==
    /\ phase = "DECISION_RECEIVED"
    /\ reason = "DECISION_VALIDATED"
    /\ handoffReason = "none"
    /\ files = [a \in Artifacts |-> NoFile]
    /\ temp = NoFile
    /\ pc = "judged"
    /\ turn = 1
    /\ text = Reason
    /\ faults = 0
    /\ foreign = FALSE
    /\ cutLink = FALSE

Next ==
    \/ Pend \/ Resume \/ Check \/ Write \/ Link \/ Unlink \/ Reread \/ Commit
    \/ OpenFails \/ IOError \/ Crash \/ PutForeign

Spec == Init /\ [][Next]_vars
-----------------------------------------------------------------------------
TypeOK ==
    /\ phase \in {"DECISION_RECEIVED", "HANDOFF_PENDING", "DOT_HANDOFF", "BLOCKED"}
    /\ reason \in Reasons
    /\ handoffReason \in Texts \cup {"none"}
    /\ files \in [Artifacts -> File]
    /\ temp \in File
    /\ pc \in Publishing \cup {"judged", "idle"}
    /\ turn \in 1 .. Len(Order)
    /\ text \in Texts
    /\ faults \in 0 .. MaxFaults
    /\ foreign \in BOOLEAN
    /\ cutLink \in BOOLEAN

\* No crash or error ever leaves half a file at an artifact's path, and the
\* state says DOT_HANDOFF only when both artifacts are there, with a single link
\* and with the reason the review was handed over for, also after a failed or
\* interrupted attempt.
HandoffIsWhole ==
    /\ \A a \in Artifacts : files[a] # NoFile => files[a].whole
    /\ phase = "DOT_HANDOFF" =>
           \A a \in Artifacts :
               files[a] = [content |-> Reason, whole |-> TRUE, links |-> 1]

\* A file at an artifact's path is never replaced, by a retry or otherwise.
NeverOverwritten ==
    [][\A a \in Artifacts :
         files[a] # NoFile => files'[a].content = files[a].content]_vars

\* What an earlier attempt that failed or crashed has left never blocks a retry,
\* unless the fault fell between link and unlink: the session is blocked only by
\* somebody else's file, by such a fault, or by an open that failed just then.
BlockedWithCause ==
    phase = "BLOCKED" => foreign \/ cutLink \/ reason = "DOT_HANDOFF_PATH_INVALID"
=============================================================================
