--------------------------- MODULE OutcomeSession ---------------------------
(***************************************************************************)
(* One outcome session (outcome/engine.py with supervisor.py): the state   *)
(* row of control.sqlite3, the directories beside it and the process that  *)
(* holds controller.lock.  A controller step ends at a Store.save or at an *)
(* effect outside the database, so a crash falls between any two of them.  *)
(* The calls, the costs and the phase are those of OutcomeLedger.          *)
(*                                                                         *)
(* A snapshot is its hash, a member of Contents.  Evidence is the snapshot *)
(* and revision it was made from and the joint status of its checks; equal *)
(* evidence stands for an equal evidence hash.  A directory named after    *)
(* the generation can only be met again while that generation stands, so   *)
(* disk.scratch holds those of the current one and a save empties it.      *)
(*                                                                         *)
(* Others may edit the source and the directory the snapshot is in at any  *)
(* moment of a run: another developer, or a process that a worker started  *)
(* and that left its process group, which killpg does not reach.  A tree   *)
(* that is read while it is edited is read as it was before or after.      *)
(***************************************************************************)
EXTENDS OutcomeLedger

CONSTANTS
    Contents,   \* snapshot hashes
    Baseline,   \* the hash of the source
    Partial,    \* a directory whose copy was interrupted
    Absent,     \* no directory
    Replies,    \* what a judge may answer
    RunLimits   \* max_operations of a run; NoLimit is None

NoLimit == -1
Reply == [choice : {"ACCEPT", "REPAIR", "HUMAN_REQUIRED", "ESCALATE"},
          bound : BOOLEAN,      \* names the evidence and the role asked
          confident : BOOLEAN]  \* valid, with confidence at least 0.9

ASSUME SessionAssumption ==
    /\ Baseline \in Contents
    /\ Replies \subseteq Reply
    /\ RunLimits \subseteq Nat \cup {NoLimit}
    /\ Contents \cap {Partial, Absent} = {}
    /\ Partial # Absent

VARIABLES
    row,        \* the state row, beyond the ledger
    disk,       \* the session directory
    run,        \* the process holding the lock, and what its workers left
    late        \* the snapshot was edited after _seal last looked at it

vars == <<ledgerVars, row, disk, run, late>>

Statuses == {"PASS", "FAIL", "UNKNOWN"}
Actions == {"ACCEPT", "REPAIR", "HUMAN_REQUIRED"}
Evidence == [snap : Contents, rev : Nat, status : Statuses]
NoEvidence == [snap |-> Absent, rev |-> 0, status |-> "NONE"]
NoDecision == [action |-> "NONE", evidence |-> NoEvidence]

\* What state.reason may hold: where a save leaves the session, why a step
\* stopped it, and what Store.reserve or another check raised.
Reasons ==
    {"CREATED", "BASELINE_READY", "ALL_DECLARED_CHECKS_PASSED",
     "SEMANTIC_REVIEW_REQUIRED", "DETERMINISTIC_REPAIR_REQUIRED",
     "CANDIDATE_NOT_YET_VERIFIED", "JEV_UNAVAILABLE_ESCALATED",
     "LEGACY_ASTRA_FALLBACK", "LEGACY_ASTRA_ESCALATION", "ESCALATION_REQUIRED",
     "DECISION_TIER_UNAVAILABLE", "DOT_SUPERVISOR_REVIEW_REQUIRED",
     "SEMANTIC_REVIEW_ACCEPTED", "SEMANTIC_REPAIR_REQUESTED",
     "EXTERNAL_SUPERVISOR_ACCEPTED", "EXTERNAL_SUPERVISOR_REPAIR_REQUESTED",
     "DECLARED_ACCEPTANCE_VERIFIED_NOT_DEPLOYED"} \cup
    {"VERIFICATION_UNKNOWN", "FINAL_ACCEPTANCE_REQUIRED", "NO_PROGRESS",
     "WORKER_CALL_LIMIT", "SCOPE_VIOLATION", "WORKER_BLOCKED_OR_EXECUTION_FAILED",
     "OBSERVED_COST_EXCEEDS_LIMIT", "EXTERNAL_EVIDENCE_NOT_AUTHORIZED",
     "DECISION_ROLE_NOT_CONFIGURED", "JUDGE_CANNOT_OVERRIDE_FAILED_CHECKS",
     "JUDGE_REQUESTED_HUMAN", "AUTOMATED_REVIEW_EXHAUSTED",
     "EXTERNAL_SUPERVISOR_REQUESTED_HUMAN", "DOT_HANDOFF_IO_RETRY_REQUIRED",
     "INTERRUPTED_CHECKPOINT_REQUIRES_RECONCILIATION",
     "UNCERTAIN_EXTERNAL_OPERATION_DO_NOT_REPLAY"} \cup
    LimitReasons \cup
    {"OPERATION_ALREADY_IN_FLIGHT", "UNRECONCILED_COST",
     "COST_RESERVATION_REQUIRED", "COST_BOUND_UNKNOWN", "ControlError",
     "FileExistsError", "SOURCE_IDENTITY_CHANGED", "STALE_EVIDENCE",
     "SNAPSHOT_CHANGED_OUTSIDE_CONTROLLER", "EVIDENCE_REVISION_MISMATCH", "DOT_HANDOFF_REQUIRES_CURRENT_EVIDENCE",
     "INCOMPLETE_COMPLETION_EVIDENCE", "DELIVERY_IDENTITY_MISMATCH"}

Row ==
    [reason : Reasons, snapshot : Contents, revision : Nat, noProgress : Nat,
     evidence : Evidence \cup {NoEvidence}, nextRole : Judges,
     decisions : Seq([role : Judges, reply : Reply, rev : Nat]),
     handoff : Evidence \cup {NoEvidence},      \* what the handoff is about
     supervisor : [action : Actions, evidence : Evidence] \cup {NoDecision},
     acceptance : Evidence \cup {NoEvidence},   \* human_acceptance
     output : Contents \cup {Absent}]

Disk ==
    [current : Contents \cup {Absent},   \* what is in the directory of the snapshot
     workspace : BOOLEAN,     \* work-NNN of the next worker call exists
     scratch : SUBSET {"verification", "export"},
     delivery : Contents \cup {Partial, Absent},
     patch : Contents \cup {Absent}]     \* the tree final.patch leads to

RunPlaces == {"head", "copying", "verifying", "prepared", "working", "received",
              "judging", "decided", "publishing", "accepted", "sealing",
              "delivering", "delivered", "exporting", "patched"}
Run ==
    [at : RunPlaces \cup {"creating", "copied", "escalating", "idle"},
     caller : {"run", "accept"},
     opsLeft : Nat \cup {NoLimit},  \* max_operations less those done
     \* Who of a worker lives and has the inherited lock: its process group, and
     \* descendants that left it.  One that closed the lock is not seen here: all
     \* it can do to the session is EditSnapshot.
     workers : SUBSET {"group", "stray"},
     copied : Contents \cup {Absent}]   \* what this step copied of the snapshot

Idle == [at |-> "idle", caller |-> "run", opsLeft |-> 0, workers |-> {},
         copied |-> Absent]
-----------------------------------------------------------------------------
At(place) == run.at = place
GoTo(place) == run' = [run EXCEPT !.at = place]

\* The process lets go of the lock; what its workers left lives on.
Ended == [Idle EXCEPT !.workers = run.workers]

\* Store.save of the row: the generation moves on, and with it the scratch names.
Save(newRow) ==
    /\ row' = newRow
    /\ disk' = [disk EXCEPT !.scratch = {}]

\* A save that moves the phase and leaves the ledger alone.
SavePhase(p, newRow) ==
    /\ phase' = p
    /\ Save(newRow)
    /\ UNCHANGED <<contract, ledger, inFlight, expired, waiting, late>>

LoopUnbounded(p, operations_done) ==                              \* mutant
    run' = IF p \in Terminal THEN Ended
           ELSE [run EXCEPT !.at = "head", !.opsLeft = @ - operations_done,
                            !.copied = Absent]
\* The loop of run ends at a terminal phase.
Loop(p, operations_done) ==
    run' = IF p \in Terminal THEN Ended
           ELSE [run EXCEPT !.at = "head", !.copied = Absent,
                            !.opsLeft = IF @ = NoLimit THEN NoLimit
                                        ELSE @ - operations_done]

\* Nothing is saved: only files or the process move on.
NoSave == UNCHANGED <<ledgerVars, row, late>>

\* killpg: who left the group is not reached.
GroupKilled == run.workers \ {"group"}

\* A process that waits for a worker has killed its group when it leaves.
Leave == run' = [Ended EXCEPT !.workers = IF waiting THEN GroupKilled ELSE @]

\* _stop, and the exception handler of run.  accept has no handler: the
\* exception leaves the database as it was.
Stop(p, why) ==
    /\ phase' = p
    /\ waiting' = FALSE
    /\ Save([row EXCEPT !.reason = why])
    /\ Leave
    /\ UNCHANGED <<contract, ledger, inFlight, expired, late>>
Raise(why) ==
    IF run.caller = "run" THEN Stop(StopPhase(why), why)
    ELSE run' = Ended /\ NoSave /\ UNCHANGED disk

\* _snapshot, and _identity: source, agent and judges are as recorded too.  The
\* source is edited, and edited back, at any time: what it is found to be is free.
SnapshotOk == disk.current = row.snapshot
IdentityOk(recorded) == recorded /\ SnapshotOk

EvidenceCurrent == row.evidence.snap = row.snapshot

\* The loop of run dispatches on the phase.
Dispatch(p) == At("head") /\ phase = p /\ ~expired /\ run.opsLeft # 0
-----------------------------------------------------------------------------
(* OutcomeEngine.create: Store.create has saved phase READY. *)

CreateCopy ==
    /\ At("creating")
    /\ \/ /\ \E c \in Contents : disk' = [disk EXCEPT !.current = c]
          /\ GoTo("copied")                       \* the source as it is by now
       \/ run' = Ended /\ UNCHANGED disk          \* the copy raises
    /\ NoSave

CreateReady ==
    /\ At("copied")
    /\ SavePhase("VERIFY", [row EXCEPT !.reason = "BASELINE_READY"])
    /\ run' = Ended
-----------------------------------------------------------------------------
(* OutcomeEngine.run *)

LockNotInherited == At("idle")                                    \* mutant
\* Taking the lock fails (SESSION_BUSY) while anybody of a worker still holds it.
LockFree == At("idle") /\ run.workers = {}

RunFindsUncertain ==
    /\ LockFree
    /\ inFlight # 0
    /\ Stop("HUMAN_REQUIRED", "UNCERTAIN_EXTERNAL_OPERATION_DO_NOT_REPLAY")

Resumable == inFlight = 0 /\ phase \notin Terminal

RunStart ==
    /\ LockFree
    /\ Resumable
    /\ \E recorded \in BOOLEAN :
          IF IdentityOk(recorded)
          THEN /\ \E n \in RunLimits : run' = [run EXCEPT !.at = "head", !.opsLeft = n]
               /\ NoSave
               /\ UNCHANGED disk
          ELSE Raise("SOURCE_IDENTITY_CHANGED")

RunDeadline ==
    /\ At("head")
    /\ expired
    /\ Stop("LIMIT_REACHED", "MISSION_DEADLINE")

\* max_operations is used up: a durable checkpoint.
RunPause ==
    /\ At("head")
    /\ ~expired
    /\ run.opsLeft = 0
    /\ run' = Ended
    /\ NoSave
    /\ UNCHANGED disk

RunInterruptedReplays ==                                          \* mutant
    /\ Dispatch("CANDIDATE_RECEIVED")
    /\ SavePhase("READY", row)
    /\ Loop("READY", 0)
\* CANDIDATE_RECEIVED and DECISION_RECEIVED outlive their step in a crash only.
RunInterrupted ==
    /\ Dispatch("CANDIDATE_RECEIVED") \/ Dispatch("DECISION_RECEIVED")
    /\ Stop("HUMAN_REQUIRED", "INTERRUPTED_CHECKPOINT_REQUIRES_RECONCILIATION")

RetryNow ==                                                       \* mutant
    SavePhase("HANDOFF_PENDING", row) /\ GoTo("head")
RetryLater == Stop("HANDOFF_PENDING", "DOT_HANDOFF_IO_RETRY_REQUIRED")

\* Any step may raise: an I/O error, an artifact over the size limit, an agent
\* or a provider that fails or answers with a malformed receipt.
StepRaises ==
    /\ run.at \in RunPlaces
    /\ \/ \E why \in {"ControlError", "ARTIFACT_SIZE_LIMIT"} : Raise(why)
       \/ phase = "HANDOFF_PENDING" /\ RetryLater      \* an OSError
-----------------------------------------------------------------------------
(* OutcomeEngine._verify *)

VerifyCopy ==
    /\ Dispatch("VERIFY")
    /\ IF ~SnapshotOk THEN Raise("SNAPSHOT_CHANGED_OUTSIDE_CONTROLLER")
       ELSE IF "verification" \in disk.scratch THEN Raise("FileExistsError")
       ELSE /\ disk' = [disk EXCEPT !.scratch = @ \cup {"verification"}]
            /\ GoTo("copying")
            /\ NoSave

\* copy_snapshot, of _verify and of _worker: it returns what it copied.
Copied ==
    /\ At("copying")
    /\ run' = [run EXCEPT !.at = IF phase = "VERIFY" THEN "verifying" ELSE "prepared",
                          !.copied = disk.current]
    /\ NoSave
    /\ UNCHANGED disk

\* The phase and the reason a completed verification leads to.
AfterVerify(status) ==
    CASE status = "UNKNOWN" -> <<"HUMAN_REQUIRED", "VERIFICATION_UNKNOWN">>
      [] status = "PASS" ->
            IF contract.humanFinal
            THEN <<"HUMAN_REQUIRED", "FINAL_ACCEPTANCE_REQUIRED">>
            ELSE IF contract.semantic
            THEN <<"JUDGE", "SEMANTIC_REVIEW_REQUIRED">>
            ELSE <<"SEAL", "ALL_DECLARED_CHECKS_PASSED">>
      [] status = "FAIL" ->
            IF row.noProgress >= contract.noProgress
            THEN <<"HUMAN_REQUIRED", "NO_PROGRESS">>
            ELSE IF calls["worker"] >= contract.shots
            THEN <<"LIMIT_REACHED", "WORKER_CALL_LIMIT">>
            ELSE <<"READY", "DETERMINISTIC_REPAIR_REQUIRED">>

VerifyRecord(status) ==
    LET to == AfterVerify(status)
    IN  /\ At("verifying")
        /\ IF ~SnapshotOk THEN Raise("SNAPSHOT_CHANGED_OUTSIDE_CONTROLLER")
           ELSE IF run.copied # row.snapshot THEN Raise("EVIDENCE_REVISION_MISMATCH")
           ELSE /\ SavePhase(to[1],
                      [row EXCEPT !.reason = to[2],
                                  !.evidence = [snap |-> run.copied,
                                                rev |-> row.revision, status |-> status],
                                  !.nextRole = IF to[1] = "JUDGE" THEN "jev" ELSE @])
                /\ Loop(to[1], 0)
-----------------------------------------------------------------------------
(* OutcomeEngine._worker *)

WorkerPrepare ==
    /\ Dispatch("READY")
    /\ IF ~SnapshotOk THEN Raise("SNAPSHOT_CHANGED_OUTSIDE_CONTROLLER")
       ELSE IF disk.workspace THEN Raise("FileExistsError")
       ELSE /\ disk' = [disk EXCEPT !.workspace = TRUE]
            /\ GoTo("copying")
            /\ NoSave

\* The call is charged before it is made; the next work-NNN is another one.
WorkerReserve ==
    /\ At("prepared")
    /\ IF Refusal("worker") # "NONE" THEN Raise(Refusal("worker"))
       ELSE /\ Reserve("worker")
            /\ disk' = [disk EXCEPT !.workspace = FALSE, !.scratch = {}]
            /\ run' = [run EXCEPT !.at = "working", !.workers = @ \cup {"group"}]
            /\ UNCHANGED <<row, late>>

Returned(place) == [run EXCEPT !.at = place, !.workers = GroupKilled]

\* Store.finish; the worker's process group is gone when execute returns, and
\* only the group: a descendant that left it goes on.
Finish(receipt, place) ==
    /\ Return(receipt)
    /\ Save([row EXCEPT !.reason = IF phase' = "LIMIT_REACHED"
                                   THEN "OBSERVED_COST_EXCEEDS_LIMIT" ELSE @])
    /\ run' = IF phase' \in Terminal THEN [Ended EXCEPT !.workers = GroupKilled]
              ELSE Returned(place)
    /\ UNCHANGED late

WorkerReturn(receipt) == At("working") /\ Finish(receipt, "received")

WorkerRejected ==
    /\ At("received")
    /\ \E why \in {"SCOPE_VIOLATION", "WORKER_BLOCKED_OR_EXECUTION_FAILED"} :
            Stop("BLOCKED", why)

SupersededNot(r) == r                                             \* mutant
\* A handoff and its answer are about the candidate before this one.
Superseded(r) == [r EXCEPT !.handoff = NoEvidence, !.supervisor = NoDecision]

\* The workspace becomes the snapshot, as it was when it was read.
WorkerAdopt(after) ==
    /\ At("received")
    /\ phase' = "VERIFY"
    /\ row' = [Superseded(row) EXCEPT !.reason = "CANDIDATE_NOT_YET_VERIFIED",
                      !.noProgress = IF after = run.copied THEN @ + 1 ELSE 0,
                      !.snapshot = after,
                      !.revision = @ + 1]
    /\ disk' = [disk EXCEPT !.scratch = {}, !.current = after]
    /\ Loop("VERIFY", 1)
    /\ UNCHANGED <<contract, ledger, inFlight, expired, waiting, late>>
-----------------------------------------------------------------------------
(* OutcomeEngine._judge and _dot_handoff *)

Available(role) ==
    role \in contract.judges /\ calls[role] < contract.judgeCalls[role]

SolIsFree == Available("sol")                                     \* mutant
SolIsNext == row.nextRole = "jev" /\ Available("sol")

EvidenceAlways == TRUE                                            \* mutant
\* data_policy = "redacted_evidence".
EvidenceAllowed == contract.redacted

\* A save of _judge after which the loop goes on.
Route(p, newRow) == SavePhase(p, newRow) /\ Loop(p, 1)
ToTier(role, newRow, why) ==
    Route("JUDGE", [newRow EXCEPT !.nextRole = role, !.reason = why])

\* _dot_handoff up to its first save.
HandoffPending(why) ==
    /\ SavePhase("HANDOFF_PENDING", [row EXCEPT !.reason = why])
    /\ GoTo("publishing")

JudgeSpent ==
    /\ Dispatch("JUDGE")
    /\ row.nextRole \in contract.judges
    /\ calls[row.nextRole] >= contract.judgeCalls[row.nextRole]
    /\ Stop("LIMIT_REACHED", "CALL_LIMIT")

JudgeUnavailable ==
    /\ Dispatch("JUDGE")
    /\ row.nextRole \notin contract.judges
    /\ IF ~EvidenceAllowed
       THEN Stop("HUMAN_REQUIRED", "EXTERNAL_EVIDENCE_NOT_AUTHORIZED")
       ELSE IF SolIsNext
       THEN ToTier("sol", row, "JEV_UNAVAILABLE_ESCALATED")
       ELSE IF contract.dot
       THEN HandoffPending("DECISION_TIER_UNAVAILABLE")
       ELSE IF row.nextRole # "astra" /\ Available("astra")
       THEN ToTier("astra", row, "LEGACY_ASTRA_FALLBACK")
       ELSE Stop("HUMAN_REQUIRED", "DECISION_ROLE_NOT_CONFIGURED")

JudgeReserve ==
    /\ Dispatch("JUDGE")
    /\ Available(row.nextRole)
    /\ IF ~EvidenceAllowed
       THEN Stop("HUMAN_REQUIRED", "EXTERNAL_EVIDENCE_NOT_AUTHORIZED")
       ELSE IF ~SnapshotOk THEN Raise("SNAPSHOT_CHANGED_OUTSIDE_CONTROLLER")
       ELSE IF ~EvidenceCurrent THEN Raise("STALE_EVIDENCE")
       ELSE IF Refusal(row.nextRole) # "NONE" THEN Raise(Refusal(row.nextRole))
       ELSE Reserve(row.nextRole) /\ Save(row) /\ GoTo("judging") /\ UNCHANGED late

JudgeReturn(receipt) == At("judging") /\ Finish(receipt, "decided")

ValidUnbound(reply) == reply.confident                            \* mutant
Valid(reply) == reply.bound /\ reply.confident

\* Where a request for repair leads, here and in submit_supervisor_decision.
AfterRepair(why) ==
    IF calls["worker"] >= contract.shots THEN <<"LIMIT_REACHED", "WORKER_CALL_LIMIT">>
    ELSE IF row.noProgress >= contract.noProgress THEN <<"HUMAN_REQUIRED", "NO_PROGRESS">>
    ELSE <<"READY", why>>

WithDecision(reply) ==
    [row EXCEPT !.decisions = Append(@,
        [role |-> row.nextRole, reply |-> reply, rev |-> row.evidence.rev])]

\* _judge looks at the snapshot again before it heeds the answer.
JudgeStale ==
    /\ At("decided")
    /\ ~SnapshotOk
    /\ Raise("SNAPSHOT_CHANGED_OUTSIDE_CONTROLLER")

\* A valid answer other than ESCALATE settles the review.
JudgeDecide(reply) ==
    /\ At("decided")
    /\ SnapshotOk
    /\ Valid(reply)
    /\ reply.choice # "ESCALATE"
    /\ LET to == CASE reply.choice = "ACCEPT" ->
                        IF row.evidence.status = "PASS"
                        THEN <<"SEAL", "SEMANTIC_REVIEW_ACCEPTED">>
                        ELSE <<"BLOCKED", "JUDGE_CANNOT_OVERRIDE_FAILED_CHECKS">>
                   [] reply.choice = "REPAIR" ->
                        AfterRepair("SEMANTIC_REPAIR_REQUESTED")
                   [] reply.choice = "HUMAN_REQUIRED" ->
                        <<"HUMAN_REQUIRED", "JUDGE_REQUESTED_HUMAN">>
       IN  Route(to[1], [WithDecision(reply) EXCEPT !.reason = to[2]])

\* An answer that asks for it, or is invalid, goes to the next tier.
JudgeEscalate(reply) ==
    /\ At("decided")
    /\ SnapshotOk
    /\ ~Valid(reply) \/ reply.choice = "ESCALATE"
    /\ IF SolIsNext
       THEN ToTier("sol", WithDecision(reply), "ESCALATION_REQUIRED")
       ELSE IF contract.dot
       THEN SavePhase(phase, WithDecision(reply)) /\ GoTo("escalating")
       ELSE IF row.nextRole # "astra" /\ "astra" \in contract.judges
       THEN IF Available("astra")
            THEN ToTier("astra", WithDecision(reply), "LEGACY_ASTRA_ESCALATION")
            ELSE Route("LIMIT_REACHED",
                       [WithDecision(reply) EXCEPT !.reason = "CALL_LIMIT"])
       ELSE Route("HUMAN_REQUIRED",
                  [WithDecision(reply) EXCEPT !.reason = "AUTOMATED_REVIEW_EXHAUSTED"])

EscalateToDot ==
    /\ At("escalating")
    /\ IF EvidenceAllowed THEN HandoffPending("DOT_SUPERVISOR_REVIEW_REQUIRED")
       ELSE Stop("HUMAN_REQUIRED", "EXTERNAL_EVIDENCE_NOT_AUTHORIZED")

\* A later run repeats the publication from its durable checkpoint.
PublishAgain ==
    /\ Dispatch("HANDOFF_PENDING")
    /\ GoTo("publishing")
    /\ NoSave
    /\ UNCHANGED disk

\* build_dot_handoff and the save after it; the writing of the two files and
\* what can fail in it is StepRaises here.
Publish ==
    /\ At("publishing")
    /\ IF ~(EvidenceCurrent /\ row.evidence.rev = row.revision)
       THEN Raise("DOT_HANDOFF_REQUIRES_CURRENT_EVIDENCE")
       ELSE /\ SavePhase("DOT_HANDOFF", [row EXCEPT !.handoff = row.evidence])
            /\ run' = Ended
-----------------------------------------------------------------------------
(* submit_supervisor_decision: one save under the lock. *)

Submit(action) ==
    /\ LockFree
    /\ phase = "DOT_HANDOFF"
    /\ inFlight = 0
    /\ EvidenceAllowed
    /\ row.handoff = row.evidence
    /\ EvidenceCurrent
    /\ row.evidence.rev = row.revision
    /\ action = "ACCEPT" => row.evidence.status = "PASS"
    /\ LET to == CASE action = "ACCEPT" -> <<"SEAL", "EXTERNAL_SUPERVISOR_ACCEPTED">>
                   [] action = "REPAIR" ->
                        AfterRepair("EXTERNAL_SUPERVISOR_REPAIR_REQUESTED")
                   [] action = "HUMAN_REQUIRED" ->
                        <<"HUMAN_REQUIRED", "EXTERNAL_SUPERVISOR_REQUESTED_HUMAN">>
       IN  SavePhase(to[1],
              [row EXCEPT !.reason = to[2],
                          !.supervisor = [action |-> action,
                                          evidence |-> row.handoff]])
    /\ UNCHANGED run
-----------------------------------------------------------------------------
(* OutcomeEngine.accept and _seal *)

Accept ==
    /\ LockFree
    /\ phase = "HUMAN_REQUIRED"
    /\ row.reason = "FINAL_ACCEPTANCE_REQUIRED"
    /\ inFlight = 0
    /\ IdentityOk(TRUE)          \* otherwise accept raises and nothing is done
    /\ SavePhase(phase, [row EXCEPT !.acceptance = row.evidence])
    /\ run' = [run EXCEPT !.at = "accepted", !.caller = "accept"]

CompletionEvidence == EvidenceCurrent /\ row.evidence.status = "PASS"

\* The checks of _seal.
SealStart ==
    /\ At("accepted") \/ Dispatch("SEAL")
    /\ \E recorded \in BOOLEAN :
          IF ~IdentityOk(recorded) THEN Raise("SOURCE_IDENTITY_CHANGED")
          ELSE IF contract.humanFinal /\ row.acceptance # row.evidence
          THEN Raise("FINAL_ACCEPTANCE_REQUIRED")
          ELSE IF ~CompletionEvidence THEN Raise("INCOMPLETE_COMPLETION_EVIDENCE")
          ELSE GoTo("sealing") /\ NoSave /\ UNCHANGED disk

\* delivery/ is reused when it is the candidate, refused when it is anything
\* else, copied when it is absent.
SealDelivery ==
    IF disk.delivery \notin {Absent, row.snapshot}
    THEN Raise("DELIVERY_IDENTITY_MISMATCH")
    ELSE /\ disk' = [disk EXCEPT !.delivery = IF @ = Absent THEN Partial ELSE @]
         /\ GoTo(IF disk.delivery = Absent THEN "delivering" ELSE "delivered")
         /\ late' = FALSE
         /\ UNCHANGED <<ledgerVars, row>>

SealUnchecked == At("sealing") /\ SealDelivery                    \* mutant
\* The last look at the snapshot: what is copied after it is not compared with it.
SealCheck ==
    /\ At("sealing")
    /\ IF ~SnapshotOk THEN Raise("SNAPSHOT_CHANGED_OUTSIDE_CONTROLLER")
       ELSE SealDelivery

SealDelivered ==
    /\ At("delivering")
    /\ disk' = [disk EXCEPT !.delivery = disk.current]
    /\ GoTo("delivered")
    /\ NoSave

\* export-NNNN is written from the snapshot once more, and final.patch from it.
SealExport ==
    /\ At("delivered")
    /\ IF "export" \in disk.scratch THEN Raise("FileExistsError")
       ELSE /\ disk' = [disk EXCEPT !.scratch = @ \cup {"export"}]
            /\ GoTo("exporting")
            /\ NoSave

SealPatch ==
    /\ At("exporting")
    /\ disk' = [disk EXCEPT !.patch = disk.current]
    /\ GoTo("patched")
    /\ NoSave

SealCommit ==
    /\ At("patched")
    /\ SavePhase("VERIFIED_DONE",
          [row EXCEPT !.output = row.snapshot,
                      !.reason = "DECLARED_ACCEPTANCE_VERIFIED_NOT_DEPLOYED"])
    /\ run' = Ended

\* Store.report: the phase it tells, DELIVERY_CHANGED_SINCE_SEAL included.
Reported ==
    IF phase = "VERIFIED_DONE" /\ disk.delivery # row.output THEN "BLOCKED" ELSE phase
-----------------------------------------------------------------------------
(* The world around the controller. *)

\* The controller process dies.  The group of a worker may live on.
Crash ==
    /\ ~At("idle")
    /\ \E left \in {run.workers, GroupKilled} : run' = [Ended EXCEPT !.workers = left]
    /\ waiting' = FALSE
    /\ UNCHANGED <<contract, phase, ledger, inFlight, expired, row, disk, late>>

\* A descendant of a worker takes a session of its own (setsid), the lock with it.
WorkerStrays ==
    /\ "group" \in run.workers
    /\ run' = [run EXCEPT !.workers = @ \cup {"stray"}]
    /\ NoSave
    /\ UNCHANGED disk

\* What nobody waits for ends by itself.
WorkerExits ==
    /\ \E w \in run.workers :
          /\ w = "group" => At("idle")
          /\ run' = [run EXCEPT !.workers = @ \ {w}]
    /\ NoSave
    /\ UNCHANGED disk

Expire == DeadlinePasses /\ UNCHANGED <<row, disk, run, late>>

\* Where _seal has yet to read the snapshot that it looked at for the last time.
LateIn == {"delivering", "delivered", "exporting"}
\* The snapshot is edited, or made again what it was.
EditSnapshot(c) ==
    /\ disk.current # Absent
    /\ disk' = [disk EXCEPT !.current = c]
    /\ late' = (late \/ run.at \in LateIn)
    /\ UNCHANGED <<ledgerVars, row, run>>

Init ==
    /\ LedgerInit
    /\ row = [reason |-> "CREATED", snapshot |-> Baseline, revision |-> 0,
              noProgress |-> 0, evidence |-> NoEvidence, nextRole |-> "jev",
              decisions |-> <<>>, handoff |-> NoEvidence,
              supervisor |-> NoDecision, acceptance |-> NoEvidence,
              output |-> Absent]
    /\ disk = [current |-> Absent, workspace |-> FALSE, scratch |-> {},
               delivery |-> Absent, patch |-> Absent]
    /\ run = [Idle EXCEPT !.at = "creating"]
    /\ late = FALSE

\* The steps the process holding the lock takes by itself.
ControllerStep ==
    \/ CreateCopy \/ CreateReady
    \/ RunDeadline \/ RunPause \/ RunInterrupted \/ StepRaises
    \/ VerifyCopy \/ Copied \/ \E status \in Statuses : VerifyRecord(status)
    \/ WorkerPrepare \/ WorkerReserve
    \/ \E receipt \in Receipts : WorkerReturn(receipt)
    \/ WorkerRejected \/ \E after \in Contents : WorkerAdopt(after)
    \/ JudgeSpent \/ JudgeUnavailable \/ JudgeReserve
    \/ \E receipt \in Receipts : JudgeReturn(receipt)
    \/ JudgeStale \/ \E reply \in Replies : JudgeDecide(reply)
    \/ \E reply \in Replies : JudgeEscalate(reply)
    \/ EscalateToDot \/ PublishAgain \/ Publish
    \/ SealStart \/ SealCheck \/ SealDelivered \/ SealExport \/ SealPatch
    \/ SealCommit

OperatorStep ==
    \/ RunFindsUncertain \/ RunStart \/ Accept
    \/ \E action \in Actions : Submit(action)

Next ==
    \/ ControllerStep \/ OperatorStep
    \/ Crash \/ WorkerStrays \/ WorkerExits \/ Expire
    \/ \E c \in Contents : EditSnapshot(c)

Spec == Init /\ [][Next]_vars

\* A controller process keeps executing: agents, judges and verifiers are
\* bounded by timeouts.  Nobody is obliged to resume a session.
FairSpec == Spec /\ WF_vars(ControllerStep)
=============================================================================
