------------------------- MODULE SessionProperties -------------------------
(* What an outcome session promises, stated over OutcomeSession. *)
EXTENDS OutcomeSession

\* The phase, the calls and the costs as in LedgerTypeOK; the rest has the
\* type declared beside the variables.
TypeOK ==
    /\ LedgerTypeOK
    /\ row \in Row
    /\ disk \in Disk
    /\ run \in Run
    /\ late \in BOOLEAN

\* delivery/ is made only for a candidate that passed every check, and
\* VERIFIED_DONE is reached only with the evidence of this very snapshot at this
\* revision and no external operation outstanding, whatever crashed, was copied
\* halfway or was edited by others before.  delivery/ and final.patch are then,
\* byte for byte, the candidate that was verified, unless the snapshot was edited
\* after the last look of _seal at it; and even then report() calls the session
\* VERIFIED_DONE only if delivery/ is that candidate.
DoneIsVerified ==
    /\ disk.delivery # Absent => CompletionEvidence
    /\ phase = "VERIFIED_DONE" =>
          /\ row.output = row.snapshot
          /\ row.evidence =
                 [snap |-> row.snapshot, rev |-> row.revision, status |-> "PASS"]
          /\ inFlight = 0
          /\ late \/ (disk.delivery = row.snapshot /\ disk.patch = row.snapshot)
    /\ Reported = "VERIFIED_DONE" => disk.delivery = row.snapshot

\* With semantic review on, sealing needs an ACCEPT of the current revision:
\* a bound and confident one by a judge, or the supervisor's on this evidence.
\* An answer about other evidence, an unsure one or an earlier revision's does
\* not count.  A human-final mission is sealed only after a human accepted
\* exactly the evidence it is sealed on.
DoneIsReviewed ==
    /\ phase = "VERIFIED_DONE" /\ contract.humanFinal => row.acceptance = row.evidence
    /\ phase \in {"SEAL", "VERIFIED_DONE"} /\ contract.semantic /\ ~contract.humanFinal =>
        \/ row.supervisor = [action |-> "ACCEPT", evidence |-> row.evidence]
        \/ \E i \in 1 .. Len(row.decisions) :
              LET d == row.decisions[i]
              IN  /\ d.reply.choice = "ACCEPT" /\ d.reply.bound /\ d.reply.confident
                  /\ d.rev = row.revision

\* Under local_only no evidence leaves the machine: no judge is called and no
\* handoff is published, on any path of the review.
LocalStaysLocal ==
    ~contract.redacted =>
        /\ \A judge \in Judges : calls[judge] = 0
        /\ row.handoff = NoEvidence
        /\ phase \notin {"HANDOFF_PENDING", "DOT_HANDOFF"}

\* A handoff in the state is about the current candidate and evidence, and one
\* that waits for its supervisor has not been answered: a decision can only be
\* taken once, on what it was asked about.
HandoffIsCurrent ==
    /\ row.handoff # NoEvidence =>
          /\ row.handoff = row.evidence
          /\ row.handoff.snap = row.snapshot /\ row.handoff.rev = row.revision
    /\ phase = "DOT_HANDOFF" =>
          row.handoff # NoEvidence /\ row.supervisor = NoDecision

\* No tier is asked twice about one candidate, and never a lower tier after a
\* higher one: crashes, skipped tiers and escalations included.
Rank == [jev |-> 1, sol |-> 2, astra |-> 3]
TiersClimb ==
    \A i, j \in 1 .. Len(row.decisions) :
        i < j /\ row.decisions[i].rev = row.decisions[j].rev =>
            Rank[row.decisions[i].role] < Rank[row.decisions[j].role]

\* A session is declared ended only when nothing of a worker's process group runs
\* any more: killpg has ended it, or the inherited lock keeps every resume out
\* until the orphan is gone.  A descendant that left the group is beyond both
\* and may still run and write; what it can do to the outcome is EditSnapshot.
EndedMeansQuiet == phase \in Terminal => "group" \notin run.workers

\* A process that holds the lock lets go of it: the loop of run, the repairs
\* and the escalations all end, crash or no crash, deadline or no deadline.
RunTerminates == ~At("idle") ~> At("idle")

\* docs/OUTCOME_CONTROL_V1.md:79 names VERIFY, READY, JUDGE and SEAL as the
\* normal checkpoints a session resumes from.  A directory left by an
\* interrupted step should then not block the session that resumes there.
BlockedByLeftover == phase' = "BLOCKED" /\ row'.reason = "FileExistsError"
NormalCheckpoint == phase \in {"VERIFY", "READY", "JUDGE", "SEAL"}
CheckpointsResume == [][NormalCheckpoint => ~BlockedByLeftover]_vars
=============================================================================
