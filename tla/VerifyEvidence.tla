--------------------------- MODULE VerifyEvidence ---------------------------
(***************************************************************************)
(* verify.verify, and the status OutcomeEngine._verify draws from it.  The *)
(* criteria of a contract are checked one after the other in a copy of the *)
(* candidate; a command runs in that copy, may rewrite it and may leave a  *)
(* process behind that goes on rewriting it.                               *)
(***************************************************************************)
EXTENDS Naturals, Sequences

CONSTANTS
    Files,
    Contents,       \* what a readable text file may hold
    CriteriaLists   \* the criteria of each contract, in order

\* A file may also be absent, or hold bytes that are no text (or no JSON or CSV).
Bytes == Contents \cup {"undecodable", "absent"}
Tree == [Files -> Bytes]

\* "digest" is sha256, which compares bytes; "text" is every kind that decodes.
Criterion ==
    [kind : {"text", "digest"}, file : Files, expect : Bytes \ {"absent"}] \cup
    [kind : {"command"}]
ASSUME CriteriaAssumption ==
    \A list \in CriteriaLists : list \in Seq(Criterion) /\ list # <<>>

VARIABLES
    criteria,   \* of the contract
    before,     \* the manifest when verification starts: the candidate
    tree,       \* the copy
    reserved,   \* the copy has a directory or link no manifest accepts
    checks,     \* the statuses so far
    late,       \* the deadline has passed
    stray,      \* a process of a command is still running in the copy
    verdict,    \* joint status, "none" before and "raised" after an exception
    restored    \* ghost: files that were rewritten and then put back
vars == <<criteria, before, tree, reserved, checks, late, stray, verdict, restored>>

-----------------------------------------------------------------------------
Checking == verdict = "none" /\ Len(checks) < Len(criteria)
Current == criteria[Len(checks) + 1]
Record(status) == checks' = Append(checks, status)

\* A file is read when its turn comes, not when verification starts.
Read(c, bytes) ==
    IF bytes = "absent" THEN "FAIL"
    ELSE IF c.kind = "text" /\ bytes = "undecodable" THEN "UNKNOWN"
    ELSE IF bytes = c.expect THEN "PASS" ELSE "FAIL"

CheckFile ==
    /\ Checking /\ Current.kind # "command"
    /\ Record(IF late THEN "UNKNOWN" ELSE Read(Current, tree[Current.file]))
    /\ UNCHANGED <<criteria, before, tree, reserved, late, stray, verdict, restored>>

Rewrite(to) ==
    /\ tree' = to
    /\ restored' = restored \cup
           {f \in Files : tree[f] # before[f] /\ to[f] = before[f]}

\* No sandbox, one that is not verified, or the deadline.
RefuseCommand ==
    /\ Checking /\ Current.kind = "command"
    /\ Record("UNKNOWN")
    /\ UNCHANGED <<criteria, before, tree, reserved, late, stray, verdict, restored>>

\* The command ran; a non-zero exit, a timeout or too much output is a failure.
RunCommand ==
    /\ Checking /\ Current.kind = "command" /\ ~late
    /\ \E to \in Tree : Rewrite(to)
    /\ stray' \in {stray, TRUE} /\ reserved' \in {reserved, TRUE}
    /\ late' \in {late, TRUE}
    /\ \E passed \in BOOLEAN : Record(IF passed THEN "PASS" ELSE "FAIL")
    /\ UNCHANGED <<criteria, before, verdict>>

\* A probe or a kill that times out is none of the exceptions verify expects.
Escape ==
    /\ Checking /\ Current.kind = "command" /\ ~late
    /\ verdict' = "raised"
    /\ UNCHANGED <<criteria, before, tree, reserved, checks, late, stray, restored>>

StrayRewrites ==
    /\ stray /\ verdict = "none"
    /\ \E f \in Files, bytes \in Bytes : Rewrite([tree EXCEPT ![f] = bytes])
    /\ UNCHANGED <<criteria, before, reserved, checks, late, stray, verdict>>

DeadlinePasses ==
    /\ ~late /\ verdict = "none"
    /\ late' = TRUE
    /\ UNCHANGED <<criteria, before, tree, reserved, checks, stray, verdict, restored>>

NeverMutated == FALSE                                       \* mutant: not compared
Mutated == tree # before

Joint(statuses) ==
    IF "UNKNOWN" \in statuses THEN "UNKNOWN"
    ELSE IF statuses = {"PASS"} THEN "PASS" ELSE "FAIL"

\* The last manifest; a copy that changed makes every check UNKNOWN.
Conclude ==
    /\ verdict = "none" /\ Len(checks) = Len(criteria)
    /\ IF reserved THEN verdict' = "raised" /\ UNCHANGED checks
       ELSE /\ checks' = IF Mutated THEN [i \in DOMAIN checks |-> "UNKNOWN"] ELSE checks
            /\ verdict' = Joint({checks'[i] : i \in DOMAIN checks})
    /\ UNCHANGED <<criteria, before, tree, reserved, late, stray, restored>>

Init ==
    /\ criteria \in CriteriaLists
    /\ before \in Tree /\ tree = before
    /\ checks = <<>> /\ verdict = "none" /\ restored = {}
    /\ reserved = FALSE /\ late = FALSE /\ stray = FALSE

Next ==
    \/ CheckFile \/ RefuseCommand \/ RunCommand \/ Escape
    \/ StrayRewrites \/ DeadlinePasses \/ Conclude

Spec == Init /\ [][Next]_vars
-----------------------------------------------------------------------------
\* What the check of criterion i says is true of the candidate itself, or the
\* file was rewritten meanwhile and put back before the copies were compared.
TrueOfCandidate(i) ==
    LET c == criteria[i]
    IN  c.kind # "command" =>
            checks[i] = Read(c, before[c.file]) \/ c.file \in restored

\* docs/OUTCOME_CONTROL_V1.md:69: a verifier modifying the artifacts invalidates
\* its own success.  PASS, which may seal, and FAIL, which spends another worker
\* call, are said only when every criterion was decided, in time and on the
\* candidate as it was submitted.  The one way round verify.py:122-125 is a
\* command, or what it left running, that undoes its own rewriting.
VerdictIsEarned ==
    verdict \in {"PASS", "FAIL"} =>
        /\ Len(checks) = Len(criteria)
        /\ \A i \in DOMAIN checks : checks[i] # "UNKNOWN" /\ TrueOfCandidate(i)
        /\ verdict = "FAIL" <=> \E i \in DOMAIN checks : checks[i] = "FAIL"
=============================================================================
