----------------------- MODULE VerifyEvidence_proofs -----------------------
(***************************************************************************)
(* Proofs about the verifier of a contract, for every list of criteria and *)
(* every tree of files.                                                    *)
(***************************************************************************)
EXTENDS VerifyEvidence, TLAPS

Statuses == {"PASS", "FAIL", "UNKNOWN"}

\* The rewritten files in their declared sets, and no check ahead of its criterion.
EvidenceTypeOK ==
    /\ criteria \in CriteriaLists
    /\ before \in Tree /\ tree \in Tree
    /\ restored \subseteq Files
    /\ checks \in Seq(Statuses)
    /\ Len(checks) <= Len(criteria)

\* A file check that decided something either read what was submitted, or its
\* file differs now, or it has been put back: what Mutated and restored tell.
CheckExplained(i) ==
    LET c == criteria[i]
    IN  c.kind # "command" /\ checks[i] # "UNKNOWN" =>
            \/ checks[i] = Read(c, before[c.file])
            \/ tree[c.file] # before[c.file]
            \/ c.file \in restored

ReadIsExplained ==
    verdict = "none" => \A i \in 1 .. Len(checks) : CheckExplained(i)

EvidenceInv == EvidenceTypeOK /\ ReadIsExplained /\ VerdictIsEarned
-----------------------------------------------------------------------------
\* What the assumption on the contracts says of the criterion whose turn it is.
LEMMA CriterionType ==
  ASSUME EvidenceTypeOK
  PROVE  /\ criteria \in Seq(Criterion) /\ Len(criteria) \in Nat \ {0}
         /\ \A i \in 1 .. Len(criteria) :
                criteria[i].kind # "command" => criteria[i].file \in Files
<1>1. criteria \in Seq(Criterion) /\ criteria # <<>>
  BY CriteriaAssumption DEF EvidenceTypeOK
<1>2. Len(criteria) \in Nat \ {0}
  BY <1>1
<1>3. \A c \in Criterion : c.kind # "command" => c.file \in Files
  BY DEF Criterion
<1>. QED
  BY <1>1, <1>2, <1>3

\* A file is read as passed, failed or not decided.
LEMMA ReadIsStatus == \A c, bytes : Read(c, bytes) \in Statuses
  BY DEF Read, Statuses

\* The steps that add the status of one more criterion.
LEMMA RecordedCheck ==
  ASSUME EvidenceTypeOK, Checking, NEW status \in Statuses, Record(status)
  PROVE  /\ checks' \in Seq(Statuses)
         /\ Len(checks') = Len(checks) + 1
         /\ Len(checks') <= Len(criteria)
         /\ checks'[Len(checks) + 1] = status
         /\ \A i \in 1 .. Len(checks) : checks'[i] = checks[i]
<1>1. checks \in Seq(Statuses) /\ Len(checks) < Len(criteria)
  BY DEF EvidenceTypeOK, Checking
<1>2. Len(criteria) \in Nat
  BY CriterionType
<1>3. checks' = Append(checks, status)
  BY DEF Record
<1>. QED
  BY <1>1, <1>2, <1>3

\* Rewriting a copy keeps every explanation: the file of a check that read what
\* is gone either differs now or was put back.
LEMMA RewriteExplains ==
  ASSUME EvidenceTypeOK, ReadIsExplained, verdict = "none",
         NEW to \in Tree, Rewrite(to), UNCHANGED <<criteria, before>>
  PROVE  /\ tree' \in Tree /\ restored' \subseteq Files
         /\ \A i \in 1 .. Len(checks) : checks'[i] = checks[i] => CheckExplained(i)'
<1>1. tree' = to /\ restored' \subseteq Files
  BY DEF Rewrite, EvidenceTypeOK
<1>2. ASSUME NEW i \in 1 .. Len(checks), checks'[i] = checks[i]
      PROVE  CheckExplained(i)'
  <2>. DEFINE c == criteria[i]
  <2>. SUFFICES ASSUME c.kind # "command", checks[i] # "UNKNOWN"
                PROVE  \/ checks[i] = Read(c, before[c.file])
                       \/ tree'[c.file] # before[c.file]
                       \/ c.file \in restored'
    BY <1>2 DEF CheckExplained
  <2>1. c.file \in Files
    <3>1. i \in 1 .. Len(criteria)
      BY CriterionType DEF EvidenceTypeOK
    <3>. QED
      BY <3>1, CriterionType
  <2>2. \/ checks[i] = Read(c, before[c.file])
        \/ tree[c.file] # before[c.file]
        \/ c.file \in restored
    BY DEF ReadIsExplained, CheckExplained
  <2>. HIDE DEF c
  <2>. QED
    BY <1>1, <2>1, <2>2 DEF Rewrite
<1>. QED
  BY <1>1, <1>2
-----------------------------------------------------------------------------
LEMMA EvidenceInit == Init => EvidenceInv
<1>. SUFFICES ASSUME Init PROVE EvidenceInv
  OBVIOUS
<1>1. /\ criteria \in Seq(Criterion) /\ Len(criteria) \in Nat
      /\ checks = <<>> /\ verdict = "none"
  BY CriteriaAssumption DEF Init
<1>. QED
  BY <1>1 DEF Init, EvidenceInv, EvidenceTypeOK, ReadIsExplained, VerdictIsEarned

\* A step that adds one status and leaves the copy and the verdict as they were.
LEMMA RecordKeeps ==
  ASSUME EvidenceInv, Checking, NEW status \in Statuses, Record(status),
         UNCHANGED <<criteria, before, tree, verdict, restored>>,
         Current.kind # "command" /\ status # "UNKNOWN" =>
             status = Read(Current, tree[Current.file])
  PROVE  EvidenceInv'
<1>1. EvidenceTypeOK'
  BY RecordedCheck DEF EvidenceInv, EvidenceTypeOK
<1>2. verdict' = "none"
  BY DEF Checking
<1>3. ReadIsExplained'
  <2>1. Len(checks) \in Nat
    BY DEF EvidenceInv, EvidenceTypeOK
  <2>2. ASSUME NEW i \in 1 .. Len(checks)
        PROVE  CheckExplained(i)'
    <3>1. CheckExplained(i) /\ checks'[i] = checks[i]
      BY RecordedCheck DEF EvidenceInv, ReadIsExplained, Checking
    <3>. QED
      BY <3>1 DEF CheckExplained
  <2>3. ASSUME NEW n, n = Len(checks) + 1
        PROVE  CheckExplained(n)'
    <3>1. checks'[n] = status /\ criteria'[n] = Current
      BY <2>3, RecordedCheck DEF EvidenceInv, Current
    <3>. QED
      BY <3>1 DEF CheckExplained
  <2>4. Len(checks') = Len(checks) + 1
    BY RecordedCheck DEF EvidenceInv
  <2>. QED
    BY <2>1, <2>2, <2>3, <2>4 DEF ReadIsExplained
<1>. QED
  BY <1>1, <1>2, <1>3 DEF EvidenceInv, VerdictIsEarned

\* The verdict drawn from the last manifest.
LEMMA ConcludeKeeps ==
  ASSUME EvidenceInv, Conclude
  PROVE  EvidenceInv'
<1>1. /\ verdict = "none" /\ Len(checks) = Len(criteria)
      /\ UNCHANGED <<criteria, before, tree, restored>>
      /\ checks \in Seq(Statuses) /\ Len(checks) \in Nat \ {0}
      /\ DOMAIN checks = 1 .. Len(checks)
  BY CriterionType DEF EvidenceInv, EvidenceTypeOK, Conclude
<1>2. CASE reserved
  <2>1. verdict' = "raised" /\ checks' = checks
    BY <1>2 DEF Conclude
  <2>. QED
    BY <1>1, <2>1 DEF EvidenceInv, EvidenceTypeOK, ReadIsExplained, VerdictIsEarned
<1>3. CASE ~reserved
  <2>. DEFINE said == {checks'[i] : i \in DOMAIN checks}
  <2>1. verdict' = Joint(said)
    BY <1>3 DEF Conclude
  <2>2. verdict' # "none"
    BY <2>1 DEF Joint
  <2>3. CASE Mutated
    <3>1. checks' = [i \in 1 .. Len(checks) |-> "UNKNOWN"]
      BY <1>1, <1>3, <2>3 DEF Conclude
    <3>2. checks' \in Seq(Statuses) /\ Len(checks') = Len(checks)
      BY <1>1, <3>1 DEF Statuses
    <3>3. verdict' = "UNKNOWN"
      <4>1. 1 \in DOMAIN checks /\ checks'[1] = "UNKNOWN"
        BY <1>1, <3>1
      <4>. QED
        BY <2>1, <4>1 DEF Joint
    <3>. QED
      BY <1>1, <2>2, <3>2, <3>3
      DEF EvidenceInv, EvidenceTypeOK, ReadIsExplained, VerdictIsEarned
  <2>4. CASE ~Mutated
    <3>1. checks' = checks /\ tree = before
      BY <1>3, <2>4 DEF Conclude, Mutated
    <3>2. ASSUME verdict' \in {"PASS", "FAIL"}
          PROVE  /\ \A i \in DOMAIN checks : checks[i] # "UNKNOWN"
                 /\ verdict' = "FAIL" <=> \E i \in DOMAIN checks : checks[i] = "FAIL"
      <4>1. "UNKNOWN" \notin said
        BY <2>1, <3>2 DEF Joint
      <4>2. \A i \in DOMAIN checks : checks[i] # "UNKNOWN" /\ checks[i] \in said
        BY <3>1, <4>1
      <4>3. \A i \in DOMAIN checks : checks[i] \in {"PASS", "FAIL"}
        BY <1>1, <4>2 DEF Statuses
      <4>4. 1 \in DOMAIN checks
        BY <1>1
      <4>5. \A s \in said : \E i \in DOMAIN checks : s = checks[i]
        BY <3>1
      <4>6. said = {"PASS"} <=> \A i \in DOMAIN checks : checks[i] = "PASS"
        BY <4>2, <4>4, <4>5
      <4>. HIDE DEF said
      <4>7. verdict' = IF said = {"PASS"} THEN "PASS" ELSE "FAIL"
        BY <2>1, <4>1 DEF Joint
      <4>. QED
        BY <4>2, <4>3, <4>6, <4>7
    <3>3. ASSUME NEW i \in DOMAIN checks, checks[i] # "UNKNOWN"
          PROVE  TrueOfCandidate(i)
      <4>1. CheckExplained(i)
        BY <1>1 DEF EvidenceInv, ReadIsExplained
      <4>. QED
        BY <3>1, <3>3, <4>1 DEF CheckExplained, TrueOfCandidate
    <3>4. \A i \in DOMAIN checks : TrueOfCandidate(i)' <=> TrueOfCandidate(i)
      BY <1>1, <3>1 DEF TrueOfCandidate
    <3>5. VerdictIsEarned'
      BY <1>1, <3>1, <3>2, <3>3, <3>4 DEF VerdictIsEarned
    <3>. QED
      BY <1>1, <2>2, <3>1, <3>5 DEF EvidenceInv, EvidenceTypeOK, ReadIsExplained
  <2>. QED
    BY <2>3, <2>4
<1>. QED
  BY <1>2, <1>3

LEMMA EvidenceStep == EvidenceInv /\ [Next]_vars => EvidenceInv'
<1>. SUFFICES ASSUME EvidenceInv, [Next]_vars
              PROVE  EvidenceInv'
  OBVIOUS
<1>. USE DEF EvidenceInv
<1>1. CASE CheckFile
  <2>. DEFINE status == IF late THEN "UNKNOWN" ELSE Read(Current, tree[Current.file])
  <2>1. status \in Statuses
    BY ReadIsStatus DEF Statuses
  <2>2. /\ Checking /\ Record(status)
        /\ UNCHANGED <<criteria, before, tree, verdict, restored>>
        /\ status # "UNKNOWN" => status = Read(Current, tree[Current.file])
    BY <1>1 DEF CheckFile
  <2>. HIDE DEF status
  <2>. QED
    BY <2>1, <2>2, RecordKeeps
<1>2. CASE RefuseCommand
  <2>1. "UNKNOWN" \in Statuses
    BY DEF Statuses
  <2>2. /\ Checking /\ Record("UNKNOWN")
        /\ UNCHANGED <<criteria, before, tree, verdict, restored>>
    BY <1>2 DEF RefuseCommand
  <2>. QED
    BY <2>1, <2>2, RecordKeeps
<1>3. CASE RunCommand
  <2>1. PICK to \in Tree, status \in Statuses : Rewrite(to) /\ Record(status)
    BY <1>3 DEF RunCommand, Statuses
  <2>2. /\ Checking /\ Current.kind = "command"
        /\ UNCHANGED <<criteria, before, verdict>>
    BY <1>3 DEF RunCommand
  <2>3. verdict = "none" /\ Len(checks) \in Nat
    BY <2>2 DEF Checking, EvidenceTypeOK
  <2>4. /\ tree' \in Tree /\ restored' \subseteq Files
        /\ \A i \in 1 .. Len(checks) : CheckExplained(i)'
    BY <2>1, <2>2, <2>3, RewriteExplains, RecordedCheck
  <2>5. EvidenceTypeOK'
    BY <2>1, <2>2, <2>4, RecordedCheck DEF EvidenceTypeOK
  <2>6. \A n : n = Len(checks) + 1 => CheckExplained(n)'
    BY <2>2 DEF CheckExplained, Current
  <2>7. Len(checks') = Len(checks) + 1
    BY <2>1, <2>2, RecordedCheck
  <2>8. ReadIsExplained'
    BY <2>3, <2>4, <2>6, <2>7 DEF ReadIsExplained
  <2>. QED
    BY <2>2, <2>3, <2>5, <2>8 DEF VerdictIsEarned
<1>4. CASE Escape
  BY <1>4 DEF Escape, EvidenceTypeOK, ReadIsExplained, VerdictIsEarned
<1>5. CASE StrayRewrites
  <2>1. PICK f \in Files, bytes \in Bytes : Rewrite([tree EXCEPT ![f] = bytes])
    BY <1>5 DEF StrayRewrites
  <2>2. [tree EXCEPT ![f] = bytes] \in Tree
    BY DEF EvidenceTypeOK, Tree
  <2>3. verdict = "none" /\ UNCHANGED <<criteria, before, checks, verdict>>
    BY <1>5 DEF StrayRewrites
  <2>4. /\ tree' \in Tree /\ restored' \subseteq Files
        /\ \A i \in 1 .. Len(checks) : CheckExplained(i)'
    BY <2>1, <2>2, <2>3, RewriteExplains
  <2>. QED
    BY <2>3, <2>4 DEF EvidenceTypeOK, ReadIsExplained, VerdictIsEarned
<1>6. CASE DeadlinePasses \/ UNCHANGED vars
  <2>1. UNCHANGED <<criteria, before, tree, checks, verdict, restored>>
    BY <1>6 DEF DeadlinePasses, vars
  <2>2. \A i : /\ CheckExplained(i)' <=> CheckExplained(i)
               /\ TrueOfCandidate(i)' <=> TrueOfCandidate(i)
    BY <2>1 DEF CheckExplained, TrueOfCandidate
  <2>. QED
    BY <2>1, <2>2 DEF EvidenceTypeOK, ReadIsExplained, VerdictIsEarned
<1>7. CASE Conclude
  BY <1>7, ConcludeKeeps
<1>. QED
  BY <1>1, <1>2, <1>3, <1>4, <1>5, <1>6, <1>7 DEF Next

\* A verification that says PASS or FAIL has decided every criterion, in time,
\* on the candidate as it was submitted, however its commands and what they
\* leave running rewrite the copy (verify.verify, OutcomeEngine._verify).
THEOREM VerdictEarned == Spec => []VerdictIsEarned
<1>1. EvidenceInv => VerdictIsEarned
  BY DEF EvidenceInv
<1>. QED
  BY EvidenceInit, EvidenceStep, <1>1, PTL DEF Spec
=============================================================================
