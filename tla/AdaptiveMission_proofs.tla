----------------------- MODULE AdaptiveMission_proofs -----------------------
(***************************************************************************)
(* Proofs about AdaptiveMission, for every set of jobs, answers, scopes    *)
(* and trees: it keeps its types, climbs the tiers of judges in order,     *)
(* calls no judge more often than the job allows, is DONE only on a shot   *)
(* that earned it, and keeps in the staging repository what was verified.  *)
(*                                                                         *)
(* The argument has two halves.  The gate's half follows one decision: the *)
(* trace it has built says which judge may be asked next, and how far the  *)
(* calls really made are ahead of the calls counted.  The executor's half  *)
(* follows one patch: off the ignored files the staging repository's       *)
(* commit and working tree agree, and differ from the verified tree only   *)
(* while that tree's patch is about to be applied.                         *)
(***************************************************************************)
EXTENDS AdaptiveMission, SequenceTheorems, TLAPS

Upper == {"sol", "astra"}
HasJudged(tier) == \E i \in 1 .. Len(trace) : trace[i].judge = tier

\* What the decision has recorded when each judge is about to be asked.
TraceInv ==
    /\ asking = "jev" => trace = <<>>
    /\ asking = "sol" =>
           "sol" \in allowed /\ Len(trace) = 1 /\ trace[1].judge = "jev"
    /\ asking = "astra" =>
           /\ "astra" \in allowed
           /\ Len(trace) = IF "sol" \in allowed THEN 2 ELSE 1
           /\ trace[1].judge = "jev"
           /\ "sol" \in allowed => trace[2].judge = "sol"
    /\ asking = "settled" =>
           Len(trace) > 0 /\ (Final.answer.verdict = "DONE" => passed)

\* A decision is under way only in the judge stage, about the result there is.
StageInv ==
    /\ stage # "judge" => asking = "idle"
    /\ stage = "judge" /\ passed => Supports(result)
    /\ \A t \in Upper : asking # "idle" /\ asking # "settled" /\ t \in allowed =>
           used[t] < job.max[t]

\* jev is asked once in a shot.
JevInv == asked["jev"] <= IF asking \in {"idle", "jev"} THEN shot - 1 ELSE shot

\* A call not counted yet is one this decision has recorded, or the judge it
\* asked has failed with no tier above it and the mission ends with a human.
ChargeInv ==
    mission = "RUNNING" => \A t \in Upper :
        \/ asked[t] <= used[t]
        \/ /\ asking # "idle"
           /\ asked[t] <= used[t] + 1
           /\ \/ HasJudged(t)
              \/ asking = "settled" /\ Final.answer.verdict = "HUMAN_REQUIRED"

\* Off the ignored files, the staging repository's working tree is its commit.
StagingInv ==
    /\ scope \subseteq job.files
    /\ \A f \in Files \ job.ignored : staging.worktree[f] = staging.commit[f]
    /\ result.state = "SUCCEEDED" /\ stage # "shoot" => verified = after
    /\ stage = "apply" =>
           /\ result.state = "SUCCEEDED"
           /\ Changed(after) # {} /\ Changed(after) \subseteq scope

IInv ==
    /\ TypeOK
    /\ TraceInv /\ TiersInOrder
    /\ StageInv /\ JevInv /\ ChargeInv /\ TierBudgets
    /\ StagingInv /\ StagingIsVerified
    /\ mission = "DONE" => stage = "judge" /\ passed
-----------------------------------------------------------------------------
\* The judgments this module names are judgments.
LEMMA AnswersTyped ==
    /\ \A a \in Answers : a \in Answer
    /\ HumanRequired \in Judgment
    /\ HumanRequired.judge = "controller"
    /\ HumanRequired.answer.verdict = "HUMAN_REQUIRED"
    BY GateAssumption DEF HumanRequired, By, Judgment, Tiers, Answer, Verdicts

\* A fallback is a tier that is allowed, or none.
LEMMA FallbackTyped ==
    ASSUME NEW tier
    PROVE  /\ Fallback(tier) \in {"none", "sol", "astra"}
           /\ Fallback(tier) # "none" => Fallback(tier) \in allowed
           /\ Fallback(tier) = "sol" => tier = "jev"
           /\ Fallback(tier) = "astra" => tier # "jev" \/ "sol" \notin allowed
    BY DEF Fallback

\* What a call leaves in the trace: the judge's own judgment, unless the judge
\* failed with no tier above it; and DONE only on evidence that supports it.
LEMMA JudgedTyped ==
    ASSUME NEW tier \in Tiers, NEW answer \in Answers \cup {NoAnswer}
    PROVE  LET j == Judged(tier, answer)
           IN  /\ j \in Judgment
               /\ j.judge = tier \/ j = HumanRequired
               /\ j.answer.verdict = "DONE" => passed
<1>1. CASE Accepted(answer)
  <2>1. answer \in Answer
    BY <1>1, AnswersTyped DEF Accepted
  <2>2. Judged(tier, answer) = [judge |-> tier, answer |-> answer]
    BY <1>1 DEF Judged, By
  <2> QED
    BY <1>1, <2>1, <2>2 DEF Judgment, Accepted
<1>2. CASE ~Accepted(answer) /\ Fallback(tier) = "none"
  <2>1. Judged(tier, answer) = HumanRequired
    BY <1>2 DEF Judged
  <2> QED
    BY <2>1, AnswersTyped
<1>3. CASE ~Accepted(answer) /\ Fallback(tier) # "none"
  <2>1. Judged(tier, answer) =
            [judge |-> tier,
             answer |-> [verdict |-> "ESCALATE", low |-> TRUE, to |-> Fallback(tier),
                         scope |-> {}]]
    BY <1>3 DEF Judged, Escalation, By
  <2>2. Fallback(tier) \in {"none", "sol", "astra", "human"}
    BY FallbackTyped
  <2>3. [verdict |-> "ESCALATE", low |-> TRUE, to |-> Fallback(tier), scope |-> {}]
            \in Answer
    BY <2>2, GateAssumption DEF Answer, Verdicts
  <2> QED
    BY <2>1, <2>3 DEF Judgment
<1> QED
    BY <1>1, <1>2, <1>3
-----------------------------------------------------------------------------
(* The three ways a call ends. *)

\* It climbs to the tier above.
Climbs(tier, j) ==
    /\ j \in Judgment /\ j.judge = tier
    /\ tier # "astra" /\ Fallback(tier) # "none"
    /\ trace' = Append(trace, j)
    /\ asking' = Fallback(tier)

\* It settles the decision.
Settles(tier, j) ==
    /\ j \in Judgment
    /\ j.judge = tier \/ j = HumanRequired
    /\ j.answer.verdict = "ESCALATE" => j.answer.to = "human"
    /\ j.answer.verdict = "DONE" => passed /\ (j.answer.low => tier = "astra")
    /\ trace' = Append(trace, j)
    /\ asking' = "settled"

\* It wants to climb with nowhere left to go.
Stuck(tier, j) ==
    /\ j \in Judgment /\ j.judge = tier
    /\ trace' = Append(Append(trace, j), HumanRequired)
    /\ asking' = "settled"

Asked(tier, j) ==
    /\ asking = tier
    /\ Called(tier)
    /\ UNCHANGED <<allowed, passed>>
    /\ Climbs(tier, j) \/ Settles(tier, j) \/ Stuck(tier, j)

\* Two judgments appended at once are appended one by one.
LEMMA AppendTwo ==
    ASSUME NEW S, NEW s \in Seq(S), NEW a \in S, NEW b \in S
    PROVE  s \o <<a, b>> = Append(Append(s, a), b)
    OBVIOUS

\* What is appended is last, and what was there stays where it was.
LEMMA AppendOne ==
    ASSUME NEW S, NEW s \in Seq(S), NEW a \in S
    PROVE  /\ Append(s, a) \in Seq(S)
           /\ Len(Append(s, a)) = Len(s) + 1
           /\ Append(s, a)[Len(s) + 1] = a
           /\ \A i \in 1 .. Len(s) : Append(s, a)[i] = s[i]
           /\ Len(s) \in Nat
    OBVIOUS

\* Every call of a judge ends in one of the three ways.
LEMMA AskEnds ==
    ASSUME GateTypeOK, Gate
    PROVE  \E tier \in Tiers, j \in Judgment : Asked(tier, j)
<1>1. PICK answer \in Answers \cup {NoAnswer} :
          Ask("jev", answer) \/ Ask("sol", answer) \/ AskAstra(answer)
    BY DEF Gate
<1>2. ASSUME NEW tier \in {"jev", "sol"}, Ask(tier, answer)
      PROVE  Asked(tier, Judged(tier, answer)) /\ Judged(tier, answer) \in Judgment
  <2> DEFINE j == Judged(tier, answer)
  <2>1. /\ j \in Judgment
        /\ j.judge = tier \/ j = HumanRequired
        /\ j.answer.verdict = "DONE" => passed
    BY JudgedTyped DEF Tiers
  <2>2. /\ asking = tier /\ Called(tier) /\ UNCHANGED <<allowed, passed>>
        /\ IF NeedsEscalation(j.answer) /\ Fallback(tier) = "none"
           THEN trace' = trace \o <<j, HumanRequired>>
           ELSE trace' = Append(trace, j)
        /\ asking' = IF NeedsEscalation(j.answer) /\ Fallback(tier) # "none"
                     THEN Fallback(tier) ELSE "settled"
    BY <1>2 DEF Ask
  <2>3. NeedsEscalation(j.answer) <=>
            \/ j.answer.verdict = "ESCALATE" /\ j.answer.to # "human"
            \/ j.answer.verdict = "DONE" /\ j.answer.low
    BY DEF NeedsEscalation
  <2>4. j = HumanRequired => ~NeedsEscalation(j.answer)
    BY <2>3, AnswersTyped
  <2>5. trace \o <<j, HumanRequired>> = Append(Append(trace, j), HumanRequired)
    BY <2>1, AppendTwo, AnswersTyped DEF GateTypeOK
  <2> HIDE DEF j
  <2>6. Climbs(tier, j) \/ Settles(tier, j) \/ Stuck(tier, j)
    <3>1. CASE NeedsEscalation(j.answer) /\ Fallback(tier) = "none"
      BY <2>1, <2>2, <2>4, <2>5, <3>1 DEF Stuck
    <3>2. CASE NeedsEscalation(j.answer) /\ Fallback(tier) # "none"
      BY <2>1, <2>2, <2>4, <3>2 DEF Climbs
    <3>3. CASE ~NeedsEscalation(j.answer)
      BY <2>1, <2>2, <2>3, <3>3, Zenon DEF Settles
    <3> QED
      BY <3>1, <3>2, <3>3
  <2>7. Asked(tier, j)
    BY <2>2, <2>6 DEF Asked
  <2> QED
    BY <2>1, <2>7 DEF j
<1>3. ASSUME AskAstra(answer)
      PROVE  \E j \in Judgment : Asked("astra", j)
  <2>1. /\ asking = "astra" /\ Called("astra") /\ UNCHANGED <<allowed, passed>>
        /\ asking' = "settled"
        /\ trace' = IF ~Accepted(answer) THEN Append(trace, HumanRequired)
                    ELSE IF answer.verdict = "ESCALATE" /\ answer.to # "human"
                    THEN trace \o <<By("astra", answer), HumanRequired>>
                    ELSE Append(trace, By("astra", answer))
    BY <1>3 DEF AskAstra
  <2>2. CASE ~Accepted(answer)
    <3>1. Settles("astra", HumanRequired)
      BY <2>1, <2>2, AnswersTyped DEF Settles
    <3> QED
      BY <2>1, <3>1, AnswersTyped DEF Asked
  <2>3. CASE Accepted(answer)
    <3> DEFINE j == By("astra", answer)
    <3>1. answer \in Answer
      BY <2>3, AnswersTyped DEF Accepted
    <3>2. /\ j \in Judgment /\ j.judge = "astra" /\ j.answer = answer
          /\ j.answer.verdict = "DONE" => passed
      BY <2>3, <3>1 DEF By, Judgment, Tiers, Accepted
    <3>3. trace \o <<j, HumanRequired>> = Append(Append(trace, j), HumanRequired)
      BY <3>2, AppendTwo, AnswersTyped DEF GateTypeOK
    <3> HIDE DEF j
    <3>4. CASE answer.verdict = "ESCALATE" /\ answer.to # "human"
      BY <2>1, <2>3, <3>2, <3>3, <3>4 DEF Stuck, Asked, j
    <3>5. CASE ~(answer.verdict = "ESCALATE" /\ answer.to # "human")
      <4>1. trace' = Append(trace, j)
        BY <2>1, <2>3, <3>5 DEF j
      <4>2. Settles("astra", j)
        BY <2>1, <3>2, <3>5, <4>1, Zenon DEF Settles
      <4> QED
        BY <2>1, <3>2, <4>2 DEF Asked
    <3> QED
      BY <3>4, <3>5
  <2> QED
    BY <2>2, <2>3
<1> QED
    BY <1>1, <1>2, <1>3 DEF Tiers
-----------------------------------------------------------------------------
(* A call of a judge keeps the gate's half of the invariant. *)

\* The call is counted, for its own judge only.
LEMMA CallCounted ==
    ASSUME NEW tier \in Tiers, GateTypeOK, Called(tier)
    PROVE  /\ asked' \in [Tiers -> Nat]
           /\ asked'[tier] <= asked[tier] + 1
           /\ \A t \in Tiers \ {tier} : asked'[t] = asked[t]
    BY GateAssumption DEF GateTypeOK, Called

\* The trace of a call extends the one before it, by the judge's own judgment
\* unless it has failed for good.
LEMMA TraceExtended ==
    ASSUME NEW tier \in Tiers, NEW j \in Judgment, GateTypeOK, Asked(tier, j)
    PROVE  /\ trace' \in Seq(Judgment)
           /\ Len(trace) \in Nat
           /\ Len(trace') \in {Len(trace) + 1, Len(trace) + 2}
           /\ \A i \in 1 .. Len(trace) : trace'[i] = trace[i]
           /\ trace'[Len(trace) + 1] = j
           /\ Len(trace') = Len(trace) + 2 => trace'[Len(trace) + 2] = HumanRequired
           /\ ~Stuck(tier, j) => Len(trace') = Len(trace) + 1
           /\ Stuck(tier, j) => Len(trace') = Len(trace) + 2
<1> USE DEF GateTypeOK
<1>1. HumanRequired \in Judgment
  BY AnswersTyped
<1>2. /\ Append(trace, j) \in Seq(Judgment)
      /\ Len(Append(trace, j)) = Len(trace) + 1
      /\ Append(trace, j)[Len(trace) + 1] = j
      /\ \A i \in 1 .. Len(trace) : Append(trace, j)[i] = trace[i]
      /\ Len(trace) \in Nat
  BY AppendOne
<1>3. CASE Stuck(tier, j)
  <2> DEFINE s == Append(trace, j)
  <2>1. trace' = Append(s, HumanRequired)
    BY <1>3 DEF Stuck
  <2>2. s \in Seq(Judgment)
    BY <1>2
  <2>3. /\ Append(s, HumanRequired) \in Seq(Judgment)
        /\ Len(Append(s, HumanRequired)) = Len(s) + 1
        /\ Append(s, HumanRequired)[Len(s) + 1] = HumanRequired
        /\ \A i \in 1 .. Len(s) : Append(s, HumanRequired)[i] = s[i]
    BY <1>1, <2>2, AppendOne
  <2> QED
    BY <1>2, <1>3, <2>1, <2>3
<1>4. CASE ~Stuck(tier, j)
  <2>1. trace' = Append(trace, j)
    BY <1>4 DEF Asked, Climbs, Settles
  <2> QED
    BY <1>2, <1>4, <2>1
<1> QED
  BY <1>3, <1>4

\* The trace is one that leads to the judge asked next.
LEMMA AskKeepsTrace ==
    ASSUME NEW tier \in Tiers, NEW j \in Judgment, GateTypeOK, TraceInv,
           Asked(tier, j)
    PROVE  TraceInv'
<1>1. /\ asking = tier /\ allowed' = allowed /\ passed' = passed
      /\ Climbs(tier, j) \/ Settles(tier, j) \/ Stuck(tier, j)
  BY DEF Asked
<1>2. /\ Len(trace) \in Nat
      /\ Len(trace') \in {Len(trace) + 1, Len(trace) + 2}
      /\ \A i \in 1 .. Len(trace) : trace'[i] = trace[i]
      /\ trace'[Len(trace) + 1] = j
      /\ Len(trace') = Len(trace) + 2 => trace'[Len(trace) + 2] = HumanRequired
      /\ ~Stuck(tier, j) => Len(trace') = Len(trace) + 1
      /\ Stuck(tier, j) => Len(trace') = Len(trace) + 2
  BY TraceExtended
<1>3. CASE Climbs(tier, j)
  <2>1. j.judge = tier /\ asking' = Fallback(tier) /\ Fallback(tier) # "none"
        /\ ~Stuck(tier, j)
    BY <1>3, FallbackTyped DEF Climbs, Stuck
  <2>2. /\ Fallback(tier) \in {"none", "sol", "astra"}
        /\ Fallback(tier) # "none" => Fallback(tier) \in allowed
        /\ Fallback(tier) = "sol" => tier = "jev"
        /\ Fallback(tier) = "astra" => tier # "jev" \/ "sol" \notin allowed
    BY FallbackTyped
  <2>3. tier = "jev" \/ tier = "sol" \/ tier = "astra"
    BY DEF Tiers
  <2>4. Len(trace') = Len(trace) + 1
    BY <1>2, <2>1
  <2>5. CASE tier = "jev"
    <3>1. Len(trace) = 0
      BY <1>1, <2>5 DEF TraceInv
    <3>2. Len(trace') = 1 /\ trace'[1].judge = "jev"
      BY <1>2, <2>1, <2>4, <2>5, <3>1
    <3> QED
      BY <1>1, <2>1, <2>2, <2>5, <3>2 DEF TraceInv
  <2>6. CASE tier = "sol"
    <3>1. "sol" \in allowed /\ Len(trace) = 1 /\ trace[1].judge = "jev"
      BY <1>1, <2>6 DEF TraceInv
    <3>2. Len(trace') = 2 /\ trace'[1].judge = "jev" /\ trace'[2].judge = "sol"
      BY <1>2, <2>1, <2>4, <2>6, <3>1
    <3>3. asking' = "astra" /\ "astra" \in allowed
      BY <2>1, <2>2, <2>6
    <3> QED
      BY <1>1, <3>1, <3>2, <3>3 DEF TraceInv
  <2>7. CASE tier = "astra"
    BY <1>3, <2>7 DEF Climbs
  <2> QED
    BY <2>3, <2>5, <2>6, <2>7
<1>4. CASE Settles(tier, j)
  <2>1. asking' = "settled" /\ (j.answer.verdict = "DONE" => passed)
    BY <1>4 DEF Settles
  <2>2. CASE Len(trace') = Len(trace) + 1
    <3>1. trace'[Len(trace')] = j
      BY <1>2, <2>2
    <3> QED
      BY <1>1, <1>2, <2>1, <2>2, <3>1 DEF TraceInv, Final
  <2>3. CASE Len(trace') = Len(trace) + 2
    BY <1>1, <1>2, <2>1, <2>3, AnswersTyped DEF TraceInv, Final
  <2> QED
    BY <1>2, <2>2, <2>3
<1>5. CASE Stuck(tier, j)
  BY <1>1, <1>2, <1>5, AnswersTyped DEF Stuck, TraceInv, Final
<1> QED
  BY <1>1, <1>3, <1>4, <1>5

\* The tiers are climbed in order.
LEMMA AskKeepsOrder ==
    ASSUME NEW tier \in Tiers, NEW j \in Judgment, GateTypeOK, TraceInv,
           TiersInOrder, Asked(tier, j)
    PROVE  TiersInOrder'
<1>1. /\ asking = tier /\ allowed' = allowed
      /\ Climbs(tier, j) \/ Settles(tier, j) \/ Stuck(tier, j)
  BY DEF Asked
<1>2. /\ Len(trace) \in Nat
      /\ Len(trace') \in {Len(trace) + 1, Len(trace) + 2}
      /\ \A i \in 1 .. Len(trace) : trace'[i] = trace[i]
      /\ trace'[Len(trace) + 1] = j
      /\ Len(trace') = Len(trace) + 2 => trace'[Len(trace) + 2] = HumanRequired
      /\ ~Stuck(tier, j) => Len(trace') = Len(trace) + 1
      /\ Stuck(tier, j) => Len(trace') = Len(trace) + 2
  BY TraceExtended
<1>3. j.judge = tier \/ j = HumanRequired
  BY <1>1 DEF Climbs, Settles, Stuck
<1>4. tier = "astra" /\ "sol" \in allowed =>
          \E k \in 1 .. Len(trace) : trace[k].judge = "sol"
  <2> HAVE tier = "astra" /\ "sol" \in allowed
  <2>1. Len(trace) = 2 /\ trace[2].judge = "sol"
    BY <1>1 DEF TraceInv
  <2>2. 2 \in 1 .. Len(trace)
    BY <2>1
  <2> QED
    BY <2>1, <2>2
<1>5. \A i \in 1 .. Len(trace') : trace'[i].judge = "astra" /\ "sol" \in allowed' =>
          \E k \in 1 .. i - 1 : trace'[k].judge = "sol"
  <2> SUFFICES ASSUME NEW i \in 1 .. Len(trace'), trace'[i].judge = "astra",
                      "sol" \in allowed
               PROVE  \E k \in 1 .. i - 1 : trace'[k].judge = "sol"
    BY <1>1
  <2>1. CASE i \in 1 .. Len(trace)
    <3>1. PICK k \in 1 .. i - 1 : trace[k].judge = "sol"
      BY <1>2, <2>1 DEF TiersInOrder
    <3>2. k \in 1 .. Len(trace)
      BY <1>2, <2>1, <3>1
    <3> QED
      BY <1>2, <3>1, <3>2
  <2>2. CASE i = Len(trace) + 1
    <3>1. tier = "astra"
      BY <1>2, <1>3, <2>2, AnswersTyped
    <3>2. PICK k \in 1 .. Len(trace) : trace[k].judge = "sol"
      BY <1>4, <3>1
    <3>3. k \in 1 .. i - 1
      BY <1>2, <2>2, <3>2
    <3> QED
      BY <1>2, <3>2, <3>3
  <2>3. CASE i = Len(trace) + 2 /\ Len(trace') = Len(trace) + 2
    BY <1>2, <2>3, AnswersTyped
  <2> QED
    BY <1>2, <2>1, <2>2, <2>3
<1>6. asking' = "settled" =>
          /\ Final'.answer.verdict = "ESCALATE" => Final'.answer.to = "human"
          /\ Final'.answer.verdict = "DONE" /\ Final'.answer.low =>
                 Final'.judge = "astra" /\ Len(trace') > 1
  <2> SUFFICES ASSUME asking' = "settled"
               PROVE  /\ Final'.answer.verdict = "ESCALATE" => Final'.answer.to = "human"
                      /\ Final'.answer.verdict = "DONE" /\ Final'.answer.low =>
                             Final'.judge = "astra" /\ Len(trace') > 1
    OBVIOUS
  <2>1. CASE Stuck(tier, j)
    <3>1. Final' = HumanRequired
      BY <1>2, <2>1 DEF Final
    <3> QED
      BY <3>1, AnswersTyped
  <2>2. CASE Settles(tier, j)
    <3>1. CASE Len(trace') = Len(trace) + 2
      BY <1>2, <3>1, AnswersTyped DEF Final
    <3>2. CASE Len(trace') = Len(trace) + 1
      <4>1. Final' = j
        BY <1>2, <3>2 DEF Final
      <4>2. tier = "astra" => Len(trace) > 0
        BY <1>1 DEF TraceInv
      <4>3. tier = "astra" => Len(trace') > 1
        BY <1>2, <3>2, <4>2
      <4>4. /\ j.answer.verdict = "ESCALATE" => j.answer.to = "human"
            /\ j.answer.verdict = "DONE" /\ j.answer.low => tier = "astra"
        BY <2>2 DEF Settles
      <4>5. j.answer.verdict = "DONE" => j.judge = tier
        BY <1>3, AnswersTyped
      <4> QED
        BY <4>1, <4>3, <4>4, <4>5, Zenon
    <3> QED
      BY <1>2, <3>1, <3>2
  <2>3. CASE Climbs(tier, j)
    BY <2>3, FallbackTyped DEF Climbs
  <2> QED
    BY <1>1, <2>1, <2>2, <2>3
<1> QED
  BY <1>5, <1>6 DEF TiersInOrder, Final
-----------------------------------------------------------------------------
(* What the mission's counters have to do with the calls. *)

\* What a call of a judge leaves alone.
Untouched == UNCHANGED <<job, mission, shot, scope, used, stage, result, after,
                         staging, verified>>

\* jev is asked first, and once.
LEMMA AskKeepsJev ==
    ASSUME NEW tier \in Tiers, NEW j \in Judgment, TypeOK, JevInv,
           Asked(tier, j), Untouched
    PROVE  JevInv'
<1>1. GateTypeOK /\ shot \in Nat
  BY MissionAssumption DEF TypeOK, Job
<1>2. /\ asked' \in [Tiers -> Nat]
      /\ asked'[tier] <= asked[tier] + 1
      /\ \A t \in Tiers \ {tier} : asked'[t] = asked[t]
  BY <1>1, CallCounted DEF Asked
<1>3. asking' \notin {"idle", "jev"}
  BY FallbackTyped DEF Asked, Climbs, Settles, Stuck
<1>4. asking = tier /\ shot' = shot
  BY DEF Asked, Untouched
<1>5. asked["jev"] \in Nat /\ asked'["jev"] \in Nat
  BY <1>1, <1>2 DEF GateTypeOK, Tiers
<1>6. CASE tier = "jev"
  BY <1>1, <1>2, <1>3, <1>4, <1>5, <1>6 DEF JevInv
<1>7. CASE tier # "jev"
  <2>1. asked'["jev"] = asked["jev"]
    BY <1>2, <1>7 DEF Tiers
  <2>2. asking \notin {"idle", "jev"}
    BY <1>4, <1>7 DEF Tiers
  <2> QED
    BY <1>1, <1>3, <1>4, <1>5, <2>1, <2>2 DEF JevInv
<1> QED
  BY <1>6, <1>7

\* The tiers this decision may still ask have calls left.
LEMMA AskKeepsStage ==
    ASSUME NEW tier \in Tiers, NEW j \in Judgment, TypeOK, StageInv, At("judge"),
           Asked(tier, j), Untouched
    PROVE  StageInv'
<1>1. asking # "idle" /\ asking # "settled"
  BY DEF Asked, Tiers
<1>2. allowed' = allowed /\ passed' = passed
  BY DEF Asked
<1> QED
  BY <1>1, <1>2 DEF StageInv, Untouched, Supports, At

\* The judge about to be asked is allowed, and is not in the trace yet.
LEMMA NotYetJudged ==
    ASSUME GateTypeOK, TraceInv, NEW t \in Upper, asking = t
    PROVE  t \in allowed /\ ~HasJudged(t)
<1>1. CASE t = "sol"
  <2>1. "sol" \in allowed /\ Len(trace) = 1 /\ trace[1].judge = "jev"
    BY <1>1 DEF TraceInv
  <2>2. \A i \in 1 .. Len(trace) : i = 1
    BY <2>1
  <2> QED
    BY <1>1, <2>1, <2>2 DEF HasJudged
<1>2. CASE t = "astra"
  <2>1. /\ "astra" \in allowed /\ trace[1].judge = "jev"
        /\ Len(trace) = IF "sol" \in allowed THEN 2 ELSE 1
        /\ "sol" \in allowed => trace[2].judge = "sol"
    BY <1>2 DEF TraceInv
  <2>2. \A i \in 1 .. Len(trace) : i = 1 \/ (i = 2 /\ "sol" \in allowed)
    BY <2>1
  <2> QED
    BY <1>2, <2>1, <2>2 DEF HasJudged
<1> QED
  BY <1>1, <1>2 DEF Upper

\* A call that is not counted yet is in the trace, or ends the mission.
LEMMA AskKeepsCharge ==
    ASSUME NEW tier \in Tiers, NEW j \in Judgment, TypeOK, TraceInv, ChargeInv,
           Asked(tier, j), Untouched
    PROVE  ChargeInv'
<1>1. GateTypeOK /\ used \in [Upper -> Nat]
  BY DEF TypeOK, Upper
<1>2. /\ asked' \in [Tiers -> Nat]
      /\ asked'[tier] <= asked[tier] + 1
      /\ \A t \in Tiers \ {tier} : asked'[t] = asked[t]
  BY <1>1, CallCounted DEF Asked
<1>3. /\ Len(trace) \in Nat
      /\ Len(trace') \in {Len(trace) + 1, Len(trace) + 2}
      /\ \A i \in 1 .. Len(trace) : trace'[i] = trace[i]
      /\ trace'[Len(trace) + 1] = j
      /\ Len(trace') = Len(trace) + 2 => trace'[Len(trace) + 2] = HumanRequired
      /\ ~Stuck(tier, j) => Len(trace') = Len(trace) + 1
      /\ Stuck(tier, j) => Len(trace') = Len(trace) + 2
  BY <1>1, TraceExtended
<1>4. asking' # "idle" /\ asking = tier /\ asking # "settled" /\ asking # "idle"
  BY FallbackTyped DEF Asked, Climbs, Settles, Stuck, Tiers
<1>5. used' = used /\ mission' = mission
  BY DEF Untouched
<1> SUFFICES ASSUME mission = "RUNNING", NEW t \in Upper
             PROVE  \/ asked'[t] <= used[t]
                    \/ /\ asked'[t] <= used[t] + 1
                       /\ \/ HasJudged(t)'
                          \/ asking' = "settled"
                             /\ Final'.answer.verdict = "HUMAN_REQUIRED"
  BY <1>4, <1>5 DEF ChargeInv
<1>6. asked[t] \in Nat /\ asked'[t] \in Nat /\ used[t] \in Nat
  BY <1>1, <1>2 DEF GateTypeOK, Tiers, Upper
<1>7. asked[t] <= used[t] \/ (asked[t] <= used[t] + 1 /\ HasJudged(t))
  BY <1>4 DEF ChargeInv
<1>8. HasJudged(t) => HasJudged(t)'
  BY <1>3 DEF HasJudged
<1>9. CASE t # tier
  <2>1. asked'[t] = asked[t]
    BY <1>2, <1>9 DEF Tiers, Upper
  <2> QED
    BY <1>7, <1>8, <2>1
<1>10. CASE t = tier
  <2>1. ~HasJudged(t)
    BY <1>1, <1>4, <1>10, NotYetJudged
  <2>2. asked'[t] <= used[t] + 1
    BY <1>2, <1>6, <1>7, <1>10, <2>1
  <2>3. Len(trace) + 1 \in 1 .. Len(trace')
    BY <1>3
  <2>4. CASE j.judge = tier
    BY <1>3, <1>10, <2>2, <2>3, <2>4 DEF HasJudged
  <2>5. CASE j = HumanRequired
    <3>1. asking' = "settled" /\ Final'.answer.verdict = "HUMAN_REQUIRED"
      <4>1. j.judge # tier
        BY <2>5, AnswersTyped DEF Tiers
      <4>2. Settles(tier, j) /\ ~Stuck(tier, j)
        BY <4>1 DEF Asked, Climbs, Stuck
      <4>3. Final' = j
        BY <1>3, <4>2 DEF Final
      <4> QED
        BY <2>5, <4>2, <4>3, AnswersTyped DEF Settles
    <3> QED
      BY <2>2, <3>1
  <2> QED
    BY <2>4, <2>5 DEF Asked, Climbs, Settles, Stuck
<1> QED
  BY <1>9, <1>10

\* No judge is called more often than the job allows.
LEMMA AskKeepsBudgets ==
    ASSUME NEW tier \in Tiers, NEW j \in Judgment, TypeOK, TraceInv, StageInv,
           JevInv, ChargeInv, TierBudgets, At("judge"), Asked(tier, j), Untouched
    PROVE  TierBudgets'
<1>1. /\ GateTypeOK /\ used \in [Upper -> Nat] /\ job \in Job
      /\ shot \in Nat /\ shot <= job.shots
  BY MissionAssumption DEF TypeOK, Upper, Job
<1>2. /\ asked' \in [Tiers -> Nat]
      /\ asked'[tier] <= asked[tier] + 1
      /\ \A t \in Tiers \ {tier} : asked'[t] = asked[t]
  BY <1>1, CallCounted DEF Asked
<1>3. asking = tier /\ asking # "idle" /\ asking # "settled" /\ mission = "RUNNING"
  BY DEF Asked, At, Tiers
<1>4. job' = job /\ job.shots \in Nat /\ job.max \in [Upper -> Nat]
  BY <1>1 DEF Untouched, Job, Upper
<1>5. asked'["jev"] <= job.shots
  <2>1. asked["jev"] \in Nat /\ asked'["jev"] \in Nat
    BY <1>1, <1>2 DEF GateTypeOK, Tiers
  <2>2. CASE tier = "jev"
    BY <1>1, <1>2, <1>3, <1>4, <2>1, <2>2 DEF JevInv
  <2>3. CASE tier # "jev"
    BY <1>1, <1>2, <1>4, <2>1, <2>3 DEF TierBudgets, Tiers
  <2> QED
    BY <2>2, <2>3
<1>6. ASSUME NEW t \in Upper
      PROVE  asked'[t] <= job.max[t]
  <2>1. asked[t] \in Nat /\ asked'[t] \in Nat /\ used[t] \in Nat /\ job.max[t] \in Nat
    BY <1>1, <1>2, <1>4 DEF GateTypeOK, Tiers, Upper
  <2>2. CASE t # tier
    BY <1>2, <2>1, <2>2 DEF TierBudgets, Tiers, Upper
  <2>3. CASE t = tier
    <3>1. t \in allowed /\ ~HasJudged(t)
      BY <1>1, <1>3, <2>3, NotYetJudged
    <3>2. asked[t] <= used[t]
      BY <1>3, <3>1 DEF ChargeInv
    <3>3. used[t] < job.max[t]
      BY <1>3, <3>1 DEF StageInv
    <3> QED
      BY <1>2, <2>1, <2>3, <3>2, <3>3
  <2> QED
    BY <2>2, <2>3
<1> QED
  BY <1>4, <1>5, <1>6 DEF TierBudgets, Upper
-----------------------------------------------------------------------------
(* The executor: what a shot leaves, and how its patch is applied. *)

\* A launch that succeeded was clean, with a patch and passing checks.
LEMMA OutcomesTyped ==
    ASSUME NEW o \in Outcomes
    PROVE  /\ o \in Outcome
           /\ o.state = "SUCCEEDED" => o.clean /\ o.patch = "PASSED" /\ o.checked
<1>1. PICK launch \in Launch :
          \E state \in Recorded(launch) :
              /\ Observable(launch)
              /\ o = [state |-> state, started |-> launch.started,
                      clean |-> ~launch.violations, patch |-> launch.patch,
                      checked |-> Checked(launch)]
  BY DEF Outcomes
<1>2. PICK state \in Recorded(launch) :
          /\ Observable(launch)
          /\ o = [state |-> state, started |-> launch.started,
                  clean |-> ~launch.violations, patch |-> launch.patch,
                  checked |-> Checked(launch)]
  BY <1>1
<1>3. Verified(launch) \in {"TIMED_OUT", "FAILED", "SUCCEEDED"}
      /\ (Verified(launch) = "SUCCEEDED" => launch.checks = "passed")
  BY DEF Verified, Launch
<1>4. /\ Classified(launch) \in {"SUCCEEDED", "FAILED", "BLOCKED", "TIMED_OUT"}
      /\ Classified(launch) = "SUCCEEDED" =>
             Checked(launch) /\ ~launch.violations /\ launch.patch = "PASSED"
  BY <1>3 DEF Classified, Checked, ReachesChecks, Launch
<1>5. /\ state \in {"SUCCEEDED", "FAILED", "BLOCKED", "TIMED_OUT"}
      /\ state = "SUCCEEDED" => Classified(launch) = "SUCCEEDED"
  BY <1>2, <1>4 DEF Recorded
<1>6. launch.started \in BOOLEAN /\ launch.violations \in BOOLEAN
      /\ launch.patch \in {"PASSED", "FAILED", "NONE"} /\ Checked(launch) \in BOOLEAN
  BY DEF Launch, Checked, ReachesChecks
<1>7. o \in Outcome
  BY <1>2, <1>5, <1>6 DEF Outcome
<1> QED
  BY <1>2, <1>4, <1>5, <1>7

\* A new decision, about the tiers in budget.
LEMMA DecideFresh ==
    ASSUME NEW r, TypeOK, Judge(r), UNCHANGED <<job, used, shot>>, stage' = "judge",
           result' = r, mission' = mission, asking = "idle",
           JevInv, ChargeInv, TierBudgets
    PROVE  /\ GateTypeOK' /\ TraceInv' /\ TiersInOrder'
           /\ StageInv' /\ JevInv' /\ ChargeInv' /\ TierBudgets'
<1>1. /\ asking' = "jev" /\ trace' = <<>> /\ asked' = asked
      /\ allowed' = {t \in {"sol", "astra"} : InBudget(t)}
      /\ passed' = Supports(r)
  BY DEF Judge, Decide
<1>2. GateTypeOK'
  <2>1. Supports(r) \in BOOLEAN
    BY DEF Supports
  <2> QED
    BY <1>1, <2>1 DEF TypeOK, GateTypeOK, Tiers
<1>3. TraceInv' /\ TiersInOrder'
  BY <1>1 DEF TraceInv, TiersInOrder
<1>4. StageInv'
  <2>1. \A t \in Upper : t \in allowed' => used'[t] < job'.max[t]
    BY <1>1 DEF InBudget
  <2>2. passed' => Supports(result')
    BY <1>1
  <2>3. Supports(result') = Supports(result)'
    BY DEF Supports
  <2> QED
    BY <2>1, <2>2, <2>3 DEF StageInv
<1>5. JevInv' /\ ChargeInv' /\ TierBudgets'
  BY <1>1 DEF JevInv, ChargeInv, TierBudgets, HasJudged, Final
<1> QED
  BY <1>2, <1>3, <1>4, <1>5
-----------------------------------------------------------------------------
(* Each step keeps the invariant. *)

\* What a job is.
LEMMA JobTyped ==
    ASSUME job \in Jobs
    PROVE  /\ job.shots \in Nat \ {0} /\ job.max \in [Upper -> Nat]
           /\ job.files \subseteq Files /\ job.ignored \subseteq Files
    BY MissionAssumption DEF Job, Upper

LEMMA InitKeeps ==
    ASSUME Init
    PROVE  IInv
<1> USE DEF Init, GateInit
<1>1. /\ job.shots \in Nat \ {0} /\ job.max \in [Upper -> Nat]
      /\ job.files \subseteq Files /\ job.ignored \subseteq Files
  BY JobTyped
<1>2. TypeOK
  <2>1. GateTypeOK
    <3>1. trace \in Seq(Judgment)
      OBVIOUS
    <3>2. asked \in [Tiers -> Nat]
      OBVIOUS
    <3> QED
      BY <3>1, <3>2 DEF GateTypeOK
  <2>2. result \in Outcome
    BY DEF NoResult, Outcome
  <2>3. Original \in Tree
    BY MissionAssumption
  <2>4. staging \in [commit : Tree, worktree : Tree]
    BY <2>3
  <2> QED
    BY <1>1, <2>1, <2>2, <2>3, <2>4 DEF TypeOK, Missions
<1>3. TraceInv /\ TiersInOrder
  BY DEF TraceInv, TiersInOrder
<1>4. StageInv /\ JevInv /\ ChargeInv /\ TierBudgets
  BY <1>1 DEF StageInv, JevInv, ChargeInv, TierBudgets, Upper, Tiers
<1>5. StagingInv /\ StagingIsVerified
  BY <1>1 DEF StagingInv, StagingIsVerified
<1> QED
  BY <1>2, <1>3, <1>4, <1>5 DEF IInv

LEMMA ShotStopsKeeps ==
    ASSUME IInv, NEW state \in {"BLOCKED", "FAILED"}, ShotStops(state)
    PROVE  IInv'
<1> USE DEF IInv
<1>1. /\ mission = "RUNNING" /\ stage = "shoot" /\ stage' = "judge"
      /\ result' = [NoResult EXCEPT !.state = state] /\ Judge(result')
      /\ UNCHANGED <<job, mission, shot, scope, used, after, staging, verified>>
  BY DEF ShotStops, At
<1>2. result' \in Outcome /\ result'.state = state
  BY <1>1, Zenon DEF NoResult, Outcome
<1>3. asking = "idle"
  BY <1>1 DEF StageInv
<1>4. /\ GateTypeOK' /\ TraceInv' /\ TiersInOrder'
      /\ StageInv' /\ JevInv' /\ ChargeInv' /\ TierBudgets'
  BY <1>1, <1>3, DecideFresh
<1>5. TypeOK'
  BY <1>1, <1>2, <1>4 DEF TypeOK
<1>6. StagingInv'
  BY <1>1, <1>2 DEF StagingInv
<1>7. StagingIsVerified'
  BY <1>1 DEF StagingIsVerified
<1> QED
  BY <1>1, <1>4, <1>5, <1>6, <1>7

LEMMA ShotLaunchedKeeps ==
    ASSUME IInv, NEW tree \in Trees, NEW o \in Outcomes, ShotLaunched(tree, o)
    PROVE  IInv'
<1> USE DEF IInv
<1>1. /\ mission = "RUNNING" /\ stage = "shoot" /\ result' = o /\ after' = tree
      /\ Leaves(tree, o)
      /\ verified' = IF o.state = "SUCCEEDED" THEN tree ELSE verified
      /\ IF o.state = "SUCCEEDED" THEN stage' = "apply" /\ UNCHANGED gate
                                  ELSE stage' = "judge" /\ Judge(o)
      /\ UNCHANGED <<job, mission, shot, scope, used, staging>>
  BY DEF ShotLaunched, At, ToBeApplied
<1>2. /\ o \in Outcome
      /\ o.state = "SUCCEEDED" => o.clean /\ o.patch = "PASSED" /\ o.checked
  BY OutcomesTyped
<1>3. asking = "idle"
  BY <1>1 DEF StageInv
<1>4. tree \in Tree
  BY MissionAssumption
<1>5. CASE o.state = "SUCCEEDED"
  <2>1. /\ UNCHANGED <<asking, trace, allowed, passed, asked>>
        /\ stage' = "apply" /\ verified' = tree
    BY <1>1, <1>5 DEF gate
  <2>2. TypeOK'
    BY <1>1, <1>2, <1>4, <2>1 DEF TypeOK, GateTypeOK
  <2>3. TraceInv' /\ TiersInOrder'
    BY <2>1 DEF TraceInv, TiersInOrder, Final
  <2>4. StageInv' /\ JevInv' /\ ChargeInv' /\ TierBudgets'
    BY <1>1, <1>3, <2>1
       DEF StageInv, JevInv, ChargeInv, TierBudgets, HasJudged, Final
  <2>5. Changed(tree) # {} /\ Changed(tree) \subseteq scope
    BY <1>1, <1>2, <1>5 DEF Leaves
  <2>6. Changed(after)' = Changed(tree)
    BY <1>1 DEF Changed, Base
  <2>7. StagingInv'
    BY <1>1, <1>5, <2>1, <2>5, <2>6 DEF StagingInv
  <2>8. StagingIsVerified'
    BY <1>1, <2>1 DEF StagingIsVerified
  <2> QED
    BY <1>1, <2>2, <2>3, <2>4, <2>7, <2>8
<1>6. CASE o.state # "SUCCEEDED"
  <2>1. stage' = "judge" /\ Judge(o) /\ verified' = verified
    BY <1>1, <1>6
  <2>2. /\ GateTypeOK' /\ TraceInv' /\ TiersInOrder'
        /\ StageInv' /\ JevInv' /\ ChargeInv' /\ TierBudgets'
    BY <1>1, <1>3, <2>1, DecideFresh
  <2>3. TypeOK'
    BY <1>1, <1>2, <1>4, <2>1, <2>2 DEF TypeOK
  <2>4. StagingInv' /\ StagingIsVerified'
    BY <1>1, <1>6, <2>1 DEF StagingInv, StagingIsVerified
  <2> QED
    BY <1>1, <2>2, <2>3, <2>4
<1> QED
  BY <1>5, <1>6

LEMMA ApplyPatchKeeps ==
    ASSUME IInv, ApplyPatch
    PROVE  IInv'
<1> USE DEF IInv
<1>1. /\ mission = "RUNNING" /\ stage = "apply"
      /\ UNCHANGED <<job, shot, scope, used, result, after, verified>>
  BY DEF ApplyPatch, At
<1>2. asking = "idle" /\ result.state = "SUCCEEDED" /\ verified = after
  BY <1>1 DEF StageInv, StagingInv
<1>3. /\ staging.commit \in Tree /\ staging.worktree \in Tree /\ after \in Tree
      /\ job.files \subseteq Files /\ job.ignored \subseteq Files
  BY JobTyped DEF TypeOK
<1>4. /\ Changed(after) # {} /\ Changed(after) \subseteq job.files
      /\ \A f \in Files \ job.ignored : staging.worktree[f] = staging.commit[f]
  BY <1>1 DEF StagingInv
<1>5. \A f \in Files : Applied[f] = IF f \in Changed(after) THEN after[f]
                                    ELSE staging.worktree[f]
  BY DEF Applied
<1>6. \A f \in Files : Committed(Applied)[f] =
          IF f \in job.ignored /\ staging.commit[f] = 0 THEN 0 ELSE Applied[f]
  BY DEF Committed
<1>7. \A f \in Files : f \in Changed(after) <=> after[f] # staging.commit[f]
  BY DEF Changed, Base
<1>8. CASE Applies /\ Committed(Applied) # staging.commit
  <2>1. /\ staging' = [commit |-> Committed(Applied), worktree |-> Applied]
        /\ stage' = "judge" /\ Judge(result) /\ mission' = mission
    BY <1>8 DEF ApplyPatch
  <2>2. /\ GateTypeOK' /\ TraceInv' /\ TiersInOrder'
        /\ StageInv' /\ JevInv' /\ ChargeInv' /\ TierBudgets'
    BY <1>1, <1>2, <2>1, DecideFresh
  <2>3. Applied \in Tree
    BY <1>3 DEF Applied, Tree
  <2>4. Committed(Applied) \in Tree
    BY <2>3 DEF Committed, Tree
  <2>5. TypeOK'
    BY <1>1, <2>1, <2>2, <2>3, <2>4 DEF TypeOK
  <2>6. \A f \in Files \ job.ignored :
            Applied[f] = after[f] /\ Committed(Applied)[f] = after[f]
    BY <1>4, <1>5, <1>6, <1>7
  <2>7. StagingInv' /\ StagingIsVerified'
    BY <1>1, <1>2, <2>1, <2>6 DEF StagingInv, StagingIsVerified
  <2> QED
    BY <1>1, <2>1, <2>2, <2>5, <2>7
<1>9. CASE ~(Applies /\ Committed(Applied) # staging.commit)
  <2>1. mission' = "RAISED" /\ UNCHANGED <<staging, stage, gate>>
    BY <1>9 DEF ApplyPatch
  <2>2. job.ignored \cap job.files # {}
    <3>1. CASE ~Applies
      <4>1. PICK f \in Changed(after) : staging.worktree[f] # staging.commit[f]
        BY <3>1 DEF Applies, Base
      <4> QED
        BY <1>3, <1>4, <4>1
    <3>2. CASE Committed(Applied) = staging.commit
      <4>1. PICK f \in Changed(after) : f \in job.files /\ f \in Files
        BY <1>3, <1>4
      <4>2. f \in job.ignored
        BY <1>5, <1>6, <1>7, <3>2, <4>1
      <4> QED
        BY <4>1, <4>2
    <3> QED
      BY <1>9, <3>1, <3>2
  <2>3. UNCHANGED <<asking, trace, allowed, passed, asked>>
    BY <2>1 DEF gate
  <2>4. TypeOK'
    BY <1>1, <2>1, <2>3 DEF TypeOK, GateTypeOK, Missions
  <2>5. TraceInv' /\ TiersInOrder'
    BY <2>3 DEF TraceInv, TiersInOrder, Final
  <2>6. StageInv' /\ JevInv' /\ ChargeInv' /\ TierBudgets'
    BY <1>1, <1>2, <2>1, <2>3 DEF StageInv, JevInv, ChargeInv, TierBudgets
  <2>7. StagingInv' /\ StagingIsVerified'
    BY <1>1, <2>1, <2>2 DEF StagingInv, StagingIsVerified, Changed, Base
  <2> QED
    BY <2>1, <2>4, <2>5, <2>6, <2>7
<1> QED
  BY <1>8, <1>9

LEMMA AskJudgeKeeps ==
    ASSUME IInv, AskJudge
    PROVE  IInv'
<1> USE DEF IInv
<1>1. At("judge") /\ Gate /\ Untouched
  BY DEF AskJudge, Untouched
<1>2. GateTypeOK
  BY DEF TypeOK
<1>3. PICK tier \in Tiers, j \in Judgment : Asked(tier, j)
  BY <1>1, <1>2, AskEnds
<1>4. GateTypeOK'
  <2>1. trace' \in Seq(Judgment)
    BY <1>2, <1>3, TraceExtended
  <2>2. asked' \in [Tiers -> Nat]
    BY <1>2, <1>3, CallCounted DEF Asked
  <2>3. asking' \in Tiers \cup {"idle", "settled"}
    BY <1>3, FallbackTyped DEF Asked, Climbs, Settles, Stuck, Tiers
  <2> QED
    BY <1>2, <1>3, <2>1, <2>2, <2>3 DEF GateTypeOK, Asked
<1>5. TypeOK'
  BY <1>1, <1>4 DEF TypeOK, Untouched
<1>6. TraceInv' /\ TiersInOrder'
  BY <1>2, <1>3, AskKeepsTrace, AskKeepsOrder
<1>7. StageInv' /\ JevInv' /\ ChargeInv' /\ TierBudgets'
  BY <1>1, <1>3, AskKeepsStage, AskKeepsJev, AskKeepsCharge, AskKeepsBudgets
<1>8. StagingInv' /\ StagingIsVerified'
  BY <1>1 DEF Untouched, StagingInv, StagingIsVerified, Changed, Base
<1>9. mission' # "DONE"
  BY <1>1 DEF Untouched, At
<1> QED
  BY <1>5, <1>6, <1>7, <1>8, <1>9

LEMMA SettleKeeps ==
    ASSUME IInv, Settle
    PROVE  IInv'
<1> USE DEF IInv
<1>1. /\ mission = "RUNNING" /\ stage = "judge" /\ asking = "settled"
      /\ used' = [t \in Upper |-> used[t] + Count(t)]
      /\ mission' = After(Final.answer)
      /\ UNCHANGED <<job, result, after, staging, verified, trace, allowed, passed, asked>>
  BY DEF Settle, At, Upper
<1>2. Final \in Judgment
  BY <1>1 DEF TypeOK, GateTypeOK, TraceInv, Final
<1>3. Final.answer \in Answer
  BY <1>2 DEF Judgment
<1>4. Final.answer.verdict \in Verdicts /\ Final.answer.scope \in Scopes
  BY <1>3 DEF Answer
<1>5. /\ mission' \in Missions
      /\ mission' = "DONE" => Final.answer.verdict = "DONE"
      /\ mission' = "RUNNING" =>
             /\ Final.answer.verdict = "CONTINUE" /\ ShotsLeft
             /\ PlanAccepted(Final.answer.scope)
      /\ mission' # "RAISED"
  BY <1>1, <1>4 DEF After, Missions, Verdicts
<1>6. \A t \in Upper : /\ Count(t) \in {0, 1}
                       /\ HasJudged(t) => Count(t) = 1
  BY DEF Count, HasJudged
<1>7. /\ used' \in [Upper -> Nat]
      /\ \A t \in Upper : /\ used'[t] \in Nat /\ used[t] \in Nat
                          /\ used'[t] = used[t] + Count(t)
  BY <1>1, <1>6 DEF TypeOK, Upper
<1>8. /\ job.shots \in Nat \ {0} /\ job.files \subseteq Files /\ shot \in Nat
      /\ shot <= job.shots
  BY JobTyped DEF TypeOK
<1>9. TiersInOrder' /\ TierBudgets'
  <2>1. asking' = "settled" \/ asking' = "idle"
    BY <1>1 DEF Settle
  <2> QED
    BY <1>1, <2>1 DEF TiersInOrder, TierBudgets, Final
<1>10. CASE mission' = "RUNNING"
  <2>1. /\ shot' = shot + 1 /\ scope' = Planned(Final.answer.scope)
        /\ stage' = "shoot" /\ asking' = "idle" /\ shot < job.shots
    BY <1>5, <1>10 DEF Settle, NextShot, ShotsLeft
  <2>2. scope' \subseteq job.files
    BY <1>5, <1>10, <2>1 DEF Planned, PlanAccepted
  <2>3. TypeOK'
    <3>1. GateTypeOK'
      BY <1>1, <2>1 DEF TypeOK, GateTypeOK
    <3>2. shot' \in 1 .. job'.shots
      BY <1>1, <1>8, <2>1
    <3> QED
      BY <1>1, <1>5, <1>7, <1>8, <2>1, <2>2, <3>1, <3>2 DEF TypeOK, Upper
  <2>4. TraceInv' /\ StageInv'
    BY <2>1 DEF TraceInv, StageInv
  <2>5. JevInv'
    BY <1>1, <1>8, <2>1 DEF JevInv
  <2>6. ChargeInv'
    <3> SUFFICES ASSUME NEW t \in Upper
                 PROVE  asked'[t] <= used'[t]
      BY DEF ChargeInv
    <3>1. asked[t] \in Nat
      BY DEF TypeOK, GateTypeOK, Tiers, Upper
    <3>2. asked[t] <= used[t] \/ (asked[t] <= used[t] + 1 /\ HasJudged(t))
      BY <1>1, <1>5, <1>10 DEF ChargeInv
    <3> QED
      BY <1>1, <1>6, <1>7, <3>1, <3>2
  <2>7. StagingInv' /\ StagingIsVerified'
    BY <1>1, <1>10, <2>1, <2>2 DEF StagingInv, StagingIsVerified
  <2> QED
    BY <1>9, <1>10, <2>3, <2>4, <2>5, <2>6, <2>7
<1>11. CASE mission' # "RUNNING"
  <2>1. UNCHANGED <<shot, scope, stage, asking>>
    BY <1>11 DEF Settle
  <2>2. TypeOK'
    BY <1>1, <1>5, <1>7, <2>1 DEF TypeOK, GateTypeOK, Upper
  <2>3. TraceInv' /\ StageInv' /\ JevInv' /\ ChargeInv'
    BY <1>1, <1>11, <2>1 DEF TraceInv, Final, StageInv, JevInv, ChargeInv, Supports
  <2>4. StagingInv' /\ StagingIsVerified'
    BY <1>1, <1>5, <2>1 DEF StagingInv, StagingIsVerified, Changed, Base
  <2>5. mission' = "DONE" => stage' = "judge" /\ passed'
    BY <1>1, <1>5, <2>1 DEF TraceInv
  <2> QED
    BY <1>9, <2>2, <2>3, <2>4, <2>5
<1> QED
  BY <1>10, <1>11
-----------------------------------------------------------------------------
LEMMA NextKeeps ==
    ASSUME IInv, [Next]_vars
    PROVE  IInv'
<1>1. CASE UNCHANGED vars
  <2>1. /\ UNCHANGED <<job, mission, shot, scope, used, stage, result, after, staging,
                       verified>>
        /\ UNCHANGED <<asking, trace, allowed, passed, asked>>
    BY <1>1 DEF vars, gate
  <2>2. TypeOK' /\ TraceInv' /\ TiersInOrder'
    BY <2>1 DEF IInv, TypeOK, GateTypeOK, TraceInv, TiersInOrder, Final
  <2>3. StageInv' /\ JevInv' /\ ChargeInv' /\ TierBudgets'
    BY <2>1 DEF IInv, StageInv, JevInv, ChargeInv, TierBudgets, HasJudged, Final,
                Supports
  <2>4. StagingInv' /\ StagingIsVerified'
    BY <2>1 DEF IInv, StagingInv, StagingIsVerified, Changed, Base
  <2> QED
    BY <2>1, <2>2, <2>3, <2>4 DEF IInv
<1> QED
  BY <1>1, ShotStopsKeeps, ShotLaunchedKeeps, ApplyPatchKeeps, AskJudgeKeeps,
     SettleKeeps DEF Next

LEMMA Invariance == Spec => []IInv
<1>1. Init => IInv
  BY InitKeeps
<1>2. IInv /\ [Next]_vars => IInv'
  BY NextKeeps
<1> QED
  BY <1>1, <1>2, PTL DEF Spec

\* The mission stays well typed: never more shots than the job has, a scope of
\* known files, and one of the states the orchestrator knows.
THEOREM MissionTypes == Spec => []TypeOK
<1>1. IInv => TypeOK
  BY DEF IInv
<1> QED
  BY <1>1, Invariance, PTL

\* However judges answer, fail or escalate, decide() climbs its tiers in order:
\* astra comes after an available sol, an escalation is final only when it is to
\* a human, and a low-confidence DONE only when astra gave it after another tier.
THEOREM TiersClimbed == Spec => []TiersInOrder
<1>1. IInv => TiersInOrder
  BY DEF IInv
<1> QED
  BY <1>1, Invariance, PTL

\* No judge is really called more often than the job's maximum for its tier,
\* although run() counts only the calls that the decision's trace names.
THEOREM BudgetsHold == Spec => []TierBudgets
<1>1. IInv => TierBudgets
  BY DEF IInv
<1> QED
  BY <1>1, Invariance, PTL

\* A mission that is DONE has a last shot that succeeded, whose checks passed
\* and whose patch is in the staging repository, off the ignored files.
THEOREM DoneEarned == Spec => []DoneIsEarned
<1>1. IInv => DoneIsEarned
  <2> SUFFICES ASSUME IInv, mission = "DONE"
               PROVE  /\ result.state = "SUCCEEDED" /\ result.checked
                      /\ verified = after /\ Changed(after) \subseteq job.ignored
    BY DEF DoneIsEarned
  <2>1. stage = "judge" /\ Supports(result)
    BY DEF IInv, StageInv
  <2>2. result.state = "SUCCEEDED" /\ result.checked /\ verified = after
    BY <2>1 DEF IInv, StagingInv, Supports
  <2>3. \A f \in Files \ job.ignored : staging.commit[f] = after[f]
    BY <2>1, <2>2 DEF IInv, StagingIsVerified
  <2>4. Changed(after) \subseteq job.ignored
    BY <2>3 DEF Changed, Base
  <2> QED
    BY <2>2, <2>4
<1> QED
  BY <1>1, Invariance, PTL

\* Off the ignored files, the staging repository's commit and working tree are
\* the tree verified last, between any two shots; and the mission raises from
\* apply_shot_patch only for a job with a file of its own that is ignored.
THEOREM StagingVerified == Spec => []StagingIsVerified
<1>1. IInv => StagingIsVerified
  BY DEF IInv
<1> QED
  BY <1>1, Invariance, PTL

\* Ignored files are the only work a mission can lose: where git ignores none of
\* the files, the commits of a mission that is DONE hold the tree whose checks
\* passed, as the docstring of RepositorySession says of every mission.
THEOREM NothingIgnoredNothingLost == Spec => [](job.ignored = {} => DoneIsDelivered)
<1>1. IInv => (job.ignored = {} => DoneIsDelivered)
  <2> SUFFICES ASSUME IInv, job.ignored = {}, mission = "DONE"
               PROVE  staging.commit = verified
    BY DEF DoneIsDelivered
  <2>1. staging.commit \in Tree /\ verified \in Tree
    BY DEF IInv, TypeOK
  <2>2. stage = "judge"
    BY DEF IInv, StageInv
  <2>3. \A f \in Files : staging.commit[f] = verified[f]
    BY <2>2 DEF IInv, StagingIsVerified
  <2> QED
    BY <2>1, <2>3 DEF Tree
<1> QED
  BY <1>1, Invariance, PTL
=====
