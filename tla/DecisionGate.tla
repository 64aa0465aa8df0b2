---------------------------- MODULE DecisionGate ----------------------------
(***************************************************************************)
(* DecisionGate.decide of decision_gate.py: jev first, then sol, then      *)
(* astra, with one step per judge that is asked.  A judge answers with a   *)
(* judgment or fails (an error of the provider, or an answer that is not a *)
(* judgment of every criterion).                                           *)
(***************************************************************************)
EXTENDS Naturals, Sequences

CONSTANTS
    Answers,   \* the judgments a judge may return
    Scopes,    \* the scopes a next action may ask for
    CallBound  \* calls of a judge are counted up to this many

Tiers == {"jev", "sol", "astra"}
Verdicts == {"DONE", "CONTINUE", "ESCALATE", "BLOCKED", "HUMAN_REQUIRED"}

\* Judgment: CONTINUE stands for CONTINUE, REPAIR and REVIEW, which are treated
\* alike; to is escalate_to and scope the next action's allowed_scope.
Answer == [verdict : Verdicts, low : BOOLEAN, to : {"none", "sol", "astra", "human"},
           scope : Scopes]
NoAnswer == [verdict |-> "NONE", low |-> TRUE, to |-> "none", scope |-> {}]

ASSUME GateAssumption ==
    /\ CallBound \in Nat
    /\ {} \in Scopes
    /\ Answers \subseteq Answer
    /\ \A a \in Answers : /\ a.verdict = "ESCALATE" => a.to # "none"
                          /\ a.verdict \in {"DONE", "CONTINUE"} => a.to = "none"

VARIABLES
    asking,    \* the judge about to be asked, "settled" or "idle"
    trace,     \* the judgments of this decision
    allowed,   \* the tiers above jev that are configured and in budget
    passed,    \* the evidence supports DONE
    asked      \* how often each judge was really called, over the mission

gate == <<asking, trace, allowed, passed, asked>>

By(judge, answer) == [judge |-> judge, answer |-> answer]
Judgment == [judge : Tiers \cup {"controller"}, answer : Answer]

HumanRequired ==
    By("controller", [verdict |-> "HUMAN_REQUIRED", low |-> TRUE, to |-> "human",
                      scope |-> {}])
-----------------------------------------------------------------------------
AcceptedAlways(answer) == answer # NoAnswer                       \* mutant
\* _call: DONE is refused when the controller's own evidence is against it.
Accepted(answer) ==
    /\ answer # NoAnswer
    /\ answer.verdict = "DONE" => passed

\* _needs_escalation.
NeedsEscalation(answer) ==
    \/ answer.verdict = "ESCALATE" /\ answer.to # "human"
    \/ answer.verdict = "DONE" /\ answer.low

FallbackDirect(tier) == IF "astra" \in allowed THEN "astra"       \* mutant
                        ELSE IF tier = "jev" /\ "sol" \in allowed
                        THEN "sol" ELSE "none"
\* The tier after this one, whatever the answer asked for.
Fallback(tier) == IF tier = "jev" /\ "sol" \in allowed THEN "sol"
                  ELSE IF "astra" \in allowed THEN "astra" ELSE "none"

EscalationUnnamed(tier) ==                                        \* mutant
    By("controller", [verdict |-> "ESCALATE", low |-> TRUE, to |-> Fallback(tier),
                      scope |-> {}])
\* A failed judge is recorded as one that escalates.
Escalation(tier) ==
    By(tier, [verdict |-> "ESCALATE", low |-> TRUE, to |-> Fallback(tier),
              scope |-> {}])

\* _call_or_synthetic_escalation.
Judged(tier, answer) ==
    IF Accepted(answer) THEN By(tier, answer)
    ELSE IF Fallback(tier) = "none" THEN HumanRequired
    ELSE Escalation(tier)

Called(tier) ==
    asked' = [asked EXCEPT ![tier] = IF @ < CallBound THEN @ + 1 ELSE @]

Decide(evidencePassed, tiersAllowed) ==
    /\ asking' = "jev"
    /\ trace' = <<>>
    /\ allowed' = tiersAllowed
    /\ passed' = evidencePassed
    /\ UNCHANGED asked

\* jev and sol: the decision settles, climbs, or has nowhere left to climb.
Ask(tier, answer) ==
    LET judgment == Judged(tier, answer)
        climbs == NeedsEscalation(judgment.answer)
    IN  /\ asking = tier
        /\ Called(tier)
        /\ IF climbs /\ Fallback(tier) = "none"
           THEN trace' = trace \o <<judgment, HumanRequired>>
           ELSE trace' = Append(trace, judgment)
        /\ asking' = IF climbs /\ Fallback(tier) # "none"
                     THEN Fallback(tier) ELSE "settled"
        /\ UNCHANGED <<allowed, passed>>

\* The last automated court; a low-confidence DONE of its own stands.
AskAstra(answer) ==
    /\ asking = "astra"
    /\ Called("astra")
    /\ trace' = IF ~Accepted(answer) THEN Append(trace, HumanRequired)
                ELSE IF answer.verdict = "ESCALATE" /\ answer.to # "human"
                THEN trace \o <<By("astra", answer), HumanRequired>>
                ELSE Append(trace, By("astra", answer))
    /\ asking' = "settled"
    /\ UNCHANGED <<allowed, passed>>

GateInit ==
    /\ asking = "idle"
    /\ trace = <<>>
    /\ allowed = {}
    /\ passed = FALSE
    /\ asked = [t \in Tiers |-> 0]

Gate == \E answer \in Answers \cup {NoAnswer} :
           Ask("jev", answer) \/ Ask("sol", answer) \/ AskAstra(answer)

Final == trace[Len(trace)]
Count(tier) == IF \E i \in 1 .. Len(trace) : trace[i].judge = tier THEN 1 ELSE 0
-----------------------------------------------------------------------------
GateTypeOK ==
    /\ asking \in Tiers \cup {"idle", "settled"}
    /\ trace \in Seq(Judgment)
    /\ allowed \subseteq {"sol", "astra"}
    /\ passed \in BOOLEAN
    /\ asked \in [Tiers -> Nat]

\* However judges fail or escalate, the tiers are climbed in order: jev never
\* skips to astra while sol is available, a low-confidence DONE is final only
\* when astra has given it after another tier, and an escalation is final only
\* when it is to a human.
TiersInOrder ==
    /\ \A i \in 1 .. Len(trace) : trace[i].judge = "astra" /\ "sol" \in allowed =>
           \E j \in 1 .. i - 1 : trace[j].judge = "sol"
    /\ asking = "settled" =>
           /\ Final.answer.verdict = "ESCALATE" => Final.answer.to = "human"
           /\ Final.answer.verdict = "DONE" /\ Final.answer.low =>
                  Final.judge = "astra" /\ Len(trace) > 1
=============================================================================
