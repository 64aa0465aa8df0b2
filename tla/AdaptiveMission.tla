-------------------------- MODULE AdaptiveMission --------------------------
(***************************************************************************)
(* A mission of bounded shots: AdaptiveOrchestrator.run of adaptive.py     *)
(* with its planner, RepositorySession.execute of repo_launcher.py as the  *)
(* executor and DecisionGate as the judge of every shot.                   *)
(*                                                                         *)
(* A tree gives every file a content, 0 being no file.  The staging        *)
(* repository is its last commit and its working tree; verified is the     *)
(* tree whose checks passed in the last shot that succeeded.               *)
(***************************************************************************)
EXTENDS DecisionGate, LaunchResult

CONSTANTS
    Jobs,      \* the jobs, with the judges the mission is given
    Files,
    Trees,     \* what a worker may leave behind
    Original   \* the tree of the source repository's commit

Tree == [Files -> Nat]
Job == [shots : Nat \ {0}, max : [{"sol", "astra"} -> Nat],
        judges : SUBSET {"sol", "astra"}, files : SUBSET Files \ {{}},
        ignored : SUBSET Files]  \* named by .gitignore

ASSUME MissionAssumption ==
    /\ Jobs \subseteq Job
    /\ Trees \cup {Original} \subseteq Tree
    /\ Scopes \subseteq SUBSET Files
    /\ \A j \in Jobs : /\ j.shots < CallBound
                     /\ \A t \in {"sol", "astra"} : j.max[t] < CallBound

VARIABLES
    job,
    mission,   \* "RUNNING", the state of the AdaptiveRun, or "RAISED"
    shot,      \* shot_number
    scope,     \* the directive's allowed_files
    used,      \* sol_used and astra_used
    stage,     \* "shoot", "apply" or "judge"
    result,    \* what the gate is shown of the shot
    after,     \* the tree the shot's patch leads to
    staging,   \* [commit, worktree] of the staging repository
    verified

vars == <<job, mission, shot, scope, used, stage, result, after, staging, verified, gate>>

Missions == {"RUNNING", "DONE", "BLOCKED", "HUMAN_REQUIRED", "SHOT_LIMIT", "RAISED"}
NoResult == [state |-> "BLOCKED", started |-> FALSE, clean |-> TRUE,
             patch |-> "NONE", checked |-> FALSE]

At(place) == mission = "RUNNING" /\ stage = place
-----------------------------------------------------------------------------
(* RepositorySession.execute *)

BaseOfMission == Original                                         \* mutant
\* base_commit of the ticket: every shot starts from the commit of the last.
Base == staging.commit
Changed(tree) == {f \in Files : tree[f] # Base[f]}

InBudget(tier) == tier \in job.judges /\ used[tier] < job.max[tier]

\* EvidencePack and _call: what lets a judge say DONE.
Supports(r) ==
    r.state = "SUCCEEDED" /\ r.clean /\ r.patch \in {"PASSED", "NONE"} /\ r.checked

Judge(r) == Decide(Supports(r), {t \in {"sol", "astra"} : InBudget(t)})

\* run_repo_ticket stops before it launches (a busy lock, a missing CLI), or an
\* error or an interrupt ends it before the controller has observed anything.
ShotStops(state) ==
    /\ At("shoot")
    /\ result' = [NoResult EXCEPT !.state = state]
    /\ stage' = "judge"
    /\ Judge(result')
    /\ UNCHANGED <<job, mission, shot, scope, used, after, staging, verified>>

ApplyAlways(state) == TRUE                                        \* mutant
ToBeApplied(state) == state = "SUCCEEDED"

\* What a worker may have left for the controller to observe this.  A file
\* outside the scope, or a change of another kind (a link, git's own files), is
\* a violation; a patch that is empty, or has whitespace errors, fails.
Leaves(tree, outcome) ==
    /\ outcome.clean => Changed(tree) \subseteq scope
    /\ Changed(tree) = {} => outcome.patch # "PASSED"
    /\ ~outcome.started => Changed(tree) = {}

ShotLaunched(tree, outcome) ==
    /\ At("shoot")
    /\ Leaves(tree, outcome)
    /\ result' = outcome
    /\ after' = tree
    /\ verified' = IF outcome.state = "SUCCEEDED" THEN tree ELSE verified
    /\ IF ToBeApplied(outcome.state) THEN stage' = "apply" /\ UNCHANGED gate
                                     ELSE stage' = "judge" /\ Judge(outcome)
    /\ UNCHANGED <<job, mission, shot, scope, used, staging>>

\* git apply --check and git apply in the staging repository, git add --all
\* (which passes over an ignored file git does not know), git commit, which
\* fails when there is nothing to commit.  Nobody catches these failures.
Applies == \A f \in Changed(after) : staging.worktree[f] = Base[f]
Applied == [f \in Files |-> IF f \in Changed(after) THEN after[f] ELSE staging.worktree[f]]
Committed(tree) == [f \in Files |-> IF f \in job.ignored /\ staging.commit[f] = 0
                                    THEN 0 ELSE tree[f]]

ApplyPatch ==
    /\ At("apply")
    /\ IF Applies /\ Committed(Applied) # staging.commit
       THEN /\ staging' = [commit |-> Committed(Applied), worktree |-> Applied]
            /\ stage' = "judge"
            /\ Judge(result)
            /\ UNCHANGED mission
       ELSE mission' = "RAISED" /\ UNCHANGED <<staging, stage, gate>>
    /\ UNCHANGED <<job, shot, scope, used, result, after, verified>>
-----------------------------------------------------------------------------
(* AdaptiveOrchestrator.run *)

AskJudge ==
    /\ At("judge")
    /\ Gate
    /\ UNCHANGED <<job, mission, shot, scope, used, stage, result, after, staging, verified>>

\* JudgmentPlanner.next: a request for more than the job's files is refused,
\* none at all means all of them.
PlanAccepted(request) == request \subseteq job.files
Planned(request) == IF request = {} THEN job.files ELSE request

ShotsLeftLate == shot <= job.shots                                \* mutant
ShotsLeft == shot < job.shots

\* The mission's state after a decision; "RUNNING" plans another shot.
After(answer) ==
    CASE answer.verdict = "DONE" -> "DONE"
      [] answer.verdict \in {"HUMAN_REQUIRED", "ESCALATE"} -> "HUMAN_REQUIRED"
      [] answer.verdict = "BLOCKED" -> "BLOCKED"
      [] answer.verdict = "CONTINUE" ->
            IF ~ShotsLeft THEN "SHOT_LIMIT"
            ELSE IF PlanAccepted(answer.scope) THEN "RUNNING" ELSE "BLOCKED"

NextShotFailed == IF result.state = "SUCCEEDED" THEN shot + 1 ELSE shot  \* mutant
NextShot == shot + 1

Settle ==
    /\ At("judge")
    /\ asking = "settled"
    /\ used' = [t \in {"sol", "astra"} |-> used[t] + Count(t)]
    /\ mission' = After(Final.answer)
    /\ IF mission' = "RUNNING"
       THEN /\ shot' = NextShot
            /\ scope' = Planned(Final.answer.scope)
            /\ stage' = "shoot"
            /\ asking' = "idle"
       ELSE UNCHANGED <<shot, scope, stage, asking>>
    /\ UNCHANGED <<job, result, after, staging, verified, trace, allowed, passed, asked>>

Init ==
    /\ GateInit
    /\ job \in Jobs
    /\ mission = "RUNNING"
    /\ shot = 1
    /\ scope = job.files
    /\ used = [t \in {"sol", "astra"} |-> 0]
    /\ stage = "shoot"
    /\ result = NoResult
    /\ after = Original
    /\ staging = [commit |-> Original, worktree |-> Original]
    /\ verified = Original

Next ==
    \/ \E state \in {"BLOCKED", "FAILED"} : ShotStops(state)
    \/ \E tree \in Trees, outcome \in Outcomes : ShotLaunched(tree, outcome)
    \/ ApplyPatch
    \/ AskJudge
    \/ Settle

Spec == Init /\ [][Next]_vars

\* The process runs on: workers, checks and judges have timeouts.
FairSpec == Spec /\ WF_vars(Next)
-----------------------------------------------------------------------------
TypeOK ==
    /\ GateTypeOK
    /\ job \in Jobs
    /\ mission \in Missions
    /\ shot \in 1 .. job.shots
    /\ scope \subseteq Files
    /\ used \in [{"sol", "astra"} -> Nat]
    /\ stage \in {"shoot", "apply", "judge"}
    /\ result \in Outcome
    /\ after \in Tree /\ verified \in Tree
    /\ staging \in [commit : Tree, worktree : Tree]

\* No tier is really called more often than the job allows, although a judge
\* that fails with no tier above it is recorded as the controller's judgment
\* and never counted.
TierBudgets ==
    /\ asked["jev"] <= job.shots
    /\ \A t \in {"sol", "astra"} : asked[t] <= job.max[t]

\* A mission is DONE only on a shot that succeeded, whose patch is in the
\* staging repository and whose checks all ran and passed.
DoneIsEarned ==
    mission = "DONE" =>
        /\ result.state = "SUCCEEDED" /\ result.checked
        /\ verified = after /\ Changed(after) \subseteq job.ignored

\* Between shots the staging repository holds exactly the work whose checks
\* passed, whatever failed in between; and a patch that passed can be applied
\* and committed, so that no shot's success makes the mission raise.  Ignored
\* files are the exception to both.
StagingIsVerified ==
    /\ stage # "apply" =>
           \A f \in Files \ job.ignored :
               staging.commit[f] = verified[f] /\ staging.worktree[f] = verified[f]
    /\ mission = "RAISED" => job.ignored \cap job.files # {}

\* The mission ends: shots, tiers and escalations are bounded together.
MissionEnds == mission = "RUNNING" ~> mission # "RUNNING"

\* repo_launcher.py:422 says that successful shot patches are committed and that
\* the cumulative patch can be exported when the mission is DONE.  The tree it
\* then leads to should be the one that was verified.
DoneIsDelivered == mission = "DONE" => staging.commit = verified
=============================================================================
