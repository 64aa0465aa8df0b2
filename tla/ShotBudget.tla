----------------------------- MODULE ShotBudget -----------------------------
(***************************************************************************)
(* Shots fired by several processes: VectorCannon.fire of runner.py, a     *)
(* loop of calls under one limit, and Orchestrator.run, stages that are    *)
(* each planned by FireControl and fired by DirectShot.  A lane with a     *)
(* credit meter bills one account, which all of them share and somebody    *)
(* may top up: what a shot has spent is the difference of two readings.    *)
(* Other lanes are billed by what the response says of its cost.           *)
(***************************************************************************)
EXTENDS EnergyRouting, SequencesExt

CONSTANTS
    Runners, Missions,      \* processes: vector-cannon fire, and mission
    RunnerJobs, MissionJobs,
    Catalogs,               \* what the venues may offer, [Lanes -> Offer]
    MeteredLanes,           \* lanes whose provider has credits_path
    Estimates,              \* prompt sizes the estimate may come to
    Over,                   \* tokens by which a prompt may exceed its estimate
    Balances, TopUps,       \* first balances of the account; what may be added
    TopUpBound              \* how often
Procs == Runners \cup Missions

RunnerJob == [limit : Nat \ {0}, lane : Lanes, out : Nat \ {0}, steps : Nat \ {0}]
Stage == [goal : Goals, budget : Nat \ {0}, out : Nat \ {0}]
MissionJob == [limit : Nat \ {0}, stages : Seq(Stage)]

ASSUME BudgetAssumption ==
    /\ Runners \cap Missions = {}
    /\ RunnerJobs \subseteq RunnerJob /\ MissionJobs \subseteq MissionJob
    /\ Catalogs \subseteq [Lanes -> Offer] /\ MeteredLanes \subseteq Lanes
    /\ Estimates \subseteq Nat \ {0} /\ Over \in Nat
    /\ Balances \subseteq Nat /\ TopUps \subseteq Nat \ {0} /\ TopUpBound \in Nat

VARIABLES
    job,        \* what each process was started with
    shot,       \* its local variables
    plan,       \* a mission's route for the stage that is being fired
    log,        \* the log entry the last step wrote, if it wrote one
    balance, topUps,        \* the account, and how often it was topped up
    \* Ghosts: what a process has paid in all, and in its current shot; what
    \* others paid on the account meanwhile; whether some cost cannot be told.
    paid, fired, foreign, blind
local == <<shot, plan>>
ghosts == <<paid, fired, foreign, blind>>
vars == <<job, local, log, balance, topUps, ghosts>>

\* n counts calls or stages; spent is noncredit_spent or observed_total; told
\* and choice are what the response says of its cost and how it ends.
Idle == [at |-> "idle", n |-> 0, metered |-> FALSE, in |-> 0, out |-> 0, before |-> 0,
         last |-> 0, spent |-> 0, est |-> 0, cap |-> 0, told |-> 0, choice |-> "none"]
NoPlan == [goal |-> "none"]
NoLog == [observed |-> 0, fired |-> 0, foreign |-> 0, metered |-> FALSE, blind |-> FALSE]

At(p, place) == shot[p].at = place
Smaller(a, b) == IF a < b THEN a ELSE b
Larger(a, b) == IF a < b THEN b ELSE a
CreditDeltaSigned(before, after) == before - after \* mutant: not clamped at zero
CreditDelta(before, after) == IF before > after THEN before - after ELSE 0

\* What a process believes it has spent.
Known(p) ==
    IF shot[p].metered /\ p \in Runners THEN CreditDelta(shot[p].before, shot[p].last)
    ELSE shot[p].spent

\* The end of a process: of its variables only what it knew of its spending
\* matters from now on.
Ended(s, place) ==
    [Idle EXCEPT !.at = place, !.metered = s.metered, !.before = s.before,
                 !.last = s.last, !.spent = s.spent]
End(p, place) == shot' = [shot EXCEPT ![p] = Ended(@, place)]
Unpaid == UNCHANGED <<balance, topUps, ghosts>>
\* The shot of a process is over, with or without a log.
ShotOver(p) ==
    /\ fired' = [fired EXCEPT ![p] = 0]
    /\ foreign' = [foreign EXCEPT ![p] = 0]
    /\ UNCHANGED <<balance, topUps, paid, blind>>
\* An exception; a paid call that was not accounted for is lost.
Fail(p) ==
    /\ End(p, IF At(p, "answered") THEN "lost" ELSE "failed")
    /\ ShotOver(p)
Unlogged == log' = NoLog
-----------------------------------------------------------------------------
(* The preflight of one call, the same in runner.py and direct.py *)

Affordable(remaining, est, in, out) == (remaining - est * in) \div out
Blocked(remaining, est, in, out) ==
    \/ est * in >= remaining
    \/ out > 0 /\ Affordable(remaining, est, in, out) <= 0
Cap(most, remaining, est, in, out) ==
    IF out > 0 THEN Larger(1, Smaller(most, Affordable(remaining, est, in, out))) ELSE most

(* VectorCannon.fire *)

Load(r) ==
    /\ At(r, "idle")
    /\ \E offers \in Catalogs :
          LET offer == offers[job[r].lane]
              metered == job[r].lane \in MeteredLanes
          IN  IF ~offer.armed \/ ~Priced(offer) \/ (metered /\ balance <= 0)
              THEN Fail(r)
              ELSE /\ shot' = [shot EXCEPT ![r] =
                          [Idle EXCEPT !.at = "turn", !.metered = metered,
                                       !.in = InPrice(offer), !.out = OutPrice(offer),
                                       !.before = balance, !.last = balance]]
                   /\ Unpaid
    /\ UNCHANGED <<job, plan>> /\ Unlogged

RemainingOfLimit(r) == job[r].limit \* mutant: what was spent is not taken off
Remaining(r) == job[r].limit - Known(r)

\* One turn up to the request: the messages only grow.
Turn(r) ==
    LET s == shot[r]
    IN  /\ At(r, "turn")
        /\ \/ /\ s.n >= job[r].steps \/ Remaining(r) <= 0
              /\ shot' = [shot EXCEPT ![r].at = "closing"]
           \/ /\ s.n < job[r].steps /\ Remaining(r) > 0
              /\ \E est \in {e \in Estimates : e >= s.est} :
                    shot' = [shot EXCEPT ![r] =
                        IF Blocked(Remaining(r), est, s.in, s.out)
                        THEN [s EXCEPT !.at = "closing"]
                        ELSE [s EXCEPT !.at = "firing", !.est = est,
                                       !.cap = Cap(job[r].out, Remaining(r), est, s.in, s.out)]]
        /\ Unpaid /\ UNCHANGED <<job, plan>> /\ Unlogged

\* The response is accounted for, by its own figures or by a reading.
Account(r) ==
    LET s == shot[r]
        counted == [s EXCEPT !.spent = IF s.metered THEN @ ELSE @ + s.told]
    IN  /\ At(r, "answered")
        /\ IF s.choice = "none" THEN Fail(r)
           ELSE /\ shot' = [shot EXCEPT ![r] =
                       [counted EXCEPT !.last = IF s.metered THEN balance ELSE @, !.n = @ + 1,
                                       !.told = 0, !.choice = "none",
                                       !.at = IF s.choice = "tools" THEN "turn" ELSE "closing"]]
                /\ Unpaid
        /\ UNCHANGED <<job, plan>> /\ Unlogged

\* What a shot has cost, by two readings of the meter or by the responses.
RunnerCostBefore(r) == \* mutant: without the last reading
    IF shot[r].metered THEN CreditDelta(shot[r].before, shot[r].last) ELSE shot[r].spent
RunnerCost(r) ==
    IF shot[r].metered THEN CreditDelta(shot[r].before, balance) ELSE shot[r].spent
DirectCost(m) ==
    IF shot[m].metered THEN CreditDelta(shot[m].before, balance) ELSE shot[m].told

Entry(p, observed) ==
    [observed |-> observed, fired |-> fired[p], foreign |-> foreign[p],
     metered |-> shot[p].metered, blind |-> blind[p]]
Logged(p, observed) ==
    /\ log' = Entry(p, observed)
    /\ ShotOver(p)
Close(r) ==
    /\ At(r, "closing")
    /\ Logged(r, RunnerCost(r))
    /\ End(r, "done")
    /\ UNCHANGED <<job, plan>>
-----------------------------------------------------------------------------
(* Orchestrator.run, FireControl and DirectShot.fire *)

Allocated(stages) == FoldSeq(LAMBDA s, sum : s.budget + sum, 0, stages)

Begin(m) ==
    /\ At(m, "idle")
    /\ IF Allocated(job[m].stages) > job[m].limit \/ Len(job[m].stages) = 0
       THEN Fail(m)
       ELSE shot' = [shot EXCEPT ![m].at = "stage"] /\ Unpaid
    /\ UNCHANGED <<job, plan>> /\ Unlogged

StageBudgetAlone(m) == job[m].stages[shot[m].n + 1].budget \* mutant: not capped
StageBudget(m) ==
    Smaller(job[m].stages[shot[m].n + 1].budget, job[m].limit - shot[m].spent)

MissionOver(m) ==
    /\ At(m, "stage")
    /\ shot[m].n = Len(job[m].stages) \/ shot[m].spent >= job[m].limit
    /\ End(m, "done")
    /\ Unpaid /\ UNCHANGED <<job, plan>> /\ Unlogged

\* FireControl.plan: the route of a stage.
Planned(stage, offers, budget) ==
    [goal |-> stage.goal, offers |-> offers, budget |-> budget, out |-> stage.out,
     winner |-> Winner(stage.goal, offers, budget, stage.out)]

\* DirectShot.fire up to the request: the winner's prices, the meter's first
\* reading and the preflight, which here raises.
FireDirect(m, route, est) ==
    LET offer == route.offers[route.winner]
        in == InPrice(offer)  out == OutPrice(offer)
        metered == route.winner \in MeteredLanes
    IN  IF ~Priced(offer) \/ (metered /\ balance <= 0) \/ Blocked(route.budget, est, in, out)
        THEN Fail(m)
        ELSE /\ shot' = [shot EXCEPT ![m] =
                   [@ EXCEPT !.at = "firing", !.metered = metered, !.in = in, !.out = out,
                             !.before = balance, !.est = est,
                             !.cap = Cap(route.out, route.budget, est, in, out)]]
             /\ Unpaid

FireStage(m) ==
    LET stage == job[m].stages[shot[m].n + 1]
        budget == StageBudget(m)
    IN  /\ At(m, "stage")
        /\ shot[m].n < Len(job[m].stages) /\ shot[m].spent < job[m].limit
        /\ \E offers \in Catalogs, est \in Estimates :
              IF Eligible(offers, budget, stage.out) = {}
              THEN Fail(m) /\ UNCHANGED plan
              ELSE LET route == Planned(stage, offers, budget)
                   IN  plan' = [plan EXCEPT ![m] = route] /\ FireDirect(m, route, est)
        /\ UNCHANGED job /\ Unlogged

\* The response is accounted for, logged, and added to the mission's total.
Conclude(m) ==
    LET s == shot[m]
    IN  /\ At(m, "answered")
        /\ plan' = [plan EXCEPT ![m] = NoPlan]
        /\ IF s.choice = "none" THEN Fail(m) /\ Unlogged
           ELSE /\ Logged(m, DirectCost(m))
                /\ shot' = [shot EXCEPT ![m] =
                       [Idle EXCEPT !.spent = s.spent + DirectCost(m), !.n = s.n + 1, !.at = "stage"]]
        /\ UNCHANGED job
-----------------------------------------------------------------------------
(* The providers *)

\* Between the two readings of a shot.
Measuring(p) == shot[p].metered /\ shot[p].at \in {"turn", "firing", "answered", "closing"}

\* The account is charged, and everyone else's readings see it.
Charge(p, cost) ==
    /\ paid' = [paid EXCEPT ![p] = @ + cost]
    /\ fired' = [fired EXCEPT ![p] = @ + cost]
    /\ IF shot[p].metered
       THEN /\ balance > 0
            /\ balance' = balance - cost
            /\ foreign' = [q \in Procs |->
                   IF q # p /\ Measuring(q) THEN foreign[q] + cost ELSE foreign[q]]
       ELSE UNCHANGED <<balance, foreign>>
    /\ UNCHANGED topUps

\* The bill of a call: the prompt may be larger than estimated.
Bills(p) ==
    {input * shot[p].in + output * shot[p].out :
        input \in shot[p].est .. shot[p].est + Over, output \in 0 .. shot[p].cap}

\* No choices, an answer (whole or truncated) or, where tools are offered, calls.
Endings(p) == {"none", "final"} \cup IF p \in Runners THEN {"tools"} ELSE {}

\* A paid response: with a cost or a usage, or without either, which counts as
\* nothing unless the lane has a meter.
Respond(p) ==
    /\ At(p, "firing")
    /\ \E cost \in Bills(p), choice \in Endings(p), silent \in BOOLEAN :
          /\ Charge(p, cost)
          /\ shot' = [shot EXCEPT ![p].at = "answered", ![p].choice = choice,
                                  ![p].told = IF silent \/ shot[p].metered THEN 0 ELSE cost]
          /\ blind' = [blind EXCEPT ![p] = @ \/ (silent /\ cost > 0 /\ ~shot[p].metered)]
    /\ UNCHANGED <<job, plan>> /\ Unlogged

\* The provider has charged for a response that never arrives.
LoseResponse(p) ==
    /\ At(p, "firing")
    /\ \E cost \in Bills(p) : Charge(p, cost)
    /\ End(p, "lost")
    /\ UNCHANGED <<job, plan, blind>> /\ Unlogged

\* A request or the writing of the log fails.
Raises(p) ==
    /\ shot[p].at \in {"idle", "stage", "firing", "answered", "closing"}
    /\ At(p, "answered") => shot[p].metered \/ p \in Missions
    /\ Fail(p)
    /\ UNCHANGED <<job, plan>> /\ Unlogged

TopUp ==
    /\ topUps < TopUpBound
    /\ topUps' = topUps + 1
    /\ \E amount \in TopUps : balance' = balance + amount
    /\ blind' = [p \in Procs |-> blind[p] \/ Measuring(p)]
    /\ UNCHANGED <<job, local, paid, fired, foreign>> /\ Unlogged

Init ==
    /\ job \in {j \in [Procs -> RunnerJobs \cup MissionJobs] :
                   /\ \A r \in Runners : j[r] \in RunnerJobs
                   /\ \A m \in Missions : j[m] \in MissionJobs}
    /\ shot = [p \in Procs |-> Idle]
    /\ plan = [m \in Missions |-> NoPlan]
    /\ log = NoLog
    /\ balance \in Balances /\ topUps = 0
    /\ paid = [p \in Procs |-> 0] /\ fired = paid /\ foreign = paid
    /\ blind = [p \in Procs |-> FALSE]

Next ==
    \/ \E r \in Runners : Load(r) \/ Turn(r) \/ Account(r) \/ Close(r)
    \/ \E m \in Missions : Begin(m) \/ MissionOver(m) \/ FireStage(m) \/ Conclude(m)
    \/ \E p \in Procs : Respond(p) \/ LoseResponse(p) \/ Raises(p)
    \/ TopUp

Spec == Init /\ [][Next]_vars
=============================================================================
