-------------------------- MODULE BudgetProperties --------------------------
(* What budget locks, logs and routes promise, stated over ShotBudget. *)
EXTENDS ShotBudget, FiniteSets

CONSTANT Slack      \* what Over tokens cost at the highest input price
ASSUME SlackAssumption ==
    /\ Slack \in Nat
    /\ \A offers \in Catalogs, l \in Lanes : Over * InPrice(offers[l]) <= Slack

Places == {"idle", "turn", "stage", "firing", "answered", "closing", "done", "failed", "lost"}
Shot == [at : Places, n : Nat, metered : BOOLEAN, in : Nat, out : Nat, before : Int,
         last : Int, spent : Nat, est : Nat, cap : Nat, told : Nat,
         choice : {"none", "final", "tools"}]
Log == [observed : Nat, fired : Nat, foreign : Nat, metered : BOOLEAN, blind : BOOLEAN]
Plan == [goal : Goals, offers : Catalogs, budget : Nat, out : Nat \ {0}, winner : Lanes]

\* The variables have the types declared beside them, a cap allows at least one
\* token, and each lane keeps to prices that Slack allows for.
TypeOK ==
    /\ job \in [Procs -> RunnerJobs \cup MissionJobs]
    /\ shot \in [Procs -> Shot]
    /\ \A p \in Procs : At(p, "firing") => shot[p].cap > 0 /\ Over * shot[p].in <= Slack
    /\ plan \in [Missions -> Plan \cup {NoPlan}]
    /\ log \in Log
    /\ balance \in Int /\ topUps \in 0 .. TopUpBound
    /\ paid \in [Procs -> Nat] /\ fired \in [Procs -> Nat] /\ foreign \in [Procs -> Nat]
    /\ blind \in [Procs -> BOOLEAN]

\* What a process may spend, what it believes it has spent, and whether it made a
\* call it does not know the cost of.
Limits == [p \in Procs |-> job[p].limit]
Knowns == [p \in Procs |-> Known(p)]
Dues == [p \in Procs |-> shot[p].at \in {"answered", "lost"}]

\* A shot, and a mission of several stages as a whole, is a budget lock
\* (runner.py:143-158, direct.py:118-128, orchestrator.py:76-97): whatever other
\* processes spend on the same account, and wherever a call fails, it pays for a
\* call only while what it knows of its spending leaves room for it.
Lock == INSTANCE BudgetLock WITH
    Spenders <- Procs, limit <- Limits, paid <- paid, known <- Knowns, due <- Dues,
    blind <- blind
LocksHold == Lock!Spec

\* What a log entry says a shot has cost (runner.py:208-213, direct.py:155-166) is
\* what it has paid, and what others paid on its account between its two
\* readings: nobody's spending is missing, and nothing is counted twice within
\* one entry.
ReportAddsUp ==
    ~log.blind => log.observed = log.fired + IF log.metered THEN log.foreign ELSE 0

\* A known figure better than another, zero counting as no better (venue.py:172).
Less(a, b) == a > 0 /\ (b = Unknown \/ a < b)
Knows(offer, out) == {f \in {"cost", "seconds"} :
    IF f = "cost" THEN Priced(offer) ELSE offer.seconds # Unknown}
Better(goal, o, w, out) ==
    CASE goal = "cheapest" -> Less(Cost(o, out), Cost(w, out))
      [] goal = "fastest"  -> Less(o.seconds, w.seconds)
      [] goal = "balanced" -> /\ Priced(o)
                              /\ Knows(w, out) \subseteq Knows(o, out)
                              /\ Less(Cost(o, out), Cost(w, out))

\* A stage goes to no lane that an armed one within its budget beats at the
\* stage's goal, by figures that are known and not zero; and the lane's estimate
\* is within what the earlier stages have left of the mission's limit.
RouteUndominated ==
    \A m \in Missions : plan[m] # NoPlan =>
        LET route == plan[m]  chosen == route.offers[route.winner]
        IN  /\ \A l \in Eligible(route.offers, route.budget, route.out) :
                   ~Better(route.goal, route.offers[l], chosen, route.out)
            /\ chosen.armed
            /\ At(m, "firing") =>
                   Cost(chosen, route.out) <= job[m].limit - shot[m].spent

\* venue.py:180 gives "lowest known estimated cost among READY approved routes" as
\* the reason of a cheapest route.
LowestCostChosen ==
    \A m \in Missions : plan[m] # NoPlan /\ plan[m].goal = "cheapest" =>
        LET route == plan[m]
            cost == [l \in Eligible(route.offers, route.budget, route.out) |->
                        Cost(route.offers[l], route.out)]
        IN  \A l \in DOMAIN cost : cost[l] # Unknown =>
                cost[route.winner] # Unknown /\ cost[route.winner] <= cost[l]
=============================================================================
