------------------------------ MODULE MCBudget ------------------------------
(* Jobs and catalogs for model checking shots and missions on one account. *)
EXTENDS BudgetProperties

MCOffer(armed, listed, free, in, out, seconds) ==
    [armed |-> armed, listed |-> listed, free |-> free,
     in |-> in, out |-> out, seconds |-> seconds]
Absent == MCOffer(TRUE, FALSE, FALSE, Unknown, Unknown, Unknown)
Paid(in, out, seconds) == MCOffer(TRUE, TRUE, FALSE, in, out, seconds)

\* Lane 1 has the credit meter.  A metered and a dearer but faster lane; a free
\* lane beside a dear one; and a lane without prices, one without a key.
MCCatalogs ==
    {<<Paid(1, 1, 9), Paid(1, 2, 5), Absent>>,
     <<Paid(1, 1, Unknown), Paid(1, 2, 0), MCOffer(TRUE, TRUE, TRUE, Unknown, Unknown, 7)>>,
     <<MCOffer(FALSE, TRUE, FALSE, 1, 1, 5), Paid(Unknown, Unknown, 3), Absent>>}
MCRunnerJobs ==
    {[limit |-> 3, lane |-> 1, out |-> 1, steps |-> 2],
     [limit |-> 3, lane |-> 2, out |-> 1, steps |-> 1]}
MCStage(goal, budget) == [goal |-> goal, budget |-> budget, out |-> 1]
MCMissionJobs ==
    {[limit |-> 4, stages |-> <<MCStage("cheapest", 2), MCStage("balanced", 2)>>],
     [limit |-> 4, stages |-> <<MCStage("fastest", 2), MCStage("cheapest", 2)>>],
     [limit |-> 5, stages |-> <<MCStage("fastest", 3), MCStage("cheapest", 3)>>]}
=============================================================================
