----------------------------- MODULE MCSession -----------------------------
(* Contracts, receipts and replies for model checking a session. *)
EXTENDS SessionProperties

\* Calls and time are the limits here; MCLedger varies the money.
MCContract(shots, stall, cap, semantic, final, redacted, dot, judges) ==
    [shots |-> shots, judgeCalls |-> [j \in Judges |-> cap], noProgress |-> stall,
     maxUsd |-> 2, reserveUsd |-> [r \in Roles |-> 0], stopOnUnknown |-> FALSE,
     semantic |-> semantic, humanFinal |-> final, redacted |-> redacted,
     dot |-> dot, judges |-> judges]

\* Three shots without review or with a human as the last word, and review asked
\* for where evidence must not leave.
PlainContracts ==
    {MCContract(3, 2, 0, FALSE, final, FALSE, FALSE, {}) : final \in BOOLEAN} \cup
    {MCContract(1, 1, 1, TRUE, FALSE, FALSE, dot, {"jev", "sol"}) : dot \in BOOLEAN} \cup
    {MCContract(1, 1, 1, TRUE, TRUE, TRUE, TRUE, {"jev"})}

\* Review by one tier over two candidates, by two tiers with calls to spare, by
\* all three with and without dot, and by a judge that has no calls.
ReviewContracts ==
    {MCContract(2, 1, 1, TRUE, FALSE, TRUE, FALSE, {j}) : j \in Judges} \cup
    {MCContract(2, 1, 1, TRUE, FALSE, TRUE, TRUE, {"jev"}),
     MCContract(1, 1, 2, TRUE, FALSE, TRUE, FALSE, {"jev", "sol"}),
     MCContract(2, 1, 0, TRUE, FALSE, TRUE, TRUE, {"jev"})} \cup
    {MCContract(1, 1, 1, TRUE, FALSE, TRUE, dot, {"jev", "sol", "astra"}) :
        dot \in BOOLEAN}

\* Two judges, two shots and two without progress: the longest loops.
EndingContracts == {MCContract(2, 2, 1, TRUE, FALSE, TRUE, FALSE, {"jev", "astra"})}
MCContracts == PlainContracts \cup ReviewContracts \cup EndingContracts

\* A price nobody knows, and a bill above the cap.
MCReceipts ==
    {[cost |-> Unpriced, status |-> "UNKNOWN", external |-> FALSE],
     [cost |-> 3, status |-> "MEASURED", external |-> FALSE]}

\* Every choice of a valid judge, an answer about other evidence, and an
\* unsure one.
MCReplies ==
    {[choice |-> c, bound |-> TRUE, confident |-> TRUE] :
        c \in {"ACCEPT", "REPAIR", "HUMAN_REQUIRED", "ESCALATE"}} \cup
    {[choice |-> "ACCEPT", bound |-> FALSE, confident |-> TRUE],
     [choice |-> "ACCEPT", bound |-> TRUE, confident |-> FALSE]}

MCRunLimits == {NoLimit, 1}
=============================================================================
