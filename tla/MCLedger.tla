------------------------------ MODULE MCLedger ------------------------------
(* Contracts and receipts for model checking the ledger. *)
EXTENDS LedgerAudit

MCContract(max, workerReserve, judgeReserve, stop) ==
    [shots |-> 2, judgeCalls |-> [r \in Judges |-> IF r = "jev" THEN 1 ELSE 0],
     noProgress |-> 1, maxUsd |-> max,
     reserveUsd |-> [r \in Roles |-> IF r = "worker" THEN workerReserve
                                                     ELSE judgeReserve],
     stopOnUnknown |-> stop, semantic |-> TRUE, humanFinal |-> FALSE,
     redacted |-> TRUE, dot |-> FALSE, judges |-> {"jev"}]

\* No cap, a cap two reservations fill exactly, and one they overfill; with
\* and without reservations; both policies for an unknown cost.
MCContracts ==
    {MCContract(max, w, j, stop) :
        max \in {Unpriced, 2, 3}, w \in {Unpriced, 1, 2}, j \in {Unpriced, 1},
        stop \in BOOLEAN}

\* No price, a measured one below, at and above the reservations, an estimate,
\* and an import that hides the cost of what it imports.
MCReceipts ==
    {[cost |-> c, status |-> "MEASURED", external |-> FALSE] : c \in {0, 1, 3}} \cup
    {[cost |-> Unpriced, status |-> "UNKNOWN", external |-> FALSE],
     [cost |-> 1, status |-> "ESTIMATED", external |-> FALSE],
     [cost |-> 0, status |-> "MEASURED", external |-> TRUE]}
=============================================================================
