---------------------------- MODULE LedgerAudit ----------------------------
(***************************************************************************)
(* The ledger's running totals compared with what a reader would compute   *)
(* from the list of operations: the totals are updated in two places       *)
(* (reserve, finish) and never recomputed by the code.                     *)
(***************************************************************************)
EXTENDS OutcomeLedger, SequencesExt

\* The sum of an amount of every operation, in the order of reservation.
Total(amounts) == FoldLeft(+, 0, amounts)

\* The worst case of an operation: what it reserved or what it was seen to
\* cost, whichever is more.
Worst == [i \in DOMAIN operations |->
             Max({OrZero(operations[i].reserved), OrZero(operations[i].observed)})]
Bills == [i \in DOMAIN operations |-> OrZero(operations[i].observed)]
CallsOf(role) ==
    [i \in DOMAIN operations |-> IF operations[i].role = role THEN 1 ELSE 0]

\* The totals add up: committed_usd is the worst case of every operation, a call
\* is charged once, and, when no call has an unknown cost, known_cost_usd is the
\* whole bill of the calls that returned, all of them measured.  Only then does
\* the report give a cost per verified outcome.
LedgerAddsUp ==
    /\ committed = Total(Worst)
    /\ \A role \in Roles : calls[role] = Total(CallsOf(role))
    /\ unknownCalls = 0 =>
           /\ known = Total(Bills)
           /\ \A i \in DOMAIN operations : operations[i].state = "RETURNED" =>
                  operations[i].status \in {"MEASURED", "DERIVED"}
=============================================================================
