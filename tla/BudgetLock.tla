----------------------------- MODULE BudgetLock -----------------------------
(***************************************************************************)
(* What a dollar limit promises of a series of paid calls, for each of a   *)
(* set of spenders: a call is made only while the spending known so far    *)
(* leaves room for it, and what it cost is learnt before the next.  The    *)
(* price of a call is estimated from its prompt; Slack is how far the bill *)
(* of one call may exceed that estimate.                                   *)
(***************************************************************************)
EXTENDS Integers

CONSTANTS
    Spenders,
    Slack           \* a natural number

VARIABLES
    limit,      \* the dollar limit of each; it never changes
    paid,       \* what its calls have cost
    known,      \* what it believes they have cost
    due,        \* it made a call whose cost is not yet known
    blind       \* nobody can tell it the cost of some call
vars == <<limit, paid, known, due, blind>>

Init ==
    /\ limit \in [Spenders -> Nat]
    /\ paid = [p \in Spenders |-> 0] /\ known = paid
    /\ due = [p \in Spenders |-> FALSE] /\ blind = due

Pay(p) ==
    /\ ~due[p] /\ known[p] < limit[p]
    /\ \E cost \in 0 .. limit[p] - known[p] + Slack :
          paid' = [paid EXCEPT ![p] = @ + cost]
    /\ due' = [due EXCEPT ![p] = TRUE]
    /\ UNCHANGED known

Learn(p) ==
    /\ due[p] /\ due' = [due EXCEPT ![p] = FALSE]
    /\ known' \in [Spenders -> Nat]
    /\ \A q \in Spenders \ {p} : known'[q] = known[q]
    /\ blind'[p] \/ known'[p] >= paid[p]
    /\ UNCHANGED paid

\* Nothing is paid or learnt; a meter may be disturbed.
Disturb == UNCHANGED <<paid, known, due>>

Next ==
    /\ blind' \in [Spenders -> BOOLEAN]
    /\ \A p \in Spenders : blind[p] => blind'[p]
    /\ UNCHANGED limit
    /\ Disturb \/ \E p \in Spenders : Pay(p) \/ Learn(p)

Spec == Init /\ [][Next]_vars
-----------------------------------------------------------------------------
\* While every cost could be told, a limit is exceeded by no more than one
\* call's misestimate, however many calls were made.
OneCallOver == \A p \in Spenders : ~blind[p] => paid[p] <= limit[p] + Slack

\* What makes OneCallOver inductive: learnt costs are covered.
Covered ==
    /\ limit \in [Spenders -> Nat] /\ paid \in [Spenders -> Nat]
    /\ known \in [Spenders -> Nat]
    /\ due \in [Spenders -> BOOLEAN] /\ blind \in [Spenders -> BOOLEAN]
    /\ \A p \in Spenders : ~blind[p] /\ ~due[p] => paid[p] <= known[p]
    /\ OneCallOver
=============================================================================
