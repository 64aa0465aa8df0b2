--------------------------- MODULE OutcomeLedger ---------------------------
(***************************************************************************)
(* The cost and call ledger of one outcome session: Store.reserve and      *)
(* Store.finish of outcome/store.py, driven by the phases through which    *)
(* OutcomeEngine.run takes a session.  Every action is one committed       *)
(* Store.save; the state is what the control database holds after it.      *)
(*                                                                         *)
(* Money is counted in whole units and Unpriced stands for the JSON null.  *)
(* An operation id ("worker-002") is its position in operations, and       *)
(* inFlight is 0 for None.                                                 *)
(***************************************************************************)
EXTENDS Integers, Sequences

CONSTANTS
    Contracts,  \* the contracts, with the judges the session was given
    Receipts    \* the costs an agent or a judge may report

Judges == {"jev", "sol", "astra"}
Roles  == {"worker"} \cup Judges

Terminal == {"VERIFIED_DONE", "HUMAN_REQUIRED", "BLOCKED", "LIMIT_REACHED",
             "DOT_HANDOFF"}
Phases == Terminal \cup
          {"READY", "VERIFY", "JUDGE", "SEAL", "HANDOFF_PENDING",
           "CANDIDATE_RECEIVED", "DECISION_RECEIVED"}

Unpriced == -1
Money == Nat
MoneyOrNull == Money \cup {Unpriced}
OrZeroMissing(m) == m                                             \* mutant
OrZero(m) == IF m = Unpriced THEN 0 ELSE m

CostStatuses == {"MEASURED", "DERIVED", "ESTIMATED", "UNKNOWN"}
Receipt == [cost : MoneyOrNull, status : CostStatuses, external : BOOLEAN]

\* Contract.parse, restricted to the fields that steer the controller, and
\* the judge adapters the session identity is bound to.
Contract == [shots : Nat \ {0}, judgeCalls : [Judges -> Nat],
             noProgress : Nat \ {0}, maxUsd : MoneyOrNull,
             reserveUsd : [Roles -> MoneyOrNull], stopOnUnknown : BOOLEAN,
             semantic : BOOLEAN, humanFinal : BOOLEAN, redacted : BOOLEAN,
             dot : BOOLEAN, judges : SUBSET Judges]

ASSUME ContractsAssumption == Contracts \subseteq Contract
ASSUME ReceiptsAssumption  == Receipts \subseteq Receipt

VARIABLES
    contract,      \* immutable after creation
    phase,
    calls,         \* calls[r]: operations of role r ever reserved
    operations,    \* every operation, in the order of reservation
    inFlight,      \* the operation reserved and not yet returned, or 0
    committed,     \* committed_usd: reserved, or observed where that is more
    known,         \* known_cost_usd: observed bills only
    unknownCalls,  \* unknown_cost_calls
    expired,       \* now >= deadline
    waiting        \* the process that reserved inFlight still waits for it

ledger == <<calls, operations, committed, known, unknownCalls>>
ledgerVars == <<contract, phase, ledger, inFlight, expired, waiting>>

Operation == [role : Roles, state : {"RESERVED", "RETURNED"},
              reserved : MoneyOrNull, observed : MoneyOrNull,
              status : CostStatuses]
-----------------------------------------------------------------------------
Cap(role) == IF role = "worker" THEN contract.shots
                                ELSE contract.judgeCalls[role]

\* committed_usd if an operation of this role were reserved now.
CommittedWith(role) == committed + OrZero(contract.reserveUsd[role])

CapReachedLate(role) == calls[role] > Cap(role)                   \* mutant
CapReached(role) == calls[role] >= Cap(role)

UnreconciledLate == unknownCalls > 1 /\ contract.stopOnUnknown    \* mutant
Unreconciled == unknownCalls > 0 /\ contract.stopOnUnknown

\* The checks of Store.reserve in their order; "NONE" admits the operation.
LimitRefusal(role) ==
    IF expired THEN "MISSION_DEADLINE"
    ELSE IF CapReached(role) THEN "CALL_LIMIT"
    ELSE IF Unreconciled THEN "UNRECONCILED_COST"
    ELSE IF contract.maxUsd # Unpriced /\ contract.reserveUsd[role] = Unpriced
         THEN "COST_RESERVATION_REQUIRED"
    ELSE IF contract.reserveUsd[role] = Unpriced /\ contract.stopOnUnknown
         THEN "COST_BOUND_UNKNOWN"
    ELSE IF contract.maxUsd # Unpriced /\ CommittedWith(role) > contract.maxUsd
         THEN "MISSION_COST_LIMIT"
    ELSE "NONE"
Refusal(role) == IF inFlight # 0 THEN "OPERATION_ALREADY_IN_FLIGHT"
                 ELSE LimitRefusal(role)

\* OutcomeEngine.run: the phase in which an exception leaves the session.
LimitReasons == {"MISSION_DEADLINE", "CALL_LIMIT", "MISSION_COST_LIMIT",
                 "ARTIFACT_SIZE_LIMIT"}
StopPhase(reason) ==
    IF reason \in LimitReasons THEN "LIMIT_REACHED"
    ELSE IF inFlight # 0 THEN "HUMAN_REQUIRED" ELSE "BLOCKED"

\* The phase in which OutcomeEngine.run reserves an operation of this role,
\* and the one in which its return is recorded.
DispatchPhase(role) == IF role = "worker" THEN "READY" ELSE "JUDGE"
ReturnPhase(role) ==
    IF role = "worker" THEN "CANDIDATE_RECEIVED" ELSE "DECISION_RECEIVED"
-----------------------------------------------------------------------------
Charged(role) == [calls EXCEPT ![role] = @ + 1]

\* Store.reserve, called by _worker and _judge.
Reserve(role) ==
    /\ phase = DispatchPhase(role)
    /\ Refusal(role) = "NONE"
    /\ calls' = Charged(role)
    /\ operations' = Append(operations,
            [role |-> role, state |-> "RESERVED",
             reserved |-> contract.reserveUsd[role],
             observed |-> Unpriced, status |-> "UNKNOWN"])
    /\ committed' = CommittedWith(role)
    /\ inFlight' = Len(operations) + 1
    /\ waiting' = TRUE
    /\ UNCHANGED <<contract, phase, known, unknownCalls, expired>>

\* Store.reserve raises and run turns the reason into a terminal phase.
Refuse(role) ==
    /\ phase = DispatchPhase(role)
    /\ inFlight = 0
    /\ Refusal(role) # "NONE"
    /\ phase' = StopPhase(Refusal(role))
    /\ UNCHANGED <<contract, ledger, inFlight, expired, waiting>>

\* A receipt whose price was not measured, or hides a cost elsewhere.
CostUnknown(receipt) ==
    \/ receipt.cost = Unpriced
    \/ receipt.status \notin {"MEASURED", "DERIVED"}
    \/ receipt.external

OverrunIgnored(receipt) == 0                                      \* mutant
OverrunInFull(receipt) == OrZero(receipt.cost)                    \* mutant
\* What an observed price adds to committed_usd beyond its reservation.
Overrun(receipt) ==
    LET reserved == OrZero(operations[inFlight].reserved)
    IN  IF receipt.cost # Unpriced /\ receipt.cost > reserved
        THEN receipt.cost - reserved ELSE 0

OverBudget(amount) == contract.maxUsd # Unpriced /\ amount > contract.maxUsd

PhaseReturned(receipt) == ReturnPhase(operations[inFlight].role)   \* mutant
PhaseAfter(receipt) ==
    IF OverBudget(committed + Overrun(receipt)) THEN "LIMIT_REACHED"
    ELSE ReturnPhase(operations[inFlight].role)

Settled(op, receipt) ==
    [role |-> op.role, state |-> "RETURNED", reserved |-> op.reserved,
     observed |-> receipt.cost, status |-> receipt.status]

\* Store.finish.
Return(receipt) ==
    /\ waiting
    /\ inFlight # 0
    /\ inFlight = Len(operations)
    /\ unknownCalls' = unknownCalls + (IF CostUnknown(receipt) THEN 1 ELSE 0)
    /\ known' = known + (IF CostUnknown(receipt) THEN 0 ELSE receipt.cost)
    /\ committed' = committed + Overrun(receipt)
    /\ operations' = [operations EXCEPT ![inFlight] = Settled(@, receipt)]
    /\ inFlight' = 0
    /\ waiting' = FALSE
    /\ phase' = PhaseAfter(receipt)
    /\ UNCHANGED <<contract, calls, expired>>

AbandonForgets ==                                                 \* mutant
    /\ inFlight # 0
    /\ inFlight' = 0
    /\ phase' = "HUMAN_REQUIRED"
    /\ waiting' = FALSE
    /\ UNCHANGED <<contract, ledger, expired>>
\* The operation raised, or its receipt is malformed, or a later run finds it
\* still in flight: the operation stays reserved and the session stops.
Abandon ==
    /\ inFlight # 0
    /\ phase' \in IF waiting THEN {"HUMAN_REQUIRED", "LIMIT_REACHED"}
                             ELSE {"HUMAN_REQUIRED"}
    /\ waiting' = FALSE
    /\ UNCHANGED <<contract, ledger, inFlight, expired>>

\* The controller dies while it waits.
CrashWaiting ==
    /\ waiting
    /\ waiting' = FALSE
    /\ UNCHANGED <<contract, phase, ledger, inFlight, expired>>

\* The saves of OutcomeEngine and of submit_supervisor_decision that leave the
\* ledger alone.  Any step of a run may also end BLOCKED or LIMIT_REACHED.
MovePhase ==
    \/ phase = "READY" /\ phase' = "VERIFY"
    \/ phase = "VERIFY" /\ phase' \in {"READY", "JUDGE", "SEAL", "HUMAN_REQUIRED"}
    \/ phase = "CANDIDATE_RECEIVED" /\ phase' \in {"VERIFY", "HUMAN_REQUIRED"}
    \/ phase = "JUDGE" /\ phase' \in {"JUDGE", "HUMAN_REQUIRED", "HANDOFF_PENDING"}
    \/ phase = "DECISION_RECEIVED" /\ phase' \in
            {"DECISION_RECEIVED", "SEAL", "READY", "JUDGE", "HUMAN_REQUIRED",
             "HANDOFF_PENDING"}
    \/ phase = "HANDOFF_PENDING" /\ phase' \in {"HANDOFF_PENDING", "DOT_HANDOFF"}
    \/ phase = "SEAL" /\ phase' = "VERIFIED_DONE"
    \/ phase = "DOT_HANDOFF" /\ phase' \in
            {"SEAL", "READY", "LIMIT_REACHED", "HUMAN_REQUIRED"}
    \/ phase = "HUMAN_REQUIRED" /\ phase' \in {"HUMAN_REQUIRED", "VERIFIED_DONE"}
    \/ phase \notin Terminal /\ phase' \in {"BLOCKED", "LIMIT_REACHED"}

Advance ==
    /\ inFlight = 0
    /\ MovePhase
    /\ UNCHANGED <<contract, ledger, inFlight, expired, waiting>>

DeadlinePasses ==
    /\ ~expired
    /\ expired' = TRUE
    /\ UNCHANGED <<contract, phase, ledger, inFlight, waiting>>

LedgerInit ==
    /\ contract \in Contracts
    /\ phase = "READY"
    /\ calls = [r \in Roles |-> 0]
    /\ operations = <<>>
    /\ inFlight = 0
    /\ committed = 0
    /\ known = 0
    /\ unknownCalls = 0
    /\ expired = FALSE
    /\ waiting = FALSE

LedgerNext ==
    \/ \E role \in Roles : Reserve(role)
    \/ \E role \in Roles : Refuse(role)
    \/ \E receipt \in Receipts : Return(receipt)
    \/ Abandon
    \/ CrashWaiting
    \/ Advance
    \/ DeadlinePasses

LedgerSpec == LedgerInit /\ [][LedgerNext]_ledgerVars
-----------------------------------------------------------------------------
LedgerTypeOK ==
    /\ contract \in Contracts
    /\ phase \in Phases
    /\ calls \in [Roles -> Nat]
    /\ operations \in Seq(Operation)
    /\ inFlight \in Nat
    /\ committed \in Money
    /\ known \in Money
    /\ unknownCalls \in Nat
    /\ expired \in BOOLEAN
    /\ waiting \in BOOLEAN

\* At most one external operation is outstanding, it is the newest one, and
\* only the process that reserved it waits for it; every other operation has
\* returned.  reserve, finish and run must agree on in_flight for this.
OneOutstanding ==
    /\ inFlight \in {0, Len(operations)}
    /\ waiting => inFlight # 0
    /\ \A i \in 1 .. Len(operations) :
            operations[i].state = "RESERVED" <=> i = inFlight

\* No role is called more often than its contract allows, across crashes and
\* resumes: the call is charged before it is made.
CallsWithinCaps == \A role \in Roles : calls[role] <= Cap(role)

\* Money known to be spent never exceeds what the mission has committed, and
\* the reservation of the outstanding operation is on top of it.
KnownIsCovered ==
    known + (IF inFlight = 0 THEN 0 ELSE OrZero(operations[inFlight].reserved))
        <= committed

\* A configured monetary cap is exceeded only by an observed bill, and the
\* session is then stopped for good with nothing outstanding.
CapHoldsOrStopped ==
    OverBudget(committed) => phase = "LIMIT_REACHED" /\ inFlight = 0

\* Under unknown_cost = "stop" the first call whose cost stays unknown is the
\* last call of the mission.
UnknownCostStops ==
    contract.stopOnUnknown /\ unknownCalls > 0 =>
        unknownCalls = 1 /\ inFlight = 0

\* An operation once reserved is never forgotten or rewritten: only the
\* outstanding one changes, by its own process, once, when it returns.  One
\* abandoned in flight stays in flight in every later state.
HistoryIsKept ==
    /\ Len(operations') >= Len(operations)
    /\ \A i \in 1 .. Len(operations) :
            operations'[i] # operations[i] =>
                waiting /\ i = inFlight /\ operations'[i].state = "RETURNED"
    /\ inFlight # 0 /\ ~waiting => inFlight' = inFlight /\ operations' = operations
HistoryIsAppendOnly == [][HistoryIsKept]_ledgerVars
=============================================================================
