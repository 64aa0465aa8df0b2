----------------------- MODULE OutcomeSession_proofs -----------------------
(***************************************************************************)
(* Proofs about the ledger of an outcome session and about the session     *)
(* itself, for every set of contracts, receipts, replies and snapshots.    *)
(* The first half is about the ledger alone.  In the second, every step of *)
(* the session is a step of the ledger or leaves it alone, so what holds   *)
(* of the ledger holds of a session with all its crashes and resumes; and  *)
(* what SessionProperties says of review, handoff and delivery is shown.   *)
(***************************************************************************)
EXTENDS SessionProperties, LedgerAudit, WellFoundedInduction, TLAPS

(* The ledger alone. *)

\* OrZero turns a price or a null into an amount.
LEMMA OrZeroIsMoney == \A m \in MoneyOrNull : OrZero(m) \in Nat
  BY DEF MoneyOrNull, Money, OrZero, Unpriced

\* What the type invariant says of the contract, expanded once.
LEMMA ContractFields ==
  ASSUME LedgerTypeOK
  PROVE  /\ contract \in Contract
         /\ contract.shots \in Nat
         /\ \A j \in Judges : contract.judgeCalls[j] \in Nat
         /\ contract.maxUsd \in MoneyOrNull
         /\ \A r \in Roles : contract.reserveUsd[r] \in MoneyOrNull
         /\ contract.stopOnUnknown \in BOOLEAN
<1>1. contract \in Contract
  BY ContractsAssumption DEF LedgerTypeOK
<1>. QED
  BY <1>1 DEF Contract

\* A receipt the ledger is given is one an agent may report.
LEMMA ReceiptFields ==
  ASSUME NEW receipt \in Receipts
  PROVE  /\ receipt.cost \in MoneyOrNull
         /\ receipt.status \in CostStatuses
         /\ receipt.external \in BOOLEAN
  BY ReceiptsAssumption DEF Receipt

\* Replacing one element of a sequence by another of the same set.
LEMMA ExceptSeq ==
  ASSUME NEW S, NEW s \in Seq(S), NEW i \in 1 .. Len(s), NEW e \in S
  PROVE  /\ [s EXCEPT ![i] = e] \in Seq(S)
         /\ Len([s EXCEPT ![i] = e]) = Len(s)
         /\ \A j \in 1 .. Len(s) :
                [s EXCEPT ![i] = e][j] = IF j = i THEN e ELSE s[j]
  OBVIOUS
-----------------------------------------------------------------------------
\* An overrun is an amount, and is what the price exceeds its reservation by.
LEMMA OverrunBounds ==
  ASSUME LedgerTypeOK, NEW receipt \in Receipts, inFlight \in 1 .. Len(operations)
  PROVE  LET reserved == OrZero(operations[inFlight].reserved)
         IN  /\ reserved \in Nat
             /\ Overrun(receipt) \in Nat
             /\ receipt.cost # Unpriced => receipt.cost <= reserved + Overrun(receipt)
<1>. DEFINE reserved == OrZero(operations[inFlight].reserved)
<1>0. operations[inFlight] \in Operation
  BY DEF LedgerTypeOK
<1>1. operations[inFlight].reserved \in MoneyOrNull
  BY <1>0 DEF Operation
<1>2. reserved \in Nat
  BY <1>1, OrZeroIsMoney
<1>3. receipt.cost \in MoneyOrNull
  BY ReceiptFields
<1>4. Overrun(receipt) = IF receipt.cost # Unpriced /\ receipt.cost > reserved
                         THEN receipt.cost - reserved ELSE 0
  BY DEF Overrun
<1>. HIDE DEF reserved
<1>5. Overrun(receipt) \in Nat
  BY <1>2, <1>3, <1>4 DEF MoneyOrNull, Money, Unpriced
<1>6. receipt.cost # Unpriced => receipt.cost <= reserved + Overrun(receipt)
  BY <1>2, <1>3, <1>4 DEF MoneyOrNull, Money, Unpriced
<1>. QED
  BY <1>2, <1>5, <1>6 DEF reserved

LEMMA LedgerTypeInit == LedgerInit => LedgerTypeOK
<1>. SUFFICES ASSUME LedgerInit PROVE LedgerTypeOK
  OBVIOUS
<1>1. operations \in Seq(Operation)
  BY DEF LedgerInit
<1>2. calls \in [Roles -> Nat]
  BY DEF LedgerInit
<1>. QED
  BY <1>1, <1>2 DEF LedgerInit, LedgerTypeOK, Phases, Money

LEMMA LedgerTypeStep == LedgerTypeOK /\ [LedgerNext]_ledgerVars => LedgerTypeOK'
<1>. SUFFICES ASSUME LedgerTypeOK, [LedgerNext]_ledgerVars
              PROVE  LedgerTypeOK'
  OBVIOUS
<1>1. ASSUME NEW role \in Roles, Reserve(role)
      PROVE  LedgerTypeOK'
  <2>. DEFINE op == [role |-> role, state |-> "RESERVED",
                     reserved |-> contract.reserveUsd[role],
                     observed |-> Unpriced, status |-> "UNKNOWN"]
  <2>1. contract.reserveUsd[role] \in MoneyOrNull
    BY ContractFields
  <2>2. op \in Operation
    BY <2>1 DEF Operation, MoneyOrNull, CostStatuses
  <2>3. operations' \in Seq(Operation)
    <3>1. operations' = Append(operations, op) /\ operations \in Seq(Operation)
      BY <1>1 DEF Reserve, LedgerTypeOK
    <3>. QED
      BY <2>2, <3>1
  <2>4. committed' \in Money
    BY <1>1, <2>1, OrZeroIsMoney DEF Reserve, CommittedWith, LedgerTypeOK, Money
  <2>5. calls' \in [Roles -> Nat]
    BY <1>1 DEF Reserve, Charged, LedgerTypeOK
  <2>6. inFlight' \in Nat
    BY <1>1 DEF Reserve, LedgerTypeOK
  <2>. QED
    BY <1>1, <2>3, <2>4, <2>5, <2>6 DEF Reserve, LedgerTypeOK
<1>2. ASSUME NEW role \in Roles, Refuse(role)
      PROVE  LedgerTypeOK'
  <2>1. phase' \in Phases
    BY <1>2 DEF Refuse, StopPhase, Phases, Terminal
  <2>. QED
    BY <1>2, <2>1 DEF Refuse, LedgerTypeOK, ledger
<1>3. ASSUME NEW receipt \in Receipts, Return(receipt)
      PROVE  LedgerTypeOK'
  <2>1. inFlight \in 1 .. Len(operations) /\ operations \in Seq(Operation)
    BY <1>3 DEF Return, LedgerTypeOK
  <2>. DEFINE op == Settled(operations[inFlight], receipt)
  <2>2. op \in Operation
    <3>1. operations[inFlight] \in Operation
      BY <2>1
    <3>. QED
      BY <3>1, ReceiptFields DEF Operation, Settled
  <2>3. operations' \in Seq(Operation)
    <3>1. operations' = [operations EXCEPT ![inFlight] = op]
      BY <1>3 DEF Return
    <3>. QED
      BY <2>1, <2>2, <3>1, ExceptSeq
  <2>4. committed' \in Money
    BY <1>3, <2>1, OverrunBounds DEF Return, LedgerTypeOK, Money
  <2>5. known' \in Money
    <3>1. ~CostUnknown(receipt) => receipt.cost \in Nat
      BY ReceiptFields DEF CostUnknown, MoneyOrNull, Money
    <3>. QED
      BY <1>3, <3>1 DEF Return, LedgerTypeOK, Money
  <2>6. unknownCalls' \in Nat
    BY <1>3 DEF Return, LedgerTypeOK
  <2>7. phase' \in Phases
    BY <1>3 DEF Return, PhaseAfter, ReturnPhase, Phases, Terminal
  <2>. QED
    BY <1>3, <2>3, <2>4, <2>5, <2>6, <2>7 DEF Return, LedgerTypeOK
<1>4. CASE Abandon
  BY <1>4 DEF Abandon, LedgerTypeOK, ledger, Phases, Terminal
<1>5. CASE CrashWaiting
  BY <1>5 DEF CrashWaiting, LedgerTypeOK, ledger
<1>6. CASE Advance
  <2>1. phase' \in Phases
    BY <1>6 DEF Advance, MovePhase, Phases, Terminal
  <2>. QED
    BY <1>6, <2>1 DEF Advance, LedgerTypeOK, ledger
<1>7. CASE DeadlinePasses
  BY <1>7 DEF DeadlinePasses, LedgerTypeOK, ledger
<1>8. CASE UNCHANGED ledgerVars
  BY <1>8 DEF ledgerVars, ledger, LedgerTypeOK
<1>. QED
  BY <1>1, <1>2, <1>3, <1>4, <1>5, <1>6, <1>7, <1>8 DEF LedgerNext

\* Every ledger state is well typed: no amount turns negative or null, and no
\* phase outside the declared ones is entered (Store.reserve, Store.finish).
THEOREM LedgerTypes == LedgerSpec => []LedgerTypeOK
  BY LedgerTypeInit, LedgerTypeStep, PTL DEF LedgerSpec
-----------------------------------------------------------------------------
\* The operation outstanding.

\* What Store.reserve has checked of an operation it admits.
LEMMA Admitted ==
  ASSUME NEW role \in Roles, Refusal(role) = "NONE"
  PROVE  /\ inFlight = 0
         /\ ~CapReached(role)
         /\ ~Unreconciled
         /\ ~OverBudget(CommittedWith(role))
  BY DEF Refusal, LimitRefusal, OverBudget

\* The steps that leave the operations and the pointer to the outstanding one.
LEMMA QuietSteps ==
  ASSUME LedgerTypeOK,
         \/ \E role \in Roles : Refuse(role)
         \/ Abandon \/ CrashWaiting \/ Advance \/ DeadlinePasses
         \/ UNCHANGED ledgerVars
  PROVE  /\ UNCHANGED <<contract, ledger, inFlight>>
         /\ waiting' => waiting
  BY DEF Refuse, Abandon, CrashWaiting, Advance, DeadlinePasses, ledgerVars,
         LedgerTypeOK

LEMMA OneOutstandingStep ==
  ASSUME LedgerTypeOK, OneOutstanding, [LedgerNext]_ledgerVars
  PROVE  OneOutstanding'
<1>1. ASSUME NEW role \in Roles, Reserve(role)
      PROVE  OneOutstanding'
  <2>1. inFlight = 0
    BY <1>1, Admitted DEF Reserve
  <2>2. PICK op : op.state = "RESERVED" /\ operations' = Append(operations, op)
    BY <1>1 DEF Reserve
  <2>3. operations \in Seq(Operation)
    BY DEF LedgerTypeOK
  <2>4. Len(operations') = Len(operations) + 1
    BY <2>2, <2>3
  <2>5. \A i \in 1 .. Len(operations) : operations'[i] = operations[i]
    BY <2>2, <2>3
  <2>6. operations'[Len(operations) + 1] = op
    BY <2>2, <2>3
  <2>7. inFlight' = Len(operations) + 1
    BY <1>1 DEF Reserve
  <2>. QED
    BY <2>1, <2>2, <2>3, <2>4, <2>5, <2>6, <2>7 DEF OneOutstanding
<1>2. ASSUME NEW receipt \in Receipts, Return(receipt)
      PROVE  OneOutstanding'
  <2>1. inFlight \in 1 .. Len(operations) /\ operations \in Seq(Operation)
    BY <1>2 DEF Return, LedgerTypeOK
  <2>2. PICK op : op.state = "RETURNED"
                  /\ operations' = [operations EXCEPT ![inFlight] = op]
    BY <1>2 DEF Return, Settled
  <2>3. /\ Len(operations') = Len(operations)
        /\ \A i \in 1 .. Len(operations) :
              operations'[i] = IF i = inFlight THEN op ELSE operations[i]
    BY <2>1, <2>2
  <2>4. inFlight' = 0 /\ waiting' = FALSE
    BY <1>2 DEF Return
  <2>5. ASSUME NEW i \in 1 .. Len(operations)
        PROVE  operations'[i].state # "RESERVED"
    <3>1. CASE i = inFlight
      BY <2>2, <2>3, <3>1
    <3>2. CASE i # inFlight
      <4>1. operations'[i] = operations[i]
        BY <2>3, <3>2
      <4>. QED
        BY <3>2, <4>1 DEF OneOutstanding
    <3>. QED
      BY <3>1, <3>2
  <2>6. \A i \in 1 .. Len(operations') : i # 0
    BY <2>1, <2>3
  <2>. QED
    BY <2>3, <2>4, <2>5, <2>6 DEF OneOutstanding
<1>. QED
  BY <1>1, <1>2, QuietSteps DEF LedgerNext, OneOutstanding, ledger

LEMMA OneOutstandingInit == LedgerInit => OneOutstanding
  BY DEF LedgerInit, OneOutstanding

\* Store.reserve, Store.finish and OutcomeEngine.run agree on the operation in
\* flight: there is at most one, it is the newest, and all others have returned.
THEOREM OneAtATime == LedgerSpec => []OneOutstanding
  BY LedgerTypes, OneOutstandingInit, OneOutstandingStep, PTL DEF LedgerSpec

LEMMA HistoryStep ==
  ASSUME LedgerTypeOK, OneOutstanding, [LedgerNext]_ledgerVars
  PROVE  HistoryIsKept
<1>1. ASSUME NEW role \in Roles, Reserve(role)
      PROVE  HistoryIsKept
  <2>1. inFlight = 0
    BY <1>1, Admitted DEF Reserve
  <2>2. PICK op : operations' = Append(operations, op)
    BY <1>1 DEF Reserve
  <2>3. operations \in Seq(Operation)
    BY DEF LedgerTypeOK
  <2>. QED
    BY <2>1, <2>2, <2>3 DEF HistoryIsKept
<1>2. ASSUME NEW receipt \in Receipts, Return(receipt)
      PROVE  HistoryIsKept
  <2>1. inFlight \in 1 .. Len(operations) /\ operations \in Seq(Operation)
    BY <1>2 DEF Return, LedgerTypeOK
  <2>2. PICK op : op.state = "RETURNED"
                  /\ operations' = [operations EXCEPT ![inFlight] = op]
    BY <1>2 DEF Return, Settled
  <2>3. waiting
    BY <1>2 DEF Return
  <2>. QED
    BY <2>1, <2>2, <2>3 DEF HistoryIsKept
<1>. QED
  BY <1>1, <1>2, QuietSteps DEF LedgerNext, HistoryIsKept, ledger, LedgerTypeOK

\* No step of a mission rewrites or loses an operation it reserved, and one
\* abandoned by a crash or an error stays in flight for ever (Store.finish,
\* OutcomeEngine.run).
THEOREM HistoryKept == LedgerSpec => HistoryIsAppendOnly
  BY LedgerTypes, OneAtATime, HistoryStep, PTL DEF LedgerSpec, HistoryIsAppendOnly
-----------------------------------------------------------------------------
\* Calls and money.

LEMMA CallsStep ==
  ASSUME LedgerTypeOK, CallsWithinCaps, [LedgerNext]_ledgerVars
  PROVE  CallsWithinCaps'
<1>1. ASSUME NEW role \in Roles, Reserve(role)
      PROVE  CallsWithinCaps'
  <2>1. calls[role] < Cap(role)
    <3>1. \A r \in Roles : Cap(r) \in Nat
      BY ContractFields DEF Cap, Roles
    <3>. QED
      BY <1>1, <3>1, Admitted DEF Reserve, CapReached, LedgerTypeOK
  <2>2. \A r \in Roles : calls'[r] = IF r = role THEN calls[r] + 1 ELSE calls[r]
    BY <1>1 DEF Reserve, Charged, LedgerTypeOK
  <2>3. \A r \in Roles : Cap(r)' = Cap(r) /\ Cap(r) \in Nat
    BY <1>1, ContractFields DEF Reserve, Cap, Roles
  <2>4. \A r \in Roles : calls[r] \in Nat
    BY DEF LedgerTypeOK
  <2>. QED
    BY <2>1, <2>2, <2>3, <2>4 DEF CallsWithinCaps
<1>2. ASSUME NEW receipt \in Receipts, Return(receipt)
      PROVE  CallsWithinCaps'
  BY <1>2 DEF Return, CallsWithinCaps, Cap
<1>. QED
  BY <1>1, <1>2, QuietSteps DEF LedgerNext, CallsWithinCaps, Cap, ledger

LEMMA CallsInit == LedgerInit => CallsWithinCaps
<1>. SUFFICES ASSUME LedgerInit PROVE CallsWithinCaps
  OBVIOUS
<1>1. \A r \in Roles : Cap(r) \in Nat
  BY LedgerTypeInit, ContractFields DEF Cap, Roles
<1>. QED
  BY <1>1 DEF LedgerInit, CallsWithinCaps

\* No sequence of crashes, resumes and reviews makes a role run more often than
\* its contract allows (Store.reserve charges before the call is made).
THEOREM CallsStayWithinCaps == LedgerSpec => []CallsWithinCaps
  BY LedgerTypes, CallsInit, CallsStep, PTL DEF LedgerSpec

LEMMA KnownStep ==
  ASSUME LedgerTypeOK, KnownIsCovered, [LedgerNext]_ledgerVars
  PROVE  KnownIsCovered'
<1>1. ASSUME NEW role \in Roles, Reserve(role)
      PROVE  KnownIsCovered'
  <2>1. inFlight = 0
    BY <1>1, Admitted DEF Reserve
  <2>2. operations'[inFlight'].reserved = contract.reserveUsd[role]
    <3>1. operations \in Seq(Operation)
      BY DEF LedgerTypeOK
    <3>. QED
      BY <1>1, <3>1 DEF Reserve
  <2>3. OrZero(contract.reserveUsd[role]) \in Nat
    BY ContractFields, OrZeroIsMoney
  <2>4. OrZero(operations'[inFlight'].reserved) = OrZero(contract.reserveUsd[role])
    BY <2>2
  <2>5. known <= committed
    BY <2>1 DEF KnownIsCovered, LedgerTypeOK, Money
  <2>6. committed' = committed + OrZero(contract.reserveUsd[role]) /\ known' = known
    BY <1>1 DEF Reserve, CommittedWith
  <2>7. inFlight' # 0
    BY <1>1 DEF Reserve, LedgerTypeOK
  <2>8. (known + OrZero(operations[inFlight].reserved) <= committed)'
    BY <2>3, <2>4, <2>5, <2>6 DEF LedgerTypeOK, Money
  <2>. QED
    BY <2>7, <2>8 DEF KnownIsCovered
<1>2. ASSUME NEW receipt \in Receipts, Return(receipt)
      PROVE  KnownIsCovered'
  <2>. DEFINE reserved == OrZero(operations[inFlight].reserved)
  <2>1. inFlight \in 1 .. Len(operations)
    BY <1>2 DEF Return, LedgerTypeOK
  <2>2. /\ reserved \in Nat
        /\ Overrun(receipt) \in Nat
        /\ receipt.cost # Unpriced => receipt.cost <= reserved + Overrun(receipt)
    BY <2>1, OverrunBounds
  <2>3. known + reserved <= committed
    BY <2>1 DEF KnownIsCovered
  <2>4. committed' = committed + Overrun(receipt) /\ inFlight' = 0
    BY <1>2 DEF Return
  <2>5. known' <= known + reserved + Overrun(receipt)
    <3>1. CASE CostUnknown(receipt)
      BY <1>2, <2>2, <3>1 DEF Return, LedgerTypeOK, Money
    <3>2. CASE ~CostUnknown(receipt)
      <4>1. receipt.cost # Unpriced /\ receipt.cost \in Nat
        BY <3>2, ReceiptFields DEF CostUnknown, MoneyOrNull, Money
      <4>2. known' = known + receipt.cost
        BY <1>2, <3>2 DEF Return
      <4>. HIDE DEF reserved
      <4>. QED
        BY <2>2, <4>1, <4>2 DEF LedgerTypeOK, Money
    <3>. QED
      BY <3>1, <3>2
  <2>6. known' \in Nat
    BY <1>2, LedgerTypeStep DEF LedgerTypeOK, Money
  <2>. HIDE DEF reserved
  <2>7. known' <= committed'
    BY <2>2, <2>3, <2>4, <2>5, <2>6 DEF LedgerTypeOK, Money
  <2>. QED
    BY <2>4, <2>6, <2>7 DEF KnownIsCovered
<1>. QED
  BY <1>1, <1>2, QuietSteps DEF LedgerNext, KnownIsCovered, ledger

LEMMA KnownInit == LedgerInit => KnownIsCovered
  BY DEF LedgerInit, KnownIsCovered

\* The bill that was observed and the reservation still outstanding never exceed
\* committed_usd (Store.reserve adds the one, Store.finish the excess over it).
THEOREM KnownStaysCovered == LedgerSpec => []KnownIsCovered
  BY LedgerTypes, KnownInit, KnownStep, PTL DEF LedgerSpec

LEMMA CapStep ==
  ASSUME LedgerTypeOK, CapHoldsOrStopped, [LedgerNext]_ledgerVars
  PROVE  CapHoldsOrStopped'
<1>1. ASSUME NEW role \in Roles, Reserve(role)
      PROVE  CapHoldsOrStopped'
  <2>1. ~OverBudget(CommittedWith(role))
    BY <1>1, Admitted DEF Reserve
  <2>. QED
    BY <1>1, <2>1 DEF Reserve, OverBudget, CapHoldsOrStopped
<1>2. ASSUME NEW role \in Roles, Refuse(role)
      PROVE  CapHoldsOrStopped'
  <2>1. ~OverBudget(committed)
    BY <1>2 DEF Refuse, DispatchPhase, CapHoldsOrStopped
  <2>. QED
    BY <1>2, <2>1 DEF Refuse, OverBudget, CapHoldsOrStopped, ledger
<1>3. ASSUME NEW receipt \in Receipts, Return(receipt)
      PROVE  CapHoldsOrStopped'
  BY <1>3 DEF Return, PhaseAfter, OverBudget, CapHoldsOrStopped
<1>4. CASE Abandon
  BY <1>4 DEF Abandon, OverBudget, CapHoldsOrStopped, ledger
<1>5. CASE Advance
  <2>1. phase # "LIMIT_REACHED"
    BY <1>5 DEF Advance, MovePhase, Terminal
  <2>. QED
    BY <1>5, <2>1 DEF Advance, OverBudget, CapHoldsOrStopped, ledger
<1>. QED
  BY <1>1, <1>2, <1>3, <1>4, <1>5
  DEF LedgerNext, CrashWaiting, DeadlinePasses, ledgerVars, ledger, OverBudget,
      CapHoldsOrStopped

LEMMA CapInit == LedgerInit => CapHoldsOrStopped
<1>. SUFFICES ASSUME LedgerInit PROVE CapHoldsOrStopped
  OBVIOUS
<1>1. contract.maxUsd \in MoneyOrNull
  BY LedgerTypeInit, ContractFields
<1>. QED
  BY <1>1 DEF LedgerInit, CapHoldsOrStopped, OverBudget, MoneyOrNull, Money, Unpriced

\* A mission with a monetary cap commits more than the cap only through a bill
\* nobody could foresee, and then it has stopped, for good and with nothing
\* outstanding (Store.reserve, Store.finish).
THEOREM CapHolds == LedgerSpec => []CapHoldsOrStopped
  BY LedgerTypes, CapInit, CapStep, PTL DEF LedgerSpec

LEMMA UnknownStep ==
  ASSUME LedgerTypeOK, UnknownCostStops, [LedgerNext]_ledgerVars
  PROVE  UnknownCostStops'
<1>1. ASSUME NEW role \in Roles, Reserve(role)
      PROVE  UnknownCostStops'
  <2>1. ~Unreconciled
    BY <1>1, Admitted DEF Reserve
  <2>. QED
    BY <1>1, <2>1 DEF Reserve, Unreconciled, UnknownCostStops
<1>2. ASSUME NEW receipt \in Receipts, Return(receipt)
      PROVE  UnknownCostStops'
  <2>1. contract.stopOnUnknown => unknownCalls = 0
    BY <1>2 DEF Return, UnknownCostStops, LedgerTypeOK
  <2>. QED
    BY <1>2, <2>1 DEF Return, UnknownCostStops, LedgerTypeOK
<1>. QED
  BY <1>1, <1>2, QuietSteps DEF LedgerNext, UnknownCostStops, ledger

LEMMA UnknownInit == LedgerInit => UnknownCostStops
  BY DEF LedgerInit, UnknownCostStops

\* Under unknown_cost = "stop" no call is ever made after one whose cost stayed
\* unknown (Store.reserve: UNRECONCILED_COST).
THEOREM UnknownCostIsLast == LedgerSpec => []UnknownCostStops
  BY LedgerTypes, UnknownInit, UnknownStep, PTL DEF LedgerSpec
-----------------------------------------------------------------------------
(* Sums over a sequence of amounts. *)

\* A set of naturals that is not empty has a least element.
LEMMA LeastNatural ==
  ASSUME NEW T \in SUBSET Nat, T # {}
  PROVE  \E n \in T : \A m \in T : n <= m
<1>1. PICK n \in T : \A m \in T : <<m, n>> \notin OpToRel(<, Nat)
  BY Zenon, NatLessThanWellFounded, WFMin
<1>2. \A m \in T : ~(m < n)
  BY Zenon, <1>1 DEF OpToRel
<1>. QED
  BY <1>2

\* Max is what its name says of positions, and of two amounts.
LEMMA MaxPosition ==
  ASSUME NEW n \in Nat, NEW s \in SUBSET (1 .. n), s # {}
  PROVE  Max(s) \in s /\ \A i \in s : i <= Max(s)
<1>. DEFINE T == {n - i : i \in s}
<1>1. T \in SUBSET Nat /\ T # {}
  <2>1. \A i \in s : n - i \in Nat
    OBVIOUS
  <2>. QED
    BY <2>1
<1>2. PICK t \in T : \A u \in T : t <= u
  BY <1>1, LeastNatural
<1>3. PICK x \in s : t = n - x
  OBVIOUS
<1>4. ASSUME NEW i \in s PROVE x >= i
  <2>1. n - i \in T /\ i \in Nat /\ x \in Nat
    OBVIOUS
  <2>2. n - x <= n - i
    BY <1>2, <1>3, <2>1
  <2>. QED
    BY <2>1, <2>2
<1>5. \E y \in s : \A i \in s : y >= i
  BY <1>4
<1>6. Max(s) \in s /\ \A i \in s : Max(s) >= i
  BY <1>5 DEF Max
<1>. QED
  BY <1>6

LEMMA MaxOfTwo ==
  ASSUME NEW a \in Nat, NEW b \in Nat
  PROVE  Max({a, b}) = IF a < b THEN b ELSE a
<1>1. \E y \in {a, b} : \A i \in {a, b} : y >= i
  OBVIOUS
<1>2. Max({a, b}) \in {a, b} /\ \A i \in {a, b} : Max({a, b}) >= i
  BY <1>1 DEF Max
<1>. QED
  BY <1>2

\* The function by which FoldLeft sums the first n amounts, last one first.
IsFold(a, n, it) ==
    it = [s \in SUBSET (1 .. n) |->
             IF s = {} THEN 0 ELSE it[s \ {Max(s)}] + a[Max(s)]]

LEMMA FoldExists ==
  ASSUME NEW a, NEW n \in Nat
  PROVE  \E it : IsFold(a, n, it)
<1>. DEFINE T == {m \in Nat : ~ \E it : IsFold(a, m, it)}
<1>. SUFFICES ASSUME T # {} PROVE FALSE
  OBVIOUS
<1>1. PICK m \in T : \A k \in T : m <= k
  BY LeastNatural
<1>2. m # 0
  <2>. DEFINE it == [s \in SUBSET (1 .. 0) |-> 0]
  <2>1. \A s \in SUBSET (1 .. 0) : s = {}
    OBVIOUS
  <2>2. IsFold(a, 0, it)
    BY <2>1 DEF IsFold
  <2>. QED
    BY <2>2
<1>3. m - 1 \in Nat /\ m - 1 \notin T
  BY <1>1, <1>2
<1>4. PICK it : IsFold(a, m - 1, it)
  BY <1>3
<1>. DEFINE jt == [s \in SUBSET (1 .. m) |->
                      IF m \in s THEN it[s \ {m}] + a[m] ELSE it[s]]
<1>5. ASSUME NEW s \in SUBSET (1 .. m)
      PROVE  jt[s] = IF s = {} THEN 0 ELSE jt[s \ {Max(s)}] + a[Max(s)]
  <2>1. CASE m \in s
    <3>1. Max(s) = m
      <4>1. Max(s) \in s /\ \A i \in s : i <= Max(s)
        BY <2>1, MaxPosition
      <4>2. Max(s) \in 1 .. m /\ m <= Max(s)
        BY <2>1, <4>1
      <4>3. m \in Nat
        OBVIOUS
      <4>. HIDE DEF T
      <4>. QED
        BY <4>2, <4>3
    <3>2. s \ {m} \in SUBSET (1 .. m) /\ m \notin s \ {m}
      OBVIOUS
    <3>3. jt[s \ {m}] = it[s \ {m}]
      BY <3>2
    <3>. QED
      BY <2>1, <3>1, <3>3
  <2>2. CASE m \notin s
    <3>1. s \in SUBSET (1 .. m - 1)
      BY <2>2
    <3>2. it[s] = IF s = {} THEN 0 ELSE it[s \ {Max(s)}] + a[Max(s)]
      BY <1>4, <3>1 DEF IsFold
    <3>3. s \ {Max(s)} \in SUBSET (1 .. m) /\ m \notin s \ {Max(s)}
      BY <2>2
    <3>. QED
      BY <2>2, <3>2, <3>3
  <2>. QED
    BY <2>1, <2>2
<1>6. IsFold(a, m, jt)
  <2>. DEFINE kt == [s \in SUBSET (1 .. m) |->
                        IF s = {} THEN 0 ELSE jt[s \ {Max(s)}] + a[Max(s)]]
  <2>1. \A s \in SUBSET (1 .. m) : jt[s] = kt[s]
    BY <1>5
  <2>2. jt = kt
    BY <2>1
  <2>. HIDE DEF jt
  <2>. QED
    BY <2>2 DEF IsFold
<1>. QED
  BY <1>6

LEMMA FoldPrefix ==
  ASSUME NEW a, NEW n \in Nat, NEW it, IsFold(a, n, it)
  PROVE  /\ it[1 .. 0] = 0
         /\ \A k \in 1 .. n : it[1 .. k] = it[1 .. k - 1] + a[k]
<1>. DEFINE Value(s) == IF s = {} THEN 0 ELSE it[s \ {Max(s)}] + a[Max(s)]
<1>1. \A s \in SUBSET (1 .. n) : it[s] = Value(s)
  BY DEF IsFold
<1>2. 1 .. 0 = {} /\ 1 .. 0 \in SUBSET (1 .. n)
  OBVIOUS
<1>3. ASSUME NEW k \in 1 .. n
      PROVE  it[1 .. k] = it[1 .. k - 1] + a[k]
  <2>1. 1 .. k \in SUBSET (1 .. n) /\ 1 .. k # {} /\ k \in 1 .. k
    OBVIOUS
  <2>2. Max(1 .. k) = k
    <3>1. Max(1 .. k) \in 1 .. k /\ k <= Max(1 .. k)
      BY <2>1, MaxPosition
    <3>. QED
      BY <3>1
  <2>3. (1 .. k) \ {k} = 1 .. k - 1
    OBVIOUS
  <2>. QED
    BY <1>1, <2>1, <2>2, <2>3
<1>. QED
  BY <1>1, <1>2, <1>3

\* The sum of the first amounts depends on nothing else.
LEMMA FoldAgrees ==
  ASSUME NEW a, NEW n \in Nat, NEW it, IsFold(a, n, it),
         NEW b, NEW m \in Nat, NEW jt, IsFold(b, m, jt),
         NEW k \in Nat, k <= n, k <= m, \A i \in 1 .. k : a[i] = b[i]
  PROVE  it[1 .. k] = jt[1 .. k]
<1>. DEFINE T == {l \in 0 .. k : it[1 .. l] # jt[1 .. l]}
<1>. SUFFICES ASSUME T # {} PROVE FALSE
  OBVIOUS
<1>1. PICK l \in T : \A j \in T : l <= j
  <2>1. T \in SUBSET Nat
    OBVIOUS
  <2>. QED
    BY <2>1, LeastNatural
<1>2. l # 0
  BY FoldPrefix
<1>3. l \in 1 .. n /\ l \in 1 .. m /\ a[l] = b[l]
  BY <1>2
<1>4. it[1 .. l - 1] = jt[1 .. l - 1]
  <2>1. l - 1 \in 0 .. k /\ l - 1 \notin T
    BY <1>1, <1>2
  <2>. QED
    BY <2>1
<1>5. it[1 .. l] = it[1 .. l - 1] + a[l] /\ jt[1 .. l] = jt[1 .. l - 1] + b[l]
  BY <1>3, FoldPrefix
<1>. QED
  BY <1>3, <1>4, <1>5

LEMMA TotalIsFold ==
  ASSUME NEW a, NEW n \in Nat, DOMAIN a = 1 .. n
  PROVE  \E it : IsFold(a, n, it) /\ Total(a) = it[1 .. n]
<1>. DEFINE jt == CHOOSE it : IsFold(a, n, it)
<1>1. IsFold(a, n, jt)
  BY FoldExists
<1>2. Total(a) = jt[1 .. n]
  BY DEF Total, FoldLeft, MapThenFoldSet, IsFold
<1>. QED
  BY <1>1, <1>2

LEMMA TotalOfNone ==
  ASSUME NEW a, DOMAIN a = 1 .. 0
  PROVE  Total(a) = 0
  BY TotalIsFold, FoldPrefix

\* One more amount adds to the sum of those before it.
LEMMA TotalOfOneMore ==
  ASSUME NEW n \in Nat, NEW a, DOMAIN a = 1 .. n + 1, NEW b, DOMAIN b = 1 .. n,
         \A i \in 1 .. n : a[i] = b[i]
  PROVE  Total(a) = Total(b) + a[n + 1]
<1>1. PICK it : IsFold(a, n + 1, it) /\ Total(a) = it[1 .. n + 1]
  BY TotalIsFold
<1>2. PICK jt : IsFold(b, n, jt) /\ Total(b) = jt[1 .. n]
  BY TotalIsFold
<1>3. it[1 .. n] = jt[1 .. n]
  BY <1>1, <1>2, FoldAgrees
<1>4. it[1 .. n + 1] = it[1 .. n] + a[n + 1]
  <2>1. n + 1 \in 1 .. n + 1 /\ (n + 1) - 1 = n
    OBVIOUS
  <2>. QED
    BY <1>1, <2>1, FoldPrefix
<1>. QED
  BY <1>1, <1>2, <1>3, <1>4

LEMMA TotalIsNatural ==
  ASSUME NEW n \in Nat, NEW a \in [1 .. n -> Nat]
  PROVE  Total(a) \in Nat
<1>1. PICK it : IsFold(a, n, it) /\ Total(a) = it[1 .. n]
  BY TotalIsFold
<1>2. it[1 .. 0] = 0 /\ \A k \in 1 .. n : it[1 .. k] = it[1 .. k - 1] + a[k]
  <2>1. IsFold(a, n, it)
    BY <1>1
  <2>2. it[1 .. 0] = 0
    BY <2>1, FoldPrefix
  <2>3. \A k \in 1 .. n : it[1 .. k] = it[1 .. k - 1] + a[k]
    BY <2>1, FoldPrefix
  <2>. QED
    BY <2>2, <2>3
<1>. DEFINE T == {k \in 0 .. n : it[1 .. k] \notin Nat}
<1>. SUFFICES ASSUME T # {} PROVE FALSE
  BY <1>1
<1>3. PICK k \in T : \A j \in T : k <= j
  <2>1. T \in SUBSET Nat
    OBVIOUS
  <2>. QED
    BY <2>1, LeastNatural
<1>4. k # 0
  BY <1>2
<1>5. k - 1 \in 0 .. n /\ k - 1 \notin T
  BY <1>3, <1>4
<1>6. k \in 1 .. n /\ a[k] \in Nat
  BY <1>4
<1>. QED
  BY <1>2, <1>5, <1>6

\* When only the last amount changes, so does the sum, by the difference.
LEMMA TotalOfLastChanged ==
  ASSUME NEW n \in Nat \ {0}, NEW a \in [1 .. n -> Nat], NEW b \in [1 .. n -> Nat],
         \A i \in 1 .. n - 1 : a[i] = b[i]
  PROVE  Total(b) = Total(a) + (b[n] - a[n])
<1>. DEFINE c == [i \in 1 .. n - 1 |-> a[i]]
<1>1. n - 1 \in Nat /\ (n - 1) + 1 = n /\ n \in 1 .. n
  OBVIOUS
<1>2. DOMAIN c = 1 .. n - 1 /\ DOMAIN a = 1 .. n /\ DOMAIN b = 1 .. n
  OBVIOUS
<1>3. \A i \in 1 .. n - 1 : a[i] = c[i] /\ b[i] = c[i]
  OBVIOUS
<1>4. c \in [1 .. n - 1 -> Nat]
  OBVIOUS
<1>5. Total(c) \in Nat
  BY <1>1, <1>4, TotalIsNatural
<1>. HIDE DEF c
<1>6. Total(a) = Total(c) + a[n] /\ Total(b) = Total(c) + b[n]
  BY <1>1, <1>2, <1>3, TotalOfOneMore
<1>7. a[n] \in Nat /\ b[n] \in Nat
  BY <1>1
<1>. QED
  BY <1>5, <1>6, <1>7
-----------------------------------------------------------------------------
(* The totals and the list of operations. *)

\* An operation without a bill yet is one that has not returned; this makes
\* LedgerAddsUp inductive, with OneOutstanding.
ReservedUnbilled ==
    \A i \in DOMAIN operations :
        operations[i].state = "RESERVED" => operations[i].observed = Unpriced

AuditInv == OneOutstanding /\ ReservedUnbilled /\ LedgerAddsUp

\* The amounts that are added up are naturals, one for each operation.
LEMMA AmountTypes ==
  ASSUME LedgerTypeOK
  PROVE  /\ operations \in Seq(Operation) /\ Len(operations) \in Nat
         /\ Worst \in [1 .. Len(operations) -> Nat]
         /\ Bills \in [1 .. Len(operations) -> Nat]
         /\ \A role \in Roles : CallsOf(role) \in [1 .. Len(operations) -> Nat]
<1>1. /\ operations \in Seq(Operation) /\ Len(operations) \in Nat
      /\ DOMAIN operations = 1 .. Len(operations)
  BY DEF LedgerTypeOK
<1>2. ASSUME NEW i \in 1 .. Len(operations)
      PROVE  /\ OrZero(operations[i].reserved) \in Nat
             /\ OrZero(operations[i].observed) \in Nat
             /\ Max({OrZero(operations[i].reserved), OrZero(operations[i].observed)}) \in Nat
  <2>1. operations[i] \in Operation
    BY <1>1
  <2>2. /\ OrZero(operations[i].reserved) \in Nat
        /\ OrZero(operations[i].observed) \in Nat
    BY <2>1, OrZeroIsMoney DEF Operation
  <2>. QED
    BY <2>2, MaxOfTwo
<1>. QED
  BY <1>1, <1>2 DEF Worst, Bills, CallsOf

\* What Store.reserve adds to the list is what it adds to the totals.
LEMMA AddsUpReserve ==
  ASSUME LedgerTypeOK, LedgerTypeOK', LedgerAddsUp, NEW role \in Roles, Reserve(role)
  PROVE  LedgerAddsUp'
<1>. DEFINE n == Len(operations)
            op == [role |-> role, state |-> "RESERVED",
                   reserved |-> contract.reserveUsd[role],
                   observed |-> Unpriced, status |-> "UNKNOWN"]
<1>1. n \in Nat /\ operations' = Append(operations, op) /\ operations \in Seq(Operation)
  BY DEF Reserve, LedgerTypeOK
<1>2. /\ DOMAIN operations = 1 .. n /\ DOMAIN operations' = 1 .. n + 1
      /\ operations'[n + 1] = op
      /\ \A i \in 1 .. n : operations'[i] = operations[i]
  BY <1>1
<1>3. /\ op.role = role /\ op.reserved = contract.reserveUsd[role]
      /\ op.observed = Unpriced /\ op.state = "RESERVED"
  OBVIOUS
<1>4. OrZero(op.observed) = 0 /\ OrZero(op.reserved) \in Nat
  BY <1>3, ContractFields, OrZeroIsMoney DEF OrZero
<1>. HIDE DEF op, n
<1>5. /\ DOMAIN Worst = 1 .. n /\ DOMAIN Worst' = 1 .. n + 1
      /\ DOMAIN Bills = 1 .. n /\ DOMAIN Bills' = 1 .. n + 1
      /\ \A r \in Roles : DOMAIN CallsOf(r) = 1 .. n /\ DOMAIN CallsOf(r)' = 1 .. n + 1
  BY <1>2 DEF Worst, Bills, CallsOf
<1>6. /\ \A i \in 1 .. n : Worst'[i] = Worst[i] /\ Bills'[i] = Bills[i]
      /\ \A r \in Roles : \A i \in 1 .. n : CallsOf(r)'[i] = CallsOf(r)[i]
  <2>1. ASSUME NEW i \in 1 .. n
        PROVE  /\ i \in DOMAIN operations /\ i \in DOMAIN operations'
               /\ operations'[i] = operations[i]
    BY <1>1, <1>2
  <2>2. ASSUME NEW i \in 1 .. n
        PROVE  Worst'[i] = Worst[i] /\ Bills'[i] = Bills[i]
    BY <2>1 DEF Worst, Bills
  <2>3. ASSUME NEW r \in Roles, NEW i \in 1 .. n
        PROVE  CallsOf(r)'[i] = CallsOf(r)[i]
    BY <2>1 DEF CallsOf
  <2>. QED
    BY <2>2, <2>3
<1>7. /\ Worst'[n + 1] = OrZero(op.reserved) /\ Bills'[n + 1] = 0
      /\ \A r \in Roles : CallsOf(r)'[n + 1] = IF r = role THEN 1 ELSE 0
  <2>1. n + 1 \in 1 .. n + 1
    BY <1>1
  <2>2. Max({OrZero(op.reserved), OrZero(op.observed)}) = OrZero(op.reserved)
    BY <1>4, MaxOfTwo
  <2>. QED
    BY <1>2, <1>3, <1>4, <2>1, <2>2 DEF Worst, Bills, CallsOf
<1>8. /\ Total(Worst') = Total(Worst) + OrZero(op.reserved)
      /\ Total(Bills') = Total(Bills) + 0
  BY <1>1, <1>5, <1>6, <1>7, TotalOfOneMore
<1>9. \A r \in Roles : Total(CallsOf(r)') = Total(CallsOf(r)) + IF r = role THEN 1 ELSE 0
  BY <1>1, <1>5, <1>6, <1>7, TotalOfOneMore
<1>10. committed' = Total(Worst')
  BY <1>3, <1>8 DEF Reserve, CommittedWith, LedgerAddsUp
<1>11. ASSUME NEW r \in Roles
       PROVE  calls'[r] = Total(CallsOf(r)')
  <2>1. calls'[r] = IF r = role THEN calls[r] + 1 ELSE calls[r]
    BY DEF Reserve, Charged, LedgerTypeOK
  <2>2. calls[r] = Total(CallsOf(r)) /\ calls[r] \in Nat
    BY DEF LedgerAddsUp, LedgerTypeOK
  <2>. QED
    BY <1>9, <2>1, <2>2
<1>12. ASSUME unknownCalls' = 0
       PROVE  /\ known' = Total(Bills')
              /\ \A i \in DOMAIN operations' : operations'[i].state = "RETURNED" =>
                     operations'[i].status \in {"MEASURED", "DERIVED"}
  <2>1. unknownCalls = 0 /\ known' = known /\ known \in Nat
    BY <1>12 DEF Reserve, LedgerTypeOK, Money
  <2>2. known = Total(Bills)
    BY <2>1 DEF LedgerAddsUp
  <2>3. ASSUME NEW i \in DOMAIN operations', operations'[i].state = "RETURNED"
        PROVE  operations'[i].status \in {"MEASURED", "DERIVED"}
    <3>1. i # n + 1
      BY <1>2, <1>3, <2>3
    <3>2. i \in 1 .. n
      BY <1>1, <1>2, <3>1
    <3>. QED
      BY <1>2, <2>1, <2>3, <3>2 DEF LedgerAddsUp
  <2>. QED
    BY <1>8, <2>1, <2>2, <2>3
<1>. QED
  BY <1>10, <1>11, <1>12 DEF LedgerAddsUp

\* What Store.finish settles is the last operation, and what it adds to the
\* totals is the excess of its bill over its reservation, and its bill.
LEMMA AddsUpReturn ==
  ASSUME LedgerTypeOK, LedgerTypeOK', AuditInv, NEW receipt \in Receipts, Return(receipt)
  PROVE  LedgerAddsUp'
<1>. DEFINE n == Len(operations)
            old == operations[n]
            op == Settled(old, receipt)
            r == OrZero(old.reserved)
            c == OrZero(receipt.cost)
<1>1. /\ inFlight = n /\ n \in Nat \ {0} /\ n \in 1 .. n
      /\ operations \in Seq(Operation) /\ old \in Operation
  BY DEF Return, LedgerTypeOK
<1>2. /\ DOMAIN operations = 1 .. n /\ DOMAIN operations' = 1 .. n
      /\ Len(operations') = n /\ operations'[n] = op
      /\ \A i \in 1 .. n - 1 : i \in 1 .. n /\ operations'[i] = operations[i]
  BY <1>1 DEF Return
<1>3. /\ op.role = old.role /\ op.reserved = old.reserved
      /\ op.observed = receipt.cost /\ op.status = receipt.status
  BY DEF Settled
<1>4. r \in Nat /\ c \in Nat /\ receipt.cost \in MoneyOrNull
  BY <1>1, ReceiptFields, OrZeroIsMoney DEF Operation
<1>5. OrZero(old.observed) = 0
  <2>1. old.state = "RESERVED"
    BY <1>1 DEF AuditInv, OneOutstanding
  <2>. QED
    BY <1>1, <1>2, <2>1 DEF AuditInv, ReservedUnbilled, OrZero
<1>6. Overrun(receipt) = IF r < c THEN c - r ELSE 0
  <2>1. c = IF receipt.cost = Unpriced THEN 0 ELSE receipt.cost
    BY DEF OrZero
  <2>2. Overrun(receipt) = IF receipt.cost # Unpriced /\ receipt.cost > r
                           THEN receipt.cost - r ELSE 0
    BY <1>1 DEF Overrun
  <2>. HIDE DEF r, c
  <2>. QED
    BY <1>4, <2>1, <2>2 DEF MoneyOrNull, Money, Unpriced
<1>7. /\ Worst \in [1 .. n -> Nat] /\ Bills \in [1 .. n -> Nat]
      /\ \A role \in Roles : CallsOf(role) \in [1 .. n -> Nat]
  BY AmountTypes
<1>8. /\ Worst' \in [1 .. n -> Nat] /\ Bills' \in [1 .. n -> Nat]
      /\ \A role \in Roles : CallsOf(role)' \in [1 .. n -> Nat]
  <2>1. LedgerTypeOK => /\ Worst \in [1 .. Len(operations) -> Nat]
                        /\ Bills \in [1 .. Len(operations) -> Nat]
                        /\ \A role \in Roles :
                               CallsOf(role) \in [1 .. Len(operations) -> Nat]
    BY AmountTypes
  <2>2. (LedgerTypeOK => /\ Worst \in [1 .. Len(operations) -> Nat]
                         /\ Bills \in [1 .. Len(operations) -> Nat]
                         /\ \A role \in Roles :
                                CallsOf(role) \in [1 .. Len(operations) -> Nat])'
    BY AmountTypes, PTL
  <2>. QED
    BY <1>2, <2>2
<1>9. /\ \A i \in 1 .. n - 1 : Worst'[i] = Worst[i] /\ Bills'[i] = Bills[i]
      /\ \A role \in Roles : \A i \in 1 .. n : CallsOf(role)'[i] = CallsOf(role)[i]
  <2>. HIDE DEF op, old
  <2>1. \A i \in 1 .. n : operations'[i].role = operations[i].role
    <3>1. op.role = operations[n].role
      BY <1>3 DEF old
    <3>. QED
      BY <1>1, <1>2, <3>1
  <2>. QED
    BY <1>2, <2>1 DEF Worst, Bills, CallsOf
<1>10. /\ Worst[n] = r /\ Worst'[n] = (IF r < c THEN c ELSE r)
       /\ Bills[n] = 0 /\ Bills'[n] = c
  <2>1. Max({r, OrZero(old.observed)}) = r /\ Max({r, c}) = IF r < c THEN c ELSE r
    BY <1>4, <1>5, MaxOfTwo
  <2>. QED
    BY <1>1, <1>2, <1>3, <1>5, <2>1 DEF Worst, Bills
<1>. HIDE DEF r, c, old, op
<1>11. /\ Total(Worst') = Total(Worst) + (Worst'[n] - Worst[n])
       /\ Total(Bills') = Total(Bills) + (Bills'[n] - Bills[n])
  BY <1>1, <1>7, <1>8, <1>9, TotalOfLastChanged
<1>12. ASSUME NEW role \in Roles
       PROVE  calls'[role] = Total(CallsOf(role)')
  <2>1. CallsOf(role)' = CallsOf(role)
    BY <1>7, <1>8, <1>9
  <2>. QED
    BY <2>1 DEF LedgerAddsUp, AuditInv, Return
<1>13. committed' = Total(Worst')
  <2>1. committed' = committed + Overrun(receipt)
    BY DEF Return
  <2>2. committed = Total(Worst) /\ committed \in Nat
    BY DEF AuditInv, LedgerAddsUp, LedgerTypeOK, Money
  <2>. QED
    BY <1>4, <1>6, <1>10, <1>11, <2>1, <2>2
<1>14. ASSUME unknownCalls' = 0
       PROVE  /\ known' = Total(Bills')
              /\ \A i \in DOMAIN operations' : operations'[i].state = "RETURNED" =>
                     operations'[i].status \in {"MEASURED", "DERIVED"}
  <2>1. unknownCalls = 0 /\ ~CostUnknown(receipt)
    BY <1>14 DEF Return, LedgerTypeOK
  <2>2. known' = known + receipt.cost /\ receipt.cost = c
    BY <2>1 DEF Return, CostUnknown, OrZero, c
  <2>3. known = Total(Bills) /\ known \in Nat
    BY <2>1 DEF AuditInv, LedgerAddsUp, LedgerTypeOK, Money
  <2>4. known' = Total(Bills')
    BY <1>4, <1>10, <1>11, <2>2, <2>3
  <2>5. ASSUME NEW i \in DOMAIN operations', operations'[i].state = "RETURNED"
        PROVE  operations'[i].status \in {"MEASURED", "DERIVED"}
    <3>1. CASE i = n
      BY <1>2, <1>3, <2>1, <3>1 DEF CostUnknown
    <3>2. CASE i # n
      <4>1. i \in 1 .. n - 1
        BY <1>1, <1>2, <3>2
      <4>. QED
        BY <1>2, <2>1, <2>5, <4>1 DEF AuditInv, LedgerAddsUp
    <3>. QED
      BY <3>1, <3>2
  <2>. QED
    BY <2>4, <2>5
<1>. QED
  BY <1>12, <1>13, <1>14 DEF LedgerAddsUp

LEMMA UnbilledStep ==
  ASSUME LedgerTypeOK, ReservedUnbilled, [LedgerNext]_ledgerVars
  PROVE  ReservedUnbilled'
<1>1. ASSUME NEW role \in Roles, Reserve(role)
      PROVE  ReservedUnbilled'
  <2>1. PICK op : op.observed = Unpriced /\ operations' = Append(operations, op)
    BY <1>1 DEF Reserve
  <2>2. operations \in Seq(Operation)
    BY DEF LedgerTypeOK
  <2>. QED
    BY <2>1, <2>2 DEF ReservedUnbilled
<1>2. ASSUME NEW receipt \in Receipts, Return(receipt)
      PROVE  ReservedUnbilled'
  <2>1. PICK op : op.state = "RETURNED"
                  /\ operations' = [operations EXCEPT ![inFlight] = op]
    BY <1>2 DEF Return, Settled
  <2>2. operations \in Seq(Operation)
    BY DEF LedgerTypeOK
  <2>. QED
    BY <2>1, <2>2 DEF ReservedUnbilled
<1>. QED
  BY <1>1, <1>2, QuietSteps DEF LedgerNext, ReservedUnbilled, ledger

LEMMA AuditInit == LedgerInit => AuditInv
<1>. SUFFICES ASSUME LedgerInit PROVE AuditInv
  OBVIOUS
<1>1. operations = <<>> /\ DOMAIN operations = 1 .. 0
  BY DEF LedgerInit
<1>2. /\ DOMAIN Worst = 1 .. 0 /\ DOMAIN Bills = 1 .. 0
      /\ \A role \in Roles : DOMAIN CallsOf(role) = 1 .. 0
  BY <1>1 DEF Worst, Bills, CallsOf
<1>3. /\ Total(Worst) = 0 /\ Total(Bills) = 0
      /\ \A role \in Roles : Total(CallsOf(role)) = 0
  BY <1>2, TotalOfNone
<1>4. \A i \in DOMAIN operations : FALSE
  BY <1>1
<1>. QED
  BY <1>3, <1>4, OneOutstandingInit
  DEF LedgerInit, AuditInv, ReservedUnbilled, LedgerAddsUp

LEMMA AuditStep ==
  ASSUME LedgerTypeOK, LedgerTypeOK', AuditInv, [LedgerNext]_ledgerVars
  PROVE  AuditInv'
<1>1. OneOutstanding' /\ ReservedUnbilled'
  BY OneOutstandingStep, UnbilledStep DEF AuditInv
<1>2. ASSUME NEW role \in Roles, Reserve(role)
      PROVE  LedgerAddsUp'
  BY <1>2, AddsUpReserve DEF AuditInv
<1>3. ASSUME NEW receipt \in Receipts, Return(receipt)
      PROVE  LedgerAddsUp'
  BY <1>3, AddsUpReturn
<1>4. ASSUME UNCHANGED ledger
      PROVE  LedgerAddsUp'
  BY <1>4 DEF ledger, AuditInv, LedgerAddsUp, Worst, Bills, CallsOf
<1>5. LedgerAddsUp'
  BY <1>2, <1>3, <1>4, QuietSteps DEF LedgerNext
<1>. QED
  BY <1>1, <1>5 DEF AuditInv

\* The running totals of the ledger are what its list of operations adds up to,
\* for every sequence of calls, bills, errors, crashes and resumes; they are
\* updated in Store.reserve and Store.finish and never recomputed.
THEOREM TotalsAreKept == LedgerSpec => []LedgerAddsUp
<1>1. AuditInv => LedgerAddsUp
  BY DEF AuditInv
<1>. QED
  BY <1>1, LedgerTypes, AuditInit, AuditStep, PTL DEF LedgerSpec
-----------------------------------------------------------------------------
(* The session. *)

(* Where the controller is tells which phase the row is in and which calls  *)
(* are out: what one step leaves is what the next one relies on.            *)

Busy == {"copying", "verifying", "prepared", "working", "received", "judging", "decided"}
Sealing == {"sealing", "delivering", "delivered", "exporting", "patched"}

InPlace ==
    /\ run.at \in {"creating", "copied"} => phase = "READY"
    /\ At("head") => phase \notin Terminal
    /\ At("copying") => phase \in {"VERIFY", "READY"}
    /\ At("verifying") => phase = "VERIFY"
    /\ At("prepared") \/ At("working") => phase = "READY"
    /\ At("received") => phase = "CANDIDATE_RECEIVED"
    /\ At("judging") => phase = "JUDGE"
    /\ At("decided") \/ At("escalating") => phase = "DECISION_RECEIVED"
    /\ At("publishing") => phase = "HANDOFF_PENDING"
    /\ At("accepted") => run.caller = "accept"
    /\ run.at \in Sealing /\ run.caller = "run" => phase = "SEAL"
    /\ run.caller = "accept" =>
          phase = "HUMAN_REQUIRED" /\ run.at \in {"accepted"} \cup Sealing
    /\ run.at \in Busy => run.opsLeft # 0

\* Who waits for a call, and who an orphaned worker can belong to.
InCall ==
    /\ inFlight # 0 => run.at \in {"working", "judging", "idle"}
    /\ waiting <=> run.at \in {"working", "judging"}
    /\ At("working") => inFlight # 0 /\ operations[inFlight].role = "worker"
    /\ At("judging") => inFlight # 0 /\ operations[inFlight].role \in Judges
    /\ "group" \in run.workers =>
          run.at \in {"working", "idle"} /\ phase = "READY" /\ inFlight # 0

\* The evidence is of this candidate at this revision.
Fresh == EvidenceCurrent /\ row.evidence.rev = row.revision
Passing == Fresh /\ row.evidence.status = "PASS"
AwaitsHuman == phase = "HUMAN_REQUIRED" /\ row.reason = "FINAL_ACCEPTANCE_REQUIRED"

\* What is reviewed was verified, and what is sealed or accepted passed.
EvidenceIsFresh ==
    /\ phase \in {"JUDGE", "DECISION_RECEIVED", "HANDOFF_PENDING", "DOT_HANDOFF"} => Fresh
    /\ phase \in {"SEAL", "VERIFIED_DONE"} \/ AwaitsHuman => Passing
    /\ AwaitsHuman => contract.humanFinal
    /\ run.caller = "accept" => AwaitsHuman

\* A handoff and its answer do not outlive their candidate.
NothingAsked == row.handoff = NoEvidence /\ row.supervisor = NoDecision
HandoffInv ==
    /\ HandoffIsCurrent
    /\ phase \in {"VERIFY", "JUDGE", "DECISION_RECEIVED", "HANDOFF_PENDING"}
          \/ run.at \in {"creating", "copied"} => NothingAsked

\* Decisions are of this revision or an earlier one; those of this revision are
\* of a lower tier than the one asked next, and there are none before the review.
TiersInv ==
    /\ TiersClimb
    /\ \A i \in 1 .. Len(row.decisions) :
        LET d == row.decisions[i]
        IN  /\ d.rev <= row.revision
            /\ phase = "VERIFY" \/ run.at \in {"creating", "copied"} => d.rev # row.revision
            /\ (phase = "JUDGE" \/ At("decided")) /\ d.rev = row.revision =>
                  Rank[d.role] < Rank[row.nextRole]

\* delivery/ exists only once sealing has begun.  What is copied after the last
\* look at the snapshot is the candidate while nobody has edited the snapshot.
SealInv ==
    /\ disk.delivery # Absent =>
          /\ CompletionEvidence
          /\ phase \in {"SEAL", "VERIFIED_DONE", "BLOCKED", "LIMIT_REACHED",
                        "HUMAN_REQUIRED"}
    /\ run.at \in Sealing /\ contract.humanFinal => row.acceptance = row.evidence
    /\ ~late =>
          /\ run.at \in LateIn => disk.current = row.snapshot
          /\ run.at \in {"delivered", "exporting", "patched"} =>
                disk.delivery = row.snapshot
          /\ At("patched") => disk.patch = row.snapshot

\* delivery/ outlives a session that stops while sealing: nothing verifies then.
DoneInv ==
    phase = "VERIFIED_DONE" =>
        /\ row.output = row.snapshot
        /\ late \/ (disk.delivery = row.snapshot /\ disk.patch = row.snapshot)
        /\ contract.humanFinal => row.acceptance = row.evidence
        /\ inFlight = 0

\* DoneIsReviewed, of a session without a human as the last word.
Reviewed ==
    \/ row.supervisor = [action |-> "ACCEPT", evidence |-> row.evidence]
    \/ \E i \in 1 .. Len(row.decisions) :
          LET d == row.decisions[i]
          IN  /\ d.reply.choice = "ACCEPT" /\ d.reply.bound /\ d.reply.confident
              /\ d.rev = row.revision
ReviewInv ==
    phase \in {"SEAL", "VERIFIED_DONE"} /\ contract.semantic /\ ~contract.humanFinal =>
        Reviewed

IInv ==
    /\ TypeOK /\ OneOutstanding
    /\ InPlace /\ InCall
    /\ LocalStaysLocal
    /\ EvidenceIsFresh /\ HandoffInv /\ TiersInv
    /\ SealInv /\ DoneInv /\ ReviewInv
-----------------------------------------------------------------------------
(* What the saves and the moves of the controller do to its records. *)

\* The parts of the row that one save after another leaves alone.
SameCandidate(r) == /\ r.snapshot = row.snapshot
                    /\ r.revision = row.revision
                    /\ r.evidence = row.evidence
SameReview(r) == r.nextRole = row.nextRole /\ r.decisions = row.decisions
SameHandoff(r) == r.handoff = row.handoff /\ r.supervisor = row.supervisor
SameResult(r) == r.acceptance = row.acceptance /\ r.output = row.output
Same(r) == SameCandidate(r) /\ SameReview(r) /\ SameHandoff(r) /\ SameResult(r)

\* The fields of the row.
LEMMA RowFields ==
  ASSUME row \in Row
  PROVE  /\ row.reason \in Reasons
         /\ row.snapshot \in Contents
         /\ row.revision \in Nat
         /\ row.noProgress \in Nat
         /\ row.evidence \in Evidence \cup {NoEvidence}
         /\ row.nextRole \in Judges
         /\ row.decisions \in Seq([role : Judges, reply : Reply, rev : Nat])
         /\ row.handoff \in Evidence \cup {NoEvidence}
         /\ row.supervisor \in [action : Actions, evidence : Evidence] \cup {NoDecision}
         /\ row.acceptance \in Evidence \cup {NoEvidence}
         /\ row.output \in Contents \cup {Absent}
  BY DEF Row

\* A save that records a reason and nothing else.
LEMMA ReasonOnly ==
  ASSUME row \in Row, NEW why \in Reasons,
         NEW r, r = [row EXCEPT !.reason = why]
  PROVE  r \in Row /\ Same(r) /\ r.reason = why
<1>1. [row EXCEPT !.reason = why] \in Row
  BY Zenon DEF Row
<1>. QED
  BY <1>1 DEF Row, Same, SameCandidate, SameReview, SameHandoff, SameResult

\* A save that names the next tier.
AskNext(s, role, why) == [s EXCEPT !.nextRole = role, !.reason = why]
LEMMA NextRoleOnly ==
  ASSUME row \in Row, NEW role \in Judges, NEW why \in Reasons,
         NEW r, r = AskNext(row, role, why)
  PROVE  /\ r \in Row
         /\ SameCandidate(r) /\ SameHandoff(r) /\ SameResult(r)
         /\ r.decisions = row.decisions
         /\ r.nextRole = role /\ r.reason = why
<1>1. r \in Row
  BY Zenon DEF Row, AskNext
<1>. QED
  BY <1>1, Zenon DEF Row, AskNext, SameCandidate, SameHandoff, SameResult

\* The save of a completed verification.
VerifiedAs(why, e, role) == [row EXCEPT !.reason = why, !.evidence = e, !.nextRole = role]
LEMMA VerifiedRow ==
  ASSUME row \in Row, NEW why \in Reasons, NEW e \in Evidence, NEW role \in Judges,
         NEW r, r = VerifiedAs(why, e, role)
  PROVE  /\ r \in Row
         /\ SameHandoff(r) /\ SameResult(r)
         /\ r.snapshot = row.snapshot /\ r.revision = row.revision
         /\ r.decisions = row.decisions
         /\ r.evidence = e /\ r.nextRole = role /\ r.reason = why
<1>1. r \in Row
  BY Zenon DEF Row, VerifiedAs
<1>. QED
  BY <1>1, Zenon DEF Row, VerifiedAs, SameHandoff, SameResult

\* The save of a new candidate.
AdoptedAs(why, n, after, m) ==
    [Superseded(row) EXCEPT !.reason = why, !.noProgress = n,
                            !.snapshot = after, !.revision = m]
LEMMA AdoptedRow ==
  ASSUME row \in Row, NEW why \in Reasons, NEW after \in Contents,
         NEW n \in Nat, NEW m \in Nat,
         NEW r, r = AdoptedAs(why, n, after, m)
  PROVE  /\ r \in Row
         /\ SameReview(r) /\ SameResult(r)
         /\ r.snapshot = after /\ r.revision = m /\ r.evidence = row.evidence
         /\ r.handoff = NoEvidence /\ r.supervisor = NoDecision
         /\ r.reason = why
<1>. DEFINE s == [row EXCEPT !.handoff = NoEvidence, !.supervisor = NoDecision]
<1>1. s \in Row
  BY Zenon DEF Row
<1>2. /\ s.handoff = NoEvidence /\ s.supervisor = NoDecision
      /\ s.evidence = row.evidence /\ SameReview(s) /\ SameResult(s)
  BY Zenon DEF Row, SameReview, SameResult
<1>3. r = [s EXCEPT !.reason = why, !.noProgress = n, !.snapshot = after, !.revision = m]
  BY DEF Superseded, AdoptedAs
<1>. HIDE DEF s
<1>4. r \in Row
  BY <1>1, <1>3, Zenon DEF Row
<1>5. /\ r.snapshot = after /\ r.revision = m /\ r.reason = why
      /\ r.handoff = s.handoff /\ r.supervisor = s.supervisor
      /\ r.evidence = s.evidence
      /\ r.nextRole = s.nextRole /\ r.decisions = s.decisions
      /\ r.acceptance = s.acceptance /\ r.output = s.output
  BY <1>1, <1>3, Zenon DEF Row
<1>. QED
  BY <1>2, <1>4, <1>5, Zenon DEF SameReview, SameResult

\* The decision of the judge asked is appended to those before it.
Decided(reply) == [role |-> row.nextRole, reply |-> reply, rev |-> row.evidence.rev]
LEMMA DecidedRow ==
  ASSUME row \in Row, row.evidence \in Evidence, NEW reply \in Reply,
         NEW r, r = WithDecision(reply)
  PROVE  /\ r \in Row
         /\ SameCandidate(r) /\ SameHandoff(r) /\ SameResult(r)
         /\ r.decisions = Append(row.decisions, Decided(reply))
         /\ r.nextRole = row.nextRole /\ r.reason = row.reason
<1>1. Decided(reply) \in [role : Judges, reply : Reply, rev : Nat]
  BY RowFields DEF Decided, Evidence
<1>2. Append(row.decisions, Decided(reply))
          \in Seq([role : Judges, reply : Reply, rev : Nat])
  BY <1>1, RowFields
<1>. DEFINE ds == Append(row.decisions, Decided(reply))
<1>3. r = [row EXCEPT !.decisions = ds]
  BY DEF WithDecision, Decided
<1>. HIDE DEF ds
<1>4. r \in Row
  BY <1>2, <1>3, Zenon DEF Row, ds
<1>5. /\ SameCandidate(r) /\ SameHandoff(r) /\ SameResult(r)
      /\ r.decisions = ds
      /\ r.nextRole = row.nextRole /\ r.reason = row.reason
  BY <1>3, Zenon DEF Row, SameCandidate, SameHandoff, SameResult
<1>. QED
  BY <1>4, <1>5, Zenon DEF ds

\* ... with a reason, or with the tier that is asked next.
Because(s, why) == [s EXCEPT !.reason = why]
LEMMA DecidedReason ==
  ASSUME row \in Row, row.evidence \in Evidence, NEW reply \in Reply, NEW why \in Reasons,
         NEW r, r = Because(WithDecision(reply), why)
  PROVE  /\ r \in Row
         /\ SameCandidate(r) /\ SameHandoff(r) /\ SameResult(r)
         /\ r.decisions = Append(row.decisions, Decided(reply))
         /\ r.nextRole = row.nextRole /\ r.reason = why
<1>. DEFINE s == WithDecision(reply)
<1>0. r = [s EXCEPT !.reason = why]
  BY DEF Because
<1>1. /\ s \in Row
      /\ SameCandidate(s) /\ SameHandoff(s) /\ SameResult(s)
      /\ s.decisions = Append(row.decisions, Decided(reply))
      /\ s.nextRole = row.nextRole
  BY DecidedRow
<1>. HIDE DEF s
<1>2. r \in Row
  BY <1>0, <1>1, Zenon DEF Row
<1>3. /\ SameCandidate(r) /\ SameHandoff(r) /\ SameResult(r)
      /\ r.decisions = s.decisions /\ r.nextRole = s.nextRole /\ r.reason = why
  BY <1>0, <1>1, Zenon DEF Row, SameCandidate, SameHandoff, SameResult
<1>. QED
  BY <1>1, <1>2, <1>3, Zenon

LEMMA DecidedNext ==
  ASSUME row \in Row, row.evidence \in Evidence, NEW reply \in Reply,
         NEW role \in Judges, NEW why \in Reasons,
         NEW r, r = AskNext(WithDecision(reply), role, why)
  PROVE  /\ r \in Row
         /\ SameCandidate(r) /\ SameHandoff(r) /\ SameResult(r)
         /\ r.decisions = Append(row.decisions, Decided(reply))
         /\ r.nextRole = role /\ r.reason = why
<1>. DEFINE s == WithDecision(reply)
<1>0. r = [s EXCEPT !.nextRole = role, !.reason = why]
  BY DEF AskNext
<1>1. /\ s \in Row
      /\ SameCandidate(s) /\ SameHandoff(s) /\ SameResult(s)
      /\ s.decisions = Append(row.decisions, Decided(reply))
  BY DecidedRow
<1>. HIDE DEF s
<1>2. r \in Row
  BY <1>0, <1>1, Zenon DEF Row
<1>3. /\ SameCandidate(r) /\ SameHandoff(r) /\ SameResult(r)
      /\ r.decisions = s.decisions /\ r.nextRole = role /\ r.reason = why
  BY <1>0, <1>1, Zenon DEF Row, SameCandidate, SameHandoff, SameResult
<1>. QED
  BY <1>1, <1>2, <1>3, Zenon

\* The saves of a handoff, of its answer, of a human's acceptance and of the seal.
LEMMA PublishedRow ==
  ASSUME row \in Row,
         NEW r, r = [row EXCEPT !.handoff = row.evidence]
  PROVE  /\ r \in Row
         /\ SameCandidate(r) /\ SameReview(r) /\ SameResult(r)
         /\ r.handoff = row.evidence /\ r.supervisor = row.supervisor
         /\ r.reason = row.reason
<1>1. [row EXCEPT !.handoff = row.evidence] \in Row
  BY RowFields, Zenon DEF Row
<1>. QED
  BY <1>1, Zenon DEF Row, SameCandidate, SameReview, SameResult

AnsweredAs(why, answer) == [row EXCEPT !.reason = why, !.supervisor = answer]
LEMMA AnsweredRow ==
  ASSUME row \in Row, NEW why \in Reasons,
         NEW answer \in [action : Actions, evidence : Evidence],
         NEW r, r = AnsweredAs(why, answer)
  PROVE  /\ r \in Row
         /\ SameCandidate(r) /\ SameReview(r) /\ SameResult(r)
         /\ r.handoff = row.handoff /\ r.supervisor = answer
         /\ r.reason = why
<1>1. r \in Row
  BY Zenon DEF Row, AnsweredAs
<1>. QED
  BY <1>1, Zenon DEF Row, AnsweredAs, SameCandidate, SameReview, SameResult

LEMMA AcceptedRow ==
  ASSUME row \in Row,
         NEW r, r = [row EXCEPT !.acceptance = row.evidence]
  PROVE  /\ r \in Row
         /\ SameCandidate(r) /\ SameReview(r) /\ SameHandoff(r)
         /\ r.acceptance = row.evidence /\ r.output = row.output
         /\ r.reason = row.reason
<1>1. [row EXCEPT !.acceptance = row.evidence] \in Row
  BY RowFields, Zenon DEF Row
<1>. QED
  BY <1>1, Zenon DEF Row, SameCandidate, SameReview, SameHandoff

SealedAs(why) == [row EXCEPT !.output = row.snapshot, !.reason = why]
LEMMA SealedRow ==
  ASSUME row \in Row, NEW why \in Reasons,
         NEW r, r = SealedAs(why)
  PROVE  /\ r \in Row
         /\ SameCandidate(r) /\ SameReview(r) /\ SameHandoff(r)
         /\ r.acceptance = row.acceptance /\ r.output = row.snapshot
         /\ r.reason = why
<1>1. r \in Row
  BY RowFields, Zenon DEF Row, SealedAs
<1>. QED
  BY <1>1, Zenon DEF Row, SealedAs, SameCandidate, SameReview, SameHandoff

\* The process: a step that goes on to another place, ...
LEMMA GoesOn ==
  ASSUME run \in Run, NEW place \in RunPlaces \cup {"copied", "escalating"}, GoTo(place)
  PROVE  /\ run' \in Run /\ run'.at = place
         /\ run'.caller = run.caller /\ run'.workers = run.workers
         /\ run'.opsLeft = run.opsLeft
<1>1. run' \in Run
  BY Zenon DEF Run, GoTo
<1>. QED
  BY <1>1, Zenon DEF Run, GoTo

\* ... the end of an iteration of the loop, ...
LEMMA Loops ==
  ASSUME run \in Run, NEW p, NEW n \in {0, 1}, Loop(p, n), run.opsLeft # 0
  PROVE  IF p \in Terminal THEN run' = Ended
         ELSE /\ run' \in Run /\ run'.at = "head"
              /\ run'.caller = run.caller /\ run'.workers = run.workers
<1>. DEFINE left == IF run.opsLeft = NoLimit THEN NoLimit ELSE run.opsLeft - n
<1>1. CASE p \in Terminal
  BY <1>1, Zenon DEF Loop
<1>2. CASE p \notin Terminal
  <2>1. run' = [run EXCEPT !.at = "head", !.copied = Absent, !.opsLeft = left]
    BY <1>2, Zenon DEF Loop
  <2>2. run.opsLeft \in Nat \cup {NoLimit}
    BY DEF Run
  <2>3. left \in Nat \cup {NoLimit}
    BY <2>2 DEF NoLimit
  <2>. HIDE DEF left
  <2>4. run' \in Run
    BY <2>1, <2>3, Zenon DEF Run, RunPlaces
  <2>. QED
    BY <1>2, <2>1, <2>4, Zenon DEF Run
<1>. QED
  BY <1>1, <1>2

\* ... the start and the return of a worker, ...
LEMMA WorkerStarts ==
  ASSUME run \in Run, run' = [run EXCEPT !.at = "working", !.workers = @ \cup {"group"}]
  PROVE  /\ run' \in Run /\ run'.at = "working"
         /\ run'.caller = run.caller /\ run'.opsLeft = run.opsLeft
<1>. DEFINE w == run.workers \cup {"group"}
<1>1. w \in SUBSET {"group", "stray"}
  BY DEF Run
<1>2. run' = [run EXCEPT !.at = "working", !.workers = w]
  BY Zenon DEF Run
<1>. HIDE DEF w
<1>3. run' \in Run
  BY <1>1, <1>2, Zenon DEF Run, RunPlaces
<1>. QED
  BY <1>2, <1>3, Zenon DEF Run

LEMMA Killed ==
  ASSUME run \in Run
  PROVE  GroupKilled \in SUBSET {"group", "stray"} /\ "group" \notin GroupKilled
  BY DEF Run, GroupKilled

LEMMA CallReturns ==
  ASSUME run \in Run, NEW place \in RunPlaces, run' = Returned(place)
  PROVE  /\ run' \in Run /\ run'.at = place /\ "group" \notin run'.workers
         /\ run'.caller = run.caller /\ run'.opsLeft = run.opsLeft
<1>1. run' = [run EXCEPT !.at = place, !.workers = GroupKilled]
  BY DEF Returned
<1>2. run' \in Run
  BY <1>1, Killed, Zenon DEF Run
<1>. QED
  BY <1>1, <1>2, Killed, Zenon DEF Run

\* ... and the start of a run and of an acceptance.
LEMMA RunStarts ==
  ASSUME run \in Run, NEW n \in RunLimits,
         run' = [run EXCEPT !.at = "head", !.opsLeft = n]
  PROVE  /\ run' \in Run /\ run'.at = "head"
         /\ run'.caller = run.caller /\ run'.workers = run.workers
<1>1. run' \in Run
  BY SessionAssumption, Zenon DEF Run, RunPlaces
<1>. QED
  BY <1>1, Zenon DEF Run

LEMMA AcceptStarts ==
  ASSUME run \in Run, run' = [run EXCEPT !.at = "accepted", !.caller = "accept"]
  PROVE  /\ run' \in Run /\ run'.at = "accepted" /\ run'.caller = "accept"
         /\ run'.workers = run.workers /\ run'.opsLeft = run.opsLeft
<1>1. run' \in Run
  BY Zenon DEF Run, RunPlaces
<1>. QED
  BY <1>1, Zenon DEF Run

LEMMA EndedFields ==
  ASSUME run \in Run
  PROVE  /\ Ended \in Run /\ Ended.at = "idle" /\ Ended.caller = "run"
         /\ Ended.workers = run.workers
         /\ \A w \in SUBSET {"group", "stray"} :
                LET s == [Ended EXCEPT !.workers = w]
                IN  s \in Run /\ s.at = "idle" /\ s.caller = "run" /\ s.workers = w
<1>1. Idle \in Run /\ Idle.at = "idle" /\ Idle.caller = "run"
  BY Zenon DEF Idle, Run
<1>2. run.workers \in SUBSET {"group", "stray"}
  BY DEF Run
<1>3. /\ Ended \in Run /\ Ended.at = "idle" /\ Ended.caller = "run"
      /\ Ended.workers = run.workers
  BY <1>1, <1>2, Zenon DEF Ended, Run
<1>. QED
  BY <1>3, Zenon DEF Run
-----------------------------------------------------------------------------
(* A step stops the session, moves only files and the process, or saves.    *)

\* What the steps of the controller and of the ledger rely on of each other.
Control == TypeOK /\ OneOutstanding /\ InPlace /\ InCall

\* The process has let go of the lock, and left no worker's group behind.
Released == run' \in Run /\ run'.at = "idle" /\ run'.caller = "run" /\ "group" \notin run'.workers

\* _stop, reached from a state in which the ledger allows it.
Stops ==
    /\ Abandon \/ Advance \/ UNCHANGED ledgerVars
    /\ UNCHANGED <<contract, ledger, inFlight, expired, late>>
    /\ ~waiting'
    /\ \/ phase' \in {"BLOCKED", "LIMIT_REACHED", "HUMAN_REQUIRED"}
       \/ phase = "HANDOFF_PENDING" /\ phase' = "HANDOFF_PENDING"
    /\ Released
    /\ disk' = [disk EXCEPT !.scratch = {}]
    /\ \E why \in Reasons :
          /\ row' = [row EXCEPT !.reason = why]
          /\ phase' = "HUMAN_REQUIRED" => why # "FINAL_ACCEPTANCE_REQUIRED"

\* Nothing is saved.
Quiet ==
    /\ UNCHANGED ledgerVars \/ CrashWaiting \/ DeadlinePasses
    /\ UNCHANGED <<contract, phase, ledger, inFlight, row>>
LetsGo == Quiet /\ Released /\ ~waiting' /\ UNCHANGED <<disk, late>>

\* The ends of a process.
LEMMA Ends ==
  ASSUME run \in Run, run' = Ended, "group" \notin run.workers
  PROVE  Released
  BY EndedFields, Zenon DEF Released

LEMMA EndsKilled ==
  ASSUME run \in Run, run' = [Ended EXCEPT !.workers = GroupKilled]
  PROVE  Released
  BY EndedFields, Killed, Zenon DEF Released

\* Nobody waits for a worker that an earlier process left behind, and no
\* process holds the lock while one lives.
LEMMA NoOrphan ==
  ASSUME Control, ~At("idle") \/ LockFree
  PROVE  Leave => Released
<1>1. /\ run.at \in {"working", "judging"} => waiting
      /\ run \in Run
      /\ "group" \in run.workers => run.at \in {"working", "idle"}
  BY DEF Control, InCall, TypeOK
<1>2. "group" \notin run.workers \/ waiting
  BY <1>1 DEF At, LockFree
<1>3. CASE waiting
  <2>1. Leave => run' = [Ended EXCEPT !.workers = GroupKilled]
    BY <1>3, Zenon DEF Leave
  <2>. QED
    BY <1>1, <2>1, EndsKilled
<1>4. CASE ~waiting
  <2>1. Ended.workers = run.workers /\ run.workers \in SUBSET {"group", "stray"}
    BY <1>1, EndedFields DEF Run
  <2>2. Leave => run' = [Ended EXCEPT !.workers = run.workers]
    BY <1>4, <2>1, Zenon DEF Leave
  <2>. DEFINE w == run.workers
              s == [Ended EXCEPT !.workers = w]
  <2>3. s \in Run /\ s.at = "idle" /\ s.caller = "run" /\ s.workers = w
    BY <1>1, <2>1, EndedFields
  <2>4. "group" \notin w
    BY <1>2, <1>4
  <2>. HIDE DEF w
  <2>5. Leave => run' = s
    BY <2>2 DEF w
  <2>. HIDE DEF s
  <2>. QED
    BY <2>3, <2>4, <2>5 DEF Released
<1>. QED
  BY <1>3, <1>4

LEMMA WaitingIsBoolean ==
  ASSUME Control
  PROVE  /\ waiting \in BOOLEAN
         /\ inFlight = 0 => waiting = FALSE
         /\ At("idle") => waiting = FALSE
  BY Zenon DEF Control, TypeOK, LedgerTypeOK, OneOutstanding, InCall, At

\* A phase from which a session without an outstanding call may be handed to a human.
HumanNext == {"VERIFY", "CANDIDATE_RECEIVED", "JUDGE", "DECISION_RECEIVED"}

LEMMA StopStops ==
  ASSUME Control, ~At("idle") \/ LockFree,
         NEW p, NEW why \in Reasons, Stop(p, why),
         why # "FINAL_ACCEPTANCE_REQUIRED" \/ p # "HUMAN_REQUIRED",
         \/ inFlight = 0 /\ phase \notin Terminal /\ p \in {"BLOCKED", "LIMIT_REACHED"}
         \/ inFlight = 0 /\ phase \in HumanNext /\ p = "HUMAN_REQUIRED"
         \/ inFlight = 0 /\ phase = "HANDOFF_PENDING" /\ p = "HANDOFF_PENDING"
         \/ inFlight # 0 /\ p = "HUMAN_REQUIRED"
         \/ inFlight # 0 /\ waiting /\ p = "LIMIT_REACHED"
  PROVE  Stops
<1>1. Released
  BY NoOrphan DEF Stop
<1>2. /\ UNCHANGED <<contract, ledger, inFlight, expired, late>>
      /\ phase' = p /\ waiting' = FALSE
      /\ row' = [row EXCEPT !.reason = why]
      /\ disk' = [disk EXCEPT !.scratch = {}]
  BY Zenon DEF Stop, Save
<1>3. inFlight = 0 => waiting' = waiting
  BY <1>2, WaitingIsBoolean, Zenon
<1>4. Abandon \/ Advance \/ UNCHANGED ledgerVars
  <2>1. CASE inFlight = 0 /\ phase \notin Terminal /\ p \in {"BLOCKED", "LIMIT_REACHED"}
    BY <1>2, <1>3, <2>1, Zenon DEF Advance, MovePhase
  <2>2. CASE inFlight = 0 /\ phase \in HumanNext /\ p = "HUMAN_REQUIRED"
    <3>1. MovePhase
      BY <1>2, <2>2 DEF MovePhase, HumanNext
    <3>. QED
      BY <1>2, <1>3, <2>2, <3>1, Zenon DEF Advance
  <2>3. CASE inFlight = 0 /\ phase = "HANDOFF_PENDING" /\ p = "HANDOFF_PENDING"
    BY <1>2, <1>3, <2>3, Zenon DEF ledgerVars
  <2>4. CASE inFlight # 0 /\ p = "HUMAN_REQUIRED"
    BY <1>2, <2>4, Zenon DEF Abandon
  <2>5. CASE inFlight # 0 /\ waiting /\ p = "LIMIT_REACHED"
    BY <1>2, <2>5, Zenon DEF Abandon
  <2>. QED
    BY <2>1, <2>2, <2>3, <2>4, <2>5
<1>5. \/ p \in {"BLOCKED", "LIMIT_REACHED", "HUMAN_REQUIRED"}
      \/ phase = "HANDOFF_PENDING" /\ p = "HANDOFF_PENDING"
  OBVIOUS
<1>. QED
  BY <1>1, <1>2, <1>4, <1>5, Zenon DEF Stops

\* The exception handler of run stops the session; accept has none.
LEMMA RaiseStops ==
  ASSUME Control, NEW why \in Reasons, Raise(why),
         why # "FINAL_ACCEPTANCE_REQUIRED" \/ inFlight = 0,
         \/ run.at \in RunPlaces
         \/ LockFree /\ Resumable
  PROVE  Stops \/ LetsGo
<1>1. CASE run.caller # "run"
  <2>1. run.caller = "accept"
    BY <1>1 DEF Control, TypeOK, Run
  <2>2. inFlight = 0
    BY <2>1 DEF Control, InPlace, InCall, Sealing
  <2>3. run \in Run /\ "group" \notin run.workers
    BY <2>1 DEF Control, TypeOK, InPlace, InCall, Sealing
  <2>4. run' = Ended /\ NoSave /\ disk' = disk
    BY <1>1, Zenon DEF Raise
  <2>5. Released
    BY <2>3, <2>4, Ends
  <2>. QED
    BY <2>2, <2>4, <2>5, WaitingIsBoolean, Zenon DEF LetsGo, Quiet, NoSave, ledgerVars
<1>2. CASE run.caller = "run"
  <2>. DEFINE p == StopPhase(why)
  <2>1. Stop(p, why)
    BY <1>2, Zenon DEF Raise
  <2>2. ~At("idle") \/ LockFree
    BY DEF At, LockFree, RunPlaces
  <2>3. CASE inFlight = 0
    <3>1. p \in {"BLOCKED", "LIMIT_REACHED"}
      BY <2>3 DEF StopPhase
    <3>2. phase \notin Terminal
      BY <1>2 DEF Control, InPlace, InCall, Resumable, RunPlaces, At, Sealing, Terminal,
                  TypeOK, Run
    <3>. HIDE DEF p
    <3>. QED
      BY <2>1, <2>2, <2>3, <3>1, <3>2, StopStops
  <2>4. CASE inFlight # 0
    <3>1. waiting
      <4>1. run.at \in {"working", "judging"}
        BY <2>4 DEF Control, InCall, RunPlaces, Resumable
      <4>. QED
        BY <4>1, Zenon DEF Control, InCall
    <3>2. p \in {"HUMAN_REQUIRED", "LIMIT_REACHED"}
      BY <2>4 DEF StopPhase
    <3>. HIDE DEF p
    <3>. QED
      BY <2>1, <2>2, <2>4, <3>1, <3>2, StopStops
  <2>. QED
    BY <2>3, <2>4
<1>. QED
  BY <1>1, <1>2
-----------------------------------------------------------------------------
(* What each action that saves does to the parts of the state.             *)

\* A save that leaves the ledger alone, with no call outstanding.
Saves ==
    /\ Advance \/ UNCHANGED ledgerVars
    /\ inFlight = 0
    /\ UNCHANGED <<contract, ledger, inFlight, waiting, late>>
    /\ row' \in Row /\ disk' \in Disk
    /\ disk'.delivery = disk.delivery /\ disk'.patch = disk.patch

\* The loop of run ends, or goes on to its next iteration.
Onward(place) == /\ run' \in Run /\ run'.at = place
                 /\ run'.caller = "run" /\ "group" \notin run'.workers
                 /\ run'.opsLeft = run.opsLeft
NextRound == /\ run' \in Run /\ run'.at = "head"
             /\ run'.caller = "run" /\ "group" \notin run'.workers
Continues == \/ phase' \in Terminal /\ Released
             \/ phase' \notin Terminal /\ NextRound

\* A place where no call is out and run, not accept, holds the lock.
Between == {"head", "copying", "verifying", "prepared", "received", "decided", "escalating",
            "publishing"}
LEMMA InTheLoop ==
  ASSUME Control, run.at \in Between
  PROVE  /\ run.caller = "run" /\ "group" \notin run.workers /\ inFlight = 0 /\ waiting = FALSE
         /\ run \in Run
<1>1. run \in Run
  BY DEF Control, TypeOK
<1>2. run.caller = "run"
  BY <1>1, Zenon DEF Control, InPlace, Sealing, Between, Run
<1>3. "group" \notin run.workers
  <2>1. "group" \notin run.workers
    BY DEF Control, InCall, Between
  <2>. QED
    BY <1>1, <2>1, Zenon DEF Run
<1>4. inFlight = 0
  BY DEF Control, InCall, Between
<1>. QED
  BY <1>1, <1>2, <1>3, <1>4, WaitingIsBoolean

\* A disk without the scratch directories of the generation before.
LEMMA Scratched ==
  ASSUME disk \in Disk
  PROVE  \A d \in {[disk EXCEPT !.scratch = {}],
                   [disk EXCEPT !.workspace = FALSE, !.scratch = {}]} :
            d \in Disk /\ d.delivery = disk.delivery /\ d.patch = disk.patch
<1>1. /\ [disk EXCEPT !.scratch = {}] \in Disk
      /\ [disk EXCEPT !.workspace = FALSE, !.scratch = {}] \in Disk
  BY Zenon DEF Disk
<1>. QED
  BY <1>1, Zenon DEF Disk

LEMMA SavesPhase ==
  ASSUME Control, inFlight = 0, NEW p, NEW r \in Row, SavePhase(p, r),
         phase' = p => p = phase \/ MovePhase
  PROVE  Saves /\ row' = r /\ phase' = p
<1>1. /\ phase' = p /\ row' = r
      /\ disk' = [disk EXCEPT !.scratch = {}]
      /\ UNCHANGED <<contract, ledger, inFlight, expired, waiting, late>>
  BY Zenon DEF SavePhase, Save
<1>2. Advance \/ UNCHANGED ledgerVars
  BY <1>1, Zenon DEF Advance, ledgerVars
<1>3. disk' \in Disk /\ disk'.delivery = disk.delivery /\ disk'.patch = disk.patch
  <2>1. disk \in Disk
    BY DEF Control, TypeOK
  <2>. QED
    BY <1>1, <2>1, Scratched
<1>. QED
  BY <1>1, <1>2, <1>3, Zenon DEF Saves

LEMMA LoopContinues ==
  ASSUME Control, run.at \in Between, run.at \in Busy \/ run.opsLeft # 0,
         NEW n \in {0, 1}, Loop(phase', n)
  PROVE  Continues
<1>1. run.opsLeft # 0
  BY DEF Control, InPlace
<1>2. run \in Run /\ run.caller = "run" /\ "group" \notin run.workers
  BY InTheLoop
<1>3. CASE phase' \in Terminal
  <2>1. run' = Ended
    BY <1>1, <1>2, <1>3, Loops, Zenon
  <2>. QED
    BY <1>2, <1>3, <2>1, Ends DEF Continues
<1>4. CASE phase' \notin Terminal
  BY <1>1, <1>2, <1>4, Loops, Zenon DEF Continues, NextRound
<1>. QED
  BY <1>3, <1>4

\* The evidence that is reviewed, accepted or published is there.
LEMMA FreshIsEvidence ==
  ASSUME row \in Row, Fresh
  PROVE  /\ row.evidence \in Evidence /\ row.evidence # NoEvidence
         /\ row.evidence.snap = row.snapshot /\ row.evidence.rev = row.revision
<1>1. row.evidence.snap = row.snapshot /\ row.evidence.rev = row.revision
  BY DEF Fresh, EvidenceCurrent
<1>2. row.evidence.snap \in Contents
  BY <1>1, RowFields
<1>3. NoEvidence.snap = Absent /\ Absent \notin Contents
  BY SessionAssumption DEF NoEvidence
<1>. QED
  BY <1>1, <1>2, <1>3, RowFields

Readies ==
    /\ At("copied") /\ Saves /\ Same(row') /\ phase' = "VERIFY" /\ Released

LEMMA CreateReadyDoes == IInv /\ CreateReady => Readies
<1>. SUFFICES ASSUME IInv, CreateReady PROVE Readies
  OBVIOUS
<1>1. Control /\ row \in Row
  BY DEF IInv, Control, TypeOK
<1>2. inFlight = 0 /\ phase = "READY"
  BY <1>1 DEF Control, InCall, InPlace, CreateReady, At
<1>. DEFINE r == [row EXCEPT !.reason = "BASELINE_READY"]
<1>3. r \in Row /\ Same(r)
  <2>1. "BASELINE_READY" \in Reasons
    BY DEF Reasons
  <2>2. r = [row EXCEPT !.reason = "BASELINE_READY"]
    OBVIOUS
  <2>. HIDE DEF r
  <2>. QED
    BY <1>1, <2>1, <2>2, ReasonOnly
<1>4. SavePhase("VERIFY", r) /\ run' = Ended /\ At("copied")
  BY DEF CreateReady
<1>. HIDE DEF r
<1>5. phase' = "VERIFY" => MovePhase
  BY <1>2, Zenon DEF MovePhase
<1>6. Saves /\ row' = r /\ phase' = "VERIFY"
  BY <1>1, <1>2, <1>3, <1>4, <1>5, SavesPhase
<1>7. Released
  <2>1. run \in Run /\ "group" \notin run.workers
    BY <1>1, <1>4 DEF Control, TypeOK, InCall, At
  <2>. QED
    BY <1>4, <2>1, Ends
<1>. QED
  BY <1>3, <1>4, <1>6, <1>7, Zenon DEF Readies

\* A verification is recorded as evidence of this candidate and revision.
Verifies ==
    /\ At("verifying") /\ phase = "VERIFY"
    /\ Saves /\ Continues
    /\ row'.snapshot = row.snapshot /\ row'.revision = row.revision
    /\ row'.evidence \in Evidence
    /\ row'.evidence.snap = row.snapshot /\ row'.evidence.rev = row.revision
    /\ row'.decisions = row.decisions
    /\ SameHandoff(row') /\ SameResult(row')
    /\ phase' \in {"READY", "LIMIT_REACHED", "HUMAN_REQUIRED", "JUDGE", "SEAL"}
    /\ phase' = "SEAL" => /\ row'.evidence.status = "PASS"
                          /\ ~contract.humanFinal /\ ~contract.semantic
    /\ phase' = "JUDGE" => row'.nextRole = "jev"
    /\ phase' = "HUMAN_REQUIRED" /\ row'.reason = "FINAL_ACCEPTANCE_REQUIRED" =>
          row'.evidence.status = "PASS" /\ contract.humanFinal

LEMMA VerifyRecordDoes ==
  ASSUME IInv, NEW status \in Statuses, VerifyRecord(status)
  PROVE  Verifies \/ Stops \/ LetsGo
<1>. DEFINE to == AfterVerify(status)
            e == [snap |-> row.snapshot, rev |-> row.revision, status |-> status]
            role == IF to[1] = "JUDGE" THEN "jev" ELSE row.nextRole
            r == [row EXCEPT !.reason = to[2], !.evidence = e, !.nextRole = role]
<1>1. Control /\ row \in Row
  BY DEF IInv, Control, TypeOK
<1>2. /\ run.at = "verifying" /\ inFlight = 0 /\ phase = "VERIFY"
  BY <1>1 DEF Control, InCall, InPlace, VerifyRecord, At
<1>0. ASSUME NEW why \in {"SNAPSHOT_CHANGED_OUTSIDE_CONTROLLER",
                          "EVIDENCE_REVISION_MISMATCH"}, Raise(why)
      PROVE  Stops \/ LetsGo
  <2>1. why \in Reasons /\ run.at \in RunPlaces
    BY <1>2 DEF Reasons, RunPlaces
  <2>. QED
    BY <1>0, <1>1, <1>2, <2>1, RaiseStops
<1>. SUFFICES ASSUME SavePhase(to[1], r), Loop(to[1], 0)
              PROVE  Verifies
  <2>1. CASE /\ run.copied = row.snapshot
             /\ SavePhase(to[1],
                    [row EXCEPT !.reason = to[2],
                                !.evidence = [snap |-> run.copied,
                                              rev |-> row.revision, status |-> status],
                                !.nextRole = IF to[1] = "JUDGE" THEN "jev" ELSE @])
             /\ Loop(to[1], 0)
    <3>1. SavePhase(to[1], r)
      BY <2>1, Zenon
    <3>. QED
      BY <2>1, <3>1
  <2>. QED
    BY <1>0, <2>1, Zenon DEF VerifyRecord
<1>3. /\ to[1] \in {"READY", "LIMIT_REACHED", "HUMAN_REQUIRED", "JUDGE", "SEAL"}
      /\ to[2] \in Reasons
      /\ to[1] = "SEAL" => status = "PASS" /\ ~contract.humanFinal /\ ~contract.semantic
      /\ to[1] = "HUMAN_REQUIRED" /\ to[2] = "FINAL_ACCEPTANCE_REQUIRED" =>
            status = "PASS" /\ contract.humanFinal
  <2>1. CASE status = "UNKNOWN"
    BY <2>1 DEF AfterVerify, Reasons
  <2>2. CASE status = "FAIL"
    BY <2>2 DEF AfterVerify, Reasons
  <2>3. CASE status = "PASS"
    BY <2>3 DEF AfterVerify, Reasons
  <2>. QED
    BY <2>1, <2>2, <2>3 DEF Statuses
<1>4. /\ SavePhase(to[1], r)
      /\ Loop(to[1], 0)
  OBVIOUS
<1>5. e \in Evidence /\ e.snap = row.snapshot /\ e.rev = row.revision /\ e.status = status
  BY <1>1, RowFields DEF Evidence
<1>6. role \in Judges
  BY <1>1, RowFields DEF Judges
<1>. HIDE DEF to, e
<1>7. to[1] = "JUDGE" => role = "jev"
  OBVIOUS
<1>. HIDE DEF role
<1>8. /\ r \in Row
      /\ SameHandoff(r) /\ SameResult(r)
      /\ r.snapshot = row.snapshot /\ r.revision = row.revision
      /\ r.decisions = row.decisions
      /\ r.evidence = e /\ r.nextRole = role /\ r.reason = to[2]
  <2>1. r = VerifiedAs(to[2], e, role)
    BY DEF VerifiedAs
  <2>. HIDE DEF r
  <2>. QED
    BY <1>1, <1>3, <1>5, <1>6, <2>1, VerifiedRow
<1>. HIDE DEF r
<1>9. phase' = to[1] => MovePhase
  BY <1>2, <1>3 DEF MovePhase, Terminal
<1>10. Saves /\ row' = r /\ phase' = to[1]
  BY <1>1, <1>2, <1>4, <1>8, <1>9, SavesPhase
<1>11. Continues
  <2>1. run.at \in Between /\ run.at \in Busy
    BY <1>2 DEF Between, Busy
  <2>. QED
    BY <1>1, <1>4, <1>10, <2>1, LoopContinues
<1>. QED
  BY <1>2, <1>3, <1>5, <1>7, <1>8, <1>10, <1>11, Zenon DEF Verifies, At

\* A new candidate waits for its verification; what was asked about the one
\* before it is gone.
Adopts ==
    /\ At("received") /\ phase = "CANDIDATE_RECEIVED"
    /\ Saves /\ Continues
    /\ phase' = "VERIFY"
    /\ row'.revision = row.revision + 1
    /\ row'.handoff = NoEvidence /\ row'.supervisor = NoDecision
    /\ SameReview(row') /\ SameResult(row')

LEMMA WorkerAdoptDoes ==
  ASSUME IInv, NEW after \in Contents, WorkerAdopt(after)
  PROVE  Adopts
<1>. DEFINE why == "CANDIDATE_NOT_YET_VERIFIED"
            n == IF after = run.copied THEN row.noProgress + 1 ELSE 0
            m == row.revision + 1
            r == AdoptedAs(why, n, after, m)
<1>1. Control /\ row \in Row /\ disk \in Disk
  BY DEF IInv, Control, TypeOK
<1>2. run.at = "received" /\ inFlight = 0 /\ phase = "CANDIDATE_RECEIVED"
  BY <1>1 DEF Control, InCall, InPlace, WorkerAdopt, At
<1>3. /\ phase' = "VERIFY" /\ row' = r /\ Loop(phase', 1)
      /\ disk' = [disk EXCEPT !.scratch = {}, !.current = after]
      /\ UNCHANGED <<contract, ledger, inFlight, expired, waiting, late>>
  <2>1. /\ Superseded(row).noProgress = row.noProgress
        /\ Superseded(row).revision = row.revision
    BY <1>1, Zenon DEF Superseded, Row
  <2>2. row' = [Superseded(row) EXCEPT !.reason = why,
                  !.noProgress = IF after = run.copied
                                 THEN Superseded(row).noProgress + 1 ELSE 0,
                  !.snapshot = after,
                  !.revision = Superseded(row).revision + 1]
    BY Zenon DEF WorkerAdopt
  <2>3. row' = r
    BY <2>1, <2>2, Zenon DEF AdoptedAs
  <2>. HIDE DEF r
  <2>4. phase' = "VERIFY" /\ Loop("VERIFY", 1)
    BY DEF WorkerAdopt
  <2>. QED
    BY <2>3, <2>4, Zenon DEF WorkerAdopt
<1>4. why \in Reasons
  BY DEF Reasons
<1>5. n \in Nat /\ m \in Nat
  BY <1>1, RowFields
<1>. HIDE DEF why, n
<1>6. /\ r \in Row
      /\ SameReview(r) /\ SameResult(r) /\ r.revision = m
      /\ r.handoff = NoEvidence /\ r.supervisor = NoDecision
  BY <1>1, <1>4, <1>5, AdoptedRow
<1>. HIDE DEF r
<1>7. Advance
  <2>1. MovePhase /\ phase \notin Terminal
    BY <1>2, <1>3 DEF MovePhase, Terminal
  <2>. QED
    BY <1>2, <1>3, <2>1, Zenon DEF Advance
<1>8. Saves
  <2>1. disk' \in Disk
    BY <1>1, <1>3, Zenon DEF Disk
  <2>2. disk'.delivery = disk.delivery /\ disk'.patch = disk.patch
    BY <1>1, <1>3, Zenon DEF Disk
  <2>. QED
    BY <1>2, <1>3, <1>6, <1>7, <2>1, <2>2, Zenon DEF Saves
<1>9. run.at \in Between /\ run.at \in Busy
  BY <1>2 DEF Between, Busy
<1>10. Continues
  BY <1>1, <1>3, <1>9, LoopContinues
<1>. QED
  BY <1>2, <1>3, <1>6, <1>8, <1>10, Zenon DEF Adopts, At

\* The review goes to a higher tier.
Climbs == Rank[row'.nextRole] > Rank[row.nextRole]
AsksNext ==
    /\ At("head") /\ phase = "JUDGE" /\ phase' = "JUDGE"
    /\ Saves /\ Continues
    /\ SameCandidate(row') /\ SameHandoff(row') /\ SameResult(row')
    /\ row'.decisions = row.decisions
    /\ Climbs

\* The first save of a handoff.
Pends ==
    /\ \/ At("head") /\ phase = "JUDGE"
       \/ At("escalating") /\ phase = "DECISION_RECEIVED"
    /\ Saves /\ Onward("publishing")
    /\ phase' = "HANDOFF_PENDING"
    /\ contract.redacted
    /\ Same(row')

LEMMA RankClimbs ==
  ASSUME NEW role \in Judges
  PROVE  /\ role = "jev" => Rank["sol"] > Rank[role]
         /\ role # "astra" => Rank["astra"] > Rank[role]
  BY DEF Rank, Judges

LEMMA HandoffPendingDoes ==
  ASSUME IInv, NEW why \in Reasons, HandoffPending(why), contract.redacted,
         \/ At("head") /\ phase = "JUDGE"
         \/ At("escalating")
  PROVE  Pends
<1>1. Control /\ row \in Row
  BY DEF IInv, Control, TypeOK
<1>2. run.at \in Between /\ inFlight = 0
  BY <1>1 DEF Control, InCall, At, Between
<1>3. At("escalating") => phase = "DECISION_RECEIVED"
  BY <1>1 DEF Control, InPlace
<1>. DEFINE r == [row EXCEPT !.reason = why]
<1>4. r \in Row /\ Same(r)
  <2>1. r = [row EXCEPT !.reason = why]
    OBVIOUS
  <2>. HIDE DEF r
  <2>. QED
    BY <1>1, <2>1, ReasonOnly
<1>5. SavePhase("HANDOFF_PENDING", r) /\ GoTo("publishing")
  BY DEF HandoffPending
<1>. HIDE DEF r
<1>6. phase' = "HANDOFF_PENDING" => MovePhase
  BY <1>3, Zenon DEF MovePhase
<1>7. Saves /\ row' = r /\ phase' = "HANDOFF_PENDING"
  BY <1>1, <1>2, <1>4, <1>5, <1>6, SavesPhase
<1>8. Onward("publishing")
  <2>1. run \in Run /\ run.caller = "run" /\ "group" \notin run.workers
    BY <1>1, <1>2, InTheLoop
  <2>2. "publishing" \in RunPlaces \cup {"copied", "escalating"}
    BY DEF RunPlaces
  <2>. QED
    BY <1>5, <2>1, <2>2, GoesOn, Zenon DEF Onward
<1>. QED
  BY <1>3, <1>4, <1>7, <1>8, Zenon DEF Pends

LEMMA JudgeStops ==
  ASSUME IInv, At("head"), phase \in {"JUDGE"}, NEW p, NEW why \in Reasons,
         p \in {"LIMIT_REACHED", "HUMAN_REQUIRED"},
         why # "FINAL_ACCEPTANCE_REQUIRED", Stop(p, why)
  PROVE  Stops
<1>1. Control
  BY DEF IInv, Control
<1>2. inFlight = 0 /\ ~At("idle")
  BY <1>1 DEF Control, InCall, At
<1>3. phase \notin Terminal /\ phase \in HumanNext
  BY DEF Terminal, HumanNext
<1>. QED
  BY <1>1, <1>2, <1>3, StopStops

LEMMA ToTierDoes ==
  ASSUME IInv, At("head"), phase = "JUDGE", run.opsLeft # 0,
         NEW role \in Judges, NEW why \in Reasons,
         ToTier(role, row, why), Rank[role] > Rank[row.nextRole]
  PROVE  AsksNext
<1>. DEFINE r == AskNext(row, role, why)
<1>1. Control /\ row \in Row
  BY DEF IInv, Control, TypeOK
<1>2. run.at \in Between /\ inFlight = 0
  BY <1>1 DEF Control, InCall, At, Between
<1>3. SavePhase("JUDGE", r) /\ Loop("JUDGE", 1)
  BY Zenon DEF ToTier, Route, AskNext
<1>4. /\ r \in Row
      /\ SameCandidate(r) /\ SameHandoff(r) /\ SameResult(r)
      /\ r.decisions = row.decisions /\ r.nextRole = role
  BY <1>1, NextRoleOnly
<1>. HIDE DEF r
<1>5. Saves /\ row' = r /\ phase' = "JUDGE"
  BY <1>1, <1>2, <1>3, <1>4, SavesPhase
<1>6. Continues
  BY <1>1, <1>2, <1>3, <1>5, LoopContinues
<1>. QED
  BY <1>4, <1>5, <1>6, Zenon DEF AsksNext, Climbs

LEMMA JudgeUnavailableDoes == IInv /\ JudgeUnavailable => Stops \/ AsksNext \/ Pends
<1>. SUFFICES ASSUME IInv, JudgeUnavailable PROVE Stops \/ AsksNext \/ Pends
  OBVIOUS
<1>1. At("head") /\ phase = "JUDGE" /\ run.opsLeft # 0
  BY DEF JudgeUnavailable, Dispatch
<1>2. row.nextRole \in Judges
  BY RowFields DEF IInv, TypeOK
<1>3. /\ "EXTERNAL_EVIDENCE_NOT_AUTHORIZED" \in Reasons
      /\ "JEV_UNAVAILABLE_ESCALATED" \in Reasons
      /\ "DECISION_TIER_UNAVAILABLE" \in Reasons
      /\ "LEGACY_ASTRA_FALLBACK" \in Reasons
      /\ "DECISION_ROLE_NOT_CONFIGURED" \in Reasons
  BY DEF Reasons
<1>4. "sol" \in Judges /\ "astra" \in Judges
  BY DEF Judges
<1>5. CASE \/ Stop("HUMAN_REQUIRED", "EXTERNAL_EVIDENCE_NOT_AUTHORIZED")
           \/ Stop("HUMAN_REQUIRED", "DECISION_ROLE_NOT_CONFIGURED")
  BY <1>1, <1>3, <1>5, JudgeStops
<1>6. CASE SolIsNext /\ ToTier("sol", row, "JEV_UNAVAILABLE_ESCALATED")
  <2>1. Rank["sol"] > Rank[row.nextRole]
    BY <1>2, <1>6, RankClimbs DEF SolIsNext
  <2>. QED
    BY <1>1, <1>3, <1>4, <1>6, <2>1, ToTierDoes
<1>7. CASE row.nextRole # "astra" /\ ToTier("astra", row, "LEGACY_ASTRA_FALLBACK")
  <2>1. Rank["astra"] > Rank[row.nextRole]
    BY <1>2, <1>7, RankClimbs
  <2>. QED
    BY <1>1, <1>3, <1>4, <1>7, <2>1, ToTierDoes
<1>8. CASE EvidenceAllowed /\ HandoffPending("DECISION_TIER_UNAVAILABLE")
  BY <1>1, <1>3, <1>8, HandoffPendingDoes DEF EvidenceAllowed
<1>. QED
  BY <1>5, <1>6, <1>7, <1>8, Zenon DEF JudgeUnavailable

\* A valid decision of the judge asked settles the review.
Decides ==
    /\ At("decided") /\ phase = "DECISION_RECEIVED"
    /\ Saves /\ Continues
    /\ \E reply \in Replies :
          /\ row'.decisions = Append(row.decisions, Decided(reply))
          /\ phase' = "SEAL" => /\ row.evidence.status = "PASS"
                                /\ reply.choice = "ACCEPT"
                                /\ reply.bound /\ reply.confident
    /\ phase' \in {"SEAL", "BLOCKED", "LIMIT_REACHED", "HUMAN_REQUIRED", "READY"}
    /\ SameCandidate(row') /\ SameHandoff(row') /\ SameResult(row')
    /\ row'.nextRole = row.nextRole
    /\ row'.reason # "FINAL_ACCEPTANCE_REQUIRED"

\* The evidence a decision was asked about is that of the current candidate.
LEMMA AtDecided ==
  ASSUME IInv, At("decided") \/ At("escalating")
  PROVE  /\ Control /\ row \in Row /\ run.at \in Between
         /\ inFlight = 0 /\ phase = "DECISION_RECEIVED"
         /\ Fresh /\ row.evidence \in Evidence
<1>1. Control /\ row \in Row
  BY DEF IInv, Control, TypeOK
<1>2. run.at \in Between /\ inFlight = 0 /\ phase = "DECISION_RECEIVED"
  BY <1>1 DEF Control, InCall, InPlace, At, Between
<1>3. Fresh
  BY <1>2 DEF IInv, EvidenceIsFresh
<1>. QED
  BY <1>1, <1>2, <1>3, FreshIsEvidence

LEMMA AfterRepairTo ==
  ASSUME NEW why \in Reasons
  PROVE  LET to == AfterRepair(why)
         IN  /\ to[1] \in {"LIMIT_REACHED", "HUMAN_REQUIRED", "READY"}
             /\ to[2] \in {"WORKER_CALL_LIMIT", "NO_PROGRESS", why}
             /\ to[2] \in Reasons
<1>1. "WORKER_CALL_LIMIT" \in Reasons /\ "NO_PROGRESS" \in Reasons
  BY DEF Reasons
<1>. QED
  BY <1>1 DEF AfterRepair

LEMMA JudgeDecideDoes ==
  ASSUME IInv, NEW reply \in Replies, JudgeDecide(reply)
  PROVE  Decides
<1>. DEFINE to == CASE reply.choice = "ACCEPT" ->
                         IF row.evidence.status = "PASS"
                         THEN <<"SEAL", "SEMANTIC_REVIEW_ACCEPTED">>
                         ELSE <<"BLOCKED", "JUDGE_CANNOT_OVERRIDE_FAILED_CHECKS">>
                    [] reply.choice = "REPAIR" ->
                         AfterRepair("SEMANTIC_REPAIR_REQUESTED")
                    [] reply.choice = "HUMAN_REQUIRED" ->
                         <<"HUMAN_REQUIRED", "JUDGE_REQUESTED_HUMAN">>
            r == [WithDecision(reply) EXCEPT !.reason = to[2]]
<1>1. /\ At("decided") /\ Valid(reply) /\ reply.choice # "ESCALATE"
      /\ SavePhase(to[1], r) /\ Loop(to[1], 1)
  BY Zenon DEF JudgeDecide, Route
<1>2. /\ Control /\ row \in Row /\ run.at \in Between
      /\ inFlight = 0 /\ phase = "DECISION_RECEIVED"
      /\ row.evidence \in Evidence
  BY <1>1, AtDecided
<1>3. /\ reply \in Reply
      /\ reply.choice \in {"ACCEPT", "REPAIR", "HUMAN_REQUIRED"}
  BY <1>1, SessionAssumption DEF Reply
<1>4. /\ to[1] \in {"SEAL", "BLOCKED", "LIMIT_REACHED", "HUMAN_REQUIRED", "READY"}
      /\ to[2] \in Reasons /\ to[2] # "FINAL_ACCEPTANCE_REQUIRED"
      /\ to[1] = "SEAL" => row.evidence.status = "PASS" /\ reply.choice = "ACCEPT"
  <2>1. CASE reply.choice = "ACCEPT"
    BY <2>1 DEF Reasons
  <2>2. CASE reply.choice = "REPAIR"
    <3>1. "SEMANTIC_REPAIR_REQUESTED" \in Reasons
      BY DEF Reasons
    <3>2. to = AfterRepair("SEMANTIC_REPAIR_REQUESTED")
      BY <2>2
    <3>. HIDE DEF to
    <3>. QED
      BY <3>1, <3>2, AfterRepairTo
  <2>3. CASE reply.choice = "HUMAN_REQUIRED"
    BY <2>3 DEF Reasons
  <2>. QED
    BY <1>3, <2>1, <2>2, <2>3
<1>. HIDE DEF to
<1>5. /\ r \in Row
      /\ SameCandidate(r) /\ SameHandoff(r) /\ SameResult(r)
      /\ r.decisions = Append(row.decisions, Decided(reply))
      /\ r.nextRole = row.nextRole /\ r.reason = to[2]
  <2>1. r = Because(WithDecision(reply), to[2])
    BY DEF Because
  <2>. HIDE DEF r
  <2>. QED
    BY <1>2, <1>3, <1>4, <2>1, DecidedReason
<1>. HIDE DEF r
<1>6. phase' = to[1] => MovePhase
  BY <1>2, <1>4 DEF MovePhase, Terminal
<1>7. Saves /\ row' = r /\ phase' = to[1]
  BY <1>1, <1>2, <1>5, <1>6, SavesPhase
<1>8. Continues
  <2>1. run.at \in Busy
    BY <1>1 DEF At, Busy
  <2>. QED
    BY <1>1, <1>2, <1>7, <2>1, LoopContinues
<1>. QED
  BY <1>1, <1>2, <1>4, <1>5, <1>7, <1>8, Zenon DEF Decides, Valid

\* Any other answer goes to the next tier, to dot or to a human.
Escalates ==
    /\ At("decided") /\ phase = "DECISION_RECEIVED"
    /\ Saves
    /\ \E reply \in Replies : row'.decisions = Append(row.decisions, Decided(reply))
    /\ SameCandidate(row') /\ SameHandoff(row') /\ SameResult(row')
    /\ \/ phase' = "JUDGE" /\ Climbs /\ Continues
       \/ phase' = "DECISION_RECEIVED" /\ Onward("escalating")
       \/ /\ phase' \in {"LIMIT_REACHED", "HUMAN_REQUIRED"} /\ Continues
          /\ row'.reason # "FINAL_ACCEPTANCE_REQUIRED"

LEMMA EscalateToTier ==
  ASSUME IInv, At("decided"), NEW reply \in Replies,
         NEW role \in Judges, NEW why \in Reasons,
         ToTier(role, WithDecision(reply), why), Rank[role] > Rank[row.nextRole]
  PROVE  Escalates
<1>. DEFINE r == AskNext(WithDecision(reply), role, why)
<1>1. /\ Control /\ row \in Row /\ run.at \in Between
      /\ inFlight = 0 /\ phase = "DECISION_RECEIVED"
      /\ row.evidence \in Evidence
  BY AtDecided
<1>2. reply \in Reply
  BY SessionAssumption
<1>3. SavePhase("JUDGE", r) /\ Loop("JUDGE", 1)
  BY Zenon DEF ToTier, Route, AskNext
<1>4. /\ r \in Row
      /\ SameCandidate(r) /\ SameHandoff(r) /\ SameResult(r)
      /\ r.decisions = Append(row.decisions, Decided(reply)) /\ r.nextRole = role
  BY <1>1, <1>2, DecidedNext
<1>. HIDE DEF r
<1>5. phase' = "JUDGE" => MovePhase
  BY <1>1, Zenon DEF MovePhase
<1>6. Saves /\ row' = r /\ phase' = "JUDGE"
  BY <1>1, <1>3, <1>4, <1>5, SavesPhase
<1>7. Continues
  <2>1. run.at \in Busy
    BY DEF At, Busy
  <2>. QED
    BY <1>1, <1>3, <1>6, <2>1, LoopContinues
<1>. QED
  BY <1>1, <1>4, <1>6, <1>7, Zenon DEF Escalates, Climbs

LEMMA EscalateToEnd ==
  ASSUME IInv, At("decided"), NEW reply \in Replies,
         NEW p \in {"LIMIT_REACHED", "HUMAN_REQUIRED"}, NEW why \in Reasons,
         why # "FINAL_ACCEPTANCE_REQUIRED",
         Route(p, [WithDecision(reply) EXCEPT !.reason = why])
  PROVE  Escalates
<1>. DEFINE r == [WithDecision(reply) EXCEPT !.reason = why]
<1>1. /\ Control /\ row \in Row /\ run.at \in Between
      /\ inFlight = 0 /\ phase = "DECISION_RECEIVED"
      /\ row.evidence \in Evidence
  BY AtDecided
<1>2. reply \in Reply
  BY SessionAssumption
<1>3. SavePhase(p, r) /\ Loop(p, 1)
  BY Zenon DEF Route
<1>4. /\ r \in Row
      /\ SameCandidate(r) /\ SameHandoff(r) /\ SameResult(r)
      /\ r.decisions = Append(row.decisions, Decided(reply)) /\ r.reason = why
  <2>1. r = Because(WithDecision(reply), why)
    BY DEF Because
  <2>. HIDE DEF r
  <2>. QED
    BY <1>1, <1>2, <2>1, DecidedReason
<1>. HIDE DEF r
<1>5. phase' = p => MovePhase
  BY <1>1 DEF MovePhase, Terminal
<1>6. Saves /\ row' = r /\ phase' = p
  BY <1>1, <1>3, <1>4, <1>5, SavesPhase
<1>7. Continues
  <2>1. run.at \in Busy
    BY DEF At, Busy
  <2>. QED
    BY <1>1, <1>3, <1>6, <2>1, LoopContinues
<1>. QED
  BY <1>1, <1>4, <1>6, <1>7, Zenon DEF Escalates

LEMMA EscalateOnward ==
  ASSUME IInv, At("decided"), NEW reply \in Replies,
         SavePhase(phase, WithDecision(reply)), GoTo("escalating")
  PROVE  Escalates
<1>1. /\ Control /\ row \in Row /\ run.at \in Between
      /\ inFlight = 0 /\ phase = "DECISION_RECEIVED"
      /\ row.evidence \in Evidence
  BY AtDecided
<1>2. reply \in Reply
  BY SessionAssumption
<1>. DEFINE r == WithDecision(reply)
<1>3. /\ r \in Row
      /\ SameCandidate(r) /\ SameHandoff(r) /\ SameResult(r)
      /\ r.decisions = Append(row.decisions, Decided(reply))
  BY <1>1, <1>2, DecidedRow
<1>. HIDE DEF r
<1>4. Saves /\ row' = r /\ phase' = phase
  <2>1. SavePhase(phase, r)
    BY DEF r
  <2>. QED
    BY <1>1, <1>3, <2>1, SavesPhase
<1>5. Onward("escalating")
  <2>1. run \in Run /\ run.caller = "run" /\ "group" \notin run.workers
    BY <1>1, InTheLoop
  <2>2. "escalating" \in RunPlaces \cup {"copied", "escalating"}
    OBVIOUS
  <2>. QED
    BY <2>1, <2>2, GoesOn, Zenon DEF Onward
<1>. QED
  BY <1>1, <1>3, <1>4, <1>5, Zenon DEF Escalates

LEMMA JudgeEscalateDoes ==
  ASSUME IInv, NEW reply \in Replies, JudgeEscalate(reply)
  PROVE  Escalates
<1>1. At("decided")
  BY DEF JudgeEscalate
<1>2. row.nextRole \in Judges
  BY RowFields DEF IInv, TypeOK
<1>3. /\ "ESCALATION_REQUIRED" \in Reasons
      /\ "LEGACY_ASTRA_ESCALATION" \in Reasons
      /\ "CALL_LIMIT" \in Reasons
      /\ "AUTOMATED_REVIEW_EXHAUSTED" \in Reasons
  BY DEF Reasons, LimitReasons
<1>4. "sol" \in Judges /\ "astra" \in Judges
  BY DEF Judges
<1>5. CASE SolIsNext /\ ToTier("sol", WithDecision(reply), "ESCALATION_REQUIRED")
  <2>1. Rank["sol"] > Rank[row.nextRole]
    BY <1>2, <1>5, RankClimbs DEF SolIsNext
  <2>. QED
    BY <1>1, <1>3, <1>4, <1>5, <2>1, EscalateToTier
<1>6. CASE /\ row.nextRole # "astra"
           /\ ToTier("astra", WithDecision(reply), "LEGACY_ASTRA_ESCALATION")
  <2>1. Rank["astra"] > Rank[row.nextRole]
    BY <1>2, <1>6, RankClimbs
  <2>. QED
    BY <1>1, <1>3, <1>4, <1>6, <2>1, EscalateToTier
<1>7. CASE SavePhase(phase, WithDecision(reply)) /\ GoTo("escalating")
  BY <1>1, <1>7, EscalateOnward
<1>8. CASE Route("LIMIT_REACHED", [WithDecision(reply) EXCEPT !.reason = "CALL_LIMIT"])
  BY <1>1, <1>3, <1>8, EscalateToEnd
<1>9. CASE Route("HUMAN_REQUIRED",
                 [WithDecision(reply) EXCEPT !.reason = "AUTOMATED_REVIEW_EXHAUSTED"])
  BY <1>1, <1>3, <1>9, EscalateToEnd
<1>. QED
  BY <1>5, <1>6, <1>7, <1>8, <1>9, Zenon DEF JudgeEscalate

LEMMA EscalateToDotDoes == IInv /\ EscalateToDot => Stops \/ Pends
<1>. SUFFICES ASSUME IInv, EscalateToDot PROVE Stops \/ Pends
  OBVIOUS
<1>1. /\ At("escalating") /\ Control /\ inFlight = 0 /\ phase = "DECISION_RECEIVED"
  BY AtDecided DEF EscalateToDot
<1>2. /\ "DOT_SUPERVISOR_REVIEW_REQUIRED" \in Reasons
      /\ "EXTERNAL_EVIDENCE_NOT_AUTHORIZED" \in Reasons
  BY DEF Reasons
<1>3. CASE EvidenceAllowed /\ HandoffPending("DOT_SUPERVISOR_REVIEW_REQUIRED")
  BY <1>1, <1>2, <1>3, HandoffPendingDoes DEF EvidenceAllowed
<1>4. CASE Stop("HUMAN_REQUIRED", "EXTERNAL_EVIDENCE_NOT_AUTHORIZED")
  <2>1. ~At("idle") /\ phase \in HumanNext
    BY <1>1 DEF At, HumanNext
  <2>. QED
    BY <1>1, <1>2, <1>4, <2>1, StopStops
<1>. QED
  BY <1>3, <1>4, Zenon DEF EscalateToDot

\* The handoff is about the evidence of the current candidate.
Publishes ==
    /\ At("publishing") /\ phase = "HANDOFF_PENDING" /\ phase' = "DOT_HANDOFF"
    /\ Saves /\ Released
    /\ Fresh
    /\ SameCandidate(row') /\ SameReview(row') /\ SameResult(row')
    /\ row'.handoff = row.evidence /\ row'.supervisor = row.supervisor

LEMMA PublishDoes ==
  IInv /\ Publish =>
      \/ Stops
      \/ LetsGo
      \/ Publishes
<1>. SUFFICES ASSUME IInv, Publish
              PROVE  \/ Stops
                     \/ LetsGo
                     \/ Publishes
  OBVIOUS
<1>1. Control /\ row \in Row
  BY DEF IInv, Control, TypeOK
<1>2. run.at = "publishing" /\ inFlight = 0 /\ phase = "HANDOFF_PENDING"
  BY <1>1 DEF Control, InCall, InPlace, Publish, At
<1>3. CASE Raise("DOT_HANDOFF_REQUIRES_CURRENT_EVIDENCE")
  <2>1. "DOT_HANDOFF_REQUIRES_CURRENT_EVIDENCE" \in Reasons
    BY DEF Reasons
  <2>2. run.at \in RunPlaces
    BY <1>2 DEF RunPlaces
  <2>. QED
    BY <1>1, <1>3, <2>1, <2>2, RaiseStops
<1>4. CASE ~Raise("DOT_HANDOFF_REQUIRES_CURRENT_EVIDENCE")
  <2>. DEFINE r == [row EXCEPT !.handoff = row.evidence]
  <2>1. Fresh /\ SavePhase("DOT_HANDOFF", r) /\ run' = Ended
    BY <1>4, Zenon DEF Publish, Fresh
  <2>2. /\ r \in Row
        /\ SameCandidate(r) /\ SameReview(r) /\ SameResult(r)
        /\ r.handoff = row.evidence /\ r.supervisor = row.supervisor
    <3>1. r = [row EXCEPT !.handoff = row.evidence]
      OBVIOUS
    <3>. HIDE DEF r
    <3>. QED
      BY <1>1, <3>1, PublishedRow
  <2>. HIDE DEF r
  <2>3. phase' = "DOT_HANDOFF" => MovePhase
    BY <1>2, Zenon DEF MovePhase
  <2>4. Saves /\ row' = r /\ phase' = "DOT_HANDOFF"
    BY <1>1, <1>2, <2>1, <2>2, <2>3, SavesPhase
  <2>5. Released
    <3>1. run.at \in Between
      BY <1>2 DEF Between
    <3>2. run \in Run /\ "group" \notin run.workers
      BY <1>1, <3>1, InTheLoop
    <3>. QED
      BY <2>1, <3>2, Ends
  <2>. QED
    BY <1>2, <2>1, <2>2, <2>4, <2>5, Zenon DEF Publishes, At
<1>. QED
  BY <1>3, <1>4

\* The supervisor answers a handoff once, on the evidence it was about.
Answers ==
    /\ LockFree /\ phase = "DOT_HANDOFF"
    /\ Saves /\ run' = run
    /\ phase' \in {"SEAL", "READY", "LIMIT_REACHED", "HUMAN_REQUIRED"}
    /\ phase' = "SEAL" =>
          /\ row.evidence.status = "PASS"
          /\ row'.supervisor = [action |-> "ACCEPT", evidence |-> row.evidence]
    /\ SameCandidate(row') /\ SameReview(row') /\ SameResult(row')
    /\ row'.handoff = row.handoff
    /\ row'.reason # "FINAL_ACCEPTANCE_REQUIRED"

LEMMA SubmitDoes ==
  ASSUME IInv, NEW action \in Actions, Submit(action)
  PROVE  Answers
<1>. DEFINE to == CASE action = "ACCEPT" -> <<"SEAL", "EXTERNAL_SUPERVISOR_ACCEPTED">>
                    [] action = "REPAIR" ->
                         AfterRepair("EXTERNAL_SUPERVISOR_REPAIR_REQUESTED")
                    [] action = "HUMAN_REQUIRED" ->
                         <<"HUMAN_REQUIRED", "EXTERNAL_SUPERVISOR_REQUESTED_HUMAN">>
            answer == [action |-> action, evidence |-> row.handoff]
            r == AnsweredAs(to[2], answer)
<1>1. Control /\ row \in Row
  BY DEF IInv, Control, TypeOK
<1>2. /\ LockFree /\ phase = "DOT_HANDOFF" /\ inFlight = 0
      /\ row.handoff = row.evidence
      /\ action = "ACCEPT" => row.evidence.status = "PASS"
      /\ SavePhase(to[1], r) /\ run' = run
  BY Zenon DEF Submit, AnsweredAs
<1>3. row.evidence \in Evidence
  BY <1>1, <1>2, FreshIsEvidence DEF IInv, EvidenceIsFresh
<1>4. answer \in [action : Actions, evidence : Evidence]
  BY <1>2, <1>3
<1>5. /\ to[1] \in {"SEAL", "LIMIT_REACHED", "HUMAN_REQUIRED", "READY"}
      /\ to[2] \in Reasons /\ to[2] # "FINAL_ACCEPTANCE_REQUIRED"
      /\ to[1] = "SEAL" => action = "ACCEPT"
  <2>1. CASE action = "ACCEPT"
    BY <2>1 DEF Reasons
  <2>2. CASE action = "REPAIR"
    <3>1. "EXTERNAL_SUPERVISOR_REPAIR_REQUESTED" \in Reasons
      BY DEF Reasons
    <3>2. to = AfterRepair("EXTERNAL_SUPERVISOR_REPAIR_REQUESTED")
      BY <2>2
    <3>. HIDE DEF to
    <3>. QED
      BY <3>1, <3>2, AfterRepairTo
  <2>3. CASE action = "HUMAN_REQUIRED"
    BY <2>3 DEF Reasons
  <2>. QED
    BY <2>1, <2>2, <2>3 DEF Actions
<1>6. action = "ACCEPT" => answer = [action |-> "ACCEPT", evidence |-> row.evidence]
  BY <1>2
<1>. HIDE DEF to, answer
<1>7. /\ r \in Row
      /\ SameCandidate(r) /\ SameReview(r) /\ SameResult(r)
      /\ r.handoff = row.handoff /\ r.supervisor = answer /\ r.reason = to[2]
  BY <1>1, <1>4, <1>5, AnsweredRow
<1>. HIDE DEF r
<1>8. phase' = to[1] => MovePhase
  BY <1>2, <1>5 DEF MovePhase, Terminal
<1>9. Saves /\ row' = r /\ phase' = to[1]
  BY <1>1, <1>2, <1>7, <1>8, SavesPhase
<1>. QED
  BY <1>2, <1>5, <1>6, <1>7, <1>9, Zenon DEF Answers

\* A human accepts the evidence that awaits them.
Accepts ==
    /\ LockFree /\ phase' = phase /\ AwaitsHuman /\ AwaitsHuman'
    /\ Saves
    /\ run' \in Run /\ run'.at = "accepted" /\ run'.caller = "accept"
    /\ "group" \notin run'.workers
    /\ SameCandidate(row') /\ SameReview(row') /\ SameHandoff(row')
    /\ row'.acceptance = row.evidence

LEMMA AcceptDoes == IInv /\ Accept => Accepts
<1>. SUFFICES ASSUME IInv, Accept PROVE Accepts
  OBVIOUS
<1>1. Control /\ row \in Row /\ run \in Run
  BY DEF IInv, Control, TypeOK
<1>. DEFINE r == [row EXCEPT !.acceptance = row.evidence]
<1>2. /\ LockFree /\ AwaitsHuman /\ inFlight = 0
      /\ SavePhase(phase, r)
      /\ run' = [run EXCEPT !.at = "accepted", !.caller = "accept"]
  BY Zenon DEF Accept, AwaitsHuman
<1>3. /\ r \in Row
      /\ SameCandidate(r) /\ SameReview(r) /\ SameHandoff(r)
      /\ r.acceptance = row.evidence /\ r.reason = row.reason
  <2>1. r = [row EXCEPT !.acceptance = row.evidence]
    OBVIOUS
  <2>. HIDE DEF r
  <2>. QED
    BY <1>1, <2>1, AcceptedRow
<1>. HIDE DEF r
<1>4. Saves /\ row' = r /\ phase' = phase
  BY <1>1, <1>2, <1>3, SavesPhase
<1>5. AwaitsHuman'
  BY <1>2, <1>3, <1>4 DEF AwaitsHuman
<1>6. "group" \notin run.workers
  BY <1>2 DEF LockFree
<1>. QED
  BY <1>1, <1>2, <1>3, <1>4, <1>5, <1>6, AcceptStarts, Zenon DEF Accepts

\* The session is sealed with the current candidate.
Seals ==
    /\ At("patched") /\ phase' = "VERIFIED_DONE"
    /\ phase = "SEAL" \/ (AwaitsHuman /\ contract.humanFinal)
    /\ Saves /\ Released
    /\ SameCandidate(row') /\ SameReview(row') /\ SameHandoff(row')
    /\ row'.acceptance = row.acceptance /\ row'.output = row.snapshot

LEMMA SealCommitDoes == IInv /\ SealCommit => Seals
<1>. SUFFICES ASSUME IInv, SealCommit PROVE Seals
  OBVIOUS
<1>. DEFINE why == "DECLARED_ACCEPTANCE_VERIFIED_NOT_DEPLOYED"
            r == SealedAs(why)
<1>1. Control /\ row \in Row /\ run \in Run
  BY DEF IInv, Control, TypeOK
<1>2. /\ run.at = "patched" /\ SavePhase("VERIFIED_DONE", r) /\ run' = Ended
  BY Zenon DEF SealCommit, At, SealedAs
<1>3. inFlight = 0
  BY <1>1, <1>2 DEF Control, InCall
<1>4. phase = "SEAL" \/ (phase = "HUMAN_REQUIRED" /\ AwaitsHuman /\ contract.humanFinal)
  <2>1. run.caller \in {"run", "accept"}
    BY <1>1 DEF Run
  <2>2. run.caller = "run" => phase = "SEAL"
    BY <1>1, <1>2 DEF Control, InPlace, Sealing
  <2>3. run.caller = "accept" =>
            phase = "HUMAN_REQUIRED" /\ AwaitsHuman /\ contract.humanFinal
    BY DEF IInv, InPlace, EvidenceIsFresh
  <2>. QED
    BY <2>1, <2>2, <2>3
<1>5. why \in Reasons
  BY DEF Reasons
<1>6. /\ r \in Row
      /\ SameCandidate(r) /\ SameReview(r) /\ SameHandoff(r)
      /\ r.acceptance = row.acceptance /\ r.output = row.snapshot
  BY <1>1, <1>5, SealedRow
<1>. HIDE DEF r
<1>7. phase' = "VERIFIED_DONE" => MovePhase
  BY <1>4, Zenon DEF MovePhase
<1>8. Saves /\ row' = r /\ phase' = "VERIFIED_DONE"
  BY <1>1, <1>2, <1>3, <1>6, <1>7, SavesPhase
<1>9. Released
  <2>1. "group" \notin run.workers
    BY <1>1, <1>2 DEF Control, InCall
  <2>. QED
    BY <1>1, <1>2, <2>1, Ends
<1>. QED
  BY <1>2, <1>4, <1>6, <1>8, <1>9, Zenon DEF Seals, At

\* A call is charged and made, with nothing of the row changed.
Calls ==
    /\ row' = row /\ late' = late
    /\ disk' \in Disk /\ disk'.delivery = disk.delivery /\ disk'.patch = disk.patch
    /\ run' \in Run /\ run'.caller = "run" /\ run'.opsLeft # 0
    /\ \/ At("prepared") /\ Reserve("worker") /\ run'.at = "working"
       \/ /\ At("head") /\ row.nextRole \in Judges /\ Reserve(row.nextRole)
          /\ contract.redacted
          /\ run'.at = "judging" /\ "group" \notin run'.workers

\* What Store.reserve raises is one of the reasons of the row.
LEMMA RefusalIsReason ==
  ASSUME NEW role
  PROVE  /\ Refusal(role) # "NONE" => Refusal(role) \in Reasons
         /\ Refusal(role) # "FINAL_ACCEPTANCE_REQUIRED"
  BY DEF Refusal, LimitRefusal, Reasons, LimitReasons

LEMMA WorkerReserveDoes ==
  IInv /\ WorkerReserve => Stops \/ LetsGo \/ Calls
<1>. SUFFICES ASSUME IInv, WorkerReserve
              PROVE  Stops \/ LetsGo \/ Calls
  OBVIOUS
<1>1. Control /\ run \in Run /\ disk \in Disk
  BY DEF IInv, Control, TypeOK
<1>2. run.at = "prepared" /\ inFlight = 0 /\ run.opsLeft # 0
  BY <1>1 DEF Control, InCall, InPlace, WorkerReserve, At, Busy
<1>3. CASE Refusal("worker") # "NONE"
  <2>. DEFINE why == Refusal("worker")
  <2>1. Raise(why)
    BY <1>3 DEF WorkerReserve
  <2>2. why \in Reasons
    BY <1>3, RefusalIsReason
  <2>3. run.at \in RunPlaces
    BY <1>2 DEF RunPlaces
  <2>. HIDE DEF why
  <2>. QED
    BY <1>1, <1>2, <2>1, <2>2, <2>3, RaiseStops
<1>4. CASE Refusal("worker") = "NONE"
  <2>1. /\ Reserve("worker")
        /\ disk' = [disk EXCEPT !.workspace = FALSE, !.scratch = {}]
        /\ run' = [run EXCEPT !.at = "working", !.workers = @ \cup {"group"}]
        /\ UNCHANGED <<row, late>>
    BY <1>4, Zenon DEF WorkerReserve
  <2>2. run.caller = "run"
    <3>1. run.at \in Between
      BY <1>2 DEF Between
    <3>. QED
      BY <1>1, <3>1, InTheLoop
  <2>3. disk' \in Disk /\ disk'.delivery = disk.delivery /\ disk'.patch = disk.patch
    BY <1>1, <2>1, Scratched
  <2>. QED
    BY <1>1, <1>2, <2>1, <2>2, <2>3, WorkerStarts, Zenon DEF Calls, At
<1>. QED
  BY <1>3, <1>4

LEMMA JudgeReserveDoes ==
  IInv /\ JudgeReserve => Stops \/ LetsGo \/ Calls
<1>. SUFFICES ASSUME IInv, JudgeReserve
              PROVE  Stops \/ LetsGo \/ Calls
  OBVIOUS
<1>1. Control /\ run \in Run /\ disk \in Disk /\ row \in Row
  BY DEF IInv, Control, TypeOK
<1>2. /\ At("head") /\ run.at = "head" /\ phase = "JUDGE" /\ run.opsLeft # 0
      /\ run.at \in Between /\ run.at \in RunPlaces
  BY DEF JudgeReserve, Dispatch, At, Between, RunPlaces
<1>3. inFlight = 0 /\ run.caller = "run" /\ "group" \notin run.workers
  BY <1>1, <1>2, InTheLoop
<1>4. /\ "EXTERNAL_EVIDENCE_NOT_AUTHORIZED" \in Reasons
      /\ "SNAPSHOT_CHANGED_OUTSIDE_CONTROLLER" \in Reasons
      /\ "STALE_EVIDENCE" \in Reasons
  BY DEF Reasons
<1>5. CASE Stop("HUMAN_REQUIRED", "EXTERNAL_EVIDENCE_NOT_AUTHORIZED")
  BY <1>2, <1>4, <1>5, JudgeStops
<1>6. CASE \/ Raise("SNAPSHOT_CHANGED_OUTSIDE_CONTROLLER")
           \/ Raise("STALE_EVIDENCE")
  BY <1>1, <1>2, <1>4, <1>6, RaiseStops
<1>7. CASE Refusal(row.nextRole) # "NONE" /\ Raise(Refusal(row.nextRole))
  <2>. DEFINE why == Refusal(row.nextRole)
  <2>1. why \in Reasons /\ Raise(why)
    BY <1>7, RefusalIsReason
  <2>. HIDE DEF why
  <2>. QED
    BY <1>1, <1>2, <1>3, <2>1, RaiseStops
<1>8. CASE /\ EvidenceAllowed
           /\ Reserve(row.nextRole) /\ Save(row) /\ GoTo("judging") /\ UNCHANGED late
  <2>1. disk' \in Disk /\ disk'.delivery = disk.delivery /\ disk'.patch = disk.patch
    <3>1. disk' = [disk EXCEPT !.scratch = {}]
      BY <1>8 DEF Save
    <3>. QED
      BY <1>1, <3>1, Scratched
  <2>2. "judging" \in RunPlaces \cup {"copied", "escalating"}
    BY DEF RunPlaces
  <2>3. /\ run' \in Run /\ run'.at = "judging" /\ run'.caller = "run"
        /\ "group" \notin run'.workers /\ run'.opsLeft # 0
    BY <1>1, <1>2, <1>3, <1>8, <2>2, GoesOn, Zenon
  <2>4. row.nextRole \in Judges
    BY <1>1, RowFields
  <2>. QED
    BY <1>2, <1>8, <2>1, <2>3, <2>4, Zenon DEF Calls, Save, EvidenceAllowed
<1>. QED
  BY <1>5, <1>6, <1>7, <1>8, Zenon DEF JudgeReserve

\* A call returns, and its bill is booked.
Returns ==
    /\ \E receipt \in Receipts : Return(receipt)
    /\ row' \in Row /\ Same(row') /\ late' = late
    /\ disk' \in Disk /\ disk'.delivery = disk.delivery /\ disk'.patch = disk.patch
    /\ run.at \in {"working", "judging"}
    /\ \/ phase' = "LIMIT_REACHED" /\ Released
       \/ /\ At("working") /\ phase' = "CANDIDATE_RECEIVED"
          /\ Onward("received") /\ run.opsLeft # 0
       \/ /\ At("judging") /\ phase' = "DECISION_RECEIVED"
          /\ Onward("decided") /\ run.opsLeft # 0

LEMMA FinishDoes ==
  ASSUME IInv, NEW receipt \in Receipts,
         WorkerReturn(receipt) \/ JudgeReturn(receipt)
  PROVE  Returns
<1>. DEFINE why == IF phase' = "LIMIT_REACHED" THEN "OBSERVED_COST_EXCEEDS_LIMIT"
                   ELSE row.reason
            place == IF At("working") THEN "received" ELSE "decided"
            r == [row EXCEPT !.reason = why]
<1>1. Control /\ run \in Run /\ disk \in Disk /\ row \in Row
  BY DEF IInv, Control, TypeOK
<1>2. /\ run.at \in {"working", "judging"}
      /\ Finish(receipt, place)
  BY DEF WorkerReturn, JudgeReturn, At
<1>3. run.opsLeft # 0 /\ run.caller = "run"
  BY <1>1, <1>2 DEF Control, InPlace, Busy, Sealing, Run
<1>4. phase' \in {"LIMIT_REACHED", ReturnPhase(operations[inFlight].role)}
  BY <1>2 DEF Finish, Return, PhaseAfter
<1>5. /\ At("working") => ReturnPhase(operations[inFlight].role) = "CANDIDATE_RECEIVED"
      /\ At("judging") => ReturnPhase(operations[inFlight].role) = "DECISION_RECEIVED"
  BY <1>1 DEF Control, InCall, ReturnPhase, Judges
<1>6. why \in Reasons
  BY <1>1, RowFields DEF Reasons
<1>7. /\ row' = r /\ disk' = [disk EXCEPT !.scratch = {}]
      /\ Return(receipt) /\ late' = late
      /\ run' = IF phase' \in Terminal THEN [Ended EXCEPT !.workers = GroupKilled]
                ELSE Returned(place)
  BY <1>2, Zenon DEF Finish, Save
<1>8. r \in Row /\ Same(r)
  <2>1. r = [row EXCEPT !.reason = why]
    OBVIOUS
  <2>. HIDE DEF r, why
  <2>. QED
    BY <1>1, <1>6, <2>1, ReasonOnly
<1>. HIDE DEF r, why
<1>9. disk' \in Disk /\ disk'.delivery = disk.delivery /\ disk'.patch = disk.patch
  BY <1>1, <1>7, Scratched
<1>10. place \in RunPlaces
  BY DEF RunPlaces
<1>11. \/ phase' = "LIMIT_REACHED" /\ Released
       \/ At("working") /\ phase' = "CANDIDATE_RECEIVED" /\ Onward("received")
       \/ At("judging") /\ phase' = "DECISION_RECEIVED" /\ Onward("decided")
  <2>1. CASE phase' = "LIMIT_REACHED"
    <3>1. phase' \in Terminal
      BY <2>1 DEF Terminal
    <3>. QED
      BY <1>1, <1>7, <2>1, <3>1, EndsKilled
  <2>2. CASE phase' # "LIMIT_REACHED"
    <3>1. \/ At("working") /\ phase' = "CANDIDATE_RECEIVED"
          \/ At("judging") /\ phase' = "DECISION_RECEIVED"
      BY <1>2, <1>4, <1>5, <2>2 DEF At
    <3>2. phase' \notin Terminal
      BY <3>1 DEF Terminal
    <3>3. run' = Returned(place)
      BY <1>7, <3>2, Zenon
    <3>4. Onward(place)
      BY <1>1, <1>3, <1>10, <3>3, CallReturns, Zenon DEF Onward
    <3>5. At("judging") => place = "decided"
      BY DEF At
    <3>. QED
      BY <3>1, <3>4, <3>5
  <2>. QED
    BY <2>1, <2>2
<1>. QED
  BY <1>2, <1>3, <1>7, <1>8, <1>9, <1>11, Zenon DEF Returns
-----------------------------------------------------------------------------
(* The steps that stop the session, and those that save nothing. *)

LEMMA StopsHere ==
  ASSUME IInv,
         \/ RunFindsUncertain \/ RunDeadline \/ RunInterrupted \/ StepRaises
         \/ WorkerRejected \/ JudgeSpent \/ JudgeStale
  PROVE  Stops \/ LetsGo
<1>1. Control
  BY DEF IInv, Control
<1>2. /\ "UNCERTAIN_EXTERNAL_OPERATION_DO_NOT_REPLAY" \in Reasons
      /\ "MISSION_DEADLINE" \in Reasons
      /\ "INTERRUPTED_CHECKPOINT_REQUIRES_RECONCILIATION" \in Reasons
      /\ "ControlError" \in Reasons
      /\ "ARTIFACT_SIZE_LIMIT" \in Reasons
      /\ "DOT_HANDOFF_IO_RETRY_REQUIRED" \in Reasons
      /\ "SCOPE_VIOLATION" \in Reasons
      /\ "WORKER_BLOCKED_OR_EXECUTION_FAILED" \in Reasons
      /\ "CALL_LIMIT" \in Reasons
  BY DEF Reasons, LimitReasons
<1>3. CASE RunFindsUncertain
  BY <1>1, <1>2, <1>3, StopStops DEF RunFindsUncertain
<1>4. CASE RunDeadline
  <2>1. inFlight = 0 /\ phase \notin Terminal /\ ~At("idle")
    BY <1>1, <1>4 DEF RunDeadline, At, Control, InPlace, InCall
  <2>2. Stop("LIMIT_REACHED", "MISSION_DEADLINE")
    BY <1>4 DEF RunDeadline
  <2>. QED
    BY <1>1, <1>2, <2>1, <2>2, StopStops
<1>5. CASE RunInterrupted
  <2>1. inFlight = 0 /\ phase \in HumanNext /\ ~At("idle")
    BY <1>1, <1>5 DEF RunInterrupted, Dispatch, At, Control, InCall, HumanNext
  <2>2. Stop("HUMAN_REQUIRED", "INTERRUPTED_CHECKPOINT_REQUIRES_RECONCILIATION")
    BY <1>5 DEF RunInterrupted
  <2>. QED
    BY <1>1, <1>2, <2>1, <2>2, StopStops
<1>6. CASE StepRaises
  <2>1. ASSUME NEW why \in {"ControlError", "ARTIFACT_SIZE_LIMIT"}, Raise(why)
        PROVE  Stops \/ LetsGo
    <3>1. run.at \in RunPlaces
      BY <1>6 DEF StepRaises
    <3>2. why \in Reasons /\ why # "FINAL_ACCEPTANCE_REQUIRED"
      BY <1>2, <2>1
    <3>. QED
      BY <1>1, <2>1, <3>1, <3>2, RaiseStops
  <2>2. ASSUME phase = "HANDOFF_PENDING", RetryLater
        PROVE  Stops
    <3>1. run.at \in RunPlaces
      BY <1>6 DEF StepRaises
    <3>2. inFlight = 0 /\ ~At("idle") /\ phase \notin Terminal
      BY <1>1, <2>2, <3>1 DEF RunPlaces, At, Control, InPlace, InCall, Terminal
    <3>. QED
      BY <1>1, <1>2, <2>2, <3>2, StopStops DEF RetryLater
  <2>. QED
    BY <1>6, <2>1, <2>2 DEF StepRaises
<1>7. CASE WorkerRejected
  <2>1. PICK why \in {"SCOPE_VIOLATION", "WORKER_BLOCKED_OR_EXECUTION_FAILED"} :
            Stop("BLOCKED", why)
    BY <1>7 DEF WorkerRejected
  <2>2. inFlight = 0 /\ ~At("idle") /\ phase \notin Terminal
    BY <1>1, <1>7 DEF WorkerRejected, At, Control, InPlace, InCall, Terminal
  <2>3. why \in Reasons
    BY <1>2, <2>1
  <2>. QED
    BY <1>1, <2>1, <2>2, <2>3, StopStops
<1>8. CASE JudgeSpent
  BY <1>2, <1>8, JudgeStops DEF JudgeSpent, Dispatch
<1>9. CASE JudgeStale
  <2>1. /\ "SNAPSHOT_CHANGED_OUTSIDE_CONTROLLER" \in Reasons
        /\ run.at \in RunPlaces
    BY <1>9 DEF JudgeStale, At, Reasons, RunPlaces
  <2>. QED
    BY <1>1, <1>9, <2>1, RaiseStops DEF JudgeStale
<1>. QED
  BY <1>3, <1>4, <1>5, <1>6, <1>7, <1>8, <1>9

\* What such a step of the process or of somebody else keeps.
Moves ==
    /\ Quiet
    /\ run' \in Run /\ disk' \in Disk /\ late' \in BOOLEAN
    /\ InPlace' /\ InCall' /\ SealInv'
    /\ run'.at \in {"creating", "copied"} => run.at \in {"creating", "copied"}
    /\ run'.at = "decided" => run.at = "decided"
    /\ run'.caller = "accept" => run.caller = "accept"
    /\ phase = "VERIFIED_DONE" =>
          /\ disk'.delivery = disk.delivery /\ disk'.patch = disk.patch
          /\ late => late'

\* The process moves on between calls.
LEMMA StillNoCall ==
  ASSUME Control, UNCHANGED <<ledgerVars, row>>, inFlight = 0,
         run'.at \notin {"working", "judging"}, "group" \notin run'.workers
  PROVE  Quiet /\ InCall'
<1>1. waiting' = FALSE /\ inFlight' = 0
  BY WaitingIsBoolean, Zenon DEF ledgerVars
<1>2. Quiet
  BY Zenon DEF Quiet, ledgerVars
<1>. QED
  BY <1>1, <1>2, Zenon DEF InCall, At

LEMMA LetsGoMoves == IInv /\ LetsGo => Moves
<1>. SUFFICES ASSUME IInv, LetsGo PROVE Moves
  OBVIOUS
<1>1. InPlace'
  BY DEF LetsGo, Released, InPlace, At, Busy, Sealing
<1>2. InCall'
  BY Zenon DEF LetsGo, Released, InCall, At
<1>3. SealInv'
  BY DEF LetsGo, Quiet, Released, IInv, SealInv, CompletionEvidence, EvidenceCurrent, Sealing,
         LateIn, At
<1>. QED
  BY <1>1, <1>2, <1>3 DEF LetsGo, Moves, Released, IInv, TypeOK

\* One step of files or of the process at a place where nothing is sealed.
LEMMA MovesOutsideSealing ==
  ASSUME IInv, NoSave, inFlight = 0,
         run' \in Run, "group" \notin run'.workers, run'.caller = "run",
         disk' \in Disk, disk'.delivery = disk.delivery, disk'.patch = disk.patch,
         run'.at \in {"copied", "head", "copying", "verifying", "prepared", "publishing",
                     "idle"},
         run'.at = "copied" => run.at = "creating",
         InPlace'
  PROVE  Moves
<1>1. Control
  BY DEF IInv, Control
<1>2. Quiet /\ InCall'
  BY <1>1, StillNoCall DEF NoSave
<1>3. SealInv'
  BY <1>2 DEF NoSave, ledgerVars, IInv, SealInv, CompletionEvidence, EvidenceCurrent,
              Sealing, LateIn, At
<1>4. late' \in BOOLEAN /\ late' = late
  BY DEF NoSave, IInv, TypeOK
<1>. QED
  BY <1>2, <1>3, <1>4 DEF Moves

LEMMA MovesInTheLoop ==
  ASSUME IInv, \/ CreateCopy \/ RunPause \/ RunStart \/ VerifyCopy \/ WorkerPrepare
               \/ Copied \/ PublishAgain
  PROVE  Moves \/ Stops
<1>1. Control /\ run \in Run /\ disk \in Disk
  BY DEF IInv, Control, TypeOK
<1>2. /\ "SOURCE_IDENTITY_CHANGED" \in Reasons
      /\ "SNAPSHOT_CHANGED_OUTSIDE_CONTROLLER" \in Reasons
      /\ "FileExistsError" \in Reasons
  BY DEF Reasons
<1>3. ASSUME \/ \E c \in Contents : disk' = [disk EXCEPT !.current = c]
             \/ \E w \in BOOLEAN : disk' = [disk EXCEPT !.workspace = w]
             \/ \E s \in SUBSET {"verification", "export"} :
                   disk' = [disk EXCEPT !.scratch = s]
      PROVE  disk' \in Disk /\ disk'.delivery = disk.delivery /\ disk'.patch = disk.patch
  <2>1. ASSUME NEW c \in Contents, disk' = [disk EXCEPT !.current = c]
        PROVE  disk' \in Disk /\ disk'.delivery = disk.delivery /\ disk'.patch = disk.patch
    <3>1. disk' \in Disk
      BY <1>1, <2>1, Zenon DEF Disk
    <3>. QED
      BY <1>1, <2>1, <3>1, Zenon DEF Disk
  <2>2. ASSUME NEW w \in BOOLEAN, disk' = [disk EXCEPT !.workspace = w]
        PROVE  disk' \in Disk /\ disk'.delivery = disk.delivery /\ disk'.patch = disk.patch
    <3>1. disk' \in Disk
      BY <1>1, <2>2, Zenon DEF Disk
    <3>. QED
      BY <1>1, <2>2, <3>1, Zenon DEF Disk
  <2>3. ASSUME NEW s \in SUBSET {"verification", "export"},
               disk' = [disk EXCEPT !.scratch = s]
        PROVE  disk' \in Disk /\ disk'.delivery = disk.delivery /\ disk'.patch = disk.patch
    <3>1. disk' \in Disk
      BY <1>1, <2>3, Zenon DEF Disk
    <3>. QED
      BY <1>1, <2>3, <3>1, Zenon DEF Disk
  <2>. QED
    BY <1>3, <2>1, <2>2, <2>3
<1>4. CASE CreateCopy
  <2>1. /\ run.at = "creating" /\ phase = "READY" /\ inFlight = 0
        /\ run.caller = "run" /\ "group" \notin run.workers
    <3>1. run.at = "creating"
      BY <1>4 DEF CreateCopy, At
    <3>2. phase = "READY" /\ inFlight = 0
      BY <1>1, <3>1 DEF Control, InPlace, InCall
    <3>3. run.caller = "run"
      BY <1>1, <3>1 DEF Control, InPlace, Sealing, Run
    <3>4. "group" \notin run.workers
      BY <1>1, <3>1 DEF Control, InCall
    <3>. QED
      BY <3>1, <3>2, <3>3, <3>4
  <2>2. NoSave
    BY <1>4 DEF CreateCopy
  <2>3. CASE /\ \E c \in Contents : disk' = [disk EXCEPT !.current = c]
             /\ GoTo("copied")
    <3>1. "copied" \in RunPlaces \cup {"copied", "escalating"}
      OBVIOUS
    <3>2. /\ run' \in Run /\ run'.at = "copied"
          /\ run'.caller = "run" /\ "group" \notin run'.workers
      BY <1>1, <2>1, <2>3, <3>1, GoesOn, Zenon
    <3>3. disk' \in Disk /\ disk'.delivery = disk.delivery /\ disk'.patch = disk.patch
      BY <1>3, <2>3
    <3>4. InPlace'
      BY <2>1, <2>2, <3>2 DEF NoSave, ledgerVars, InPlace, At, Busy, Sealing
    <3>. QED
      BY <2>1, <2>2, <3>2, <3>3, <3>4, MovesOutsideSealing
  <2>4. CASE run' = Ended /\ UNCHANGED disk
    <3>1. /\ run' \in Run /\ run'.at = "idle"
          /\ run'.caller = "run" /\ "group" \notin run'.workers
      BY <1>1, <2>1, <2>4, Ends DEF Released
    <3>2. InPlace'
      BY <3>1 DEF InPlace, At, Busy, Sealing
    <3>. QED
      BY <1>1, <2>1, <2>2, <2>4, <3>1, <3>2, MovesOutsideSealing
  <2>. QED
    BY <1>4, <2>3, <2>4, Zenon DEF CreateCopy
<1>5. CASE RunPause
  <2>1. run.at \in Between /\ NoSave /\ run' = Ended /\ disk' = disk
    BY <1>5 DEF RunPause, At, Between
  <2>2. inFlight = 0
    BY <1>1, <2>1, InTheLoop
  <2>3. /\ run' \in Run /\ run'.at = "idle"
        /\ run'.caller = "run" /\ "group" \notin run'.workers
    BY <1>1, <2>1, InTheLoop, Ends DEF Released
  <2>4. InPlace'
    BY <2>3 DEF InPlace, At, Busy, Sealing
  <2>. QED
    BY <1>1, <2>1, <2>2, <2>3, <2>4, MovesOutsideSealing
<1>6. CASE RunStart
  <2>1. CASE Raise("SOURCE_IDENTITY_CHANGED")
    <3>1. Stops \/ LetsGo
      BY <1>1, <1>2, <1>6, <2>1, RaiseStops DEF RunStart
    <3>. QED
      BY <3>1, LetsGoMoves
  <2>2. CASE ~Raise("SOURCE_IDENTITY_CHANGED")
    <3>1. PICK n \in RunLimits : run' = [run EXCEPT !.at = "head", !.opsLeft = n]
      BY <1>6, <2>2, Zenon DEF RunStart
    <3>2. /\ NoSave /\ disk' = disk /\ run.at = "idle" /\ run.workers = {}
          /\ inFlight = 0 /\ phase \notin Terminal
      BY <1>6, <2>2, Zenon DEF RunStart, LockFree, Resumable, At
    <3>3. run.caller = "run"
      BY <1>1, <3>2 DEF Control, InPlace, Sealing, Run
    <3>5. /\ run' \in Run /\ run'.at = "head"
          /\ run'.caller = "run" /\ "group" \notin run'.workers
      BY <1>1, <3>1, <3>2, <3>3, RunStarts, Zenon
    <3>6. InPlace'
      BY <3>2, <3>5 DEF NoSave, ledgerVars, InPlace, At, Busy, Sealing
    <3>. QED
      BY <1>1, <3>2, <3>5, <3>6, MovesOutsideSealing
  <2>. QED
    BY <2>1, <2>2
<1>7. ASSUME NEW p \in {"VERIFY", "READY", "HANDOFF_PENDING"}, Dispatch(p),
             NEW place \in {"copying", "publishing"},
             <<p, place>> \in {<<"VERIFY", "copying">>, <<"READY", "copying">>,
                               <<"HANDOFF_PENDING", "publishing">>},
             GoTo(place), NoSave,
             disk' \in Disk, disk'.delivery = disk.delivery, disk'.patch = disk.patch
      PROVE  Moves
  <2>1. run.at \in Between /\ run.opsLeft # 0 /\ phase = p
    BY <1>7 DEF Dispatch, At, Between
  <2>2. inFlight = 0 /\ run.caller = "run" /\ "group" \notin run.workers
    BY <1>1, <2>1, InTheLoop
  <2>3. place \in RunPlaces \cup {"copied", "escalating"}
    BY DEF RunPlaces
  <2>4. /\ run' \in Run /\ run'.at = place
        /\ run'.caller = "run" /\ "group" \notin run'.workers /\ run'.opsLeft # 0
    BY <1>1, <1>7, <2>1, <2>2, <2>3, GoesOn, Zenon
  <2>5. InPlace'
    BY <1>7, <2>1, <2>4 DEF NoSave, ledgerVars, InPlace, At, Busy, Sealing
  <2>. QED
    BY <1>7, <2>2, <2>4, <2>5, MovesOutsideSealing
<1>8. ASSUME NEW why \in {"SNAPSHOT_CHANGED_OUTSIDE_CONTROLLER", "FileExistsError"},
             Raise(why), At("head")
      PROVE  Moves \/ Stops
  <2>1. run.at \in RunPlaces /\ why \in Reasons /\ why # "FINAL_ACCEPTANCE_REQUIRED"
    BY <1>2, <1>8 DEF At, RunPlaces
  <2>. QED
    BY <1>1, <1>8, <2>1, RaiseStops, LetsGoMoves
<1>9. CASE VerifyCopy
  <2>1. At("head")
    BY <1>9 DEF VerifyCopy, Dispatch
  <2>2. CASE /\ disk' = [disk EXCEPT !.scratch = @ \cup {"verification"}]
             /\ GoTo("copying") /\ NoSave
    <3>1. disk.scratch \cup {"verification"} \in SUBSET {"verification", "export"}
      BY <1>1 DEF Disk
    <3>2. disk' \in Disk /\ disk'.delivery = disk.delivery /\ disk'.patch = disk.patch
      <4>1. disk' = [disk EXCEPT !.scratch = disk.scratch \cup {"verification"}]
        BY <1>1, <2>2, Zenon DEF Disk
      <4>. QED
        BY <1>3, <3>1, <4>1
    <3>. QED
      BY <1>7, <1>9, <2>2, <3>2 DEF VerifyCopy
  <2>. QED
    BY <1>8, <1>9, <2>1, <2>2, Zenon DEF VerifyCopy
<1>10. CASE WorkerPrepare
  <2>1. At("head")
    BY <1>10 DEF WorkerPrepare, Dispatch
  <2>2. CASE disk' = [disk EXCEPT !.workspace = TRUE] /\ GoTo("copying") /\ NoSave
    <3>1. disk' \in Disk /\ disk'.delivery = disk.delivery /\ disk'.patch = disk.patch
      BY <1>3, <2>2
    <3>. QED
      BY <1>7, <1>10, <2>2, <3>1 DEF WorkerPrepare
  <2>. QED
    BY <1>8, <1>10, <2>1, <2>2, Zenon DEF WorkerPrepare
<1>11. CASE PublishAgain
  BY <1>1, <1>7, <1>11 DEF PublishAgain
<1>12. CASE Copied
  <2>. DEFINE place == IF phase = "VERIFY" THEN "verifying" ELSE "prepared"
  <2>1. /\ run.at = "copying" /\ NoSave /\ disk' = disk
        /\ run' = [run EXCEPT !.at = place, !.copied = disk.current]
    BY <1>12, Zenon DEF Copied, At
  <2>2. /\ run.caller = "run" /\ "group" \notin run.workers /\ inFlight = 0
        /\ run.opsLeft # 0 /\ phase \in {"VERIFY", "READY"}
    <3>1. run.at \in Between /\ run.at \in Busy
      BY <2>1 DEF Between, Busy
    <3>. QED
      BY <1>1, <2>1, <3>1, InTheLoop DEF Control, InPlace, At
  <2>3. /\ place = "verifying" => phase = "VERIFY"
        /\ place = "prepared" => phase = "READY"
        /\ place \in {"verifying", "prepared"} /\ place \in RunPlaces
    BY <2>2 DEF RunPlaces
  <2>4. disk.current \in Contents \cup {Absent}
    BY <1>1 DEF Disk
  <2>. HIDE DEF place
  <2>5. run' \in Run
    BY <1>1, <2>1, <2>3, <2>4, Zenon DEF Run
  <2>6. /\ run'.at = place /\ run'.caller = "run" /\ "group" \notin run'.workers
        /\ run'.opsLeft # 0
    BY <1>1, <2>1, <2>2, Zenon DEF Run
  <2>7. InPlace'
    BY <2>1, <2>2, <2>3, <2>6 DEF NoSave, ledgerVars, InPlace, At, Busy, Sealing
  <2>. QED
    BY <1>1, <2>1, <2>2, <2>3, <2>5, <2>6, <2>7, MovesOutsideSealing
<1>. QED
  BY <1>4, <1>5, <1>6, <1>9, <1>10, <1>11, <1>12

\* Sealing: the checks, the copy of the candidate, the export and the patch.
LEMMA SealMoves ==
  ASSUME IInv, UNCHANGED <<ledgerVars, row>>, late' \in BOOLEAN,
         run.at \in Sealing \cup {"head", "accepted"},
         run.caller = "run" => phase = "SEAL",
         NEW place \in Sealing, GoTo(place),
         contract.humanFinal => row.acceptance = row.evidence,
         disk' \in Disk,
         ~late' =>
            /\ place \in LateIn => disk'.current = row.snapshot
            /\ place \in {"delivered", "exporting", "patched"} =>
                  disk'.delivery = row.snapshot
            /\ place = "patched" => disk'.patch = row.snapshot
  PROVE  Moves
<1>1. Control /\ run \in Run /\ row \in Row
  BY DEF IInv, Control, TypeOK
<1>2. inFlight = 0 /\ "group" \notin run.workers
  BY <1>1 DEF Control, InCall, Sealing
<1>3. /\ run' \in Run /\ run'.at = place
      /\ run'.caller = run.caller /\ "group" \notin run'.workers
  <2>1. place \in RunPlaces \cup {"copied", "escalating"}
    BY DEF Sealing, RunPlaces
  <2>. QED
    BY <1>1, <1>2, <2>1, GoesOn, Zenon
<1>4. Quiet /\ InCall'
  BY <1>1, <1>2, <1>3, StillNoCall DEF Sealing
<1>5. /\ phase' = phase /\ row' = row /\ contract' = contract
  BY DEF ledgerVars
<1>6. /\ run.caller \in {"run", "accept"}
      /\ run.caller = "accept" => phase = "HUMAN_REQUIRED" /\ AwaitsHuman
  BY <1>1 DEF Control, InPlace, Run, IInv, EvidenceIsFresh
<1>7. InPlace'
  BY <1>3, <1>5, <1>6 DEF InPlace, At, Busy, Sealing
<1>8. CompletionEvidence
  BY <1>6 DEF IInv, EvidenceIsFresh, Passing, Fresh, CompletionEvidence
<1>9. SealInv'
  <2>1. CompletionEvidence'
    BY <1>5, <1>8 DEF CompletionEvidence, EvidenceCurrent
  <2>2. phase' \in {"SEAL", "HUMAN_REQUIRED"}
    BY <1>5, <1>6
  <2>. QED
    BY <1>3, <1>5, <2>1, <2>2 DEF SealInv, Sealing, LateIn, At
<1>. QED
  BY <1>3, <1>4, <1>6, <1>7, <1>9 DEF Moves, Sealing

\* What _seal raises stops a run, and lets an acceptance go.
LEMMA SealRaises ==
  ASSUME IInv, run.at \in Sealing \cup {"head", "accepted"},
         NEW why \in {"SOURCE_IDENTITY_CHANGED", "FINAL_ACCEPTANCE_REQUIRED",
                      "INCOMPLETE_COMPLETION_EVIDENCE", "DELIVERY_IDENTITY_MISMATCH",
                      "SNAPSHOT_CHANGED_OUTSIDE_CONTROLLER", "FileExistsError"},
         Raise(why)
  PROVE  Moves \/ Stops
<1>1. Control
  BY DEF IInv, Control
<1>2. inFlight = 0 /\ run.at \in RunPlaces /\ why \in Reasons
  BY <1>1 DEF Control, InCall, RunPlaces, Reasons, Sealing
<1>. QED
  BY <1>1, <1>2, RaiseStops, LetsGoMoves

LEMMA SealStartDoes == IInv /\ SealStart => Moves \/ Stops
<1>. SUFFICES ASSUME IInv, SealStart PROVE Moves \/ Stops
  OBVIOUS
<1>1. run \in Run /\ disk \in Disk /\ late \in BOOLEAN /\ InPlace
  BY DEF IInv, TypeOK
<1>2. run.at \in {"accepted", "head"}
  BY DEF SealStart, Dispatch, At
<1>3. run.caller = "run" => phase = "SEAL"
  BY <1>1 DEF SealStart, Dispatch, At, InPlace
<1>4. CASE /\ ~(contract.humanFinal /\ row.acceptance # row.evidence)
           /\ GoTo("sealing") /\ NoSave /\ disk' = disk
  <2>1. UNCHANGED <<ledgerVars, row>> /\ late' \in BOOLEAN /\ disk' \in Disk
    BY <1>1, <1>4 DEF NoSave
  <2>2. "sealing" \in Sealing /\ "sealing" \notin LateIn
    BY DEF Sealing, LateIn
  <2>. QED
    BY <1>2, <1>3, <1>4, <2>1, <2>2, SealMoves
<1>5. CASE \E why \in {"SOURCE_IDENTITY_CHANGED", "FINAL_ACCEPTANCE_REQUIRED",
                       "INCOMPLETE_COMPLETION_EVIDENCE"} : Raise(why)
  BY <1>2, <1>5, SealRaises
<1>. QED
  BY <1>4, <1>5, Zenon DEF SealStart

\* After the checks: each file is the candidate unless somebody edited it since.
LEMMA SealingMoves ==
  ASSUME IInv, \/ SealCheck \/ SealDelivered \/ SealExport \/ SealPatch
  PROVE  Moves \/ Stops
<1>1. /\ run \in Run /\ disk \in Disk /\ late \in BOOLEAN /\ InPlace /\ SealInv
      /\ row \in Row
  BY DEF IInv, TypeOK
<1>2. run.at \in Sealing
  BY DEF SealCheck, SealDelivered, SealExport, SealPatch, At, Sealing
<1>3. /\ run.caller = "run" => phase = "SEAL"
      /\ contract.humanFinal => row.acceptance = row.evidence
  BY <1>1, <1>2 DEF InPlace, SealInv
<1>4. disk.current \in Contents \cup {Absent}
  BY <1>1 DEF Disk
<1>. DEFINE Same3(d) == d.current = disk.current /\ d.delivery = disk.delivery
<1>5. \A d \in Contents \cup {Partial, Absent}, c \in Contents \cup {Absent},
         s \in SUBSET {"verification", "export"} :
        /\ [disk EXCEPT !.delivery = d] \in Disk
        /\ [disk EXCEPT !.delivery = d].delivery = d
        /\ [disk EXCEPT !.delivery = d].current = disk.current
        /\ [disk EXCEPT !.patch = c] \in Disk
        /\ [disk EXCEPT !.patch = c].patch = c
        /\ Same3([disk EXCEPT !.patch = c])
        /\ [disk EXCEPT !.scratch = s] \in Disk
        /\ Same3([disk EXCEPT !.scratch = s])
  BY <1>1, Zenon DEF Disk
<1>6. CASE SealCheck
  <2>1. CASE \/ Raise("SNAPSHOT_CHANGED_OUTSIDE_CONTROLLER")
             \/ Raise("DELIVERY_IDENTITY_MISMATCH")
    BY <1>2, <2>1, SealRaises
  <2>2. CASE /\ SnapshotOk /\ disk.delivery \in {Absent, row.snapshot}
             /\ disk' = [disk EXCEPT !.delivery = IF @ = Absent THEN Partial ELSE @]
             /\ GoTo(IF disk.delivery = Absent THEN "delivering" ELSE "delivered")
             /\ late' = FALSE
             /\ UNCHANGED <<ledgerVars, row>>
    <3>. DEFINE d == IF disk.delivery = Absent THEN Partial ELSE disk.delivery
                place == IF disk.delivery = Absent THEN "delivering" ELSE "delivered"
    <3>1. d \in Contents \cup {Partial, Absent}
      BY <1>1 DEF Disk
    <3>2. disk' = [disk EXCEPT !.delivery = d]
      BY <1>1, <2>2, Zenon DEF Disk
    <3>3. /\ place \in {"delivering", "delivered"} /\ GoTo(place)
          /\ place = "delivered" => d = row.snapshot
      BY <2>2, Zenon
    <3>. HIDE DEF d, place
    <3>4. disk' \in Disk /\ disk'.delivery = d /\ disk'.current = row.snapshot
      <4>1. disk' \in Disk
        BY <1>1, <3>1, <3>2, Zenon DEF Disk
      <4>2. disk'.delivery = d /\ disk'.current = disk.current
        BY <1>1, <3>2, <4>1, Zenon DEF Disk
      <4>. QED
        BY <2>2, <4>1, <4>2 DEF SnapshotOk
    <3>5. place \in Sealing
      BY <3>3 DEF Sealing
    <3>. QED
      BY <1>2, <1>3, <2>2, <3>3, <3>4, <3>5, SealMoves
  <2>. QED
    BY <1>6, <2>1, <2>2, Zenon DEF SealCheck, SealDelivery
<1>7. CASE SealDelivered
  <2>1. /\ run.at = "delivering" /\ GoTo("delivered") /\ NoSave
        /\ disk' = [disk EXCEPT !.delivery = disk.current]
    BY <1>7, Zenon DEF SealDelivered, At
  <2>2. /\ disk' \in Disk /\ disk'.delivery = disk.current
        /\ disk'.current = disk.current
    BY <1>4, <1>5, <2>1, Zenon
  <2>3. ~late => disk.current = row.snapshot
    BY <1>1, <2>1 DEF SealInv, LateIn
  <2>4. "delivered" \in Sealing /\ UNCHANGED <<ledgerVars, row>> /\ late' = late
    BY <2>1 DEF Sealing, NoSave
  <2>. QED
    BY <1>1, <1>2, <1>3, <2>1, <2>2, <2>3, <2>4, SealMoves
<1>8. CASE SealExport
  <2>1. CASE Raise("FileExistsError")
    BY <1>2, <2>1, SealRaises
  <2>2. CASE /\ disk' = [disk EXCEPT !.scratch = @ \cup {"export"}]
             /\ GoTo("exporting") /\ NoSave
    <3>. DEFINE s == disk.scratch \cup {"export"}
    <3>1. s \in SUBSET {"verification", "export"}
      BY <1>1 DEF Disk
    <3>2. disk' = [disk EXCEPT !.scratch = s]
      BY <1>1, <2>2, Zenon DEF Disk
    <3>. HIDE DEF s
    <3>3. disk' \in Disk /\ disk'.delivery = disk.delivery /\ disk'.current = disk.current
      BY <1>5, <3>1, <3>2, Zenon
    <3>4. ~late => disk.delivery = row.snapshot /\ disk.current = row.snapshot
      BY <1>1, <1>8 DEF SealExport, SealInv, LateIn, At
    <3>5. "exporting" \in Sealing /\ UNCHANGED <<ledgerVars, row>> /\ late' = late
      BY <2>2 DEF Sealing, NoSave
    <3>. QED
      BY <1>1, <1>2, <1>3, <2>2, <3>3, <3>4, <3>5, SealMoves
  <2>. QED
    BY <1>8, <2>1, <2>2, Zenon DEF SealExport
<1>9. CASE SealPatch
  <2>1. /\ run.at = "exporting" /\ GoTo("patched") /\ NoSave
        /\ disk' = [disk EXCEPT !.patch = disk.current]
    BY <1>9, Zenon DEF SealPatch, At
  <2>2. /\ disk' \in Disk /\ disk'.patch = disk.current
        /\ disk'.delivery = disk.delivery
    BY <1>4, <1>5, <2>1, Zenon
  <2>3. ~late => disk.delivery = row.snapshot /\ disk.current = row.snapshot
    BY <1>1, <2>1 DEF SealInv, LateIn
  <2>4. /\ "patched" \in Sealing /\ "patched" \notin LateIn
        /\ UNCHANGED <<ledgerVars, row>> /\ late' = late
    BY <2>1 DEF Sealing, LateIn, NoSave
  <2>. QED
    BY <1>1, <1>2, <1>3, <2>1, <2>2, <2>3, <2>4, SealMoves
<1>. QED
  BY <1>6, <1>7, <1>8, <1>9

\* A crash lets go of the lock; a worker may live on.
LEMMA CrashMoves == IInv /\ Crash => Moves
<1>. SUFFICES ASSUME IInv, Crash PROVE Moves
  OBVIOUS
<1>1. Control /\ run \in Run /\ disk \in Disk
  BY DEF IInv, Control, TypeOK
<1>2. /\ run' \in Run /\ run'.at = "idle" /\ run'.caller = "run"
      /\ "group" \in run'.workers => "group" \in run.workers
  <2>1. PICK left \in {run.workers, GroupKilled} : run' = [Ended EXCEPT !.workers = left]
    BY DEF Crash
  <2>2. left \in SUBSET {"group", "stray"} /\ ("group" \in left => "group" \in run.workers)
    BY <1>1, <2>1, Killed DEF Run
  <2>. QED
    BY <1>1, <2>1, <2>2, EndedFields, Zenon
<1>3. /\ UNCHANGED <<contract, phase, ledger, inFlight, row, disk, late, expired>>
      /\ waiting' = FALSE
  BY Zenon DEF Crash
<1>4. Quiet
  <2>1. CASE waiting
    BY <1>3, <2>1, Zenon DEF Quiet, CrashWaiting
  <2>2. CASE ~waiting
    <3>1. waiting' = waiting
      BY <1>1, <1>3, <2>2, WaitingIsBoolean, Zenon
    <3>. QED
      BY <1>3, <3>1, Zenon DEF Quiet, ledgerVars
  <2>. QED
    BY <2>1, <2>2
<1>5. InPlace'
  BY <1>2 DEF InPlace, At, Busy, Sealing
<1>6. InCall'
  <2>1. "group" \in run'.workers => phase' = "READY" /\ inFlight' # 0
    BY <1>1, <1>2, <1>3 DEF Control, InCall
  <2>. QED
    BY <1>2, <1>3, <2>1, Zenon DEF InCall, At
<1>7. SealInv'
  BY <1>2, <1>3 DEF IInv, SealInv, CompletionEvidence, EvidenceCurrent, Sealing, LateIn, At
<1>8. late' \in BOOLEAN /\ disk' \in Disk
  BY <1>1, <1>3 DEF IInv, TypeOK
<1>. QED
  BY <1>2, <1>3, <1>4, <1>5, <1>6, <1>7, <1>8 DEF Moves

\* What somebody else does while the controller is where it is.
LEMMA OthersMove ==
  ASSUME IInv, UNCHANGED <<contract, phase, ledger, inFlight, waiting, row>>, Quiet,
         run' \in Run, run'.at = run.at, run'.caller = run.caller,
         run'.opsLeft = run.opsLeft,
         "group" \in run'.workers => "group" \in run.workers,
         disk' \in Disk, disk'.delivery = disk.delivery, disk'.patch = disk.patch,
         late' \in BOOLEAN, late => late',
         disk'.current = disk.current \/ (run.at \in LateIn => late')
  PROVE  Moves
<1>1. operations' = operations
  BY Zenon DEF ledger
<1>2. InPlace'
  BY DEF IInv, InPlace, At
<1>3. InCall'
  BY <1>1, Zenon DEF IInv, InCall, At
<1>4. SealInv'
  BY DEF IInv, SealInv, CompletionEvidence, EvidenceCurrent, At
<1>. QED
  BY <1>2, <1>3, <1>4 DEF Moves

\* Processes of a worker stray and end, the deadline passes, and somebody edits
\* the snapshot.
LEMMA WorldMoves ==
  ASSUME IInv, \/ WorkerStrays \/ WorkerExits \/ Expire
               \/ \E c \in Contents : EditSnapshot(c)
  PROVE  Moves
<1>1. run \in Run /\ disk \in Disk /\ late \in BOOLEAN
  BY DEF IInv, TypeOK
<1>2. CASE WorkerStrays \/ WorkerExits
  <2>1. PICK w \in SUBSET {"group", "stray"} :
            /\ run' = [run EXCEPT !.workers = w]
            /\ "group" \in w => "group" \in run.workers
    <3>1. CASE WorkerStrays
      <4>. DEFINE w == run.workers \cup {"stray"}
      <4>1. w \in SUBSET {"group", "stray"} /\ run' = [run EXCEPT !.workers = w]
        BY <1>1, <3>1 DEF Run, WorkerStrays
      <4>. QED
        BY <3>1, <4>1 DEF WorkerStrays
    <3>2. CASE WorkerExits
      <4>1. PICK v \in run.workers : run' = [run EXCEPT !.workers = @ \ {v}]
        BY <3>2 DEF WorkerExits
      <4>. DEFINE w == run.workers \ {v}
      <4>2. w \in SUBSET {"group", "stray"} /\ run' = [run EXCEPT !.workers = w]
        BY <1>1, <4>1 DEF Run
      <4>. QED
        BY <4>2
    <3>. QED
      BY <1>2, <3>1, <3>2
  <2>2. /\ run' \in Run /\ run'.at = run.at /\ run'.caller = run.caller
        /\ run'.opsLeft = run.opsLeft /\ run'.workers = w
    <3>1. run' \in Run
      BY <1>1, <2>1, Zenon DEF Run
    <3>. QED
      BY <1>1, <2>1, <3>1, Zenon DEF Run
  <2>3. NoSave /\ disk' = disk
    BY <1>2 DEF WorkerStrays, WorkerExits
  <2>4. UNCHANGED <<contract, phase, ledger, inFlight, waiting, row>> /\ Quiet
    BY <2>3, Zenon DEF NoSave, ledgerVars, Quiet
  <2>5. late' = late
    BY <2>3 DEF NoSave
  <2>. QED
    BY <1>1, <2>1, <2>2, <2>3, <2>4, <2>5, OthersMove
<1>3. CASE Expire
  <2>1. /\ UNCHANGED <<contract, phase, ledger, inFlight, waiting, row>>
        /\ run' = run /\ disk' = disk /\ late' = late /\ Quiet
    BY <1>3, Zenon DEF Expire, DeadlinePasses, Quiet
  <2>. QED
    BY <1>1, <2>1, OthersMove
<1>4. ASSUME NEW c \in Contents, EditSnapshot(c) PROVE Moves
  <2>1. /\ UNCHANGED <<ledgerVars, row>> /\ run' = run
        /\ disk' = [disk EXCEPT !.current = c]
        /\ late' = (late \/ run.at \in LateIn)
    BY <1>4, Zenon DEF EditSnapshot
  <2>2. disk' \in Disk /\ disk'.delivery = disk.delivery /\ disk'.patch = disk.patch
    <3>1. disk' \in Disk
      BY <1>1, <2>1, Zenon DEF Disk
    <3>. QED
      BY <1>1, <2>1, <3>1, Zenon DEF Disk
  <2>3. UNCHANGED <<contract, phase, ledger, inFlight, waiting, row>> /\ Quiet
    BY <2>1, Zenon DEF ledgerVars, Quiet
  <2>. QED
    BY <1>1, <2>1, <2>2, <2>3, OthersMove
<1>. QED
  BY <1>2, <1>3, <1>4
-----------------------------------------------------------------------------
(* Every step is one of these, and a step of the ledger or none of it. *)

LEMMA Effects ==
  IInv /\ Next =>
      \/ Stops \/ Moves \/ Calls \/ Returns
      \/ Readies \/ Verifies \/ Adopts \/ AsksNext \/ Pends
      \/ Decides \/ Escalates \/ Publishes \/ Answers \/ Accepts \/ Seals
<1>1. CASE ControllerStep
  BY <1>1, CreateReadyDoes, VerifyRecordDoes, WorkerAdoptDoes, JudgeUnavailableDoes,
     JudgeDecideDoes, JudgeEscalateDoes, EscalateToDotDoes, PublishDoes, SealCommitDoes,
     WorkerReserveDoes, JudgeReserveDoes, FinishDoes, StopsHere, LetsGoMoves,
     MovesInTheLoop, SealStartDoes, SealingMoves, Zenon
  DEF ControllerStep
<1>2. CASE OperatorStep
  BY <1>2, StopsHere, LetsGoMoves, MovesInTheLoop, AcceptDoes, SubmitDoes, Zenon
  DEF OperatorStep
<1>. QED
  BY <1>1, <1>2, CrashMoves, WorldMoves, Zenon DEF Next

\* The saves that leave the ledger alone.
SavingKinds ==
    \/ Readies \/ Verifies \/ Adopts \/ AsksNext \/ Pends
    \/ Decides \/ Escalates \/ Publishes \/ Answers \/ Accepts \/ Seals

LEMMA SavingSaves == SavingKinds => Saves
  BY Zenon
  DEF SavingKinds, Readies, Verifies, Adopts, AsksNext, Pends, Decides, Escalates,
      Publishes, Answers, Accepts, Seals

\* Every step of a session, crashes and resumes included, is a step of the
\* ledger or leaves the ledger alone.
LEMMA LedgerStep == IInv /\ [Next]_vars => [LedgerNext]_ledgerVars
<1>. SUFFICES ASSUME IInv, [Next]_vars PROVE [LedgerNext]_ledgerVars
  OBVIOUS
<1>1. CASE UNCHANGED vars
  BY <1>1, Zenon DEF vars
<1>2. CASE Next
  <2>1. CASE Stops
    BY <2>1, Zenon DEF Stops, LedgerNext
  <2>2. CASE Moves
    BY <2>2, Zenon DEF Moves, Quiet, LedgerNext
  <2>3. CASE Calls
    <3>1. "worker" \in Roles /\ Judges \subseteq Roles
      BY DEF Roles
    <3>2. PICK role \in Roles : Reserve(role)
      BY <2>3, <3>1, Zenon DEF Calls
    <3>. QED
      BY <3>2, Zenon DEF LedgerNext
  <2>4. CASE Returns
    BY <2>4, Zenon DEF Returns, LedgerNext
  <2>5. CASE SavingKinds
    BY <2>5, SavingSaves, Zenon DEF Saves, LedgerNext
  <2>. QED
    BY <1>2, <2>1, <2>2, <2>3, <2>4, <2>5, Effects, Zenon DEF SavingKinds
<1>. QED
  BY <1>1, <1>2

\* The process after each kind of step: where it is and what phase it is in.
LEMMA Places ==
  ASSUME IInv, Stops \/ Calls \/ Returns \/ SavingKinds
  PROVE  run' \in Run /\ InPlace'
<1>1. Control /\ run \in Run
  BY DEF IInv, Control, TypeOK
<1>2. ASSUME Released PROVE run' \in Run /\ InPlace'
  BY <1>2 DEF Released, InPlace, At, Busy, Sealing
<1>3. ASSUME Continues PROVE run' \in Run /\ InPlace'
  BY <1>2, <1>3 DEF Continues, NextRound, InPlace, At, Busy, Sealing
<1>4. CASE Stops \/ Readies \/ Verifies \/ Adopts \/ AsksNext \/ Decides \/ Publishes
           \/ Seals
  BY <1>2, <1>3, <1>4, Zenon
  DEF Stops, Readies, Verifies, Adopts, AsksNext, Decides, Publishes, Seals
<1>5. CASE Calls
  BY <1>1, <1>5 DEF Calls, Reserve, DispatchPhase, Judges, InPlace, At, Busy, Sealing
<1>6. CASE Returns
  BY <1>2, <1>6 DEF Returns, Onward, InPlace, At, Busy, Sealing
<1>7. CASE Pends
  BY <1>7 DEF Pends, Onward, InPlace, At, Busy, Sealing
<1>8. CASE Escalates
  BY <1>3, <1>8 DEF Escalates, Onward, InPlace, At, Busy, Sealing
<1>9. CASE Answers
  <2>1. run.at = "idle" /\ run' = run /\ run.caller # "accept"
    BY <1>1, <1>9 DEF Answers, LockFree, At, Control, InPlace
  <2>. QED
    BY <1>1, <2>1 DEF InPlace, At, Busy, Sealing
<1>10. CASE Accepts
  BY <1>10 DEF Accepts, AwaitsHuman, InPlace, At, Busy, Sealing
<1>. QED
  BY <1>4, <1>5, <1>6, <1>7, <1>8, <1>9, <1>10 DEF SavingKinds

LEMMA InCalls ==
  ASSUME IInv, Stops \/ Calls \/ Returns \/ SavingKinds
  PROVE  InCall'
<1>1. Control /\ run \in Run /\ operations \in Seq(Operation)
  BY DEF IInv, Control, TypeOK, LedgerTypeOK
<1>2. CASE Stops
  BY <1>2, Zenon DEF Stops, Released, InCall, At
<1>3. CASE SavingKinds
  <2>1. inFlight' = 0 /\ waiting' = FALSE
    BY <1>1, <1>3, SavingSaves, WaitingIsBoolean, Zenon DEF Saves
  <2>2. run'.at \notin {"working", "judging"} /\ "group" \notin run'.workers
    <3>1. CASE Answers
      BY <3>1 DEF Answers, LockFree, At
    <3>2. CASE ~Answers
      BY <1>3, <3>2, Zenon
      DEF SavingKinds, Readies, Verifies, Adopts, AsksNext, Pends, Decides, Escalates,
          Publishes, Accepts, Seals, Continues, NextRound, Onward, Released
    <3>. QED
      BY <3>1, <3>2
  <2>. QED
    BY <2>1, <2>2, Zenon DEF InCall, At
<1>4. CASE Calls
  <2>1. PICK role \in Roles :
            /\ Reserve(role)
            /\ \/ run'.at = "working" /\ role = "worker"
               \/ run'.at = "judging" /\ "group" \notin run'.workers /\ role \in Judges
    BY <1>4, Zenon DEF Calls, Roles
  <2>2. /\ inFlight' = Len(operations) + 1
        /\ operations' = Append(operations,
                [role |-> role, state |-> "RESERVED",
                 reserved |-> contract.reserveUsd[role],
                 observed |-> Unpriced, status |-> "UNKNOWN"])
        /\ waiting' = TRUE
        /\ phase' = phase /\ phase = DispatchPhase(role)
    BY <2>1 DEF Reserve
  <2>3. inFlight' # 0 /\ operations'[inFlight'].role = role
    BY <1>1, <2>2
  <2>4. role = "worker" => phase' = "READY"
    BY <2>2 DEF DispatchPhase
  <2>. QED
    BY <2>1, <2>2, <2>3, <2>4, Zenon DEF InCall, At, Judges
<1>5. CASE Returns
  <2>1. inFlight' = 0 /\ waiting' = FALSE
    BY <1>5, Zenon DEF Returns, Return
  <2>2. run'.at \notin {"working", "judging"} /\ "group" \notin run'.workers
    BY <1>5, Zenon DEF Returns, Released, Onward
  <2>. QED
    BY <2>1, <2>2, Zenon DEF InCall, At
<1>. QED
  BY <1>2, <1>3, <1>4, <1>5

LEMMA ControlStep == IInv /\ [Next]_vars => Control'
<1>. SUFFICES ASSUME IInv, [Next]_vars PROVE Control'
  OBVIOUS
<1>1. LedgerTypeOK' /\ OneOutstanding'
  BY LedgerStep, LedgerTypeStep, OneOutstandingStep DEF IInv, TypeOK
<1>2. CASE UNCHANGED vars
  <2>1. /\ UNCHANGED <<row, disk, run, late, phase, inFlight, waiting>>
        /\ operations' = operations
    BY <1>2, Zenon DEF vars, ledgerVars, ledger
  <2>2. InPlace' /\ row' \in Row /\ disk' \in Disk /\ run' \in Run
        /\ late' \in BOOLEAN
    BY <2>1 DEF IInv, TypeOK, InPlace, At
  <2>3. InCall'
    BY <2>1, Zenon DEF IInv, InCall, At
  <2>. QED
    BY <1>1, <2>2, <2>3 DEF Control, TypeOK
<1>3. CASE Next
  <2>1. row \in Row /\ disk \in Disk /\ late \in BOOLEAN
    BY DEF IInv, TypeOK
  <2>2. CASE Moves
    <3>1. row' \in Row
      BY <2>1, <2>2 DEF Moves, Quiet
    <3>. QED
      BY <1>1, <2>2, <3>1, Zenon DEF Control, TypeOK, Moves
  <2>3. CASE Stops \/ Calls \/ Returns \/ SavingKinds
    <3>1. row' \in Row
      <4>1. CASE Stops
        <5>1. PICK why \in Reasons : row' = [row EXCEPT !.reason = why]
          BY <4>1 DEF Stops
        <5>. QED
          BY <2>1, <5>1, ReasonOnly
      <4>. QED
        BY <2>1, <2>3, <4>1, SavingSaves, Zenon DEF Calls, Returns, Saves
    <3>2. disk' \in Disk
      <4>1. CASE Stops
        BY <2>1, <4>1, Scratched DEF Stops
      <4>. QED
        BY <2>3, <4>1, SavingSaves, Zenon DEF Calls, Returns, Saves
    <3>3. late' = late
      BY <2>3, SavingSaves, Zenon DEF Stops, Calls, Returns, Saves
    <3>4. late' \in BOOLEAN
      BY <2>1, <3>3
    <3>. QED
      BY <1>1, <2>3, <3>1, <3>2, <3>4, Places, InCalls, Zenon DEF Control, TypeOK
  <2>. QED
    BY <1>3, <2>2, <2>3, Effects, Zenon DEF SavingKinds
<1>. QED
  BY <1>2, <1>3
-----------------------------------------------------------------------------
(* The evidence, the handoff, the review and the seal after each kind of step. *)

\* What the saves leave of the ledger, the files and the contract.
LEMMA Kept ==
  ASSUME IInv, Stops \/ Calls \/ Returns \/ SavingKinds
  PROVE  /\ contract' = contract
         /\ disk'.delivery = disk.delivery /\ disk'.patch = disk.patch
         /\ late' = late
         /\ row \in Row /\ row' \in Row
<1>1. disk \in Disk /\ row \in Row
  BY DEF IInv, TypeOK
<1>2. CASE Stops
  <2>1. PICK why \in Reasons : row' = [row EXCEPT !.reason = why]
    BY <1>2 DEF Stops
  <2>2. row' \in Row
    BY <1>1, <2>1, ReasonOnly
  <2>3. /\ disk'.delivery = disk.delivery /\ disk'.patch = disk.patch
        /\ contract' = contract /\ late' = late
    BY <1>1, <1>2, Scratched DEF Stops
  <2>. QED
    BY <1>1, <2>2, <2>3
<1>3. CASE SavingKinds
  BY <1>1, <1>3, SavingSaves, Zenon DEF Saves
<1>4. CASE Calls
  BY <1>1, <1>4, Zenon DEF Calls, Reserve
<1>5. CASE Returns
  BY <1>1, <1>5, Zenon DEF Returns, Return
<1>. QED
  BY <1>2, <1>3, <1>4, <1>5

\* A stop leaves the row as it was but for its reason.
LEMMA StopKeepsRow ==
  ASSUME row \in Row, Stops
  PROVE  /\ Same(row')
         /\ phase' = "HUMAN_REQUIRED" => row'.reason # "FINAL_ACCEPTANCE_REQUIRED"
<1>1. PICK why \in Reasons :
          /\ row' = [row EXCEPT !.reason = why]
          /\ phase' = "HUMAN_REQUIRED" => why # "FINAL_ACCEPTANCE_REQUIRED"
  BY DEF Stops
<1>. QED
  BY <1>1, ReasonOnly

\* The phase a call is made in and the one its return leads to.
LEMMA CallPhases ==
  /\ Calls => phase' = phase /\ phase \in {"READY", "JUDGE"} /\ row' = row
  /\ Returns => phase' \in {"LIMIT_REACHED", "CANDIDATE_RECEIVED", "DECISION_RECEIVED"}
  BY Zenon DEF Calls, Returns, Reserve, DispatchPhase, Judges

LEMMA EvidenceStep == IInv /\ Next => EvidenceIsFresh'
<1>. SUFFICES ASSUME IInv, Next PROVE EvidenceIsFresh'
  OBVIOUS
<1>0. /\ EvidenceIsFresh /\ InPlace /\ row \in Row
  BY DEF IInv, TypeOK
<1>1. CASE Moves
  BY <1>0, <1>1 DEF Moves, Quiet, EvidenceIsFresh, Fresh, Passing, AwaitsHuman,
                    EvidenceCurrent
<1>2. CASE Stops
  BY <1>0, <1>2, StopKeepsRow
  DEF Stops, Released, Same, SameCandidate, EvidenceIsFresh, Fresh, Passing, AwaitsHuman,
      EvidenceCurrent
<1>3. CASE Calls
  <2>1. phase' = phase /\ row' = row /\ contract' = contract /\ run'.caller = "run"
    BY <1>3, CallPhases, Kept DEF Calls
  <2>. QED
    BY <1>0, <2>1 DEF EvidenceIsFresh, Fresh, Passing, AwaitsHuman, EvidenceCurrent
<1>4. CASE Returns
  <2>1. phase' = "DECISION_RECEIVED" => Fresh
    BY <1>0, <1>4 DEF Returns, InPlace, At, EvidenceIsFresh
  <2>2. /\ SameCandidate(row') /\ run'.caller = "run"
        /\ phase' \in {"LIMIT_REACHED", "CANDIDATE_RECEIVED", "DECISION_RECEIVED"}
    BY <1>4, CallPhases DEF Returns, Same, Onward, Released
  <2>. QED
    BY <2>1, <2>2 DEF SameCandidate, EvidenceIsFresh, Fresh, Passing, AwaitsHuman,
                      EvidenceCurrent
<1>5. CASE Readies
  BY <1>5 DEF Readies, Released, EvidenceIsFresh, AwaitsHuman
<1>6. CASE Verifies
  <2>1. Fresh' /\ contract' = contract /\ run'.caller = "run"
    BY <1>6, Kept DEF SavingKinds, Verifies, Fresh, EvidenceCurrent, Continues, Released,
                      NextRound
  <2>. QED
    BY <1>6, <2>1 DEF Verifies, EvidenceIsFresh, Passing, AwaitsHuman
<1>7. CASE Adopts
  <2>1. phase' = "VERIFY" /\ run'.caller = "run"
    BY <1>7 DEF Adopts, Continues, Released, NextRound
  <2>. QED
    BY <2>1 DEF EvidenceIsFresh, AwaitsHuman
<1>8. CASE AsksNext \/ Pends
  <2>1. /\ Fresh /\ SameCandidate(row') /\ run'.caller = "run"
        /\ phase' \in {"JUDGE", "HANDOFF_PENDING"}
    BY <1>0, <1>8 DEF AsksNext, Pends, Continues, Released, NextRound, Onward, Same,
                      EvidenceIsFresh
  <2>. QED
    BY <2>1 DEF SameCandidate, EvidenceIsFresh, Fresh, AwaitsHuman, EvidenceCurrent
<1>9. CASE Decides
  <2>1. /\ Fresh /\ SameCandidate(row') /\ run'.caller = "run"
        /\ row'.reason # "FINAL_ACCEPTANCE_REQUIRED"
        /\ phase' \in {"SEAL", "BLOCKED", "LIMIT_REACHED", "HUMAN_REQUIRED", "READY"}
        /\ phase' = "SEAL" => row.evidence.status = "PASS"
    BY <1>0, <1>9 DEF Decides, Continues, Released, NextRound, EvidenceIsFresh
  <2>. QED
    BY <2>1 DEF SameCandidate, EvidenceIsFresh, Fresh, Passing, AwaitsHuman,
                EvidenceCurrent
<1>10. CASE Escalates
  <2>1. /\ Fresh /\ SameCandidate(row') /\ run'.caller = "run"
        /\ phase' \in {"JUDGE", "DECISION_RECEIVED", "LIMIT_REACHED", "HUMAN_REQUIRED"}
        /\ phase' = "HUMAN_REQUIRED" => row'.reason # "FINAL_ACCEPTANCE_REQUIRED"
    BY <1>0, <1>10 DEF Escalates, Continues, Released, NextRound, Onward, EvidenceIsFresh
  <2>. QED
    BY <2>1 DEF SameCandidate, EvidenceIsFresh, Fresh, AwaitsHuman, EvidenceCurrent
<1>11. CASE Publishes
  BY <1>11 DEF Publishes, Released, SameCandidate, EvidenceIsFresh, Fresh, AwaitsHuman,
               EvidenceCurrent
<1>12. CASE Answers
  <2>1. /\ Fresh /\ SameCandidate(row') /\ run'.caller # "accept"
        /\ row'.reason # "FINAL_ACCEPTANCE_REQUIRED"
        /\ phase' \in {"SEAL", "READY", "LIMIT_REACHED", "HUMAN_REQUIRED"}
        /\ phase' = "SEAL" => row.evidence.status = "PASS"
    BY <1>0, <1>12 DEF Answers, InPlace, EvidenceIsFresh
  <2>. QED
    BY <2>1 DEF SameCandidate, EvidenceIsFresh, Fresh, Passing, AwaitsHuman,
                EvidenceCurrent
<1>13. CASE Accepts
  <2>1. /\ Passing /\ SameCandidate(row') /\ contract' = contract
        /\ contract.humanFinal /\ AwaitsHuman'
    BY <1>0, <1>13, Kept DEF SavingKinds, Accepts, EvidenceIsFresh
  <2>. QED
    BY <2>1 DEF SameCandidate, EvidenceIsFresh, Fresh, Passing, AwaitsHuman,
                EvidenceCurrent
<1>14. CASE Seals
  <2>1. /\ Passing /\ SameCandidate(row') /\ run'.caller = "run"
        /\ phase' = "VERIFIED_DONE"
    BY <1>0, <1>14 DEF Seals, Released, EvidenceIsFresh
  <2>. QED
    BY <2>1 DEF SameCandidate, EvidenceIsFresh, Fresh, Passing, AwaitsHuman,
                EvidenceCurrent
<1>. QED
  BY <1>1, <1>2, <1>3, <1>4, <1>5, <1>6, <1>7, <1>8, <1>9, <1>10, <1>11, <1>12, <1>13,
     <1>14, Effects

LEMMA HandoffStep == IInv /\ Next => HandoffInv'
<1>. SUFFICES ASSUME IInv, Next PROVE HandoffInv'
  OBVIOUS
<1>0. /\ HandoffInv /\ InPlace /\ EvidenceIsFresh /\ row \in Row
  BY DEF IInv, TypeOK
<1>. DEFINE Handed == HandoffIsCurrent
            Asking == {"VERIFY", "JUDGE", "DECISION_RECEIVED", "HANDOFF_PENDING"}
\* A save that changes neither the candidate nor the handoff.
<1>1. ASSUME row \in Row, SameCandidate(row'), SameHandoff(row'),
             phase' # "DOT_HANDOFF",
             phase' \in Asking \/ run'.at \in {"creating", "copied"} => NothingAsked
      PROVE  HandoffInv'
  BY <1>0, <1>1 DEF SameCandidate, SameHandoff, HandoffInv, HandoffIsCurrent, NothingAsked
<1>2. CASE Moves
  BY <1>0, <1>2 DEF Moves, Quiet, HandoffInv, HandoffIsCurrent, NothingAsked
<1>3. CASE Stops
  <2>1. phase' = "HANDOFF_PENDING" => NothingAsked
    BY <1>0, <1>3 DEF Stops, HandoffInv
  <2>2. SameCandidate(row') /\ SameHandoff(row')
    BY <1>0, <1>3, StopKeepsRow DEF Same
  <2>. QED
    BY <1>0, <1>1, <1>3, <2>1, <2>2 DEF Stops, Released
<1>4. CASE Calls
  <2>1. phase' = phase /\ row' = row /\ run'.at \in {"working", "judging"}
    BY <1>4, CallPhases DEF Calls
  <2>. QED
    BY <1>0, <2>1 DEF HandoffInv, HandoffIsCurrent, NothingAsked
<1>5. CASE Returns
  <2>1. phase' = "DECISION_RECEIVED" => NothingAsked
    BY <1>0, <1>5 DEF Returns, InPlace, At, HandoffInv
  <2>2. /\ SameCandidate(row') /\ SameHandoff(row')
        /\ run'.at \notin {"creating", "copied"}
        /\ phase' \in {"LIMIT_REACHED", "CANDIDATE_RECEIVED", "DECISION_RECEIVED"}
    BY <1>5, CallPhases DEF Returns, Same, Onward, Released
  <2>. QED
    BY <1>0, <1>1, <2>1, <2>2
<1>6. CASE Readies
  <2>1. NothingAsked
    BY <1>0, <1>6 DEF Readies, At, HandoffInv
  <2>. QED
    BY <1>0, <1>1, <1>6, <2>1 DEF Readies, Same
<1>7. CASE Verifies
  <2>1. NothingAsked
    BY <1>0, <1>7 DEF Verifies, HandoffInv
  <2>. QED
    BY <1>7, <2>1 DEF Verifies, SameHandoff, HandoffInv, HandoffIsCurrent, NothingAsked
<1>8. CASE Adopts
  BY <1>8 DEF Adopts, HandoffInv, HandoffIsCurrent, NothingAsked
<1>9. CASE AsksNext \/ Pends \/ Decides \/ Escalates
  <2>1. NothingAsked
    BY <1>0, <1>9 DEF AsksNext, Pends, Decides, Escalates, HandoffInv
  <2>2. SameCandidate(row') /\ SameHandoff(row') /\ phase' # "DOT_HANDOFF"
    BY <1>9 DEF AsksNext, Pends, Decides, Escalates, Same
  <2>. QED
    BY <1>0, <1>1, <2>1, <2>2
<1>10. CASE Publishes
  <2>1. /\ NothingAsked /\ Fresh /\ SameCandidate(row') /\ phase' = "DOT_HANDOFF"
        /\ row'.handoff = row.evidence /\ row'.supervisor = row.supervisor
        /\ run'.at = "idle"
    BY <1>0, <1>10 DEF Publishes, Released, HandoffInv
  <2>2. row.evidence # NoEvidence
    <3>1. row.evidence.snap \in Contents
      BY <1>0, <2>1, RowFields DEF Fresh, EvidenceCurrent
    <3>. QED
      BY <3>1, SessionAssumption DEF NoEvidence
  <2>. QED
    BY <2>1, <2>2 DEF SameCandidate, Fresh, EvidenceCurrent, NothingAsked, HandoffInv,
                      HandoffIsCurrent
<1>11. CASE Answers
  <2>1. /\ SameCandidate(row') /\ row'.handoff = row.handoff /\ run'.at = "idle"
        /\ phase' \in {"SEAL", "READY", "LIMIT_REACHED", "HUMAN_REQUIRED"}
    BY <1>11 DEF Answers, LockFree, At
  <2>. QED
    BY <1>0, <2>1 DEF SameCandidate, HandoffInv, HandoffIsCurrent
<1>12. CASE Accepts
  BY <1>0, <1>1, <1>12 DEF Accepts, AwaitsHuman
<1>13. CASE Seals
  BY <1>0, <1>1, <1>13 DEF Seals, Released
<1>. QED
  BY <1>2, <1>3, <1>4, <1>5, <1>6, <1>7, <1>8, <1>9, <1>10, <1>11, <1>12, <1>13, Effects

\* A save that leaves the decisions and the revision: nothing new is asked.
LEMMA TiersKept ==
  ASSUME TiersInv, row'.decisions = row.decisions, row'.revision = row.revision,
         \/ phase' # "VERIFY" /\ run'.at \notin {"creating", "copied"}
         \/ phase = "VERIFY" \/ run.at \in {"creating", "copied"},
         \/ phase' # "JUDGE" /\ run'.at # "decided"
         \/ /\ phase = "JUDGE" \/ At("decided")
            /\ row'.nextRole = row.nextRole
         \/ phase = "VERIFY"
  PROVE  TiersInv'
  BY DEF TiersInv, TiersClimb, At

\* The decisions are of tiers that have a rank, about revisions.
LEMMA RankIsNat == \A role \in Judges : Rank[role] \in Nat
  BY DEF Rank, Judges

LEMMA ElementOf ==
  ASSUME NEW S, NEW s \in Seq(S), NEW i \in 1 .. Len(s)
  PROVE  s[i] \in S
  OBVIOUS

LEMMA DecisionFields ==
  ASSUME row \in Row
  PROVE  \A i \in 1 .. Len(row.decisions) :
            row.decisions[i].rev \in Nat /\ row.decisions[i].role \in Judges
<1>1. row.decisions \in Seq([role : Judges, reply : Reply, rev : Nat])
  BY RowFields
<1>2. \A i \in 1 .. Len(row.decisions) :
          row.decisions[i] \in [role : Judges, reply : Reply, rev : Nat]
  BY <1>1, ElementOf
<1>. QED
  BY <1>2

\* A save that appends the decision of the tier asked.
LEMMA TiersAppended ==
  ASSUME TiersInv, row \in Row, row' \in Row, Fresh, At("decided"), NEW reply \in Replies,
         row'.decisions = Append(row.decisions, Decided(reply)),
         row'.revision = row.revision,
         phase' # "VERIFY", run'.at \notin {"creating", "copied", "decided"},
         phase' = "JUDGE" => Climbs
  PROVE  TiersInv'
<1>. DEFINE n == Len(row.decisions)
<1>1. /\ row.decisions \in Seq([role : Judges, reply : Reply, rev : Nat])
      /\ row.revision \in Nat /\ row.nextRole \in Judges
  BY RowFields
<1>2. /\ Len(row'.decisions) = n + 1 /\ n \in Nat
      /\ row'.decisions[n + 1].role = row.nextRole
      /\ row'.decisions[n + 1].rev = row.revision
      /\ \A i \in 1 .. n : row'.decisions[i] = row.decisions[i]
  BY <1>1 DEF Decided, Fresh
<1>3. \A i \in 1 .. n :
        /\ row.decisions[i].rev \in Nat /\ row.decisions[i].rev <= row.revision
        /\ Rank[row.decisions[i].role] \in Nat
        /\ row.decisions[i].rev = row.revision =>
              Rank[row.decisions[i].role] < Rank[row.nextRole]
  BY DecisionFields, RankIsNat DEF TiersInv
<1>4. Rank[row.nextRole] \in Nat
  BY <1>1 DEF Rank, Judges
<1>. HIDE DEF n
<1>5. TiersClimb'
  <2>. SUFFICES ASSUME NEW i \in 1 .. n + 1, NEW j \in 1 .. n + 1, i < j,
                       row'.decisions[i].rev = row'.decisions[j].rev
                PROVE  Rank[row'.decisions[i].role] < Rank[row'.decisions[j].role]
    BY <1>2 DEF TiersClimb
  <2>1. i \in 1 .. n
    BY <1>2
  <2>2. CASE j = n + 1
    BY <1>2, <1>3, <2>1, <2>2
  <2>3. CASE j # n + 1
    BY <1>2, <2>1, <2>3 DEF TiersInv, TiersClimb, n
  <2>. QED
    BY <2>2, <2>3
<1>6. \A i \in 1 .. n + 1 :
        /\ row'.decisions[i].rev <= row'.revision
        /\ phase' = "JUDGE" /\ row'.decisions[i].rev = row'.revision =>
              Rank[row'.decisions[i].role] < Rank[row'.nextRole]
  <2>. SUFFICES ASSUME NEW i \in 1 .. n + 1
                PROVE  /\ row'.decisions[i].rev <= row'.revision
                       /\ phase' = "JUDGE" /\ row'.decisions[i].rev = row'.revision =>
                             Rank[row'.decisions[i].role] < Rank[row'.nextRole]
    OBVIOUS
  <2>1. phase' = "JUDGE" =>
            Rank[row'.nextRole] \in Nat /\ Rank[row'.nextRole] > Rank[row.nextRole]
    <3>1. row'.nextRole \in Judges
      BY DEF Row
    <3>. QED
      BY <3>1, RankIsNat DEF Climbs
  <2>2. CASE i = n + 1
    BY <1>1, <1>2, <1>4, <2>1, <2>2
  <2>3. CASE i \in 1 .. n
    <3>1. row'.decisions[i] = row.decisions[i] /\ row'.revision = row.revision
      BY <1>2, <2>3
    <3>2. /\ row.decisions[i].rev <= row.revision
          /\ Rank[row.decisions[i].role] \in Nat
          /\ row.decisions[i].rev = row.revision =>
                Rank[row.decisions[i].role] < Rank[row.nextRole]
      BY <1>3, <2>3
    <3>. QED
      BY <1>4, <2>1, <3>1, <3>2
  <2>. QED
    BY <1>2, <2>2, <2>3
<1>. QED
  BY <1>2, <1>5, <1>6 DEF TiersInv, At

LEMMA TiersStep == IInv /\ Next => TiersInv'
<1>. SUFFICES ASSUME IInv, Next PROVE TiersInv'
  OBVIOUS
<1>0. /\ TiersInv /\ InPlace /\ EvidenceIsFresh /\ row \in Row
  BY DEF IInv, TypeOK
<1>1. CASE Moves
  <2>1. row' = row /\ phase' = phase
    BY <1>1 DEF Moves, Quiet
  <2>. QED
    BY <1>0, <1>1, <2>1, TiersKept DEF Moves, At
<1>2. CASE Stops
  BY <1>0, <1>2, StopKeepsRow, TiersKept
  DEF Stops, Released, Same, SameCandidate, SameReview
<1>3. CASE Calls
  <2>1. phase' = phase /\ row' = row /\ run'.at \in {"working", "judging"}
    BY <1>3, CallPhases DEF Calls
  <2>. QED
    BY <1>0, <2>1, TiersKept
<1>4. CASE Returns
  <2>1. run'.at = "decided" => phase = "JUDGE"
    BY <1>0, <1>4 DEF Returns, Released, Onward, InPlace, At
  <2>2. /\ row'.decisions = row.decisions /\ row'.revision = row.revision
        /\ row'.nextRole = row.nextRole
        /\ run'.at \notin {"creating", "copied"}
        /\ phase' \in {"LIMIT_REACHED", "CANDIDATE_RECEIVED", "DECISION_RECEIVED"}
    BY <1>4, CallPhases DEF Returns, Same, SameCandidate, SameReview, Onward, Released
  <2>. QED
    BY <1>0, <2>1, <2>2, TiersKept
<1>5. CASE Readies
  BY <1>0, <1>5, TiersKept DEF Readies, Released, Same, SameCandidate, SameReview, At
<1>6. CASE Verifies
  <2>1. run'.at \notin {"creating", "copied", "decided"}
    BY <1>6 DEF Verifies, Continues, Released, NextRound
  <2>. QED
    BY <1>0, <1>6, <2>1, TiersKept DEF Verifies
<1>7. CASE Adopts
  <2>1. /\ run'.at # "decided" /\ phase' = "VERIFY"
        /\ row'.decisions = row.decisions /\ row'.revision = row.revision + 1
    BY <1>7 DEF Adopts, Continues, Released, NextRound, SameReview
  <2>2. row.revision \in Nat
    BY <1>0, RowFields
  <2>3. \A i \in 1 .. Len(row.decisions) :
            row.decisions[i].rev \in Nat /\ row.decisions[i].rev <= row.revision
    BY <1>0, DecisionFields DEF TiersInv
  <2>4. TiersClimb'
    BY <1>0, <2>1 DEF TiersInv, TiersClimb
  <2>. QED
    BY <2>1, <2>2, <2>3, <2>4 DEF TiersInv, At
<1>8. CASE AsksNext
  <2>1. /\ row'.decisions = row.decisions /\ row'.revision = row.revision
        /\ phase = "JUDGE" /\ phase' = "JUDGE" /\ run'.at = "head" /\ Climbs
    BY <1>8 DEF AsksNext, Continues, NextRound, Terminal, SameCandidate
  <2>2. \A i \in 1 .. Len(row.decisions) : Rank[row.decisions[i].role] \in Nat
    BY <1>0, DecisionFields, RankIsNat
  <2>3. Rank[row.nextRole] \in Nat /\ Rank[row'.nextRole] \in Nat
    <3>1. row.nextRole \in Judges /\ row'.nextRole \in Judges
      BY <1>0, <1>8, Kept DEF SavingKinds, Row
    <3>. QED
      BY <3>1, RankIsNat
  <2>4. \A i \in 1 .. Len(row.decisions) :
            row.decisions[i].rev = row.revision =>
                Rank[row.decisions[i].role] < Rank[row'.nextRole]
    BY <1>0, <2>1, <2>2, <2>3 DEF TiersInv, Climbs
  <2>5. TiersClimb'
    BY <1>0, <2>1 DEF TiersInv, TiersClimb
  <2>. QED
    BY <1>0, <2>1, <2>4, <2>5 DEF TiersInv, At
<1>9. CASE Pends
  BY <1>0, <1>9, TiersKept DEF Pends, Onward, Same, SameCandidate, SameReview
<1>10. CASE Decides
  <2>1. run'.at \notin {"creating", "copied", "decided"}
    BY <1>10 DEF Decides, Continues, Released, NextRound
  <2>. QED
    BY <1>0, <1>10, <2>1, Kept, TiersAppended DEF SavingKinds, Decides, EvidenceIsFresh, SameCandidate
<1>11. CASE Escalates
  <2>1. run'.at \notin {"creating", "copied", "decided"}
    BY <1>11 DEF Escalates, Continues, Released, NextRound, Onward
  <2>. QED
    BY <1>0, <1>11, <2>1, Kept, TiersAppended DEF SavingKinds, Escalates, EvidenceIsFresh, SameCandidate
<1>12. CASE Publishes
  BY <1>0, <1>12, TiersKept DEF Publishes, Released, SameCandidate, SameReview
<1>13. CASE Answers
  <2>1. run'.at = "idle"
    BY <1>13 DEF Answers, LockFree, At
  <2>. QED
    BY <1>0, <1>13, <2>1, TiersKept DEF Answers, SameCandidate, SameReview
<1>14. CASE Accepts
  BY <1>0, <1>14, TiersKept DEF Accepts, AwaitsHuman, SameCandidate, SameReview
<1>15. CASE Seals
  BY <1>0, <1>15, TiersKept DEF Seals, Released, SameCandidate, SameReview
<1>. QED
  BY <1>1, <1>2, <1>3, <1>4, <1>5, <1>6, <1>7, <1>8, <1>9, <1>10, <1>11, <1>12, <1>13,
     <1>14, <1>15, Effects

\* What is in delivery/ stays the candidate that passed, or a part of it.
LEMMA SealStep == IInv /\ Next => SealInv'
<1>. SUFFICES ASSUME IInv, Next PROVE SealInv'
  OBVIOUS
<1>0. SealInv /\ InPlace
  BY DEF IInv
<1>1. CASE Moves
  BY <1>1 DEF Moves
\* Elsewhere no delivery/ has been begun, ...
<1>2. ASSUME Stops \/ Calls \/ Returns \/ SavingKinds,
             phase \notin {"SEAL", "VERIFIED_DONE", "BLOCKED", "LIMIT_REACHED",
                           "HUMAN_REQUIRED"},
             run'.at \notin Sealing
      PROVE  SealInv'
  <2>1. disk.delivery = Absent /\ disk'.delivery = Absent
    BY <1>0, <1>2, Kept DEF SealInv
  <2>. QED
    BY <1>2, <2>1 DEF SealInv, Sealing, LateIn, At
\* ... and a stop or a seal leaves the candidate and its evidence.
<1>3. ASSUME Stops \/ SavingKinds, SameCandidate(row'), run'.at \notin Sealing,
             phase' \in {"SEAL", "VERIFIED_DONE", "BLOCKED", "LIMIT_REACHED",
                         "HUMAN_REQUIRED"}
      PROVE  SealInv'
  <2>1. disk'.delivery = disk.delivery
    BY <1>3, Kept
  <2>. QED
    BY <1>0, <1>3, <2>1 DEF SealInv, Sealing, SameCandidate, CompletionEvidence,
                            EvidenceCurrent, LateIn, At
<1>4. CASE Stops
  <2>1. SameCandidate(row') /\ run'.at \notin Sealing
    BY <1>4, StopKeepsRow DEF IInv, TypeOK, Same, Stops, Released, Sealing
  <2>2. \/ phase' \in {"BLOCKED", "LIMIT_REACHED", "HUMAN_REQUIRED"}
        \/ phase = "HANDOFF_PENDING"
    BY <1>4 DEF Stops
  <2>. QED
    BY <1>2, <1>3, <1>4, <2>1, <2>2
<1>5. CASE Calls
  <2>1. phase \in {"READY", "JUDGE"} /\ run'.at \notin Sealing
    BY <1>5, CallPhases DEF Calls, Sealing
  <2>. QED
    BY <1>2, <1>5, <2>1
<1>6. CASE Returns
  <2>1. phase \in {"READY", "JUDGE"} /\ run'.at \notin Sealing
    BY <1>0, <1>6 DEF Returns, InPlace, At, Released, Onward, Sealing
  <2>. QED
    BY <1>2, <1>6, <2>1
<1>7. CASE \/ Readies \/ Verifies \/ Adopts \/ AsksNext \/ Pends \/ Decides
           \/ Escalates \/ Publishes \/ Answers
  <2>1. phase \in {"READY", "VERIFY", "CANDIDATE_RECEIVED", "JUDGE", "DECISION_RECEIVED",
                   "HANDOFF_PENDING", "DOT_HANDOFF"}
    BY <1>0, <1>7 DEF Readies, Verifies, Adopts, AsksNext, Pends, Decides, Escalates,
                      Publishes, Answers, InPlace, At
  <2>2. run'.at \notin Sealing
    BY <1>7 DEF Readies, Verifies, Adopts, AsksNext, Pends, Decides, Escalates, Publishes,
                Answers, Continues, Released, NextRound, Onward, LockFree, At, Sealing
  <2>. QED
    BY <1>2, <1>7, <2>1, <2>2 DEF SavingKinds
<1>8. CASE Accepts \/ Seals
  <2>1. /\ SameCandidate(row') /\ run'.at \notin Sealing
        /\ phase' \in {"HUMAN_REQUIRED", "VERIFIED_DONE"}
    BY <1>8 DEF Accepts, Seals, AwaitsHuman, Released, Sealing
  <2>. QED
    BY <1>3, <1>8, <2>1 DEF SavingKinds
<1>. QED
  BY <1>1, <1>4, <1>5, <1>6, <1>7, <1>8, Effects

LEMMA DoneStep == IInv /\ Next => DoneInv'
<1>. SUFFICES ASSUME IInv, Next, phase' = "VERIFIED_DONE"
              PROVE  /\ row'.output = row'.snapshot
                     /\ late' \/ (disk'.delivery = row'.snapshot /\ disk'.patch = row'.snapshot)
                     /\ contract'.humanFinal => row'.acceptance = row'.evidence
                     /\ inFlight' = 0
  BY DEF DoneInv
<1>1. CASE Moves
  BY <1>1 DEF Moves, Quiet, IInv, DoneInv
<1>2. CASE Seals
  <2>1. /\ run.at = "patched" /\ run.at \in Sealing
        /\ SameCandidate(row') /\ row'.output = row.snapshot
        /\ row'.acceptance = row.acceptance
    BY <1>2 DEF Seals, At, Sealing
  <2>2. inFlight' = 0
    BY <1>2, Zenon DEF Seals, Saves
  <2>3. /\ contract' = contract /\ late' = late
        /\ disk'.delivery = disk.delivery /\ disk'.patch = disk.patch
    BY <1>2, Kept DEF SavingKinds
  <2>. QED
    BY <2>1, <2>2, <2>3 DEF IInv, SealInv, SameCandidate, At
<1>3. CASE ~Moves /\ ~Seals
  <2>1. ~Calls /\ ~Returns
    BY CallPhases
  <2>. QED
    BY <1>3, <2>1, Effects
    DEF Stops, Readies, Verifies, Adopts, AsksNext, Pends, Decides, Escalates, Publishes,
        Answers, Accepts, AwaitsHuman
<1>. QED
  BY <1>1, <1>2, <1>3

LEMMA ReviewStep == IInv /\ Next => ReviewInv'
<1>. SUFFICES ASSUME IInv, Next, phase' \in {"SEAL", "VERIFIED_DONE"},
                     contract'.semantic, ~contract'.humanFinal
              PROVE  Reviewed'
  BY DEF ReviewInv
<1>0. ReviewInv /\ EvidenceIsFresh /\ row \in Row
  BY DEF IInv, TypeOK
<1>1. CASE Moves
  <2>1. row' = row /\ phase' = phase /\ contract' = contract
    BY <1>1 DEF Moves, Quiet
  <2>. QED
    BY <1>0, <2>1 DEF ReviewInv, Reviewed
<1>2. CASE Verifies
  BY <1>2, Kept DEF SavingKinds, Verifies
<1>3. CASE Decides
  <2>1. PICK reply \in Replies :
            /\ row'.decisions = Append(row.decisions, Decided(reply))
            /\ phase' = "SEAL" => /\ reply.choice = "ACCEPT"
                                  /\ reply.bound /\ reply.confident
    BY <1>3 DEF Decides
  <2>2. phase' = "SEAL" /\ Fresh /\ row'.revision = row.revision
    BY <1>0, <1>3 DEF Decides, EvidenceIsFresh, SameCandidate
  <2>. DEFINE n == Len(row.decisions)
  <2>3. /\ n \in Nat /\ Len(row'.decisions) = n + 1
        /\ row'.decisions[n + 1] = Decided(reply)
    <3>1. row.decisions \in Seq([role : Judges, reply : Reply, rev : Nat])
      BY <1>0, RowFields
    <3>. QED
      BY <2>1, <3>1
  <2>. HIDE DEF n
  <2>4. n + 1 \in 1 .. Len(row'.decisions)
    BY <2>3
  <2>5. /\ Decided(reply).reply = reply /\ Decided(reply).rev = row'.revision
    BY <2>2 DEF Decided, Fresh
  <2>. QED
    BY <2>1, <2>2, <2>3, <2>4, <2>5, Zenon DEF Reviewed
<1>4. CASE Answers
  BY <1>4 DEF Answers, SameCandidate, Reviewed
<1>5. CASE Seals
  <2>1. /\ SameCandidate(row') /\ SameReview(row') /\ SameHandoff(row')
        /\ contract' = contract
    BY <1>5, Kept DEF SavingKinds, Seals
  <2>2. phase = "SEAL"
    BY <1>5, <2>1 DEF Seals
  <2>3. Reviewed
    BY <1>0, <2>1, <2>2 DEF ReviewInv
  <2>. QED
    BY <2>1, <2>3 DEF Reviewed, SameCandidate, SameReview, SameHandoff
<1>6. CASE ~Moves /\ ~Verifies /\ ~Decides /\ ~Answers /\ ~Seals
  <2>1. ~Calls /\ ~Returns
    BY CallPhases
  <2>. QED
    BY <1>6, <2>1, Effects
    DEF Stops, Readies, Adopts, AsksNext, Pends, Escalates, Publishes, Accepts, AwaitsHuman
<1>. QED
  BY <1>1, <1>2, <1>3, <1>4, <1>5, <1>6

LEMMA LocalStep == IInv /\ Next => LocalStaysLocal'
<1>. SUFFICES ASSUME IInv, Next PROVE LocalStaysLocal'
  OBVIOUS
<1>0. LocalStaysLocal /\ row \in Row /\ calls \in [Roles -> Nat]
  BY DEF IInv, TypeOK, LedgerTypeOK
<1>1. CASE Moves
  <2>1. row' = row /\ phase' = phase /\ contract' = contract /\ calls' = calls
    BY <1>1, Zenon DEF Moves, Quiet, ledger
  <2>. QED
    BY <1>0, <2>1 DEF LocalStaysLocal
<1>2. CASE Calls
  <2>1. contract' = contract /\ phase' = phase /\ row' = row
    BY <1>2, CallPhases, Kept
  <2>2. ~contract.redacted => calls' = Charged("worker")
    BY <1>2, Zenon DEF Calls, Reserve
  <2>3. \A judge \in Judges : Charged("worker")[judge] = calls[judge]
    BY <1>0 DEF Charged, Roles, Judges
  <2>. QED
    BY <1>0, <2>1, <2>2, <2>3 DEF LocalStaysLocal
<1>3. ASSUME Stops \/ Returns \/ SavingKinds PROVE contract' = contract /\ calls' = calls
  <2>1. CASE Stops
    BY <2>1, Zenon DEF Stops, ledger
  <2>2. CASE Returns
    BY <2>2, Zenon DEF Returns, Return
  <2>3. CASE SavingKinds
    BY <2>3, SavingSaves, Zenon DEF Saves, ledger
  <2>. QED
    BY <1>3, <2>1, <2>2, <2>3
<1>4. CASE Stops
  <2>1. row'.handoff = row.handoff
    BY <1>0, <1>4, StopKeepsRow DEF Same, SameHandoff
  <2>2. phase' \in {"HANDOFF_PENDING", "DOT_HANDOFF"} => phase' = phase
    BY <1>4 DEF Stops
  <2>. QED
    BY <1>0, <1>3, <1>4, <2>1, <2>2 DEF LocalStaysLocal
<1>5. CASE Returns
  <2>1. /\ row'.handoff = row.handoff
        /\ phase' \notin {"HANDOFF_PENDING", "DOT_HANDOFF"}
    BY <1>5, CallPhases DEF Returns, Same, SameHandoff
  <2>. QED
    BY <1>0, <1>3, <1>5, <2>1 DEF LocalStaysLocal
<1>6. CASE Publishes
  BY <1>0, <1>3, <1>6 DEF SavingKinds, Publishes, LocalStaysLocal
<1>7. CASE Pends
  BY <1>3, <1>7 DEF SavingKinds, Pends, LocalStaysLocal
<1>8. CASE SavingKinds /\ ~Publishes /\ ~Pends
  <2>1. /\ row'.handoff \in {row.handoff, NoEvidence}
        /\ phase' \notin {"HANDOFF_PENDING", "DOT_HANDOFF"}
    BY <1>8 DEF SavingKinds, Readies, Verifies, Adopts, AsksNext, Decides, Escalates,
                Answers, Accepts, Seals, AwaitsHuman, Same, SameHandoff
  <2>. QED
    BY <1>0, <1>3, <1>8, <2>1 DEF LocalStaysLocal
<1>. QED
  BY <1>1, <1>2, <1>4, <1>5, <1>6, <1>7, <1>8, Effects DEF SavingKinds
-----------------------------------------------------------------------------
(* The invariant, and what it gives. *)

LEMMA SessionInit == Init => IInv
<1>. SUFFICES ASSUME Init PROVE IInv
  OBVIOUS
<1>1. LedgerTypeOK /\ OneOutstanding
  BY LedgerTypeInit, OneOutstandingInit DEF Init
<1>2. /\ row.snapshot = Baseline /\ row.revision = 0 /\ row.evidence = NoEvidence
      /\ row.decisions = <<>>
      /\ row.handoff = NoEvidence /\ row.supervisor = NoDecision
  BY DEF Init
<1>3. row \in Row
  <2>1. Baseline \in Contents /\ "CREATED" \in Reasons /\ "jev" \in Judges
    BY SessionAssumption DEF Reasons, Judges
  <2>2. <<>> \in Seq([role : Judges, reply : Reply, rev : Nat])
    OBVIOUS
  <2>. QED
    BY <2>1, <2>2 DEF Init, Row
<1>4. disk \in Disk /\ disk.delivery = Absent
  BY DEF Init, Disk
<1>5. /\ run \in Run /\ run.at = "creating"
      /\ run.caller = "run" /\ "group" \notin run.workers
  <2>1. run = [Idle EXCEPT !.at = "creating"]
    BY DEF Init
  <2>2. run = [at |-> "creating", caller |-> "run", opsLeft |-> 0, workers |-> {},
               copied |-> Absent]
    BY <2>1 DEF Idle
  <2>. QED
    BY <2>2 DEF Run
<1>6. TypeOK
  BY <1>1, <1>3, <1>4, <1>5 DEF Init, TypeOK
<1>7. phase = "READY" /\ inFlight = 0 /\ waiting = FALSE
  BY Zenon DEF Init, LedgerInit
<1>8. InPlace
  BY <1>5, <1>7 DEF InPlace, At, Busy, Sealing
<1>9. InCall
  BY <1>5, <1>7, Zenon DEF InCall, At
<1>10. LocalStaysLocal
  <2>1. \A judge \in Judges : calls[judge] = 0
    BY DEF Init, LedgerInit, Roles
  <2>. QED
    BY <1>2, <1>7, <2>1 DEF LocalStaysLocal
<1>11. EvidenceIsFresh /\ DoneInv /\ ReviewInv
  BY <1>5, <1>7 DEF EvidenceIsFresh, AwaitsHuman, DoneInv, ReviewInv
<1>12. HandoffInv
  BY <1>2, <1>7 DEF HandoffInv, HandoffIsCurrent, NothingAsked
<1>13. TiersInv
  BY <1>2 DEF TiersInv, TiersClimb
<1>14. SealInv
  BY <1>4, <1>5 DEF SealInv, Sealing, LateIn, At
<1>. QED
  BY <1>1, <1>6, <1>8, <1>9, <1>10, <1>11, <1>12, <1>13, <1>14 DEF IInv

LEMMA SessionStep == IInv /\ [Next]_vars => IInv'
<1>1. CASE UNCHANGED vars
  <2>1. UNCHANGED <<contract, phase, inFlight, calls, row, disk, run, late>>
    BY <1>1, Zenon DEF vars, ledgerVars, ledger
  <2>2. IInv => LocalStaysLocal' /\ EvidenceIsFresh' /\ HandoffInv' /\ TiersInv'
    BY <2>1
    DEF IInv, LocalStaysLocal, EvidenceIsFresh, Fresh, Passing, AwaitsHuman,
        EvidenceCurrent, HandoffInv, HandoffIsCurrent, NothingAsked, TiersInv, TiersClimb,
        At
  <2>3. IInv => SealInv' /\ DoneInv' /\ ReviewInv'
    BY <2>1
    DEF IInv, SealInv, CompletionEvidence, EvidenceCurrent, DoneInv, ReviewInv, Reviewed, At
  <2>. QED
    BY <1>1, <2>2, <2>3, ControlStep, Zenon DEF IInv, Control
<1>2. CASE Next
  BY <1>2, ControlStep, LocalStep, EvidenceStep, HandoffStep, TiersStep, SealStep,
     DoneStep, ReviewStep, Zenon
  DEF IInv, Control
<1>. QED
  BY <1>1, <1>2

LEMMA SessionInvariant == Spec => []IInv
  BY SessionInit, SessionStep, PTL DEF Spec

\* A session, with every crash, resume, review and edit by somebody else, does
\* to its calls, costs and phase what Store.reserve, Store.finish and
\* OutcomeEngine.run are specified to do: it implements the ledger.
THEOREM SessionImplementsLedger == Spec => LedgerSpec
<1>1. Init => LedgerInit
  BY DEF Init
<1>. QED
  BY <1>1, LedgerStep, SessionInvariant, PTL DEF Spec, LedgerSpec

\* So what holds of the ledger holds of a session: no role is called more often
\* than the contract allows, known money is covered, a cap is exceeded by an
\* observed bill only, an unknown cost is the last, no operation is forgotten or
\* rewritten, and the totals are those of the operations.
THEOREM SessionKeepsLedger ==
  Spec => /\ [](CallsWithinCaps /\ KnownIsCovered /\ CapHoldsOrStopped /\ UnknownCostStops)
          /\ []LedgerAddsUp
          /\ HistoryIsAppendOnly
  BY SessionImplementsLedger, CallsStayWithinCaps, KnownStaysCovered, CapHolds,
     UnknownCostIsLast, TotalsAreKept, HistoryKept, PTL

\* The state row, the session directory and the process have the types that
\* outcome/engine.py and outcome/store.py give them.
THEOREM SessionTypes == Spec => []TypeOK
<1>1. IInv => TypeOK
  BY DEF IInv
<1>. QED
  BY <1>1, SessionInvariant, PTL

\* delivery/ is only made for a candidate that passed, and VERIFIED_DONE is reached
\* with the evidence of this snapshot at this revision and no operation
\* outstanding.  delivery/ and final.patch are then that candidate, whoever edits
\* the snapshot and whenever, unless it is edited after _seal last looked at it
\* (outcome/engine.py); and report() tells VERIFIED_DONE only of a delivery/ that
\* is the candidate.
THEOREM DoneVerified == Spec => []DoneIsVerified
<1>1. IInv => DoneIsVerified
  <2>. SUFFICES ASSUME IInv PROVE DoneIsVerified
    OBVIOUS
  <2>1. disk.delivery # Absent => CompletionEvidence
    BY DEF IInv, SealInv
  <2>2. ASSUME phase = "VERIFIED_DONE"
        PROVE  row.evidence =
                  [snap |-> row.snapshot, rev |-> row.revision, status |-> "PASS"]
    <3>1. Passing /\ row \in Row
      BY <2>2 DEF IInv, EvidenceIsFresh, TypeOK
    <3>2. row.evidence \in Evidence
      BY <3>1, RowFields, SessionAssumption
      DEF Passing, Fresh, EvidenceCurrent, NoEvidence
    <3>. QED
      BY <3>1, <3>2 DEF Passing, Fresh, EvidenceCurrent, Evidence
  <2>3. phase = "VERIFIED_DONE" =>
            /\ row.output = row.snapshot /\ inFlight = 0
            /\ late \/ (disk.delivery = row.snapshot /\ disk.patch = row.snapshot)
    BY DEF IInv, DoneInv
  <2>4. Reported = "VERIFIED_DONE" =>
            phase = "VERIFIED_DONE" /\ disk.delivery = row.output
    BY DEF Reported
  <2>. QED
    BY <2>1, <2>2, <2>3, <2>4 DEF DoneIsVerified
<1>. QED
  BY <1>1, SessionInvariant, PTL

\* Nothing that needs a review is sealed without an ACCEPT of its current
\* revision, nor a human-final mission without the human's of its evidence.
THEOREM DoneReviewed == Spec => []DoneIsReviewed
<1>1. IInv => DoneIsReviewed
  BY DEF IInv, DoneInv, ReviewInv, Reviewed, DoneIsReviewed
<1>. QED
  BY <1>1, SessionInvariant, PTL

\* Under local_only no judge is ever called and no handoff published.
THEOREM StaysLocal == Spec => []LocalStaysLocal
<1>1. IInv => LocalStaysLocal
  BY DEF IInv
<1>. QED
  BY <1>1, SessionInvariant, PTL

\* A handoff is about the candidate in the state, and one that waits has not
\* been answered.
THEOREM HandoffCurrent == Spec => []HandoffIsCurrent
<1>1. IInv => HandoffIsCurrent
  BY DEF IInv, HandoffInv
<1>. QED
  BY <1>1, SessionInvariant, PTL

\* No tier is asked twice about one candidate, nor a lower one after a higher.
THEOREM TiersOnlyClimb == Spec => []TiersClimb
<1>1. IInv => TiersClimb
  BY DEF IInv, TiersInv
<1>. QED
  BY <1>1, SessionInvariant, PTL

\* While a session is declared ended, nothing of a worker's process group runs:
\* killpg ended it, or the inherited lock held every resume off until it was gone
\* (outcome/adapters.py).  Of a descendant that left the group nothing is said.
THEOREM EndedQuiet == Spec => []EndedMeansQuiet
<1>1. IInv => EndedMeansQuiet
  BY DEF IInv, InCall, EndedMeansQuiet, Terminal
<1>. QED
  BY <1>1, SessionInvariant, PTL
=====
