# Vector Cannon: a TLA+ verification development

Vector Cannon drives coding agents in bounded "shots" against a repository,
verifies what they produce with independent checks, lets a cascade of judges
review it, and records what every call cost.  This directory specifies the parts
of it that keep state across steps, processes and crashes, model-checks them on
small instances with TLC, and proves with TLAPS, for every value of the constants,
nearly all of what TLC checks: the ledger and the session that implements it, the
locking, the publication of a handoff, launches, missions, and the budgets of shots.

Paths below are relative to `src/`; `E`, `ST`, `SU` are `engine.py`, `store.py`,
`supervisor.py` of `src/vector_cannon/outcome/` (see `PROJECT.json` for full paths and
the line of every definition).

## 1. Inventory

The program is two generations of one idea.

### The outcome controller (`vector_cannon/outcome/`)

| part | state it keeps | operations | what makes it correct |
|---|---|---|---|
| **Store** (`ST`) | one JSON row of `control.sqlite3` with a `generation`; `controller.lock` | `create`, `lock`, `load`, `save`, `reserve`, `finish`, `report` | a save never overwrites a newer one; a call is charged once, before it is made; money committed covers money known; a cap is exceeded only by an observed bill and then everything stops |
| **Engine** (`E`) | phase, snapshot, revision, evidence, decisions in the row; directories `baseline/`, `work-NNN/`, `verification-G/`, `export-G/`, `delivery/` | `create`, `run` (with `_verify`, `_worker`, `_judge`, `_dot_handoff`, `_seal`), `accept` | only a candidate that passed every check at this revision, and the review its contract asks for, is sealed; a crash at any point leaves a session that can be resumed or that stops and says so; a run ends |
| **Supervisor** (`SU`) | two handoff artifacts; `handoff`, `supervisor_decision` in the row | `build_dot_handoff`, `_publish_matching`, `submit_supervisor_decision` | an answer is accepted once, for the candidate it is about; artifacts are published whole, never overwritten, and publication can be retried |
| **Adapters** (`adapters.py`) | worker subprocesses, which inherit the lock's descriptor | agents and judges | an orphaned worker keeps the next run out; what a descendant that escaped the kill of its group may do is noticed or disclosed |
| **Verifier** (`verify.py`) | a copy of the candidate that its commands run in | `verify` | UNKNOWN is never PASS; what the checks say is true of the candidate, not of what a command made of it |
| **Contract and snapshots** (`model.py`) | none | `Contract.parse`, `manifest`, `copy_snapshot`, `money` | limits are positive; money is decimal and not negative |

They interact through the database row: `run` and `submit` are separate processes
that load it under the lock, change it in memory and save it under the generation
check; `create` does the same without the lock.  Worker subprocesses and directories
are effects *beside* the row, which is where crashes hurt.

### The shot launcher (`vector_cannon/`)

| part | state it keeps | operations | what makes it correct |
|---|---|---|---|
| **Repository session** (`repo_launcher.py`) | a staging directory and its git history, `launcher.lock`, one evidence directory per ticket | `run_repo_ticket`, `RepositorySession.execute`, `cumulative_patch` | the source is unchanged; a shot's verified patch is what the next shot starts from |
| **Adaptive mission** (`adaptive.py`) | shots, judgments, plan | `AdaptiveOrchestrator.run`, `planner.next` | shots, judge calls and replans stay in their limits; success only on a DONE judgment of a succeeded shot |
| **Decision gate** (`decision_gate.py`) | none (counts are derived from the list of judgments) | `decide`, `_call` | a tier that fails escalates or stops; DONE needs every criterion and a passed verification |
| **Ticket launcher** (`launcher.py`) | `launcher.lock`, evidence directory | `run_ticket` | one launch, classified by what was observed |
| **Shot runner, direct shot, orchestrator** (`runner.py`, `direct.py`, `orchestrator.py`, `fireplan.py`) | credit readings, cost so far, stage budgets, log files | `fire`, `run` | a limit is exceeded by no more than one call's misestimate, whatever fails and whoever else spends on the account; a log's cost is what was paid |
| **Venue routing** (`venue.py`) | none | `discover`, `choose` | no affordable route beats the chosen one at the goal it was chosen for |
| **Inference meter** (`inference_meter.py`) | a log of observations | `record_snapshot`, `summarize_inference` | a unit of quota is attributed to at most one shot and to the window it was used in; what is not known makes a total unknown |
| **Gateway, tools, CLI, doctrine, run ledger** | none of their own | | |

### What is hard here

* crashes between an external effect and the save that records it (`E:131`,
  `E:167-175`, `E:292`, `E:371`, `SU:78`);
* several processes on one row, one of them outside the lock (`E:76`, `ST:94`);
* answers that arrive late or twice (`SU:196`, `SU:226`, `E:238`);
* limits checked in several places by different operations (`ST:110`, `E:149`,
  `E:250`, `SU:236`);
* partially known money (`ST:142-157`);
* retries of a publication that failed halfway (`E:346`, `SU:63-84`);
* a loop that ends only because several counters together do (`E:326`);
* spending measured by readings of an account that others use and top up
  (`runner.py:66`), and calls that are paid for and then raise (`runner.py:177`);
* checks that run in the directory their own commands may rewrite (`verify.py:124`).

`PROJECT.json` lists each as a hazard with the properties that would catch it.

## 2. Modules

```
OutcomeLedger          costs, calls, phases        (Store.reserve / finish)
  |- LedgerAudit         totals recomputed from the operations
  |    |- MCLedger         instance for TLC
  |    `- OutcomeSession_proofs
  `- OutcomeSession      the whole session         (engine.py, supervisor.py)
       `- SessionProperties   implements LedgerSpec
            |- MCSession
            `- OutcomeSession_proofs   TLAPS: ledger, refinement, session
OutcomeLocking         processes, lock, generation (Store.lock / save)
  |- MCLocking
  `- OutcomeLocking_proofs   TLAPS
DotHandoff             two files, step by step     (supervisor.py)
  `- DotHandoff_proofs   TLAPS
VerifyEvidence         checks and the copy         (verify.py)
  |- MCVerify
  `- VerifyEvidence_proofs   TLAPS

LaunchResult           outcome of one launch       (repo_launcher.py)
  |- AdaptiveMission     shots, patches, commits     (adaptive.py, repo_launcher.py)
  |    |- (extends) DecisionGate   the three tiers     (decision_gate.py)
  |    |- MCMission
  |    `- AdaptiveMission_proofs   TLAPS
  `- TicketLauncher      processes launching tickets (repo_launcher.py, launcher.py)
       |- MCLauncher
       `- TicketLauncher_proofs   TLAPS
InferenceMeter         quota attributed to shots   (inference_meter.py)
  |- MCMeter
  `- InferenceMeter_proofs   TLAPS

BudgetLock             what a dollar limit promises (abstract)
  `- (INSTANCE Lock in BudgetProperties)
EnergyRouting          the route of a stage        (venue.py)
  `- ShotBudget          runners, missions, account  (runner.py, direct.py, orchestrator.py)
       `- BudgetProperties   implements BudgetLock
            |- MCBudget
            `- BudgetProperties_proofs   TLAPS: the lock, and what implements it
```

**OutcomeLedger** is both a component and the abstract specification of a
session: it says what a mission's calls and costs may do, whatever the engine does
beside them.  `Reserve`, `Refuse`, `Return` are `Store.reserve` (admitting, raising)
and `Store.finish`; `Abandon` and `CrashWaiting` are the ways an operation stays in
flight; `Advance` stands for every save that leaves the ledger alone.  Money is in
whole units, `Unpriced` is null.  `waiting` is not in the row: it says that the process
which reserved the outstanding operation still lives and may return it.

**OutcomeSession** extends it (same variables, same `Reserve` and `Return`) with the
rest of the row (`row`), the session directory (`disk`) and the lock holder with what its
workers left (`run`).  A controller step ends at a `Store.save` or at an effect outside the
database, so a crash can fall between any two, and so can an edit of the snapshot by
others (`EditSnapshot`), which `_snapshot` finds where the code calls it
(`SnapshotOk`).  `late` is a ghost: such an edit fell after the last look of `_seal`
(`E:286`), while `delivery/` and `final.patch` had yet to be read from it.  `run.workers` is who of
a worker is alive with the lock's descriptor: its process group, which `killpg` ends when the call returns, and
descendants that left the group (`WorkerStrays`), which go on, beside later steps of
the same run and after it.  Its Spec is checked to implement `LedgerSpec` by the identity mapping.

**OutcomeLocking** looks at the same program from the side: several processes, each
with its own copy of the row in `mem`, the advisory lock as the set of its holders and
the workers that inherited it, and the generation check in `Save`.  The row is reduced
to phase, `in_flight` and worker calls.  A worker is its process group here: descendants
that leave the group are in OutcomeSession only.

**DotHandoff** refines one step of the session, `Publish`, to its file operations
(open, write, link, unlink, reread), with an I/O error or a crash between any two
and a retry by each later run.  An error of the open of an artifact (`OpenFails`) is not
retried: `_read_artifact` turns it into a `ControlError`, which blocks the session.

**LaunchResult** is what both launcher modules share: how the exit of an agent, its
timeout and its patch become SUCCEEDED, FAILED, BLOCKED or TIMED_OUT.

**DecisionGate** is `decide`: the tiers `jev`, `sol`, `astra`, each asked at most as
often as its budget allows, and what an answer, a low confidence, a missing or an
exhausted tier leads to.  The counts come from the list of judgments, as in the code;
`asked` is a ghost that counts the calls really made and saturates at `CallBound`.

**AdaptiveMission** puts the gate, the planner and `RepositorySession.execute` in the
loop of `AdaptiveOrchestrator.run`.  The staging repository is a commit and a worktree;
a shot starts from the worktree, its patch is what the manifest comparison sees, and
`.gitignore` decides what `git add` takes of it.  `verified` is a ghost: the tree whose checks
last passed.  `.gitignore` is fixed per job.  Judges are the three the repository's command
line builds.  Two branches of the code cannot be reached with `DecisionGate` as the
judge and fire in no run: an exception out of the gate (DECISION_GATE_FAILED_CLOSED, as
`_call` catches everything) and an escalation to a tier that is used up
(AI_ESCALATION_EXHAUSTED, as the gate checks the same counts first).

**TicketLauncher** is several controllers on one host, each running `run_repo_ticket` or
`run_ticket` once: preliminary checks, the lock, the evidence directory, probe, clones,
announcement, agent, collection of the patch, checks, classification.  The lock is held by
every process that has its descriptor (`Holders`): a controller inside it, the help, the agent and
the checks that `_process` starts with it, and descendants that left the killed process group
and kept it (`"holder"`).  git, which `_git` and `_clone_at` start inside the lock without
the descriptor, and descendants that closed it (`"closed"`) do not keep the next launch
out: the git of a dead controller, and such descendants, may run beside it.  The leader that
`_process` starts is taken to keep the descriptor it was given.  git
runs that only read the source are not children of the model.  The source repository may
move at any time; only `run_repo_ticket` looks again.

**InferenceMeter** lets shots run and consume while an operator records, forgets,
repeats or garbles observations, and evaluates `_shot_usage`, `_overlap_reasons` and `_window_usage` on
the log in every state.  `consumed` is the truth beside the log: how much was used
in each window while exactly a given set of shots ran.

**VerifyEvidence** is `verify` one criterion at a time: a file is read when its turn
comes, a command may rewrite the copy, leave a process that goes on rewriting it, run into
the deadline, or raise what `verify` does not catch.  `restored` is a ghost: the files that
were rewritten and put back, the one thing comparing two manifests cannot see.

**BudgetLock** is an abstract specification: spenders that pay for a call only while what
they know of their spending leaves room for it (`Pay`) and learn what it cost before the
next one (`Learn`).

**EnergyRouting** holds `discover`'s candidates and `choose`'s keys as operators, with
Python's `or`, for which zero is as good as None.

**ShotBudget** is what implements the lock: runners (`VectorCannon.fire`, a loop of calls)
and missions (`Orchestrator.run`, each stage routed by `Winner` and fired by
`DirectShot.fire`) beside each other.  `job`, `shot` and `plan` are the arguments and local
variables of each process; `balance` is the provider's account, which the metered lane
bills.  One request is three actions: the preflight (`Turn`, `FireStage`), the provider's
bill (`Respond`, or `LoseResponse` when the answer never arrives), and the accounting
(`Account`, `Conclude`).  `paid`, `fired`, `foreign` and `blind` are ghosts: what was
really paid, and what could not be told.

### Abstractions

* A snapshot is its hash.  Evidence is the snapshot and revision it was made from and
  the joint status of its checks.  In the code the evidence hash also covers
  `observed_at` and check outputs, so two verifications never share one; equality in
  the model is therefore coarser, and a property that compares evidence compares
  what the verification was about.
* A judge or an agent is any reply with any receipt out of small sets.  A reply is
  its choice and whether it names the evidence and role it was asked for and is
  confident enough.
* Directories named after the generation can be met again only while that generation
  stands (the generation moves with every save), so only those of the current one are
  kept.  `work-NNN` is named after the call count and is kept until that call is charged.
* The deadline is a flag that rises once.
* Others edit the directory of the snapshot at any moment of a run, any number of times, and may put
  it back.  A tree that is read while it is edited is read as it was before or after: a mixture that the
  code notices (`SNAPSHOT_CHANGED_DURING_COPY`) is an exception in `StepRaises`, and one that
  it does not notice is a member of `Contents` like any other.  `delivery/`, `baseline/`
  and the export are not edited by others.  Whether the source, the agent and the judges are found as
  recorded is free at each `_identity` of a run.  A descendant of a worker that closed the
  lock's descriptor is not seen in `run.workers`; it can only edit.
* A verification's text, JSON and CSV criteria are one kind, which decodes the file and compares
  it; `sha256` is another, which compares bytes.  An exception inside a check is UNKNOWN.
* A provider bills the price it quotes, at once, for a prompt of the estimated size or up to
  `Over` tokens more and at most the tokens of output it was allowed; `Slack` is at least what
  `Over` tokens cost at any input price of a catalog (`SlackAssumption`).  A catalog does not change between the routing of a stage and its request.  Money is in
  whole units.  `choose` sees the default estimate of the
  prompt.  A response that carries neither cost nor usage, and a top-up between two
  readings, hide a cost from the process: `blind` records that, and the promises of a budget
  lock are made to those that are not blind.
* Prices given by hand on the command line (`runner.py:106-114`, `direct.py:89-97`) are left out: a
  lane has the prices of its catalog, or is declared free.  They would be one more pair of prices that
  the provider need not bill.
* `VectorCannon.fire` on a lane without a key fails when it loads its model, as every request would.
* `StepRaises` is any exception at any step of a run: I/O, size limits, adapters.

## 3. Runs

| run | question | instance |
|---|---|---|
| `ledger` | do quotas, money and the operation list stay consistent? | 36 contracts: no cap, a cap two reservations fill exactly, one they overfill; with and without reservations; both unknown-cost policies. 6 receipts: no price, below, at and above the reservation, an estimate, a hidden cost. Two worker calls and one judge call suffice for a call after an overrun, after an unknown cost and after an abandoned one |
| `session` | is only what was verified and reviewed sealed, across crashes and resumes? does the session implement the ledger? does a process that takes the lock let go of it? | the snapshot edited by others at any moment, two contents; 17 contracts: without review, human-final, local-only, and the review by each of jev, sol, astra, all three, with and without dot; two candidates; replies of every kind; `max_operations` 1 and none; among them the longest repair and escalation loops |
| `locking` | is there one lock holder at a time, and do charges, `in_flight` and the single worker survive a run that races with `create`? | creator, three runs, one submit |
| `dot_handoff` | is publication whole, retryable and non-destructive? | two files, one foreign file, four faults, opens that fail among them (two per file are enough to interrupt an attempt and its retry) |
| `mission` | are budgets kept, is DONE earned, is what was committed what was verified? does a mission end? | six jobs: every tier with one call over three shots, each tier alone, a tier without calls, a partly ignored job; five trees a worker may leave |
| `launcher` | one launch at a time with the lock, and what beside it? each ticket once, recorded before it happens? | a ticket, its retry, and another ticket of the other launcher; every controller may die anywhere, with orphans and both kinds of strays |
| `meter` | are the figures of a shot, a window and a launcher what was consumed there? | two shots on one scope, symmetric; four observations, one reset |
| `verify` | are PASS and FAIL said only of the candidate itself? | files alone, and a file before, between and after commands that may rewrite it, undo that, or leave a process running; texts, digests and undecodable bytes |
| `budget` | does every process keep its limit, do the logs add up, is no stage sent to a beaten route? | a runner (metered or not, one or two turns) beside a mission of two stages; three catalogs: a metered and a faster lane, a free one beside a dear one, lanes without key or prices |
| `session_resume` | finding, below | as `session` |
| `mission_delivery` | finding, below | as `mission` |
| `routing_free` | finding, below | as `budget`, with a larger balance |

Bounds: calls are bounded by the contracts and jobs themselves (`shots`, `judge_calls`,
`max_*_calls`, `steps`, stages), never by the model.  The artificial bounds are `TopUpBound` of ShotBudget
(one top-up: before, between or after the readings of either process), its `Estimates` and `Over` (a prompt that
fits and one that blocks, each at its estimate or one token above), `MaxFaults` of DotHandoff (I/O errors, failing opens
and crashes), `CallBound` of DecisionGate (where the ghost count stops; it is above
every budget of the instance, so an excess call still shows), and in InferenceMeter `RowBound` (two shots
recorded whole, or one of them with repetitions and the other in part; with `Width` = 2 they fall into one window or two, or cross its bound), `Quota` and `ResetBound`
(one unit before and one after a reset).  InferenceMeter's shots are
interchangeable in every definition, which makes the symmetry sound; it checks
an invariant only.  No two observations of InferenceMeter share a timestamp: the code takes
an end and a start at the same instant as not overlapping, which is right for
observations in that order only.  Deadlock is not checked: a session that ended, or that nobody
resumes, rightly does nothing.

**Fairness.**  `FairSpec` assumes weak fairness of `ControllerStep` as a whole: a
controller process that is alive keeps executing, because agents, judges and
verifiers run under timeouts (`adapters.py`, `verify.py`).  Nothing is assumed of
operators: nobody has to resume a session, and crashes are never required.
`FairSpec` of AdaptiveMission assumes weak fairness of `Next`: the mission is one
sequential process whose agents, checks and judges all have timeouts.

### What the runs show

All invariants hold.  Three checks of what the documentation or the code says of itself fail:

* **`session_resume`** (`CheckpointsResume`).  `docs/OUTCOME_CONTROL_V1.md:79` calls
  VERIFY, READY, JUDGE and SEAL normal checkpoints.  A crash after `verification-G/`
  was created and before the save that follows it leaves the directory; the next run
  computes the same name, `mkdir(exist_ok=False)` raises and the session ends
  BLOCKED.  The same holds of `work-NNN/` and `export-G/`.
* **`mission_delivery`** (`DoneIsDelivered`).  The docstring of `RepositorySession`
  (`repo_launcher.py:422-424`) says that successful shot patches are committed in the
  staging clone and the cumulative patch can be exported after DONE.  Verification compares
  directory manifests, which see ignored files (`repo_launcher.py:163`), and the commit
  takes what `git add` takes, which does not (`repo_launcher.py:482`): a job whose files
  are partly named by `.gitignore` can end DONE although the cumulative patch lacks a
  file that was verified.
* **`routing_free`** (`LowestCostChosen`).  `choose` says of a cheapest route that it has the
  "lowest known estimated cost among READY approved routes" (`venue.py:180`), but its keys read
  `estimated_cost or Decimal("Infinity")` (`venue.py:172`), so a route that costs nothing
  sorts after every priced one.  `RouteUndominated` is what does hold.

The last two are delimited by theorems (section 4): `NothingIgnoredNothingLost` proves
`DoneIsDelivered` of jobs none of whose files is ignored, and `LowestWhereNothingIsFree` proves
`LowestCostChosen` where no eligible lane costs nothing, for every job and catalog.

Four more observations have no run of their own; the invariants name them as exceptions:

* `docs/OUTCOME_CONTROL_V1.md:39` says that delivery requires "the matching snapshot to remain
  unchanged".  `_seal` looks at the snapshot last at `E:286`; `copy_snapshot` (`E:292`)
  compares its copy with the directory, not with `snapshot_hash`, and the export
  (`E:297-304`) compares nothing.  What others edit in between is delivered: in
  `delivery/`, where `report` says DELIVERY_CHANGED_SINCE_SEAL, and in `final.patch`,
  which is reported VERIFIED_DONE.  `DoneIsVerified` says that nothing but such a
  `late` edit gets there; without `late` TLC finds it.
* `docs/DOT_HANDOFF_SAFETY_REPAIR.md:15` says that an ordinary I/O failure of the publication
  returns HANDOFF_PENDING for an explicit resume.  An `os.open` that fails with EIO or
  EMFILE is a `ControlError` (`SU:50-51`) and the session ends BLOCKED: the last
  disjunct of `BlockedWithCause`.
* `docs/OUTCOME_CONTROL_V1.md:77` says the lock prevents concurrent controllers; `create`
  loads and saves without it, and `locking` shows that nothing is lost by that, because
  the generation check makes one of the two fail.
* `docs/OUTCOME_CONTROL_V1.md:69` says that a verifier which modifies the artifacts invalidates
  its own success; `VerdictIsEarned` holds except for files that were modified and put
  back before the manifests were compared (`restored`).

### Refinements

`LedgerSpec` (run `session`, theorem `SessionImplementsLedger`) says that every step of a session is
a step of the ledger, by the identity on the ledger's variables.  `LocksHold` (run `budget`, theorem `LocksAreHeld`) says that ShotBudget implements
BudgetLock: `known` is what `runner.py:143` computes, or the total of the
stages concluded, `due` holds from the bill to the accounting and for ever after a call that was lost.
Since a mission's `known` is its whole total, a stage that overshoots takes its excess from the
later ones.

## 4. Proofs

The first half of `OutcomeSession_proofs` is about the ledger alone.  It proves, for every set of contracts and receipts that satisfies
`ContractsAssumption` and `ReceiptsAssumption` (what `Contract.parse` and `Store.finish`
accept):

| theorem | property |
|---|---|
| `LedgerTypes` | `LedgerTypeOK` |
| `OneAtATime` | `OneOutstanding` (no run checks it by itself; `HistoryIsAppendOnly` fails without it) |
| `HistoryKept` | `HistoryIsAppendOnly` |
| `CallsStayWithinCaps` | `CallsWithinCaps` |
| `KnownStaysCovered` | `KnownIsCovered` |
| `CapHolds` | `CapHoldsOrStopped` |
| `UnknownCostIsLast` | `UnknownCostStops` |
| `TotalsAreKept` | `LedgerAddsUp` |

The argument: `LedgerTypeOK` is inductive, and each of the others but the last is inductive
relative to it, so no further strengthening is needed.  `Admitted` states once what
`Store.reserve` has checked of an operation it lets through; `OverrunBounds` states that
an overrun is exactly what the price exceeds the reservation by, which carries
`KnownIsCovered` over `Store.finish`; `QuietSteps` covers the steps that leave the
operations alone.  `CapHoldsOrStopped` rests on LIMIT_REACHED having no successor in
`MovePhase`: an overrun is recorded together with the phase that forbids any further
reservation.  `HistoryIsAppendOnly` follows from `OneOutstanding`: the entry that
`Store.finish` rewrites is the outstanding one.

`LedgerAddsUp` compares the totals of the row with sums over the list of operations, and needs
two more facts: that the operation `Store.finish` closes is the newest (`OneOutstanding`), and
that it has no bill yet (`ReservedUnbilled`); `AuditInv` joins the three.  The sum
is the fold of the community modules; `FoldExists`, `FoldPrefix` and `FoldAgrees` show that the function
it chooses exists and depends on the summed values only, so that one more entry adds its
amount (`TotalOfOneMore`) and a changed last entry the difference (`TotalOfLastChanged`).  These are
inductions over the length of the list, each proved by the least number for
which it would fail (`LeastNatural`, from the well-foundedness of `<`).

`BudgetProperties_proofs` proves of its instance `Lock` of BudgetLock `LimitHolds`, `Lock!Spec => []Lock!OneCallOver`, by the definitions of BudgetLock alone, for every
slack: a spender that could tell its costs exceeds its limit by at most one call's misestimate,
not by one for each call.  `OneCallOver` is not inductive: `Covered` adds that, when no cost is
due, what was paid is at most what is known, so that the room a payment sees is really
there.  `PayKeepsCovered` and `LearnKeepsCovered` are its two steps.

### The components

Each of the modules below has one inductive invariant `IInv`, a conjunction of named parts, one
lemma per action that the action keeps it, and theorems that read the properties off it.

| module | theorems | properties |
|---|---|---|
| `OutcomeSession_proofs` | `SessionImplementsLedger`, `SessionTypes`, `DoneVerified`, `DoneReviewed`, `StaysLocal`, `HandoffCurrent`, `TiersOnlyClimb`, `EndedQuiet` | `LedgerSpec`, `TypeOK`, `DoneIsVerified`, `DoneIsReviewed`, `LocalStaysLocal`, `HandoffIsCurrent`, `TiersClimb`, `EndedMeansQuiet` |
| | `SessionKeepsLedger` | every property of the ledger, of a session |
| `OutcomeLocking_proofs` | `LockingTypes`, `WorkersCharged`, `OneController`, `ChargesStay` | `TypeOK`, `WorkersAreCharged`, `OneLockedController`, `ChargesAreKept` |
| `DotHandoff_proofs` | `HandoffTypes`, `WholeHandoff`, `RetriesAreSafe`, `NothingOverwritten` | `TypeOK`, `HandoffIsWhole`, `BlockedWithCause`, `NeverOverwritten` |
| `TicketLauncher_proofs` | `LauncherTypes`, `OneLaunch`, `LaunchesRecorded`, `EvidenceKept` | `TypeOK`, `OneLaunchAtATime`, `LaunchIsRecorded`, `EvidenceIsKept` |
| `AdaptiveMission_proofs` | `MissionTypes`, `TiersClimbed`, `BudgetsHold`, `DoneEarned`, `StagingVerified` | `TypeOK`, `TiersInOrder`, `TierBudgets`, `DoneIsEarned`, `StagingIsVerified` |
| | `NothingIgnoredNothingLost` | `DoneIsDelivered`, where nothing is ignored |
| `BudgetProperties_proofs` | `BudgetTypes`, `LocksAreHeld`, `ReportsAddUp`, `RoutesUndominated` | `TypeOK`, `LocksHold`, `ReportAddsUp`, `RouteUndominated` |
| | `LimitHolds`, `LimitsHold` | `OneCallOver` of BudgetLock, of shots and missions |
| | `LowestWhereNothingIsFree` | `LowestCostChosen`, where no eligible lane is free |
| `VerifyEvidence_proofs` | `VerdictEarned` | `VerdictIsEarned` |
| `InferenceMeter_proofs` | `TotalsAreConsumed` | `TotalsAddUp` |
| | `LevelsAccount` | its inductive invariant `MeterInv` |

They assume of the constants what the `ASSUME`s of the modules say, and nothing else: contracts,
jobs, offers and receipts that the parsers accept, disjoint sets of processes, and two pieces of arithmetic,
`SlackAssumption` above and a `Reason` that is not the text of a retry (`HandoffAssumption`).  The set of
shots of InferenceMeter is finite (`MeterAssumption`): sums over shots are only defined then.

**OutcomeSession.**  The refinement is proved action by action: an action reserves, returns,
abandons, moves the phase or leaves the ledger alone, and the `Advance` of the ledger asks that the
phase it moves to is a successor of the phase it is in.  That depends on where the
controller is, which is what `InPlace` says (at `"received"` the phase is CANDIDATE_RECEIVED, and so on for
every place) and `InCall` (who waits for the outstanding call, and that a worker's process group
that is alive belongs to it; a stray may belong to none).  The session's own properties need more of the past than they say.
`EvidenceIsFresh`: from JUDGE to the handoff the evidence is of this candidate at this
revision, and in SEAL, and where a human is asked, it passed.  `HandoffInv`: a handoff and its
answer are gone before the next candidate is verified.  `TiersInv`: decisions of
this revision are of tiers below the one asked next.  `SealInv`: `delivery/` appears
only once completion evidence stands, and while nobody edited the snapshot `late`, what `_seal` has copied
or has yet to copy of it is the candidate.  `SessionKeepsLedger` composes: what was proved of the ledger holds of the session because
the session implements it.

**OutcomeLocking.**  `Exclusion` makes the processes that have the lock's descriptor one (a run,
its worker, the orphan it left).  It is not enough, because `create` never takes the lock:
`MemoryIsOfItsGeneration` says that a process whose generation is the database's has all of the
row, so a save that passes the generation check overwrites nothing it has not read, and `RowIsAhead`
that whoever holds the lock or is such a worker comes after the first save, and that the
row has charged more calls than were launched while one is about to be.

**DotHandoff.**  `Paths` lists what can be at a path: nothing, somebody else's file, this handoff
whole with one name, or with two between link and unlink or since a fault fell there; a refusal at `Check` or
`Reread` therefore has one of the two causes, and `OpenFails` names the third.  `OneText` says that a retry
publishes the reason of the first attempt, without which a half-published handoff would
conflict with its own retry.  `InStep` is what the attempt under way has done.

**TicketLauncher.**  A controller holds the lock inside it or through any process that inherited its descriptor;
`Exclusion` is about both, so that a stray that kept it keeps the next controller out, and `GitIsWaitedFor` says
that git, which does not have it, runs only where a controller waits for it or has died.  `Evidenced` and
`NotYetStarted` tie `result.json` to the record of the controller that made it, and say
that nothing was started for a ticket that is not announced.

**AdaptiveMission.**  The gate's half of `IInv` follows one decision: `TraceInv` says what the trace
holds when each tier is asked, and `ChargeInv` that the calls really made are at most one ahead of those
`run()` has counted, and only within the decision that made it, or when the mission ends with it.  The
executor's half, `StagingInv`, says that off the ignored files commit and worktree agree, and
that a succeeded result is of the tree that was verified.

**BudgetProperties.**  `IInv` says of each process that its books balance (`Ledgered`): between its two
readings the account has lost what it and the others paid, without a meter the
responses have told what it paid, and what it paid in all is in its books or in this
shot; and that a request is only made with room for it (`InRoom`), with `Affordable`'s integer
division as the code has it.  Each action then is to the lock nothing (`Quiet`), a payment (`Pays`) or the
learning of a cost (`Learns`), and `LocksAreHeld` maps those to BudgetLock; `LimitsHold` applies `LimitHolds`
to that instance.  `RouteUndominated` rests on a fact about `Winner`: it is
the least eligible lane by its keys (`WinnerLeads`), which exists because a non-empty set of lanes has
one.  That is an induction, and it is proved from the well-foundedness of `<` on the naturals
and of strict inclusion of finite sets (`LeastNatural`, `LeastKey`), which needs no induction rule over
predicates.

**VerifyEvidence.**  When the verdict falls, the comparison of the two manifests speaks of the files as they
are then, while a check speaks of what its file was when it was read.  `ReadIsExplained`
bridges the two: until the verdict, a check that decided something read what was submitted, or
its file differs now, or it is in `restored`.  Every rewriting keeps that
(`RewriteExplains`), by a command of the contract or by what one left running, and when nothing differs at the end
(`ConcludeKeeps`) the second case is gone, which leaves `TrueOfCandidate`.

**InferenceMeter.**  `TotalsAddUp` relates observations to what was consumed, and no part of it is
inductive.  `MeterInv` states the books between the two: `Accounts`, that from the
only record of a start until now, or until the only record of the end, a quota that was not reset
has lost exactly `Spent`, the sum over all windows and all sets of shots that
contain the shot (`RunningAccount`, `EndedAccount`); `ConsumedWhileRunning`, that what a set of shots consumed
in a window was consumed while each of them ran, on one scope, between the records of
its start and end, as far as there is only one of each; `IntervalsPast`, that no record is of
a reset to come; and `StagesMatch`, that nothing is recorded of a shot ahead of time.  Repetitions do no harm because
they leave two records where the invariant speaks of one.  From there the totals take three facts.  `NobodyElse`: what
was consumed in the company of an attributed shot was consumed in the company of no other
observed one, since `Before`, in either direction, contradicts that both ran.
`UsedIsSpent`: so the sums over the shots of a launcher are disjoint, and add up by an
induction over the shots (`OneShotMore`).  `OnlyTheBucket`: in a window that is known, no shot of the
launcher ran that belongs to another window; that is where `EndsInside` is needed, and, for
a shot whose end nobody recorded, that the attributed shots of the window do not overlap it.  The sums
are `SumFunctionOnSet` of the community modules; `SumAdd`, `SumSplit`, `SumOfRest`, `SumOfBoth` and `SumOfChanged` say
of them what one expects of a finite sum, from an induction over finite sets
(`SubsetInduction`) that rests on `LeastNatural` again.

### Model-checked only

* `RunTerminates` of OutcomeSession and `MissionEnds` of AdaptiveMission: liveness under fairness is
  outside the prover's reach.
* The three findings, which are counterexamples.

Every invariant and every safety property of steps that a passing run checks is a theorem.  The inductive
invariants were themselves checked by TLC on the instances of section 3 before they were proved.

`Spec` is the specification the theorems are about; `FairSpec`, where a run uses it, implies it.

## 5. Not modelled, and the plan

Written so far, in this order: OutcomeLedger, OutcomeSession, OutcomeLocking,
DotHandoff, the proofs of the ledger, AdaptiveMission with DecisionGate, TicketLauncher,
InferenceMeter, EnergyRouting with BudgetLock and ShotBudget, VerifyEvidence, and the proofs of
section 4.

Left out for good: the HTTP and JSON of the gateway and of the judges, repository read tools,
command lines and issue parsing (I/O and formatting around the operations above), the run
ledger and the doctrine (sums over written logs that only advise), `Store.report`, and the CI
workflow.  Two hazards have no property: a catalog that gives a negative price
(`venue.py:85`), because the model's prices are natural numbers or unknown, and logs that are missing
from the run ledger's totals (`ledger.py:46`), because nothing is decided by those totals.

The whole development is kept small enough to be rechecked in one go.  A module of the
plan therefore takes the place of a shallower property, or shares an instance with another.
