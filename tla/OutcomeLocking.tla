-------------------------- MODULE OutcomeLocking --------------------------
(***************************************************************************)
(* Several processes on one session: the process that creates it, and the  *)
(* run and submit commands an operator may start at any time.  run and     *)
(* submit hold controller.lock from load to last save, create does not;    *)
(* a worker subprocess inherits the lock's open file.  Every save compares *)
(* the generation it read with the one in the database (Store.save).       *)
(*                                                                         *)
(* A process is one command and ends once.  The row keeps what the races   *)
(* can hurt: phase, in_flight and the worker calls; the steps from VERIFY  *)
(* to the next repair, handoff or seal are one save.                       *)
(* A worker is its process group: descendants that leave the group before  *)
(* it is killed are OutcomeSession's, not modelled here.                   *)
(***************************************************************************)
EXTENDS Integers, FiniteSets

CONSTANTS
    Runners,     \* processes of `outcome run` / `outcome resume`
    Submitters,  \* processes that submit a supervisor decision
    Creator,     \* the process in OutcomeEngine.create
    Shots        \* limits.shots

Procs == Runners \cup Submitters \cup {Creator}

ASSUME LockingAssumption ==
    /\ Shots \in Nat \ {0}
    /\ Creator \notin Runners \cup Submitters
    /\ Runners \cap Submitters = {}

VARIABLES
    db,        \* the state row; generation 0 before the first save
    baseline,  \* the baseline copy is complete
    pc,        \* where each process is
    mem,       \* the state each process holds in memory
    holds,     \* processes with controller.lock open and locked
    children,  \* processes whose worker subprocess is alive
    launches   \* how many workers were ever started

vars == <<db, baseline, pc, mem, holds, children, launches>>

Ended == {"HUMAN_REQUIRED", "BLOCKED", "LIMIT_REACHED", "VERIFIED_DONE",
          "DOT_HANDOFF"}
State == [phase : Ended \cup {"READY", "VERIFY", "CANDIDATE_RECEIVED"},
          gen : Nat, inFlight : BOOLEAN, calls : 0 .. Shots]
Fresh == [phase |-> "READY", gen |-> 0, inFlight |-> FALSE, calls |-> 0]
-----------------------------------------------------------------------------
Goto(p, place) == pc' = [pc EXCEPT ![p] = place]
Exit(p) == Goto(p, "done") /\ holds' = holds \ {p}

SaveBlindly(p, s, place) ==                                       \* mutant
    /\ db' = [s EXCEPT !.gen = db.gen + 1]
    /\ mem' = [mem EXCEPT ![p] = db']
    /\ IF place = "done" THEN Exit(p) ELSE Goto(p, place) /\ UNCHANGED holds
\* Store.save: one transaction that checks the generation.  A stale write
\* raises, again in the handler that tries to record it, and ends the command.
Save(p, s, place) ==
    IF db.gen = mem[p].gen
    THEN /\ db' = [s EXCEPT !.gen = mem[p].gen + 1]
         /\ mem' = [mem EXCEPT ![p] = db']
         /\ IF place = "done" THEN Exit(p) ELSE Goto(p, place) /\ UNCHANGED holds
    ELSE Exit(p) /\ UNCHANGED <<db, mem>>

LoadState(p) == mem' = [mem EXCEPT ![p] = db]
-----------------------------------------------------------------------------
(* OutcomeEngine.create *)

CreateStore ==
    /\ pc[Creator] = "new"
    /\ Save(Creator, Fresh, "copying")
    /\ UNCHANGED <<baseline, children, launches>>

CreateBaseline ==
    /\ pc[Creator] = "copying"
    /\ baseline' = TRUE
    /\ Goto(Creator, "copied")
    /\ UNCHANGED <<db, mem, holds, children, launches>>

CreateLoad ==
    /\ pc[Creator] = "copied"
    /\ LoadState(Creator)
    /\ Goto(Creator, "saving")
    /\ UNCHANGED <<db, baseline, holds, children, launches>>

CreateSave ==
    /\ pc[Creator] = "saving"
    /\ Save(Creator, [mem[Creator] EXCEPT !.phase = "VERIFY"], "done")
    /\ UNCHANGED <<baseline, children, launches>>
-----------------------------------------------------------------------------
(* Store.lock and Store.load, taken by run and by submit. *)

LockIgnored == children = {}                                      \* mutant
LockFree == holds \cup children = {}

\* LOCK_NB: a process that finds the lock held ends with SESSION_BUSY, which
\* is the same as not having started.
Lock(p) ==
    /\ p # Creator
    /\ pc[p] = "new"
    /\ db.gen > 0
    /\ LockFree
    /\ holds' = holds \cup {p}
    /\ Goto(p, "locked")
    /\ UNCHANGED <<db, baseline, mem, children, launches>>

Load(p) ==
    /\ pc[p] = "locked"
    /\ LoadState(p)
    /\ Goto(p, IF p \in Runners THEN "starting" ELSE "deciding")
    /\ UNCHANGED <<db, baseline, holds, children, launches>>
-----------------------------------------------------------------------------
(* OutcomeEngine.run *)

\* in_flight, a terminal phase, then _identity, which needs the baseline.
RunBegin(p) ==
    /\ pc[p] = "starting"
    /\ IF mem[p].inFlight
       THEN Save(p, [mem[p] EXCEPT !.phase = "HUMAN_REQUIRED"], "done")
       ELSE IF mem[p].phase \in Ended THEN Exit(p) /\ UNCHANGED <<db, mem>>
       ELSE IF ~baseline THEN Save(p, [mem[p] EXCEPT !.phase = "BLOCKED"], "done")
       ELSE Goto(p, "loop") /\ UNCHANGED <<db, mem, holds>>
    /\ UNCHANGED <<baseline, children, launches>>

RunVerify(p) ==
    /\ pc[p] = "loop"
    /\ mem[p].phase = "VERIFY"
    /\ \/ Save(p, [mem[p] EXCEPT !.phase = "READY"], "loop")
       \/ \E to \in {"VERIFIED_DONE", "DOT_HANDOFF"} :
              Save(p, [mem[p] EXCEPT !.phase = to], "done")
    /\ UNCHANGED <<baseline, children, launches>>

RunInterrupted(p) ==
    /\ pc[p] = "loop"
    /\ mem[p].phase = "CANDIDATE_RECEIVED"
    /\ Save(p, [mem[p] EXCEPT !.phase = "HUMAN_REQUIRED"], "done")
    /\ UNCHANGED <<baseline, children, launches>>

ShotsLeftLate(s) == s.calls <= Shots                              \* mutant
ShotsLeft(s) == s.calls < Shots
ChargedLater(s) == [s EXCEPT !.inFlight = TRUE]                   \* mutant
Charged(s) == [s EXCEPT !.calls = @ + 1, !.inFlight = TRUE]

RunReserve(p) ==
    /\ pc[p] = "loop"
    /\ mem[p].phase = "READY"
    /\ IF ShotsLeft(mem[p])
       THEN Save(p, Charged(mem[p]), "reserved")
       ELSE Save(p, [mem[p] EXCEPT !.phase = "LIMIT_REACHED"], "done")
    /\ UNCHANGED <<baseline, children, launches>>

RunLaunch(p) ==
    /\ pc[p] = "reserved"
    /\ children' = children \cup {p}
    /\ launches' = launches + 1
    /\ Goto(p, "working")
    /\ UNCHANGED <<db, baseline, mem, holds>>

\* execute has ended or killed the worker, then Store.finish.
RunFinish(p) ==
    /\ pc[p] = "working"
    /\ children' = children \ {p}
    /\ Save(p, [mem[p] EXCEPT !.inFlight = FALSE, !.phase = "CANDIDATE_RECEIVED"],
            "received")
    /\ UNCHANGED <<baseline, launches>>

RunAdopt(p) ==
    /\ pc[p] = "received"
    /\ \/ Save(p, [mem[p] EXCEPT !.phase = "VERIFY"], "loop")
       \/ Save(p, [mem[p] EXCEPT !.phase = "BLOCKED"], "done")
    /\ UNCHANGED <<baseline, children, launches>>

Answerable(s) == s.phase = "DOT_HANDOFF" /\ ~s.inFlight

\* submit_supervisor_decision: REPAIR or HUMAN_REQUIRED.
SubmitDecision(p) ==
    /\ pc[p] = "deciding"
    /\ IF Answerable(mem[p])
       THEN \E to \in {"READY", "HUMAN_REQUIRED"} :
                Save(p, [mem[p] EXCEPT !.phase = to], "done")
       ELSE Exit(p) /\ UNCHANGED <<db, mem>>
    /\ UNCHANGED <<baseline, children, launches>>
-----------------------------------------------------------------------------
\* A process dies: its descriptor closes, its worker keeps its own.
Crash(p) ==
    /\ pc[p] \notin {"new", "done"}
    /\ Exit(p)
    /\ UNCHANGED <<db, baseline, mem, children, launches>>

OrphanExits(p) ==
    /\ p \in children
    /\ pc[p] = "done"
    /\ children' = children \ {p}
    /\ UNCHANGED <<db, baseline, pc, mem, holds, launches>>

Init ==
    /\ db = Fresh
    /\ baseline = FALSE
    /\ pc = [p \in Procs |-> "new"]
    /\ mem = [p \in Procs |-> Fresh]
    /\ holds = {}
    /\ children = {}
    /\ launches = 0

Creating == CreateStore \/ CreateBaseline \/ CreateLoad \/ CreateSave
Running(p) ==
    \/ Lock(p) \/ Load(p)
    \/ RunBegin(p) \/ RunVerify(p) \/ RunInterrupted(p) \/ RunReserve(p)
    \/ RunLaunch(p) \/ RunFinish(p) \/ RunAdopt(p)
    \/ SubmitDecision(p)

Next ==
    \/ Creating
    \/ \E p \in Procs : Running(p)
    \/ \E p \in Procs : Crash(p)
    \/ \E p \in Procs : OrphanExits(p)

Spec == Init /\ [][Next]_vars
-----------------------------------------------------------------------------
Places == {"new", "copying", "copied", "saving", "locked", "starting", "loop",
           "reserved", "working", "received", "deciding", "done"}
TypeOK ==
    /\ db \in State
    /\ baseline \in BOOLEAN
    /\ pc \in [Procs -> Places]
    /\ mem \in [Procs -> State]
    /\ holds \subseteq Procs
    /\ children \subseteq Procs
    /\ launches \in Nat

\* Even when a run races with create, every worker started was charged before,
\* no two workers of the session are alive at once, and while one is alive its
\* operation is in flight in the database, whoever writes the row meanwhile: an
\* orphan's lock and that mark keep the next run from starting another.
WorkersAreCharged ==
    /\ launches <= db.calls
    /\ Cardinality(children) <= 1
    /\ children # {} => db.inFlight

\* No save ever takes back a call another process charged: a writer that read
\* an older generation is refused.
ChargesAreKept == [][db'.calls >= db.calls /\ db'.gen \in db.gen .. db.gen + 1]_vars

\* Whatever create does meanwhile, of the processes that take the lock at most
\* one is between its load and its last save.  (docs/OUTCOME_CONTROL_V1.md:77 says
\* as much of all controllers; create loads and saves outside the lock.)
AboutToSave == {p \in Procs : pc[p] \notin {"new", "done", "copying", "copied", "locked"}}
OneLockedController == Cardinality(AboutToSave \ {Creator}) <= 1
=============================================================================
