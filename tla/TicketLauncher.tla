--------------------------- MODULE TicketLauncher ---------------------------
(***************************************************************************)
(* Controllers launching tickets on one host: run_repo_ticket of           *)
(* repo_launcher.py and run_ticket of launcher.py, which share             *)
(* launcher.lock, _process and the evidence directory of a ticket.         *)
(*                                                                         *)
(* The help, the agent and the checks are started by _process: they        *)
(* inherit the descriptor of the lock (pass_fds) and lead a process group  *)
(* that is killed when _process returns.  git is started by _git and       *)
(* _clone_at, inside the lock and without its descriptor; of its runs,     *)
(* those that write are modelled, not the reads of the source.  A          *)
(* controller may die at any moment, and its child then lives on; a        *)
(* descendant may leave the group and survive the kill, with the           *)
(* descriptor of the lock or with its descriptors closed.                  *)
(***************************************************************************)
EXTENDS LaunchResult, Naturals

CONSTANTS
    Controllers,     \* processes, each running one ticket once
    RepoControllers, \* those that run run_repo_ticket, the others run_ticket
    Tickets,
    TicketOf         \* the ticket of each controller; a retry shares it

ASSUME LauncherAssumption ==
    /\ RepoControllers \subseteq Controllers
    /\ TicketOf \in [Controllers -> Tickets]

VARIABLES
    at,         \* where each controller is
    record,     \* its result: state and launch_count
    evidence,   \* result.json of each ticket, and the controller that made it
    child,      \* the processes each controller started that are alive
    launches,   \* how many agents were really started for a ticket
    moved       \* the source repository is not the clean base commit

vars == <<at, record, evidence, child, launches, moved>>

Unlocked == {"start", "checked", "done", "dead"}
Locked == {"locked", "made", "probing", "probed", "cloning", "cloned", "announced",
           "unstarted", "waiting", "observed", "collecting", "collected", "verifying"}
\* Processes: those a controller starts, the descendants that escape it, and the
\* ones among both that have the descriptor of the lock.
Started == {"help", "agent", "checks", "git"}
Strays == {"holder", "closed"}
Holders == {"help", "agent", "checks", "holder"}
Record == [state : {"NOT_STARTED", "RUNNING", "SUCCEEDED", "FAILED", "BLOCKED", "TIMED_OUT"},
           count : 0 .. 1]
NotStarted == [state |-> "NOT_STARTED", count |-> 0]
NoEvidence == [by |-> {}, record |-> NotStarted]
Running(r) == r.state \in {"NOT_STARTED", "RUNNING"}

Goes(c, place) == at' = [at EXCEPT ![c] = place]

LockFreeAgain == \A c \in Controllers : at[c] \in Unlocked        \* mutant
\* flock succeeds when nobody has the locked descriptor open: no controller
\* inside the lock, and no process that inherited it and has not closed it.
LockFree == \A c \in Controllers : at[c] \in Unlocked /\ child[c] \cap Holders = {}

\* state(): the record in memory, and result.json once the directory is ours.
Ours(c) == evidence[TicketOf[c]].by = {c}
Saved(c, r) ==
    /\ record' = [record EXCEPT ![c] = r]
    /\ evidence' = IF Ours(c) THEN [evidence EXCEPT ![TicketOf[c]].record = r]
                              ELSE evidence
Ends(c, state) == Saved(c, [record[c] EXCEPT !.state = state]) /\ Goes(c, "done")

Starts(c, process) == child' = [child EXCEPT ![c] = @ \cup {process}]

\* What a process may leave behind.  Only the descendants of one that has the
\* descriptor can have it.
Left(process) == IF process \in Holders THEN Strays ELSE {"closed"}

\* The child has ended and its process group is killed; descendants that left
\* the group live on.  git has no group of its own, and is waited for.
Killed(c) ==
    \E strays \in SUBSET UNION {Left(process) : process \in child[c]} :
        child' = [child EXCEPT ![c] = (@ \cap Strays) \cup strays]
-----------------------------------------------------------------------------
\* The ticket, the source and the CLI are checked before the lock is taken.
CheckTicket(c) ==
    /\ at[c] = "start"
    /\ IF moved THEN Ends(c, "BLOCKED") ELSE Goes(c, "checked") /\ UNCHANGED <<record, evidence>>
    /\ UNCHANGED <<child, launches, moved>>

TakeLock(c) ==
    /\ at[c] = "checked"
    /\ IF LockFree THEN Goes(c, "locked") /\ UNCHANGED <<record, evidence>>
                   ELSE Ends(c, "BLOCKED")
    /\ UNCHANGED <<child, launches, moved>>

FreshAlways(t) == TRUE                                            \* mutant
\* mkdir(exist_ok=False)
Fresh(t) == evidence[t] = NoEvidence

MakeDirectory(c) ==
    /\ at[c] = "locked"
    /\ IF Fresh(TicketOf[c])
       THEN /\ evidence' = [evidence EXCEPT ![TicketOf[c]] = [by |-> {c}, record |-> NotStarted]]
            /\ Goes(c, "made")
            /\ UNCHANGED record
       ELSE Ends(c, "BLOCKED")
    /\ UNCHANGED <<child, launches, moved>>

\* The CLI is asked for its help.
Probe(c) ==
    /\ at[c] = "made"
    /\ Goes(c, "probing")
    /\ Starts(c, "help")
    /\ UNCHANGED <<record, evidence, launches, moved>>

Probed(c) ==
    /\ at[c] = "probing"
    /\ Killed(c)
    /\ \/ Goes(c, "probed") /\ UNCHANGED <<record, evidence>>
       \/ Ends(c, "BLOCKED")
    /\ UNCHANGED <<launches, moved>>

AnnouncementUncounted == [state |-> "RUNNING", count |-> 0]       \* mutant
Announcement == [state |-> "RUNNING", count |-> 1]

\* git makes two clones.
Clone(c) ==
    /\ at[c] = "probed"
    /\ Starts(c, "git")
    /\ Goes(c, "cloning")
    /\ UNCHANGED <<record, evidence, launches, moved>>

Cloned(c) ==
    /\ at[c] = "cloning"
    /\ Killed(c)
    /\ Goes(c, "cloned")
    /\ UNCHANGED <<record, evidence, launches, moved>>

\* The source is checked again, and the launch is recorded before it happens.
Announce(c) ==
    /\ at[c] = "cloned"
    /\ IF moved THEN Ends(c, "BLOCKED") ELSE Saved(c, Announcement) /\ Goes(c, "announced")
    /\ UNCHANGED <<child, launches, moved>>

StartAgent(c) ==
    /\ at[c] = "announced"
    /\ Starts(c, "agent")
    /\ launches' = [launches EXCEPT ![TicketOf[c]] = @ + 1]
    /\ Goes(c, "waiting")
    /\ UNCHANGED <<record, evidence, moved>>

Observed == {launch \in Launch : Observable(launch) /\ launch.started}
Unstarted == {launch \in Launch : Observable(launch) /\ ~launch.started}

\* The agent could not be started, or no time is left for it.  git collects the
\* patch all the same.
StartFails(c) ==
    /\ at[c] = "announced"
    /\ Starts(c, "git")
    /\ Goes(c, "unstarted")
    /\ UNCHANGED <<record, evidence, launches, moved>>

\* launch_count goes back to 0, also when the collection raises an error.
LaunchFails(c, launch) ==
    /\ at[c] = "unstarted"
    /\ Killed(c)
    /\ Saved(c, [state |-> Classified(launch), count |-> 0])
    /\ Goes(c, "done")
    /\ UNCHANGED <<launches, moved>>

\* The agent has ended or its time is up.
AgentReturns(c) ==
    /\ at[c] = "waiting"
    /\ Killed(c)
    /\ Goes(c, "observed")
    /\ UNCHANGED <<record, evidence, launches, moved>>

\* git collects the patch, unless there are violations.
Collect(c) ==
    /\ at[c] = "observed"
    /\ Starts(c, "git")
    /\ Goes(c, "collecting")
    /\ UNCHANGED <<record, evidence, launches, moved>>

Collected(c) ==
    /\ at[c] = "collecting"
    /\ Killed(c)
    /\ Goes(c, "collected")
    /\ UNCHANGED <<record, evidence, launches, moved>>

Unchecked(violations) ==
    {Classified(launch) :
        launch \in {l \in Observed : ~ReachesChecks(l) /\ l.violations = violations}}

\* The launch is classified, or its checks are started.
Classify(c) ==
    /\ at[c] \in {"observed", "collected"}
    /\ \E state \in Unchecked(at[c] = "observed") : Ends(c, state)
    /\ UNCHANGED <<child, launches, moved>>

StartChecks(c) ==
    /\ at[c] = "collected"
    /\ Starts(c, "checks")
    /\ Goes(c, "verifying")
    /\ UNCHANGED <<record, evidence, launches, moved>>

\* Only run_repo_ticket looks at the source once more before a success.
ChecksReturn(c, launch) ==
    /\ at[c] = "verifying"
    /\ Killed(c)
    /\ LET state == Classified(launch)
       IN  IF state = "SUCCEEDED" /\ c \in RepoControllers /\ moved
           THEN Ends(c, "FAILED") ELSE Ends(c, state)
    /\ UNCHANGED <<launches, moved>>
-----------------------------------------------------------------------------
InterruptedState(c) == "INTERRUPTED"                              \* mutant
RaisedState(c) == IF record[c].count = 1 THEN "FAILED" ELSE "BLOCKED"

\* An error or an interrupt anywhere: BLOCKED before the launch is announced,
\* FAILED afterwards.
Raises(c) ==
    /\ at[c] \notin {"unstarted", "done", "dead"}
    /\ Killed(c)
    /\ Ends(c, RaisedState(c))
    /\ UNCHANGED <<launches, moved>>

\* The controller dies, its child does not notice and lives on.
Dies(c) ==
    /\ at[c] \in Locked
    /\ Goes(c, "dead")
    /\ UNCHANGED <<record, evidence, child, launches, moved>>

\* An orphan or a stray ends by itself, and may leave descendants behind.
ChildEnds(c) ==
    /\ \E process \in child[c] :
           /\ at[c] = "dead" \/ process \in Strays
           /\ \E strays \in SUBSET Left(process) :
                 child' = [child EXCEPT ![c] = (@ \ {process}) \cup strays]
    /\ UNCHANGED <<at, record, evidence, launches, moved>>

\* Somebody commits to the source repository, or cleans up again.
SourceMoves ==
    /\ moved' = ~moved
    /\ UNCHANGED <<at, record, evidence, child, launches>>

Init ==
    /\ at = [c \in Controllers |-> "start"]
    /\ record = [c \in Controllers |-> NotStarted]
    /\ evidence = [t \in Tickets |-> NoEvidence]
    /\ child = [c \in Controllers |-> {}]
    /\ launches = [t \in Tickets |-> 0]
    /\ moved \in BOOLEAN

Step(c) ==
    \/ CheckTicket(c) \/ TakeLock(c) \/ MakeDirectory(c)
    \/ Probe(c) \/ Probed(c) \/ Clone(c) \/ Cloned(c) \/ Announce(c)
    \/ StartFails(c) \/ \E launch \in Unstarted : LaunchFails(c, launch)
    \/ StartAgent(c) \/ AgentReturns(c) \/ Collect(c) \/ Collected(c)
    \/ Classify(c) \/ StartChecks(c)
    \/ \E launch \in {l \in Observed : ReachesChecks(l)} : ChecksReturn(c, launch)
    \/ Raises(c) \/ Dies(c) \/ ChildEnds(c)

Next == SourceMoves \/ \E c \in Controllers : Step(c)

Spec == Init /\ [][Next]_vars
-----------------------------------------------------------------------------
TypeOK ==
    /\ at \in [Controllers -> Unlocked \cup Locked]
    /\ record \in [Controllers -> Record]
    /\ evidence \in [Tickets -> [by : SUBSET Controllers, record : Record]]
    /\ child \in [Controllers -> SUBSET (Started \cup Strays)]
    /\ launches \in [Tickets -> Nat]
    /\ moved \in BOOLEAN

\* One launch at a time: while a controller is inside the lock, or a process
\* that has its descriptor lives on after a death or an escape from the kill, no
\* other controller is inside, and nothing it started for its launch runs but
\* what lacks the descriptor: the git of a controller that died, and descendants
\* that closed their descriptors.  No help, no agent and no check is among these.
OneLaunchAtATime ==
    \A c, d \in Controllers :
        c # d /\ (at[d] \in Locked \/ child[d] \cap Holders # {}) =>
            /\ at[c] \notin Locked
            /\ child[c] \subseteq {"git", "closed"}
            /\ "git" \in child[c] => at[c] = "dead"

\* No ticket is ever launched twice, and no agent runs, or has run, without
\* result.json saying so, whenever its controller died: a ticket whose evidence
\* says launch_count 0 was never started.
LaunchIsRecorded == \A t \in Tickets : launches[t] <= evidence[t].record.count

\* The evidence of a ticket is one controller's: a retry never touches it, and
\* its final state stays.
KeepsEvidence ==
    \A t \in Tickets :
        /\ evidence[t].by # {} => evidence'[t].by = evidence[t].by
        /\ ~Running(evidence[t].record) => evidence'[t] = evidence[t]
EvidenceIsKept == [][KeepsEvidence]_vars
=============================================================================
