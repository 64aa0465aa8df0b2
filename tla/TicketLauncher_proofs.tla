-------------------------- MODULE TicketLauncher_proofs --------------------------
(***************************************************************************)
(* Proofs about controllers that launch tickets on one host, for every     *)
(* number of controllers and tickets and every assignment of one to the    *)
(* other: whichever of them die, raise or leave strays behind, one launch  *)
(* runs at a time, no ticket is launched twice, and evidence stays.        *)
(***************************************************************************)
EXTENDS TicketLauncher, TLAPS

\* Holding launcher.lock, as a controller or through a process that inherited it.
Holds(c) == at[c] \in Locked \/ child[c] \cap Holders # {}
Exclusion == \A c, d \in Controllers : Holds(c) /\ Holds(d) => c = d

\* git runs where a controller waits for it, and where a controller has died.
WaitsForGit == {"cloning", "unstarted", "collecting"}
GitIsWaitedFor ==
    \A c \in Controllers : "git" \in child[c] => at[c] \in WaitsForGit \cup {"dead"}

\* Inside the evidence directory; before the launch is announced and after it.
Before == {"made", "probing", "probed", "cloning", "cloned"}
After == {"announced", "unstarted", "waiting", "observed", "collecting", "collected",
          "verifying"}

\* result.json is the record of the controller that made it, until that one ends.
Evidenced ==
    /\ \A t \in Tickets : evidence[t].by = {} => evidence[t] = NoEvidence
    /\ \A c \in Controllers :
          /\ at[c] \in {"start", "checked", "locked"} =>
                ~Ours(c) /\ record[c] = NotStarted
          /\ at[c] \in Before \cup After =>
                Ours(c) /\ evidence[TicketOf[c]].record = record[c]
          /\ at[c] \in Before => record[c] = NotStarted
          /\ at[c] \in After => record[c] = Announcement

\* What was started for a ticket is announced, and not before it.
NotYetStarted ==
    \A c \in Controllers :
        at[c] \in Before \cup {"announced", "unstarted"} => launches[TicketOf[c]] = 0

IInv == TypeOK /\ Exclusion /\ GitIsWaitedFor /\ Evidenced /\ NotYetStarted /\ LaunchIsRecorded
-----------------------------------------------------------------------------
(* What the operators the actions are made of do. *)

LEMMA TicketIsTicket == \A c \in Controllers : TicketOf[c] \in Tickets
  BY LauncherAssumption

Ended == {"SUCCEEDED", "FAILED", "BLOCKED", "TIMED_OUT"}

LEMMA ClassifiedEnds == \A launch \in Launch : Classified(launch) \in Ended
<1>. SUFFICES ASSUME NEW launch \in Launch PROVE Classified(launch) \in Ended
  OBVIOUS
<1>1. launch.checks \in {"passed", "failed", "timedOut"}
  BY DEF Launch
<1>2. Verified(launch) \in Ended
  BY <1>1 DEF Verified, Ended
<1>. QED
  BY <1>2 DEF Classified, Ended

LEMMA RecordFields ==
  ASSUME NEW r \in Record
  PROVE  /\ r.state \in Ended \cup {"NOT_STARTED", "RUNNING"} /\ r.count \in 0 .. 1
         /\ r = [state |-> r.state, count |-> r.count]
         /\ \A state \in Ended : LET s == [r EXCEPT !.state = state]
                                 IN  s \in Record /\ s.state = state /\ s.count = r.count
  BY DEF Record, Ended

LEMMA Constants ==
  /\ NotStarted \in Record /\ Announcement \in Record
  /\ NotStarted.count = 0 /\ Announcement.count = 1
  /\ Running(NotStarted) /\ Running(Announcement)
  /\ NoEvidence.by = {} /\ NoEvidence.record = NotStarted
  BY DEF NotStarted, Announcement, Record, Running, NoEvidence

\* state() changes the record of its controller, and the evidence it made.
LEMMA SavedDoes ==
  ASSUME TypeOK, NEW c \in Controllers, NEW r \in Record, Saved(c, r)
  PROVE  /\ record' \in [Controllers -> Record]
         /\ record'[c] = r
         /\ \A d \in Controllers : d # c => record'[d] = record[d]
         /\ evidence' \in [Tickets -> [by : SUBSET Controllers, record : Record]]
         /\ \A t \in Tickets :
               /\ evidence'[t].by = evidence[t].by
               /\ IF Ours(c) /\ t = TicketOf[c] THEN evidence'[t].record = r
                  ELSE evidence'[t] = evidence[t]
<1>1. record' = [record EXCEPT ![c] = r]
  BY DEF Saved
<1>2. /\ record' \in [Controllers -> Record]
      /\ record'[c] = r
      /\ \A d \in Controllers : d # c => record'[d] = record[d]
  BY <1>1 DEF TypeOK
<1>3. CASE ~Ours(c)
  BY <1>2, <1>3 DEF Saved, TypeOK
<1>4. CASE Ours(c)
  <2>. DEFINE t == TicketOf[c]
              e == [evidence[t] EXCEPT !.record = r]
  <2>1. t \in Tickets
    BY TicketIsTicket
  <2>2. evidence' = [evidence EXCEPT ![t] = e]
    BY <1>4, Zenon DEF Saved
  <2>3. evidence[t] \in [by : SUBSET Controllers, record : Record]
    BY <2>1 DEF TypeOK
  <2>4. /\ e \in [by : SUBSET Controllers, record : Record]
        /\ e.by = evidence[t].by /\ e.record = r
    BY <2>3
  <2>. HIDE DEF e
  <2>5. /\ evidence' \in [Tickets -> [by : SUBSET Controllers, record : Record]]
        /\ evidence'[t] = e
        /\ \A u \in Tickets : u # t => evidence'[u] = evidence[u]
    BY <2>1, <2>2, <2>4 DEF TypeOK
  <2>. QED
    BY <1>2, <1>4, <2>4, <2>5
<1>. QED
  BY <1>3, <1>4

LEMMA GoesDoes ==
  ASSUME TypeOK, NEW c \in Controllers, NEW place \in Unlocked \cup Locked, Goes(c, place)
  PROVE  /\ at' \in [Controllers -> Unlocked \cup Locked]
         /\ at'[c] = place
         /\ \A d \in Controllers : d # c => at'[d] = at[d]
  BY DEF TypeOK, Goes

LEMMA KilledDoes ==
  ASSUME TypeOK, NEW c \in Controllers, Killed(c)
  PROVE  /\ child' \in [Controllers -> SUBSET (Started \cup Strays)]
         /\ "git" \notin child'[c]
         /\ child[c] \cap Holders = {} => child'[c] \cap Holders = {}
         /\ \A d \in Controllers : d # c => child'[d] = child[d]
<1>1. PICK strays \in SUBSET UNION {Left(process) : process \in child[c]} :
          child' = [child EXCEPT ![c] = (@ \cap Strays) \cup strays]
  BY DEF Killed
<1>2. \A process : Left(process) \subseteq Strays
  BY DEF Left, Strays
<1>3. strays \subseteq Strays
  BY <1>2
<1>4. child[c] \cap Holders = {} => \A process \in child[c] : Left(process) = {"closed"}
  BY DEF Left
<1>5. child[c] \cap Holders = {} => strays \subseteq {"closed"}
  BY <1>4
<1>6. /\ child'[c] = (child[c] \cap Strays) \cup strays
      /\ \A d \in Controllers : d # c => child'[d] = child[d]
      /\ child' \in [Controllers -> SUBSET (Started \cup Strays)]
  BY <1>1, <1>3 DEF TypeOK
<1>7. "git" \notin Strays /\ "closed" \notin Holders
  BY DEF Strays, Holders
<1>. QED
  BY <1>3, <1>5, <1>6, <1>7

LEMMA StartsDoes ==
  ASSUME TypeOK, NEW c \in Controllers, NEW p \in Started, Starts(c, p)
  PROVE  /\ child' \in [Controllers -> SUBSET (Started \cup Strays)]
         /\ child'[c] = child[c] \cup {p}
         /\ \A d \in Controllers : d # c => child'[d] = child[d]
  BY DEF TypeOK, Starts
-----------------------------------------------------------------------------
(* The kinds of step a controller takes, by what they do to the evidence. *)

Children == [Controllers -> SUBSET (Started \cup Strays)]

\* It moves between two places on the same side of every record.
SameSide == {<<"start", "checked">>, <<"checked", "locked">>, <<"made", "probing">>,
             <<"probing", "probed">>, <<"probed", "cloning">>, <<"cloning", "cloned">>,
             <<"announced", "unstarted">>, <<"waiting", "observed">>,
             <<"observed", "collecting">>, <<"collecting", "collected">>,
             <<"collected", "verifying">>}
GoesOn(c) ==
    /\ \E to \in Unlocked \cup Locked : <<at[c], to>> \in SameSide /\ Goes(c, to)
    /\ UNCHANGED <<record, evidence, launches>>
Makes(c) ==
    /\ at[c] = "locked" /\ evidence[TicketOf[c]] = NoEvidence
    /\ evidence' = [evidence EXCEPT ![TicketOf[c]] = [by |-> {c}, record |-> NotStarted]]
    /\ Goes(c, "made")
    /\ UNCHANGED <<record, launches>>
Announces(c) ==
    at[c] = "cloned" /\ Saved(c, Announcement) /\ Goes(c, "announced") /\ UNCHANGED launches
Launches(c) ==
    /\ at[c] = "announced"
    /\ launches' = [launches EXCEPT ![TicketOf[c]] = @ + 1]
    /\ Goes(c, "waiting")
    /\ UNCHANGED <<record, evidence>>
\* It ends, with the count it had, or with none before anything was launched.
Finishes(c) ==
    /\ at[c] \notin {"done", "dead"}
    /\ \E r \in Record :
          /\ Saved(c, r) /\ r.state \in Ended
          /\ r.count = record[c].count \/ at[c] = "unstarted"
    /\ Goes(c, "done")
    /\ UNCHANGED launches
\* It dies, or a process it left behind ends.
Leaves(c) == /\ at' = at \/ Goes(c, "dead")
             /\ UNCHANGED <<record, evidence, launches>>

\* What a step may do to the holders of the lock, and to git.
Held(c) ==
    /\ child' \in Children
    /\ \A d \in Controllers : Holds(d)' => Holds(d) \/ (d = c /\ LockFree)
    /\ GitIsWaitedFor'

Kinds(c) == GoesOn(c) \/ Makes(c) \/ Announces(c) \/ Launches(c) \/ Finishes(c) \/ Leaves(c)

\* state() with a state that is final.
LEMMA EndsFinishes ==
  ASSUME TypeOK, NEW c \in Controllers, NEW state \in Ended, Ends(c, state),
         at[c] \notin {"done", "dead"}, UNCHANGED launches
  PROVE  Finishes(c)
<1>. DEFINE r == [record[c] EXCEPT !.state = state]
<1>1. record[c] \in Record
  BY DEF TypeOK
<1>2. r \in Record /\ r.state = state /\ r.count = record[c].count
  BY <1>1, RecordFields
<1>3. Saved(c, r) /\ Goes(c, "done")
  BY DEF Ends
<1>. HIDE DEF r
<1>. QED
  BY <1>2, <1>3 DEF Finishes

\* A step that leaves the children holds the lock only if it did.
LEMMA HeldByMoving ==
  ASSUME TypeOK, GitIsWaitedFor, NEW c \in Controllers, NEW place \in Unlocked \cup Locked,
         Goes(c, place), UNCHANGED child,
         place \in Locked => at[c] \in Locked \/ LockFree,
         at[c] \notin WaitsForGit \cup {"dead"} \/ place = "dead"
  PROVE  Held(c)
<1>1. /\ at'[c] = place /\ child' = child
      /\ \A d \in Controllers : d # c => at'[d] = at[d]
  BY GoesDoes
<1>2. GitIsWaitedFor'
  BY <1>1 DEF GitIsWaitedFor
<1>. QED
  BY <1>1, <1>2 DEF Held, Holds, Children, TypeOK

LEMMA HeldByKilling ==
  ASSUME TypeOK, GitIsWaitedFor, NEW c \in Controllers, NEW place \in Unlocked \cup Locked,
         Goes(c, place), Killed(c),
         place \in Locked => at[c] \in Locked
  PROVE  Held(c)
<1>1. at'[c] = place /\ \A d \in Controllers : d # c => at'[d] = at[d]
  BY GoesDoes
<1>2. GitIsWaitedFor'
  BY <1>1, KilledDoes DEF GitIsWaitedFor
<1>. QED
  BY <1>1, <1>2, KilledDoes DEF Held, Holds, Children

LEMMA HeldByStarting ==
  ASSUME TypeOK, GitIsWaitedFor, NEW c \in Controllers, NEW place \in Locked,
         Goes(c, place), NEW p \in Started, Starts(c, p),
         at[c] \in Locked, at[c] \notin WaitsForGit \cup {"dead"},
         p = "git" => place \in WaitsForGit
  PROVE  Held(c)
<1>1. at'[c] = place /\ \A d \in Controllers : d # c => at'[d] = at[d]
  BY GoesDoes
<1>2. GitIsWaitedFor'
  BY <1>1, StartsDoes DEF GitIsWaitedFor
<1>. QED
  BY <1>1, <1>2, StartsDoes DEF Held, Holds, Children

\* Every step of a controller is of one of the kinds.
LEMMA StepKinds ==
  ASSUME TypeOK, GitIsWaitedFor, NEW c \in Controllers, Step(c)
  PROVE  Kinds(c) /\ Held(c) /\ moved' = moved
<1>0. /\ {"BLOCKED", "FAILED"} \subseteq Ended
      /\ {"checked", "locked", "made", "probing", "probed", "cloning", "cloned",
          "announced", "unstarted", "waiting", "observed", "collecting", "collected",
          "verifying", "done", "dead"} \subseteq Unlocked \cup Locked
      /\ {"start", "checked", "locked", "made", "probed", "cloned", "announced",
          "observed", "collected"} \cap (WaitsForGit \cup {"dead"}) = {}
      /\ at[c] \in Unlocked \cup Locked
      /\ "done" \notin Locked /\ "dead" \notin Locked /\ "checked" \notin Locked
  BY DEF Ended, Unlocked, Locked, WaitsForGit, TypeOK
<1>1. ASSUME NEW state \in Ended, Ends(c, state), at[c] \notin {"done", "dead"},
             at[c] \notin WaitsForGit \cup {"dead"}, UNCHANGED <<launches, child>>
      PROVE  Kinds(c) /\ Held(c)
  <2>1. Finishes(c)
    BY <1>1, EndsFinishes
  <2>2. Held(c)
    BY <1>0, <1>1, HeldByMoving DEF Ends
  <2>. QED
    BY <2>1, <2>2 DEF Kinds
<1>2. ASSUME NEW state \in Ended, Ends(c, state), at[c] \notin {"done", "dead"},
             Killed(c), UNCHANGED launches
      PROVE  Kinds(c) /\ Held(c)
  <2>1. Finishes(c)
    BY <1>2, EndsFinishes
  <2>2. Held(c)
    BY <1>0, <1>2, HeldByKilling DEF Ends
  <2>. QED
    BY <2>1, <2>2 DEF Kinds
<1>3. ASSUME NEW to \in {"checked", "locked", "probing", "probed", "cloning", "cloned",
                       "unstarted", "observed", "collecting", "collected", "verifying"},
             Goes(c, to), <<at[c], to>> \in SameSide,
             UNCHANGED <<record, evidence, launches>>
      PROVE  Kinds(c)
  BY <1>0, <1>3 DEF GoesOn, Kinds
<1>4. CASE CheckTicket(c)
  <2>1. CASE Ends(c, "BLOCKED")
    BY <1>0, <1>1, <1>4, <2>1 DEF CheckTicket
  <2>2. CASE Goes(c, "checked") /\ UNCHANGED <<record, evidence>>
    <3>1. <<at[c], "checked">> \in SameSide
      BY <1>4 DEF CheckTicket, SameSide
    <3>. QED
      BY <1>0, <1>3, <1>4, <2>2, <3>1, HeldByMoving DEF CheckTicket
  <2>. QED
    BY <1>4, <2>1, <2>2 DEF CheckTicket
<1>5. CASE TakeLock(c)
  <2>1. CASE ~LockFree
    BY <1>0, <1>1, <1>5, <2>1 DEF TakeLock
  <2>2. CASE LockFree
    <3>1. <<at[c], "locked">> \in SameSide
      BY <1>5 DEF TakeLock, SameSide
    <3>. QED
      BY <1>0, <1>3, <1>5, <2>2, <3>1, HeldByMoving DEF TakeLock
  <2>. QED
    BY <1>5, <2>1, <2>2
<1>6. CASE MakeDirectory(c)
  <2>1. CASE ~Fresh(TicketOf[c])
    BY <1>0, <1>1, <1>6, <2>1 DEF MakeDirectory
  <2>2. CASE Fresh(TicketOf[c])
    <3>1. Makes(c)
      BY <1>6, <2>2, Zenon DEF MakeDirectory, Fresh, Makes
    <3>2. Held(c)
      BY <1>0, <1>6, <2>2, HeldByMoving DEF MakeDirectory, Locked
    <3>. QED
      BY <1>6, <3>1, <3>2 DEF Kinds, MakeDirectory
  <2>. QED
    BY <1>6, <2>1, <2>2 DEF MakeDirectory
<1>7. CASE Probe(c)
  <2>1. at[c] = "made" /\ <<at[c], "probing">> \in SameSide
    BY <1>7 DEF Probe, SameSide
  <2>2. Held(c)
    BY <1>0, <1>7, <2>1, HeldByStarting DEF Probe, Locked, Started
  <2>. QED
    BY <1>3, <1>7, <2>1, <2>2 DEF Probe
<1>8. CASE Probed(c)
  <2>1. at[c] = "probing" /\ <<at[c], "probed">> \in SameSide /\ at[c] \in Locked
    BY <1>8 DEF Probed, SameSide, Locked
  <2>2. CASE Goes(c, "probed") /\ UNCHANGED <<record, evidence>>
    <3>1. Held(c)
      BY <1>0, <1>8, <2>1, <2>2, HeldByKilling DEF Probed
    <3>. QED
      BY <1>3, <1>8, <2>1, <2>2, <3>1 DEF Probed
  <2>3. CASE Ends(c, "BLOCKED")
    BY <1>0, <1>2, <1>8, <2>1, <2>3 DEF Probed
  <2>. QED
    BY <1>8, <2>2, <2>3 DEF Probed
<1>9. CASE Announce(c)
  <2>1. CASE Ends(c, "BLOCKED")
    BY <1>0, <1>1, <1>9, <2>1 DEF Announce
  <2>2. CASE Saved(c, Announcement) /\ Goes(c, "announced")
    <3>1. Announces(c)
      BY <1>9, <2>2 DEF Announce, Announces
    <3>2. Held(c)
      BY <1>0, <1>9, <2>2, HeldByMoving DEF Announce, Locked
    <3>. QED
      BY <1>9, <3>1, <3>2 DEF Kinds, Announce
  <2>. QED
    BY <1>9, <2>1, <2>2 DEF Announce
<1>10. CASE StartAgent(c)
  <2>1. Launches(c)
    BY <1>10 DEF StartAgent, Launches
  <2>2. Held(c)
    BY <1>0, <1>10, HeldByStarting DEF StartAgent, Locked, Started
  <2>. QED
    BY <1>10, <2>1, <2>2 DEF Kinds, StartAgent
<1>11. ASSUME NEW launch \in Unstarted, LaunchFails(c, launch)
       PROVE  Kinds(c) /\ Held(c) /\ moved' = moved
  <2>1. Classified(launch) \in Ended
    BY ClassifiedEnds DEF Unstarted
  <2>2. /\ [state |-> Classified(launch), count |-> 0] \in Record
        /\ [state |-> Classified(launch), count |-> 0].state = Classified(launch)
    BY <2>1 DEF Record, Ended
  <2>3. Finishes(c)
    BY <1>11, <2>1, <2>2 DEF LaunchFails, Finishes
  <2>4. Held(c)
    BY <1>0, <1>11, HeldByKilling DEF LaunchFails
  <2>. QED
    BY <1>11, <2>3, <2>4 DEF Kinds, LaunchFails
<1>12. CASE AgentReturns(c)
  <2>1. <<at[c], "observed">> \in SameSide /\ at[c] \in Locked
    BY <1>12 DEF AgentReturns, SameSide, Locked
  <2>2. Held(c)
    BY <1>0, <1>12, <2>1, HeldByKilling DEF AgentReturns
  <2>. QED
    BY <1>3, <1>12, <2>1, <2>2 DEF AgentReturns
<1>13. CASE Classify(c)
  <2>1. PICK state \in Unchecked(at[c] = "observed") : Ends(c, state)
    BY <1>13 DEF Classify
  <2>2. state \in Ended
    BY <2>1, ClassifiedEnds DEF Unchecked, Observed
  <2>. QED
    BY <1>0, <1>1, <1>13, <2>1, <2>2 DEF Classify
<1>14. CASE StartChecks(c)
  <2>1. <<at[c], "verifying">> \in SameSide
    BY <1>14 DEF StartChecks, SameSide
  <2>2. Held(c)
    BY <1>0, <1>14, HeldByStarting DEF StartChecks, Locked, Started
  <2>. QED
    BY <1>3, <1>14, <2>1, <2>2 DEF StartChecks
<1>15. ASSUME NEW launch \in {l \in Observed : ReachesChecks(l)}, ChecksReturn(c, launch)
       PROVE  Kinds(c) /\ Held(c) /\ moved' = moved
  <2>1. Classified(launch) \in Ended
    BY ClassifiedEnds DEF Observed
  <2>2. Ends(c, "FAILED") \/ Ends(c, Classified(launch))
    BY <1>15 DEF ChecksReturn
  <2>. QED
    BY <1>0, <1>2, <1>15, <2>1, <2>2 DEF ChecksReturn
<1>16. CASE Raises(c)
  <2>1. RaisedState(c) \in Ended
    BY <1>0 DEF RaisedState
  <2>. QED
    BY <1>2, <1>16, <2>1 DEF Raises
<1>17. CASE Dies(c)
  <2>1. Leaves(c)
    BY <1>17 DEF Dies, Leaves
  <2>2. Held(c)
    BY <1>0, <1>17, HeldByMoving DEF Dies
  <2>. QED
    BY <1>17, <2>1, <2>2 DEF Kinds, Dies
<1>18. CASE ChildEnds(c)
  <2>1. Leaves(c)
    BY <1>18 DEF ChildEnds, Leaves
  <2>2. PICK process \in child[c] : \E strays \in SUBSET Left(process) :
            /\ at[c] = "dead" \/ process \in Strays
            /\ child' = [child EXCEPT ![c] = (@ \ {process}) \cup strays]
    BY <1>18 DEF ChildEnds
  <2>0. PICK strays \in SUBSET Left(process) :
            child' = [child EXCEPT ![c] = (@ \ {process}) \cup strays]
    BY <2>2
  <2>3. /\ strays \subseteq Strays
        /\ process \notin Holders => strays \subseteq {"closed"}
    BY DEF Left, Strays
  <2>4. /\ child'[c] = (child[c] \ {process}) \cup strays /\ child' \in Children
        /\ \A d \in Controllers : d # c => child'[d] = child[d]
    BY <2>0, <2>3 DEF Children, TypeOK
  <2>5. child'[c] \cap Holders # {} => child[c] \cap Holders # {}
    BY <2>3, <2>4 DEF Holders
  <2>6. at' = at /\ GitIsWaitedFor'
    BY <1>18, <2>3, <2>4 DEF ChildEnds, GitIsWaitedFor, Strays
  <2>7. Held(c)
    BY <2>4, <2>5, <2>6 DEF Held, Holds
  <2>. QED
    BY <1>18, <2>1, <2>7 DEF Kinds, ChildEnds
<1>19. CASE Clone(c) \/ StartFails(c) \/ Collect(c)
  <2>1. PICK to \in WaitsForGit :
            /\ Goes(c, to) /\ <<at[c], to>> \in SameSide
            /\ at[c] \in {"probed", "announced", "observed"}
    BY <1>19 DEF Clone, StartFails, Collect, SameSide, WaitsForGit
  <2>2. Starts(c, "git") /\ UNCHANGED <<record, evidence, launches, moved>>
    BY <1>19 DEF Clone, StartFails, Collect
  <2>3. Held(c)
    BY <1>0, <2>1, <2>2, HeldByStarting DEF Locked, WaitsForGit, Started
  <2>. QED
    BY <1>3, <2>1, <2>2, <2>3 DEF WaitsForGit
<1>20. CASE Cloned(c) \/ Collected(c)
  <2>1. PICK to \in {"cloned", "collected"} :
            /\ Goes(c, to) /\ <<at[c], to>> \in SameSide
            /\ at[c] \in {"cloning", "collecting"}
    BY <1>20 DEF Cloned, Collected, SameSide
  <2>2. Killed(c) /\ UNCHANGED <<record, evidence, launches, moved>>
    BY <1>20 DEF Cloned, Collected
  <2>3. Held(c)
    BY <1>0, <2>1, <2>2, HeldByKilling DEF Locked
  <2>. QED
    BY <1>3, <2>1, <2>2, <2>3
<1>. QED
  BY <1>4, <1>5, <1>6, <1>7, <1>8, <1>9, <1>10, <1>11, <1>12, <1>13, <1>14, <1>15, <1>16,
     <1>17, <1>18, <1>19, <1>20
  DEF Step
-----------------------------------------------------------------------------
(* The invariant. *)

LEMMA LauncherInit == Init => IInv
<1>. SUFFICES ASSUME Init PROVE IInv
  OBVIOUS
<1>1. TypeOK
  BY Constants DEF Init, TypeOK, Unlocked, NoEvidence
<1>2. Exclusion /\ GitIsWaitedFor
  BY DEF Init, Exclusion, GitIsWaitedFor, Holds, Locked
<1>3. Evidenced
  BY TicketIsTicket, Constants DEF Init, Evidenced, Ours, Before, After
<1>4. NotYetStarted /\ LaunchIsRecorded
  BY Constants DEF Init, NotYetStarted, LaunchIsRecorded, Before
<1>. QED
  BY <1>1, <1>2, <1>3, <1>4 DEF IInv

\* The lock is one holder's, whoever died holding it.
LEMMA ExclusionStep ==
  ASSUME Exclusion, NEW c \in Controllers, Held(c)
  PROVE  Exclusion'
<1>1. CASE \A d \in Controllers : Holds(d)' => Holds(d)
  BY <1>1 DEF Exclusion
<1>2. CASE LockFree
  <2>1. \A d \in Controllers : ~Holds(d)
    BY <1>2 DEF LockFree, Holds, Unlocked, Locked
  <2>2. \A d \in Controllers : Holds(d)' => d = c
    BY <2>1 DEF Held
  <2>. QED
    BY <2>2 DEF Exclusion
<1>. QED
  BY <1>1, <1>2 DEF Held

\* What the invariant says of the controller that takes a step.
LEMMA Mine ==
  ASSUME IInv, NEW c \in Controllers
  PROVE  /\ Ours(c) <=> evidence[TicketOf[c]].by = {c}
         /\ at[c] \in Before \cup After =>
               Ours(c) /\ evidence[TicketOf[c]].record = record[c] /\ Running(record[c])
         /\ at[c] \in {"start", "checked", "locked"} => ~Ours(c)
         /\ at[c] \in Unlocked \cup Locked
         /\ TicketOf[c] \in Tickets /\ record[c] \in Record
  BY TicketIsTicket, Constants DEF IInv, Evidenced, Ours, TypeOK

LEMMA GoesOnKeeps ==
  ASSUME IInv, NEW c \in Controllers, GoesOn(c)
  PROVE  Evidenced' /\ NotYetStarted' /\ LaunchIsRecorded' /\ KeepsEvidence
<1>1. PICK to \in Unlocked \cup Locked : <<at[c], to>> \in SameSide /\ Goes(c, to)
  BY DEF GoesOn
<1>2. UNCHANGED <<record, evidence, launches>>
  BY DEF GoesOn
<1>3. at'[c] = to /\ \A d \in Controllers : d # c => at'[d] = at[d]
  BY <1>1, GoesDoes DEF IInv
<1>4. Evidenced'
  BY <1>1, <1>2, <1>3 DEF IInv, Evidenced, Ours, SameSide, Before, After
<1>5. NotYetStarted'
  BY <1>1, <1>2, <1>3 DEF IInv, NotYetStarted, SameSide, Before
<1>. QED
  BY <1>2, <1>4, <1>5 DEF IInv, LaunchIsRecorded, KeepsEvidence

LEMMA MakesKeeps ==
  ASSUME IInv, NEW c \in Controllers, Makes(c)
  PROVE  /\ evidence' \in [Tickets -> [by : SUBSET Controllers, record : Record]]
         /\ Evidenced' /\ NotYetStarted' /\ LaunchIsRecorded' /\ KeepsEvidence
<1>. DEFINE t == TicketOf[c]
            e == [by |-> {c}, record |-> NotStarted]
<1>1. t \in Tickets /\ evidence[t] = NoEvidence /\ launches[t] = 0
  BY Mine, Constants DEF IInv, LaunchIsRecorded, Makes, TypeOK
<1>2. /\ e \in [by : SUBSET Controllers, record : Record]
      /\ e.by = {c} /\ e.record = NotStarted
  BY Constants
<1>. HIDE DEF e
<1>3. /\ evidence' \in [Tickets -> [by : SUBSET Controllers, record : Record]]
      /\ evidence'[t] = e
      /\ \A u \in Tickets : u # t => evidence'[u] = evidence[u]
  <2>1. evidence' = [evidence EXCEPT ![t] = e]
    BY DEF Makes, e
  <2>. QED
    BY <1>1, <1>2, <2>1 DEF IInv, TypeOK
<1>4. at'[c] = "made" /\ \A d \in Controllers : d # c => at'[d] = at[d]
  BY GoesDoes DEF IInv, Makes, Locked
<1>5. record' = record /\ launches' = launches /\ record[c] = NotStarted
  BY DEF Makes, IInv, Evidenced
<1>6. \A d \in Controllers : TicketOf[d] = t => ~Ours(d)
  BY <1>1, Constants DEF Ours
<1>7. Evidenced'
  <2>1. \A u \in Tickets : evidence'[u].by = {} => evidence'[u] = NoEvidence
    BY <1>2, <1>3 DEF IInv, Evidenced
  <2>2. \A d \in Controllers : d # c =>
            (Ours(d)' <=> Ours(d)) /\ (TicketOf[d] # t => evidence'[TicketOf[d]] = evidence[TicketOf[d]])
    BY <1>2, <1>3, <1>6, TicketIsTicket DEF Ours
  <2>3. Ours(c)' /\ evidence'[TicketOf[c]].record = record[c]
    BY <1>2, <1>3, <1>5 DEF Ours
  <2>4. \A d \in Controllers : d # c =>
          /\ at[d] \in {"start", "checked", "locked"} =>
                ~Ours(d)' /\ record[d] = NotStarted
          /\ at[d] \in Before \cup After =>
                Ours(d)' /\ evidence'[TicketOf[d]].record = record[d]
    BY <1>6, <2>2 DEF IInv, Evidenced
  <2>. QED
    BY <1>4, <1>5, <2>1, <2>3, <2>4 DEF IInv, Evidenced, Before, After
<1>8. NotYetStarted'
  BY <1>1, <1>4, <1>5 DEF IInv, NotYetStarted, Before
<1>9. LaunchIsRecorded'
  BY <1>1, <1>2, <1>3, <1>5, Constants DEF IInv, LaunchIsRecorded
<1>10. KeepsEvidence
  BY <1>1, <1>3, Constants DEF KeepsEvidence
<1>. QED
  BY <1>3, <1>7, <1>8, <1>9, <1>10

LEMMA SavedKeeps ==
  ASSUME IInv, NEW c \in Controllers, NEW r \in Record, NEW place \in {"announced", "done"},
         Saved(c, r), Goes(c, place), UNCHANGED launches, at[c] \notin {"done", "dead"},
         place = "announced" => at[c] = "cloned" /\ r = Announcement,
         place = "done" => r.count = record[c].count \/ at[c] = "unstarted"
  PROVE  Evidenced' /\ NotYetStarted' /\ LaunchIsRecorded' /\ KeepsEvidence
<1>. DEFINE t == TicketOf[c]
<1>1. place \in Unlocked \cup Locked
  BY DEF Unlocked, Locked
<1>2. at'[c] = place /\ \A d \in Controllers : d # c => at'[d] = at[d]
  BY <1>1, GoesDoes DEF IInv
<1>3. /\ record'[c] = r /\ \A d \in Controllers : d # c => record'[d] = record[d]
      /\ \A u \in Tickets :
            /\ evidence'[u].by = evidence[u].by
            /\ IF Ours(c) /\ u = t THEN evidence'[u].record = r
               ELSE evidence'[u] = evidence[u]
  BY SavedDoes DEF IInv
<1>4. \A d \in Controllers : Ours(d)' <=> Ours(d)
  BY <1>3, TicketIsTicket DEF Ours
<1>5. \A d \in Controllers : d # c /\ Ours(d) =>
          evidence'[TicketOf[d]] = evidence[TicketOf[d]]
  BY <1>3, TicketIsTicket DEF Ours
<1>6. Ours(c) => at[c] \in Before \cup After
  BY Mine DEF Before, After, Unlocked, Locked
<1>7. Evidenced'
  <2>1. \A u \in Tickets : evidence'[u].by = {} => evidence'[u] = NoEvidence
    BY <1>3 DEF IInv, Evidenced, Ours
  <2>2. \A d \in Controllers : d # c =>
          /\ at[d] \in {"start", "checked", "locked"} =>
                ~Ours(d)' /\ record'[d] = NotStarted
          /\ at[d] \in Before \cup After =>
                Ours(d)' /\ evidence'[TicketOf[d]].record = record'[d]
          /\ at[d] \in Before => record'[d] = NotStarted
          /\ at[d] \in After => record'[d] = Announcement
    BY <1>3, <1>4, <1>5 DEF IInv, Evidenced
  <2>3. place = "announced" => Ours(c)' /\ evidence'[t].record = record'[c]
    BY <1>3, <1>4, Mine DEF Before
  <2>. QED
    BY <1>2, <1>3, <2>1, <2>2, <2>3 DEF Evidenced, Before, After
<1>8. NotYetStarted'
  BY <1>2 DEF IInv, NotYetStarted, Before
<1>9. LaunchIsRecorded'
  <2>1. Ours(c) => launches[t] <= r.count
    <3>1. launches[t] \in Nat /\ launches[t] <= evidence[t].record.count /\ r.count \in Nat
      BY Mine DEF IInv, LaunchIsRecorded, TypeOK, Record
    <3>2. CASE at[c] = "unstarted" \/ place = "announced"
      <4>1. launches[t] = 0
        BY <3>2 DEF IInv, NotYetStarted, Before
      <4>. QED
        BY <3>1, <4>1
    <3>3. CASE ~(at[c] = "unstarted" \/ place = "announced")
      BY <1>6, <3>1, <3>3, Mine
    <3>. QED
      BY <3>2, <3>3
  <2>. QED
    BY <1>3, <2>1 DEF IInv, LaunchIsRecorded
<1>10. KeepsEvidence
  BY <1>3, <1>6, Mine DEF KeepsEvidence
<1>. QED
  BY <1>7, <1>8, <1>9, <1>10

LEMMA LaunchesKeeps ==
  ASSUME IInv, NEW c \in Controllers, Launches(c)
  PROVE  /\ launches' \in [Tickets -> Nat]
         /\ Evidenced' /\ NotYetStarted' /\ LaunchIsRecorded' /\ KeepsEvidence
<1>. DEFINE t == TicketOf[c]
<1>1. at'[c] = "waiting" /\ \A d \in Controllers : d # c => at'[d] = at[d]
  BY GoesDoes DEF IInv, Launches, Locked
<1>2. record' = record /\ evidence' = evidence /\ at[c] = "announced"
  BY DEF Launches
<1>3. t \in Tickets /\ launches[t] = 0 /\ Ours(c) /\ evidence[t].record.count = 1
  BY <1>2, Mine, Constants DEF IInv, Evidenced, NotYetStarted, Before, After
<1>4. /\ launches' \in [Tickets -> Nat] /\ launches'[t] = 1
      /\ \A u \in Tickets : u # t => launches'[u] = launches[u]
  BY <1>3 DEF Launches, IInv, TypeOK
<1>5. Evidenced'
  BY <1>1, <1>2 DEF IInv, Evidenced, Ours, Before, After
<1>6. NotYetStarted'
  <2>. SUFFICES ASSUME NEW d \in Controllers,
                       at'[d] \in Before \cup {"announced", "unstarted"}
                PROVE  launches'[TicketOf[d]] = 0
    BY DEF NotYetStarted
  <2>1. d # c /\ at[d] \in Before \cup {"announced", "unstarted"}
    BY <1>1 DEF Before
  <2>2. Ours(d)
    BY <2>1, Mine DEF After
  <2>3. TicketOf[d] # t
    BY <1>3, <2>1, <2>2 DEF Ours
  <2>. QED
    BY <1>4, <2>1, <2>3, TicketIsTicket DEF IInv, NotYetStarted
<1>7. LaunchIsRecorded'
  BY <1>2, <1>3, <1>4 DEF IInv, LaunchIsRecorded
<1>. QED
  BY <1>2, <1>4, <1>5, <1>6, <1>7 DEF KeepsEvidence

LEMMA LeavesKeeps ==
  ASSUME IInv, NEW c \in Controllers, Leaves(c)
  PROVE  Evidenced' /\ NotYetStarted' /\ LaunchIsRecorded' /\ KeepsEvidence
<1>1. UNCHANGED <<record, evidence, launches>>
  BY DEF Leaves
<1>2. \A d \in Controllers : at'[d] \in {at[d], "dead"}
  BY GoesDoes DEF IInv, Leaves, Unlocked
<1>. QED
  BY <1>1, <1>2 DEF IInv, Evidenced, Ours, Before, After, NotYetStarted, LaunchIsRecorded,
                    KeepsEvidence

LEMMA TypeStep ==
  ASSUME IInv, NEW c \in Controllers, Kinds(c), Held(c), moved' = moved
  PROVE  TypeOK'
<1>0. {"made", "announced", "waiting", "done", "dead"} \subseteq Unlocked \cup Locked
  BY DEF Unlocked, Locked
<1>1. CASE GoesOn(c)
  <2>1. PICK to \in Unlocked \cup Locked : Goes(c, to)
    BY <1>1 DEF GoesOn
  <2>. QED
    BY <1>1, <2>1, GoesDoes DEF GoesOn, IInv, TypeOK, Held, Children
<1>2. CASE Makes(c)
  BY <1>0, <1>2, MakesKeeps, GoesDoes DEF Makes, IInv, TypeOK, Held, Children
<1>3. CASE Announces(c)
  BY <1>0, <1>3, SavedDoes, GoesDoes, Constants DEF Announces, IInv, TypeOK, Held, Children
<1>4. CASE Launches(c)
  BY <1>0, <1>4, LaunchesKeeps, GoesDoes DEF Launches, IInv, TypeOK, Held, Children
<1>5. CASE Finishes(c)
  BY <1>0, <1>5, SavedDoes, GoesDoes DEF Finishes, IInv, TypeOK, Held, Children
<1>6. CASE Leaves(c)
  BY <1>0, <1>6, GoesDoes DEF Leaves, IInv, TypeOK, Held, Children
<1>. QED
  BY <1>1, <1>2, <1>3, <1>4, <1>5, <1>6 DEF Kinds

LEMMA LauncherStep == IInv /\ [Next]_vars => IInv' /\ KeepsEvidence
<1>. SUFFICES ASSUME IInv, [Next]_vars PROVE IInv' /\ KeepsEvidence
  OBVIOUS
<1>1. CASE UNCHANGED <<at, record, evidence, child, launches>> /\ moved' \in BOOLEAN
  BY <1>1 DEF IInv, TypeOK, Exclusion, GitIsWaitedFor, Holds, Evidenced, Ours, NotYetStarted,
              LaunchIsRecorded, KeepsEvidence
<1>2. CASE UNCHANGED vars
  BY <1>1, <1>2 DEF vars, IInv, TypeOK
<1>3. CASE SourceMoves
  BY <1>1, <1>3 DEF SourceMoves
<1>4. ASSUME NEW c \in Controllers, Step(c)
      PROVE  IInv' /\ KeepsEvidence
  <2>1. Kinds(c) /\ Held(c) /\ moved' = moved
    BY <1>4, StepKinds DEF IInv
  <2>2. TypeOK' /\ Exclusion' /\ GitIsWaitedFor'
    BY <2>1, TypeStep, ExclusionStep DEF IInv, Held
  <2>3. Announces(c) => Evidenced' /\ NotYetStarted' /\ LaunchIsRecorded' /\ KeepsEvidence
    BY SavedKeeps, Constants DEF Announces
  <2>4. Finishes(c) => Evidenced' /\ NotYetStarted' /\ LaunchIsRecorded' /\ KeepsEvidence
    BY SavedKeeps DEF Finishes
  <2>5. Evidenced' /\ NotYetStarted' /\ LaunchIsRecorded' /\ KeepsEvidence
    BY <2>1, <2>3, <2>4, GoesOnKeeps, MakesKeeps, LaunchesKeeps, LeavesKeeps DEF Kinds
  <2>. QED
    BY <2>2, <2>5 DEF IInv
<1>. QED
  BY <1>2, <1>3, <1>4 DEF Next

LEMMA LauncherInvariant == Spec => []IInv
<1>1. IInv /\ [Next]_vars => IInv'
  BY LauncherStep
<1>. QED
  BY <1>1, LauncherInit, PTL DEF Spec

\* The launchers' records, result.json and processes have their types.
THEOREM LauncherTypes == Spec => []TypeOK
<1>1. IInv => TypeOK
  BY DEF IInv
<1>. QED
  BY <1>1, LauncherInvariant, PTL

\* However many controllers start, die or leave orphans and strays behind, one
\* launch at a time has the lock: beside it nothing runs but the git of a dead
\* controller and descendants that closed their descriptors.
THEOREM OneLaunch == Spec => []OneLaunchAtATime
<1>1. ASSUME IInv PROVE OneLaunchAtATime
  <2>. SUFFICES ASSUME NEW c \in Controllers, NEW d \in Controllers, c # d,
                       at[d] \in Locked \/ child[d] \cap Holders # {}
                PROVE  /\ at[c] \notin Locked
                       /\ child[c] \subseteq {"git", "closed"}
                       /\ "git" \in child[c] => at[c] = "dead"
    BY DEF OneLaunchAtATime
  <2>1. at[c] \notin Locked /\ child[c] \cap Holders = {}
    BY <1>1 DEF IInv, Exclusion, Holds
  <2>2. child[c] \subseteq {"git", "closed"}
    BY <1>1, <2>1 DEF IInv, TypeOK, Started, Strays, Holders
  <2>3. "git" \in child[c] => at[c] = "dead"
    BY <1>1, <2>1 DEF IInv, GitIsWaitedFor, WaitsForGit, Locked
  <2>. QED
    BY <2>1, <2>2, <2>3
<1>. QED
  BY <1>1, LauncherInvariant, PTL

\* The launch is written to result.json before it happens, and happens once.
THEOREM LaunchesRecorded == Spec => []LaunchIsRecorded
<1>1. IInv => LaunchIsRecorded
  BY DEF IInv
<1>. QED
  BY <1>1, LauncherInvariant, PTL

\* A retry never touches the evidence of a ticket, and a final state stays.
THEOREM EvidenceKept == Spec => EvidenceIsKept
<1>1. IInv /\ [Next]_vars => [KeepsEvidence]_vars
  BY LauncherStep
<1>. QED
  BY <1>1, LauncherInvariant, PTL DEF Spec, EvidenceIsKept
=====
