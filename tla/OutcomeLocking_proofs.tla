----------------------- MODULE OutcomeLocking_proofs -----------------------
(***************************************************************************)
(* Proofs about the processes of one session, for every set of runs and    *)
(* submits and every shot limit: a run that races with create, crashes and *)
(* orphans included.                                                       *)
(***************************************************************************)
EXTENDS OutcomeLocking, FiniteSetTheorems, TLAPS

\* Where a process is between taking controller.lock and letting go of it.
LockedPlaces == {"locked", "starting", "loop", "reserved", "working", "received",
                 "deciding"}
CreatorPlaces == {"new", "copying", "copied", "saving", "done"}

\* The lock file is open in the process that took it and in its worker, so that
\* all who have it are one: a process, its worker, or the orphan it left.
Exclusion ==
    /\ \A p \in Procs : p \in holds <=> pc[p] \in LockedPlaces
    /\ \A p \in children : pc[p] \in {"working", "done"}
    /\ \A p, q \in holds \cup children : p = q
    /\ pc[Creator] \in CreatorPlaces
    /\ \A p \in Procs \ {Creator} : pc[p] \in LockedPlaces \cup {"new", "done"}

\* A process whose generation is that of the database has all of its row.
MemoryIsOfItsGeneration ==
    \A p \in Procs : /\ mem[p].gen <= db.gen
                     /\ mem[p].gen = db.gen => mem[p] = db

\* The row exists before anybody can lock, and while a worker may be running it
\* says so and has been charged for it.
RowIsAhead ==
    /\ pc[Creator] = "new" => db = Fresh
    /\ holds \cup children # {} => db.gen > 0
    /\ launches <= db.calls
    /\ \A p \in Procs : pc[p] = "reserved" => launches < db.calls
    /\ \A p \in Procs : pc[p] \in {"reserved", "working"} => db.inFlight
    /\ children # {} => db.inFlight

IInv == TypeOK /\ Exclusion /\ MemoryIsOfItsGeneration /\ RowIsAhead
-----------------------------------------------------------------------------
LEMMA InitIInv == Init => IInv
<1>. SUFFICES ASSUME Init PROVE IInv
  OBVIOUS
<1>1. Fresh \in State
  BY LockingAssumption DEF Fresh, State
<1>2. TypeOK
  BY <1>1 DEF Init, TypeOK, Places
<1>3. Exclusion
  BY DEF Init, Exclusion, LockedPlaces, CreatorPlaces, Procs
<1>4. MemoryIsOfItsGeneration
  BY DEF Init, MemoryIsOfItsGeneration, Fresh
<1>5. RowIsAhead
  BY DEF Init, RowIsAhead, Fresh
<1>. QED
  BY <1>2, <1>3, <1>4, <1>5 DEF IInv

\* A save either writes what it was given over the row it had read, or is
\* refused and ends the command.
LEMMA SaveOutcome ==
  ASSUME MemoryIsOfItsGeneration, NEW p \in Procs, NEW s, NEW place, Save(p, s, place)
  PROVE  \/ /\ db = mem[p]
            /\ db' = [s EXCEPT !.gen = db.gen + 1]
            /\ mem' = [mem EXCEPT ![p] = db']
         \/ UNCHANGED <<db, mem>> /\ pc' = [pc EXCEPT ![p] = "done"]
  BY DEF Save, MemoryIsOfItsGeneration, Exit, Goto

\* Where a save leaves the process that made it.
LEMMA SaveMoves ==
  ASSUME NEW p, NEW s, NEW place, Save(p, s, place)
  PROVE  \/ Exit(p)
         \/ pc' = [pc EXCEPT ![p] = place] /\ UNCHANGED holds /\ place # "done"
  BY DEF Save, Goto

\* What a step does to the row: its process writes a state made of the one it had
\* read, with no call taken back and the mark removed only by the process whose
\* worker has returned; or nothing is written.
Kept(p, s) ==
    /\ s \in State
    /\ s.calls >= mem[p].calls
    /\ mem[p].inFlight /\ pc[p] # "working" => s.inFlight
Wrote(p) ==
    \/ \E s : /\ Kept(p, s)
              /\ db = mem[p]
              /\ db' = [s EXCEPT !.gen = db.gen + 1]
              /\ mem' = [mem EXCEPT ![p] = db']
    \/ UNCHANGED db /\ (UNCHANGED mem \/ mem' = [mem EXCEPT ![p] = db])

LEMMA SavesWrite ==
  ASSUME MemoryIsOfItsGeneration, NEW p \in Procs, NEW s, NEW place,
         Save(p, s, place), Kept(p, s)
  PROVE  Wrote(p)
  BY SaveOutcome DEF Wrote

LEMMA RowsWritten ==
  ASSUME NEW p \in Procs, mem[p] \in State,
         NEW phase \in Ended \cup {"READY", "VERIFY", "CANDIDATE_RECEIVED"}
  PROVE  /\ Kept(p, [mem[p] EXCEPT !.phase = phase])
         /\ pc[p] = "working" => Kept(p, [mem[p] EXCEPT !.inFlight = FALSE, !.phase = phase])
<1>. DEFINE s == mem[p]
            free == [s EXCEPT !.inFlight = FALSE]
<1>0. s \in State /\ s.calls \in Nat
  BY LockingAssumption DEF State
<1>. HIDE DEF s
<1>1. free \in State /\ free.calls = s.calls
  BY <1>0 DEF State
<1>2. [s EXCEPT !.inFlight = FALSE, !.phase = phase] = [free EXCEPT !.phase = phase]
  OBVIOUS
<1>. HIDE DEF free
<1>3. [free EXCEPT !.phase = phase] \in State /\ [free EXCEPT !.phase = phase].calls >= s.calls
  BY <1>0, <1>1 DEF State
<1>4. /\ [s EXCEPT !.phase = phase] \in State /\ [s EXCEPT !.phase = phase].calls >= s.calls
      /\ [s EXCEPT !.phase = phase].inFlight = s.inFlight
  BY <1>0 DEF State
<1>. QED
  BY <1>2, <1>3, <1>4 DEF Kept, s

LEMMA RowCharged ==
  ASSUME NEW s \in State, ShotsLeft(s)
  PROVE  Charged(s) \in State /\ Charged(s).calls = s.calls + 1 /\ Charged(s).inFlight
<1>. DEFINE more == [s EXCEPT !.calls = @ + 1]
<1>1. more \in State /\ more.calls = s.calls + 1
  BY LockingAssumption DEF State, ShotsLeft
<1>2. Charged(s) = [more EXCEPT !.inFlight = TRUE]
  BY DEF Charged
<1>. HIDE DEF more
<1>. QED
  BY <1>1, <1>2 DEF State

LEMMA ChargedIsKept ==
  ASSUME NEW p \in Procs, mem[p] \in State, ShotsLeft(mem[p])
  PROVE  Kept(p, Charged(mem[p]))
<1>1. mem[p].calls \in Nat
  BY LockingAssumption DEF State
<1>. QED
  BY <1>1, RowCharged DEF Kept

LEMMA CreatingWrites ==
  ASSUME IInv, Creating
  PROVE  Wrote(Creator)
<1>0. Creator \in Procs /\ mem[Creator] \in State /\ Fresh \in State
  BY LockingAssumption DEF IInv, TypeOK, State, Procs, Fresh
<1>1. CASE CreateStore
  <2>1. db.gen = mem[Creator].gen => mem[Creator] = Fresh
    BY <1>0, <1>1 DEF IInv, CreateStore, RowIsAhead, MemoryIsOfItsGeneration
  <2>2. mem[Creator] = Fresh => Kept(Creator, Fresh)
    BY <1>0 DEF Kept, Fresh
  <2>. QED
    BY <1>0, <1>1, <2>1, <2>2, SavesWrite DEF IInv, CreateStore, Save, Wrote
<1>2. CASE CreateBaseline
  BY <1>2 DEF CreateBaseline, Wrote
<1>3. CASE CreateLoad
  BY <1>3 DEF CreateLoad, LoadState, Wrote
<1>4. CASE CreateSave
  BY <1>0, <1>4, SavesWrite, RowsWritten DEF IInv, CreateSave
<1>. QED
  BY <1>1, <1>2, <1>3, <1>4 DEF Creating

LEMMA RunningWrites ==
  ASSUME IInv, NEW p \in Procs, Running(p)
  PROVE  Wrote(p)
<1>. USE DEF IInv
<1>0. mem[p] \in State
  BY DEF TypeOK
<1>1. ASSUME NEW s, NEW place, Save(p, s, place), Kept(p, s)
      PROVE  Wrote(p)
  BY <1>1, SavesWrite
<1>2. \A phase \in Ended \cup {"READY", "VERIFY", "CANDIDATE_RECEIVED"} :
         /\ Kept(p, [mem[p] EXCEPT !.phase = phase])
         /\ pc[p] = "working" => Kept(p, [mem[p] EXCEPT !.inFlight = FALSE, !.phase = phase])
  BY <1>0, RowsWritten
<1>3. CASE Lock(p)
  BY <1>3 DEF Lock, Wrote
<1>4. CASE Load(p)
  BY <1>4 DEF Load, LoadState, Wrote
<1>5. CASE RunBegin(p)
  <2>1. CASE mem[p].inFlight
    BY <1>5, <2>1, <1>1, <1>2 DEF RunBegin, Ended
  <2>2. CASE ~mem[p].inFlight /\ mem[p].phase \notin Ended /\ ~baseline
    BY <1>5, <2>2, <1>1, <1>2 DEF RunBegin, Ended
  <2>3. CASE ~mem[p].inFlight /\ ~(mem[p].phase \notin Ended /\ ~baseline)
    BY <1>5, <2>3 DEF RunBegin, Wrote
  <2>. QED
    BY <2>1, <2>2, <2>3
<1>6. CASE RunVerify(p)
  BY <1>6, <1>1, <1>2 DEF RunVerify, Ended
<1>7. CASE RunInterrupted(p)
  BY <1>7, <1>1, <1>2 DEF RunInterrupted, Ended
<1>8. CASE RunReserve(p)
  BY <1>0, <1>8, <1>1, <1>2, ChargedIsKept DEF RunReserve, Ended
<1>9. CASE RunLaunch(p)
  BY <1>9 DEF RunLaunch, Wrote
<1>10. CASE RunFinish(p)
  BY <1>10, <1>1, <1>2 DEF RunFinish
<1>11. CASE RunAdopt(p)
  BY <1>11, <1>1, <1>2 DEF RunAdopt, Ended
<1>12. CASE SubmitDecision(p)
  BY <1>12, <1>1, <1>2 DEF SubmitDecision, Wrote, Ended
<1>. QED
  BY <1>3, <1>4, <1>5, <1>6, <1>7, <1>8, <1>9, <1>10, <1>11, <1>12 DEF Running

\* No write goes back: rows grow by one generation, never lose a call, and lose
\* the mark only when a worker's own process saves.
LEMMA WritesGoForward ==
  ASSUME TypeOK, NEW p \in Procs, Wrote(p)
  PROVE  /\ db'.calls >= db.calls /\ db'.gen \in db.gen .. db.gen + 1
         /\ db.inFlight /\ pc[p] # "working" => db'.inFlight
         /\ db' \in State
<1>1. db.gen \in Nat /\ db.calls \in Nat /\ db \in State
  BY LockingAssumption DEF TypeOK, State
<1>2. ASSUME NEW s, Kept(p, s), db = mem[p], db' = [s EXCEPT !.gen = db.gen + 1]
      PROVE  /\ db'.calls >= db.calls /\ db'.gen = db.gen + 1
             /\ db.inFlight /\ pc[p] # "working" => db'.inFlight
             /\ db' \in State
  BY <1>1, <1>2 DEF Kept, State
<1>. QED
  BY <1>1, <1>2 DEF Wrote

LEMMA MemoryStep ==
  ASSUME TypeOK, MemoryIsOfItsGeneration, NEW p \in Procs, Wrote(p)
  PROVE  MemoryIsOfItsGeneration' /\ mem' \in [Procs -> State]
<1>1. db.gen \in Nat /\ \A q \in Procs : mem[q] \in State /\ mem[q].gen \in Nat
  BY DEF TypeOK, State
<1>2. ASSUME NEW s, Kept(p, s), db' = [s EXCEPT !.gen = db.gen + 1],
             mem' = [mem EXCEPT ![p] = db']
      PROVE  MemoryIsOfItsGeneration' /\ mem' \in [Procs -> State]
  <2>1. db' \in State /\ db'.gen = db.gen + 1
    BY <1>1, <1>2 DEF Kept, State
  <2>2. \A q \in Procs : mem'[q] = IF q = p THEN db' ELSE mem[q]
    BY <1>2 DEF TypeOK
  <2>. QED
    BY <1>1, <1>2, <2>1, <2>2 DEF MemoryIsOfItsGeneration, TypeOK
<1>3. CASE UNCHANGED db /\ (UNCHANGED mem \/ mem' = [mem EXCEPT ![p] = db])
  BY <1>1, <1>3 DEF MemoryIsOfItsGeneration, TypeOK
<1>. QED
  BY <1>2, <1>3 DEF Wrote
-----------------------------------------------------------------------------
\* Letting go of the lock, or going on with it, keeps the exclusion.
LEMMA LockedStep ==
  ASSUME TypeOK, Exclusion, NEW p \in Procs, children' \subseteq children,
         \/ Exit(p)
         \/ \E place \in LockedPlaces :
               pc[p] \in LockedPlaces /\ pc' = [pc EXCEPT ![p] = place] /\ UNCHANGED holds,
         p \notin children' \/ Exit(p)
  PROVE  Exclusion' /\ pc' \in [Procs -> Places] /\ holds' \subseteq Procs
  BY LockingAssumption
  DEF TypeOK, Exclusion, Exit, Goto, LockedPlaces, CreatorPlaces, Places, Procs

LEMMA ExclusionStep ==
  ASSUME IInv, Next
  PROVE  Exclusion' /\ pc' \in [Procs -> Places] /\ holds' \subseteq Procs
<1>. USE DEF IInv
<1>1. ASSUME NEW p \in Procs, NEW s, NEW place \in LockedPlaces \cup {"done"},
             Save(p, s, place), pc[p] \in LockedPlaces \ {"working"}, UNCHANGED children
      PROVE  Exclusion' /\ pc' \in [Procs -> Places] /\ holds' \subseteq Procs
  <2>1. p \notin children
    BY <1>1 DEF Exclusion, LockedPlaces
  <2>. QED
    BY <1>1, <2>1, SaveMoves, LockedStep
<1>2. CASE Creating
  BY <1>2, SaveMoves, LockingAssumption
  DEF Creating, CreateStore, CreateBaseline, CreateLoad, CreateSave, Exit, Goto, TypeOK,
      Exclusion, LockedPlaces, CreatorPlaces, Places, Procs
<1>3. ASSUME NEW p \in Procs, Lock(p)
      PROVE  Exclusion' /\ pc' \in [Procs -> Places] /\ holds' \subseteq Procs
  BY <1>3 DEF Lock, LockFree, Goto, TypeOK, Exclusion, LockedPlaces, Places
<1>4. ASSUME NEW p \in Procs, Load(p)
      PROVE  Exclusion' /\ pc' \in [Procs -> Places] /\ holds' \subseteq Procs
  <2>1. p \notin children /\ pc[p] \in LockedPlaces
    BY <1>4 DEF Load, Exclusion, LockedPlaces
  <2>. QED
    BY <1>4, <2>1, LockedStep DEF Load, Goto, LockedPlaces
<1>5. ASSUME NEW p \in Procs, RunBegin(p)
      PROVE  Exclusion' /\ pc' \in [Procs -> Places] /\ holds' \subseteq Procs
  <2>1. p \notin children /\ pc[p] \in LockedPlaces \ {"working"} /\ UNCHANGED children
    BY <1>5 DEF RunBegin, Exclusion, LockedPlaces
  <2>2. CASE \E s : Save(p, s, "done")
    BY <2>1, <2>2, <1>1
  <2>3. CASE Exit(p)
    BY <2>1, <2>3, LockedStep
  <2>4. CASE Goto(p, "loop") /\ UNCHANGED holds
    BY <2>1, <2>4, LockedStep DEF Goto, LockedPlaces
  <2>. QED
    BY <1>5, <2>2, <2>3, <2>4 DEF RunBegin
<1>6. ASSUME NEW p \in Procs,
             RunVerify(p) \/ RunInterrupted(p) \/ RunReserve(p) \/ RunAdopt(p)
      PROVE  Exclusion' /\ pc' \in [Procs -> Places] /\ holds' \subseteq Procs
  <2>1. pc[p] \in LockedPlaces \ {"working"} /\ UNCHANGED children
    BY <1>6 DEF RunVerify, RunInterrupted, RunReserve, RunAdopt, LockedPlaces
  <2>2. \E s : \E place \in LockedPlaces \cup {"done"} : Save(p, s, place)
    BY <1>6 DEF RunVerify, RunInterrupted, RunReserve, RunAdopt, LockedPlaces
  <2>. QED
    BY <2>1, <2>2, <1>1
<1>7. ASSUME NEW p \in Procs, RunLaunch(p)
      PROVE  Exclusion' /\ pc' \in [Procs -> Places] /\ holds' \subseteq Procs
  BY <1>7 DEF RunLaunch, Goto, TypeOK, Exclusion, LockedPlaces, CreatorPlaces, Places
<1>8. ASSUME NEW p \in Procs, RunFinish(p)
      PROVE  Exclusion' /\ pc' \in [Procs -> Places] /\ holds' \subseteq Procs
  <2>1. \/ Exit(p)
        \/ pc' = [pc EXCEPT ![p] = "received"] /\ UNCHANGED holds
    BY <1>8, SaveMoves DEF RunFinish
  <2>2. pc[p] = "working" /\ children' = children \ {p}
    BY <1>8 DEF RunFinish
  <2>3. /\ p \notin children' /\ children' \subseteq children
        /\ pc[p] \in LockedPlaces /\ "received" \in LockedPlaces
    BY <2>2 DEF LockedPlaces
  <2>. QED
    BY <2>1, <2>3, LockedStep
<1>9. ASSUME NEW p \in Procs, SubmitDecision(p)
      PROVE  Exclusion' /\ pc' \in [Procs -> Places] /\ holds' \subseteq Procs
  <2>1. p \notin children /\ pc[p] \in LockedPlaces \ {"working"} /\ UNCHANGED children
    BY <1>9 DEF SubmitDecision, Exclusion, LockedPlaces
  <2>2. Exit(p) \/ \E s : Save(p, s, "done")
    BY <1>9 DEF SubmitDecision
  <2>. QED
    BY <2>1, <2>2, <1>1, LockedStep
<1>10. ASSUME NEW p \in Procs, Crash(p)
       PROVE  Exclusion' /\ pc' \in [Procs -> Places] /\ holds' \subseteq Procs
  BY <1>10, LockedStep DEF Crash
<1>11. ASSUME NEW p \in Procs, OrphanExits(p)
       PROVE  Exclusion' /\ pc' \in [Procs -> Places] /\ holds' \subseteq Procs
  BY <1>11 DEF OrphanExits, TypeOK, Exclusion
<1>. QED
  BY <1>2, <1>3, <1>4, <1>5, <1>6, <1>7, <1>8, <1>9, <1>10, <1>11 DEF Next, Running
-----------------------------------------------------------------------------
\* What no step of a process that has not announced or started a worker can hurt.
LEMMA QuietWrite ==
  ASSUME IInv, NEW p \in Procs, Wrote(p), Exclusion',
         \A q \in Procs \ {p} : pc'[q] = pc[q],
         holds' \cup children' # {} => db.gen > 0,
         pc[p] # "working", pc'[p] \notin {"reserved", "working"},
         pc'[p] # "new", db.gen > 0 \/ p = Creator,
         children' \subseteq children, UNCHANGED launches
  PROVE  RowIsAhead'
<1>1. /\ db'.calls >= db.calls /\ db'.gen \in db.gen .. db.gen + 1
      /\ db.inFlight => db'.inFlight
      /\ db' \in State
  BY WritesGoForward DEF IInv
<1>2. /\ db.gen \in Nat /\ db.calls \in Int /\ launches \in Nat /\ db'.calls \in Int
      /\ db.gen > 0 => pc[Creator] # "new"
  BY <1>1 DEF IInv, TypeOK, State, RowIsAhead, Fresh
<1>3. Creator \in Procs
  BY DEF Procs
<1>. QED
  BY <1>1, <1>2, <1>3 DEF IInv, RowIsAhead, Exclusion, TypeOK

LEMMA RowStep ==
  ASSUME IInv, Next
  PROVE  RowIsAhead'
<1>. USE DEF IInv
<1>0. Exclusion' /\ Creator \in Procs
  BY ExclusionStep DEF Procs
<1>1. \A p \in Procs : p \in holds => db.gen > 0 /\ p # Creator
  BY DEF RowIsAhead, Exclusion, LockedPlaces, CreatorPlaces
<1>2. CASE Creating
  <2>1. Wrote(Creator) /\ children' = children /\ launches' = launches
    BY <1>2, CreatingWrites
    DEF Creating, CreateStore, CreateBaseline, CreateLoad, CreateSave
  <2>2. /\ holds' \subseteq holds
        /\ \A q \in Procs \ {Creator} : pc'[q] = pc[q]
        /\ pc'[Creator] \notin {"new", "reserved", "working"} /\ pc[Creator] # "working"
    BY <1>2, <1>0, SaveMoves
    DEF Creating, CreateStore, CreateBaseline, CreateLoad, CreateSave, Exit, Goto, TypeOK
  <2>3. holds' \cup children' # {} => db.gen > 0
    BY <2>1, <2>2 DEF RowIsAhead
  <2>. QED
    BY <1>0, <2>1, <2>2, <2>3, QuietWrite
<1>3. ASSUME NEW p \in Procs, Lock(p)
      PROVE  RowIsAhead'
  <2>1. Wrote(p) /\ p # Creator /\ db.gen > 0
    BY <1>3 DEF Lock, Wrote
  <2>. QED
    BY <1>0, <1>3, <2>1, QuietWrite DEF Lock, Goto, TypeOK
<1>4. ASSUME NEW p \in Procs, Wrote(p), UNCHANGED <<children, launches>>,
             pc[p] \in LockedPlaces \ {"working"}, holds' \subseteq holds,
             pc'[p] \notin {"new", "reserved", "working"},
             \A q \in Procs \ {p} : pc'[q] = pc[q]
      PROVE  RowIsAhead'
  <2>1. p \in holds /\ db.gen > 0
    BY <1>1, <1>4 DEF Exclusion
  <2>. QED
    BY <1>0, <1>4, <2>1, QuietWrite
<1>5. ASSUME NEW p \in Procs,
             \/ Load(p) \/ RunBegin(p) \/ RunVerify(p) \/ RunInterrupted(p) \/ RunAdopt(p)
             \/ SubmitDecision(p)
      PROVE  RowIsAhead'
  <2>1. Wrote(p)
    BY <1>5, RunningWrites DEF Running
  <2>2. UNCHANGED <<children, launches>> /\ pc[p] \in LockedPlaces \ {"working"}
    BY <1>5
    DEF Load, RunBegin, RunVerify, RunInterrupted, RunAdopt, SubmitDecision, LockedPlaces
  <2>3. \/ Exit(p)
        \/ \E place \in {"starting", "deciding", "loop"} :
              pc' = [pc EXCEPT ![p] = place] /\ UNCHANGED holds
    BY <1>5, SaveMoves
    DEF Load, RunBegin, RunVerify, RunInterrupted, RunAdopt, SubmitDecision, Goto
  <2>4. /\ holds' \subseteq holds /\ pc'[p] \notin {"new", "reserved", "working"}
        /\ \A q \in Procs \ {p} : pc'[q] = pc[q]
    BY <2>3 DEF Exit, Goto, TypeOK
  <2>. QED
    BY <1>4, <2>1, <2>2, <2>4
<1>6. ASSUME NEW p \in Procs, RunReserve(p)
      PROVE  RowIsAhead'
  <2>1. Wrote(p) /\ UNCHANGED <<children, launches>> /\ pc[p] \in LockedPlaces \ {"working"}
    BY <1>6, RunningWrites DEF Running, RunReserve, LockedPlaces
  <2>2. CASE Exit(p)
    BY <1>4, <2>1, <2>2 DEF Exit, Goto, TypeOK
  <2>3. CASE ~Exit(p)
    <3>1. /\ ShotsLeft(mem[p]) /\ Save(p, Charged(mem[p]), "reserved")
          /\ pc' = [pc EXCEPT ![p] = "reserved"] /\ UNCHANGED holds
      BY <1>6, <2>3, SaveMoves DEF RunReserve
    <3>2. /\ db = mem[p] /\ db.gen \in Nat
          /\ db' = [Charged(db) EXCEPT !.gen = db.gen + 1]
      <4>1. db.gen = mem[p].gen /\ db' = [Charged(mem[p]) EXCEPT !.gen = mem[p].gen + 1]
        BY <2>3, <3>1 DEF Save
      <4>2. db = mem[p]
        BY <4>1 DEF MemoryIsOfItsGeneration
      <4>. QED
        BY <4>1, <4>2 DEF TypeOK, State
    <3>3. db'.calls = db.calls + 1 /\ db'.inFlight /\ db'.gen = db.gen + 1
      BY <3>1, <3>2, RowCharged DEF TypeOK, State
    <3>4. /\ db.calls \in Nat /\ launches \in Nat /\ launches <= db.calls
          /\ db.gen > 0 /\ p \in holds
      BY <1>1, <2>1, LockingAssumption DEF TypeOK, State, RowIsAhead, Exclusion
    <3>5. \A q \in Procs : pc'[q] = IF q = p THEN "reserved" ELSE pc[q]
      BY <3>1 DEF TypeOK
    <3>6. pc[Creator] # "new"
      BY <3>4 DEF RowIsAhead, Fresh
    <3>. QED
      BY <1>0, <2>1, <3>2, <3>3, <3>4, <3>5, <3>6, <1>1 DEF RowIsAhead, Exclusion
  <2>. QED
    BY <2>2, <2>3
<1>7. ASSUME NEW p \in Procs, RunLaunch(p)
      PROVE  RowIsAhead'
  <2>1. /\ UNCHANGED <<db, holds>> /\ launches' = launches + 1 /\ children' = children \cup {p}
        /\ pc[p] = "reserved" /\ \A q \in Procs : pc'[q] = IF q = p THEN "working" ELSE pc[q]
    BY <1>7 DEF RunLaunch, Goto, TypeOK
  <2>2. p \in holds /\ \A q \in Procs \ {p} : pc[q] \notin LockedPlaces
    BY <2>1 DEF Exclusion, LockedPlaces
  <2>3. launches \in Nat /\ db.calls \in Nat
    BY LockingAssumption DEF TypeOK, State
  <2>. QED
    BY <1>0, <1>1, <2>1, <2>2, <2>3 DEF RowIsAhead, LockedPlaces
<1>8. ASSUME NEW p \in Procs, RunFinish(p)
      PROVE  RowIsAhead'
  <2>1. /\ Wrote(p) /\ pc[p] = "working" /\ UNCHANGED launches /\ children' = children \ {p}
        /\ Exit(p) \/ (pc' = [pc EXCEPT ![p] = "received"] /\ UNCHANGED holds)
    BY <1>8, RunningWrites, SaveMoves DEF Running, RunFinish
  <2>2. /\ p \in holds /\ children' = {} /\ \A q \in Procs \ {p} : pc[q] \notin LockedPlaces
        /\ holds' \subseteq holds /\ db.gen > 0
    BY <1>1, <2>1 DEF Exclusion, LockedPlaces, Exit
  <2>3. \A q \in Procs : pc'[q] \notin {"reserved", "working"} /\ (q # p => pc'[q] = pc[q])
    BY <2>1, <2>2 DEF Exit, Goto, TypeOK, LockedPlaces
  <2>4. /\ db'.calls >= db.calls /\ db'.gen \in db.gen .. db.gen + 1 /\ db' \in State
    BY <2>1, WritesGoForward
  <2>5. /\ db.gen \in Nat /\ db.calls \in Int /\ db'.calls \in Int /\ launches \in Nat
        /\ launches <= db.calls /\ pc[Creator] # "new" /\ p # Creator
    BY <1>1, <2>2, <2>4 DEF TypeOK, State, RowIsAhead, Fresh
  <2>. QED
    BY <1>0, <2>1, <2>2, <2>3, <2>4, <2>5 DEF RowIsAhead
<1>9. ASSUME NEW p \in Procs, Crash(p) \/ OrphanExits(p)
      PROVE  RowIsAhead'
  <2>1. /\ UNCHANGED <<db, launches>> /\ holds' \subseteq holds /\ children' \subseteq children
        /\ UNCHANGED pc \/ pc' = [pc EXCEPT ![p] = "done"]
    BY <1>9 DEF Crash, OrphanExits, Exit, Goto
  <2>2. \A q \in Procs : pc'[q] = pc[q] \/ pc'[q] = "done"
    BY <2>1 DEF TypeOK
  <2>. QED
    BY <1>0, <2>1, <2>2 DEF RowIsAhead
<1>. QED
  BY <1>2, <1>3, <1>5, <1>6, <1>7, <1>8, <1>9 DEF Next, Running
-----------------------------------------------------------------------------
LEMMA IInvStep == IInv /\ [Next]_vars => IInv'
<1>. SUFFICES ASSUME IInv, [Next]_vars PROVE IInv'
  OBVIOUS
<1>1. CASE UNCHANGED vars
  BY <1>1 DEF vars, IInv, TypeOK, Exclusion, MemoryIsOfItsGeneration, RowIsAhead
<1>2. CASE Next
  <2>1. PICK p \in Procs : Wrote(p)
    BY <1>2, CreatingWrites, RunningWrites
    DEF Next, Procs, Crash, OrphanExits, Wrote
  <2>2. MemoryIsOfItsGeneration' /\ mem' \in [Procs -> State] /\ db' \in State
    BY <2>1, MemoryStep, WritesGoForward DEF IInv
  <2>3. Exclusion' /\ pc' \in [Procs -> Places] /\ holds' \subseteq Procs
    BY <1>2, ExclusionStep
  <2>4. /\ baseline' \in {baseline, TRUE}
        /\ \/ children' \subseteq children
           \/ \E q \in Procs : children' = children \cup {q}
        /\ launches' \in {launches, launches + 1}
    <3>1. CASE Creating
      BY <3>1 DEF Creating, CreateStore, CreateBaseline, CreateLoad, CreateSave
    <3>2. ASSUME NEW q \in Procs, Running(q)
          PROVE  /\ UNCHANGED baseline
                 /\ children' \subseteq children \/ children' = children \cup {q}
                 /\ launches' \in {launches, launches + 1}
      BY <3>2
      DEF Running, Lock, Load, RunBegin, RunVerify, RunInterrupted, RunReserve, RunLaunch,
          RunFinish, RunAdopt, SubmitDecision
    <3>3. CASE \E q \in Procs : Crash(q) \/ OrphanExits(q)
      BY <3>3 DEF Crash, OrphanExits
    <3>. QED
      BY <1>2, <3>1, <3>2, <3>3 DEF Next
  <2>5. /\ baseline \in BOOLEAN
        /\ children \subseteq Procs
        /\ launches \in Nat
    BY DEF IInv, TypeOK
  <2>6. baseline' \in BOOLEAN
    BY <2>4, <2>5, Zenon
  <2>7. children' \subseteq Procs
    <3>. HIDE DEF Procs
    <3>. QED
      BY <2>4, <2>5, Zenon
  <2>8. launches' \in Nat
    <3>1. launches' = launches \/ launches' = launches + 1
      BY <2>4, Zenon
    <3>. QED
      BY <2>5, <3>1
  <2>. QED
    BY <1>2, <2>2, <2>3, <2>6, <2>7, <2>8, RowStep DEF IInv, TypeOK
<1>. QED
  BY <1>1, <1>2

LEMMA Invariance == Spec => []IInv
  BY InitIInv, IInvStep, PTL DEF Spec

\* Every row that create, run and submit write in any order is well formed, and
\* charges no more calls than the contract has shots.
THEOREM LockingTypes == Spec => []TypeOK
  BY Invariance, PTL DEF IInv

\* A set whose members are all the same has at most one.
LEMMA AllTheSame ==
  ASSUME NEW S, \A x, y \in S : x = y
  PROVE  Cardinality(S) <= 1
<1>1. CASE S = {}
  BY <1>1, FS_EmptySet
<1>2. CASE S # {}
  <2>1. PICK x \in S : S = {x}
    BY <1>2
  <2>. QED
    BY <2>1, FS_Singleton
<1>. QED
  BY <1>1, <1>2

\* However runs, submits and crashes interleave with create, no worker starts
\* uncharged or beside another, and one that lives is in flight in the row
\* (Store.lock's inherited descriptor, Store.save's generation).
THEOREM WorkersCharged == Spec => []WorkersAreCharged
<1>1. IInv => WorkersAreCharged
  BY AllTheSame DEF IInv, Exclusion, RowIsAhead, WorkersAreCharged
<1>. QED
  BY <1>1, Invariance, PTL

\* At most one of the processes that take the lock is between its load and its
\* last save, whatever create does meanwhile.
THEOREM OneController == Spec => []OneLockedController
<1>1. IInv => OneLockedController
  <2>1. ASSUME IInv, NEW p \in AboutToSave \ {Creator}
        PROVE  p \in holds
    BY <2>1 DEF IInv, Exclusion, AboutToSave, LockedPlaces, Procs
  <2>2. ASSUME IInv, NEW p \in AboutToSave \ {Creator}, NEW q \in AboutToSave \ {Creator}
        PROVE  p = q
    BY <2>1, <2>2 DEF IInv, Exclusion
  <2>. QED
    BY <2>2, AllTheSame DEF OneLockedController
<1>. QED
  BY <1>1, Invariance, PTL

\* A process whose row is out of date never writes it: the calls others charged
\* stay charged, and generations grow one by one (Store.save).
THEOREM ChargesStay == Spec => ChargesAreKept
<1>1. IInv /\ [Next]_vars => [db'.calls >= db.calls /\ db'.gen \in db.gen .. db.gen + 1]_vars
  <2>. SUFFICES ASSUME IInv, Next
                PROVE  db'.calls >= db.calls /\ db'.gen \in db.gen .. db.gen + 1
    OBVIOUS
  <2>1. PICK p \in Procs : Wrote(p)
    BY CreatingWrites, RunningWrites DEF Next, Procs, Crash, OrphanExits, Wrote
  <2>. QED
    BY <2>1, WritesGoForward DEF IInv
<1>. QED
  BY <1>1, Invariance, PTL DEF Spec, ChargesAreKept
=============================================================================
