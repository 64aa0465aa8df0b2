--------------------------- MODULE InferenceMeter ---------------------------
(***************************************************************************)
(* What inference_meter.py attributes to shots from observations of a      *)
(* provider's remaining quota, and what it observes: shots that run and    *)
(* consume, resets of the quota, and an operator who writes down what      *)
(* remains when a shot starts, in its course and when it has ended, who    *)
(* may also forget to, or do it twice.                                     *)
(*                                                                         *)
(* log holds the observations in the order of their timestamps, as         *)
(* load_snapshots sorts them; no two have the same one, so the time of an  *)
(* observation is its place in log.                                        *)
(***************************************************************************)
EXTENDS Integers, Sequences, FiniteSets, Functions

CONSTANTS
    Shots,      \* (launcher, shot_id) pairs
    Scopes,
    ScopeOf,    \* provider and scope_id of each shot
    Quota,
    Qualities,  \* of an observation, see Snapshot
    RowBound,   \* observations that are made at most
    ResetBound, \* resets of a quota, at most
    Width       \* of a reporting window; the first one starts at time 1

ASSUME MeterAssumption ==
    /\ IsFiniteSet(Shots) /\ ScopeOf \in [Shots -> Scopes]
    /\ {Quota, RowBound, ResetBound} \subseteq Nat /\ Width \in Nat \ {0}
    /\ Qualities \subseteq {"measured", "estimated", "unknown", "untimed"}

VARIABLES
    log,
    left,      \* the remaining quota of each scope
    resets,    \* the reset interval of each scope
    stage,     \* of each shot
    consumed   \* how much each set of shots at a time really consumed in each window

vars == <<log, left, resets, stage, consumed>>

\* _snapshot: an observation with its comparison fields reduced to the reset
\* interval.  An estimate is displayed and never attributed, as is one whose
\* exclusivity is unproven or denied; an unknown one is neither, and one without
\* a timestamp does not even bound its shot.
Snapshot == [shot : Shots, phase : {"start", "end", "checkpoint"}, left : 0 .. Quota,
             interval : Nat, quality : Qualities]

\* The window of a time; there is one before the first.
WindowOf(time) == (time - 1) \div Width
Windows == WindowOf(0) .. WindowOf(RowBound)

Rows(shot) == {i \in 1 .. Len(log) : log[i].shot = shot}
Phase(shot, phase) == {i \in Rows(shot) : log[i].phase = phase}
-----------------------------------------------------------------------------
(* The source and its observer *)

Running(scope) == {s \in Shots : ScopeOf[s] = scope /\ stage[s] = "running"}

\* A measured observation says that nobody but its shot uses the scope: units
\* used beside the shots are consumed while none of them runs.
Use(scope) ==
    /\ left[scope] > 0
    /\ left' = [left EXCEPT ![scope] = @ - 1]
    /\ consumed' = [consumed EXCEPT ![WindowOf(Len(log))][Running(scope)] = @ + 1]
    /\ UNCHANGED <<log, resets, stage>>

Reset(scope) ==
    /\ resets[scope] < ResetBound
    /\ left' = [left EXCEPT ![scope] = Quota]
    /\ resets' = [resets EXCEPT ![scope] = @ + 1]
    /\ UNCHANGED <<log, stage, consumed>>

\* record_snapshot appends; nothing checks what was recorded before.
RecordSnapshot(shot, phase, quality) ==
    /\ Len(log) < RowBound
    /\ log' = Append(log, [shot |-> shot, phase |-> phase, left |-> left[ScopeOf[shot]],
                           interval |-> resets[ScopeOf[shot]], quality |-> quality])
    /\ UNCHANGED <<left, resets, consumed>>

Observed(shot, phase) ==
    \/ \E quality \in Qualities : RecordSnapshot(shot, phase, quality)
    \/ UNCHANGED <<log, left, resets, consumed>>    \* forgotten

StartShot(shot) ==
    /\ stage[shot] = "idle"
    /\ stage' = [stage EXCEPT ![shot] = "running"]
    /\ Observed(shot, "start")

EndShot(shot) ==
    /\ stage[shot] = "running"
    /\ stage' = [stage EXCEPT ![shot] = "ended"]
    /\ Observed(shot, "end")

Checkpoint(shot) ==
    /\ stage[shot] = "running"
    /\ \E quality \in Qualities : RecordSnapshot(shot, "checkpoint", quality)
    /\ UNCHANGED stage

\* The start or the end of a shot is recorded once more, however late.
RecordAgain(shot, phase) ==
    /\ Phase(shot, phase) # {}
    /\ \E quality \in Qualities : RecordSnapshot(shot, phase, quality)
    /\ UNCHANGED stage

Init ==
    /\ log = <<>>
    /\ left = [s \in Scopes |-> Quota]
    /\ resets = [s \in Scopes |-> 0]
    /\ stage = [s \in Shots |-> "idle"]
    /\ consumed = [w \in Windows |-> [together \in SUBSET Shots |-> 0]]

Next ==
    \/ \E scope \in Scopes : Use(scope) \/ Reset(scope)
    \/ \E shot \in Shots :
          \/ StartShot(shot) \/ EndShot(shot) \/ Checkpoint(shot)
          \/ RecordAgain(shot, "start") \/ RecordAgain(shot, "end")

Spec == Init /\ [][Next]_vars
-----------------------------------------------------------------------------
(* summarize_inference *)

\* _comparison_reasons: differences across a reset mean nothing.
Comparable(shot) == \A i, j \in Rows(shot) : log[i].interval = log[j].interval

\* The bounds of a shot as _overlap_reasons takes them, 0 being unknown: there
\* is exactly one such observation, and they are in order.
Instant(shot, phase) ==
    LET at == {i \in Phase(shot, phase) : log[i].quality # "untimed"}
    IN  IF Cardinality(Phase(shot, phase)) = 1 /\ at # {} THEN CHOOSE i \in at : TRUE ELSE 0
Ordered(shot) == Instant(shot, "end") > Instant(shot, "start") \/ Instant(shot, "end") = 0
Bound(shot, phase) == IF Ordered(shot) THEN Instant(shot, phase) ELSE 0

BeforeIfKnown(shot, other) ==                                     \* mutant
    \/ Bound(shot, "end") = 0 \/ Bound(other, "start") = 0
    \/ Bound(shot, "end") <= Bound(other, "start")
Before(shot, other) ==
    /\ Bound(shot, "end") # 0 /\ Bound(other, "start") # 0
    /\ Bound(shot, "end") <= Bound(other, "start")

\* _overlap_reasons: another shot of the scope, of any launcher, that is not
\* known to have ended before or started after.
Overlapped(shot) ==
    \E other \in Shots \ {shot} :
        /\ Rows(other) # {} /\ ScopeOf[other] = ScopeOf[shot]
        /\ ~Before(shot, other) /\ ~Before(other, shot)

\* _shot_usage: nothing speaks against the difference of start and end.
Displayed(shot) ==
    /\ Phase(shot, "start") # {} /\ Phase(shot, "end") # {}
    /\ Bound(shot, "start") # 0 /\ Bound(shot, "end") # 0
    /\ Comparable(shot)
    /\ \A i \in Rows(shot) :
           /\ log[i].quality \in {"measured", "estimated"}
           /\ i \in Bound(shot, "start") .. Bound(shot, "end")
    /\ \A i, j \in Rows(shot) : i < j => log[i].left >= log[j].left
DisplayDelta(shot) == log[Bound(shot, "start")].left - log[Bound(shot, "end")].left

Attributed(shot) ==
    /\ Displayed(shot) /\ ~Overlapped(shot)
    /\ \A i \in Rows(shot) : log[i].quality = "measured"

(* _window_usage and the totals, for the shots of one launcher *)

Seen(shots) == {s \in shots : Rows(s) # {}}
\* _comparison_reasons over all its observations.
Homogeneous(mine) ==
    \A s, t \in Seen(mine) : /\ ScopeOf[s] = ScopeOf[t]
                            /\ \A i \in Rows(s), j \in Rows(t) : log[i].interval = log[j].interval

EndsAnywhere(shot) == TRUE                                         \* mutant
EndsInside(shot) ==
    Instant(shot, "end") <= 1 + Width * (WindowOf(Instant(shot, "start")) + 1)

\* A shot belongs to the window it started in, unless it is known to have ended
\* after that one or its end is ambiguous.
Assigned(shot) ==
    /\ Instant(shot, "start") # 0 /\ Ordered(shot) /\ EndsInside(shot)
    /\ Cardinality(Phase(shot, "end")) <= 1
Bucket(mine, w) ==
    {s \in Seen(mine) : Assigned(s) /\ WindowOf(Instant(s, "start")) = w}

WindowKnown(mine, w) ==
    /\ Bucket(mine, w) # {} /\ \A s \in Bucket(mine, w) : Attributed(s)
    /\ \A s \in Seen(mine) : Assigned(s)
    /\ Homogeneous(mine)
TotalKnown(mine) ==
    Seen(mine) # {} /\ (\A s \in Seen(mine) : Attributed(s)) /\ Homogeneous(mine)
Used(shots) == SumFunction([s \in shots |-> DisplayDelta(s)])
-----------------------------------------------------------------------------
\* What was consumed in some windows while observed shots of a set ran, and no
\* other observed shots did.
Alone(shots) ==
    {together \in SUBSET Shots : Seen(together) # {} /\ Seen(together) \subseteq shots}
Consumed(shots, windows) ==
    SumFunction([w \in windows |-> SumFunctionOnSet(consumed[w], Alone(shots))])

\* However observations are missing, doubled, untimed or of poor quality: which-
\* ever shots are a launcher's, the total it is told and the total of a window
\* are exactly what its observed shots consumed, in all and between the bounds of
\* that window, while no other observed shot ran.  One shot taken alone: no unit
\* is attributed twice, and none to the wrong one of two shots that overlapped.
TotalsAddUp ==
    \A mine \in SUBSET Shots : (\E s \in mine : Attributed(s)) =>
        /\ TotalKnown(mine) => Used(Seen(mine)) = Consumed(mine, Windows)
        /\ \A w \in Windows : WindowKnown(mine, w) =>
               Used(Bucket(mine, w)) = Consumed(mine, {w})
=============================================================================
