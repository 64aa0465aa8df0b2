---------------------------- MODULE LaunchResult ----------------------------
(***************************************************************************)
(* How a finished launch is classified, by run_repo_ticket and run_ticket  *)
(* alike (repo_launcher.py, launcher.py): the ladder from what the         *)
(* controller observed to the state it records.                            *)
(***************************************************************************)

\* What the controller observed of one launch.  report is the worker's own
\* claim; checks is how the verification commands went, the first that fails
\* being the last one run.
Launch == [timedOut : BOOLEAN, started : BOOLEAN, exitZero : BOOLEAN,
           violations : BOOLEAN, report : {"completed", "blocked", "invalid"},
           patch : {"PASSED", "FAILED", "NONE"},
           checks : {"passed", "failed", "timedOut"}]

\* A patch is collected only when there are no violations, a process that did
\* not start has no exit code, and the checks are run last of all.
Observable(launch) ==
    /\ launch.violations <=> launch.patch = "NONE"
    /\ ~launch.started =>
          ~launch.exitZero /\ ~launch.violations /\ launch.report = "invalid"

Verified(launch) ==
    CASE launch.checks = "timedOut" -> "TIMED_OUT"
      [] launch.checks = "failed"   -> "FAILED"
      [] launch.checks = "passed"   -> "SUCCEEDED"

Classified(launch) ==
    IF launch.timedOut THEN "TIMED_OUT"
    ELSE IF ~launch.started THEN "BLOCKED"
    ELSE IF ~launch.exitZero \/ launch.violations THEN "FAILED"
    ELSE IF launch.report = "blocked" THEN "BLOCKED"
    ELSE IF launch.patch # "PASSED" \/ launch.report = "invalid" THEN "FAILED"
    ELSE Verified(launch)

\* The checks are run at all only when everything before them passed.
ReachesChecks(launch) ==
    /\ launch.started /\ ~launch.timedOut /\ launch.exitZero
    /\ launch.patch = "PASSED" /\ launch.report = "completed"
Checked(launch) == ReachesChecks(launch) /\ launch.checks = "passed"

\* The state recorded of a launch: run_repo_ticket checks the source once more
\* before it records a success, and fails when it is not the base any longer.
Recorded(launch) ==
    {Classified(launch)} \cup
    (IF Classified(launch) = "SUCCEEDED" THEN {"FAILED"} ELSE {})

\* The part of a result that a judge, or a reader of the evidence, acts on.
Outcome == [state : {"SUCCEEDED", "FAILED", "BLOCKED", "TIMED_OUT"},
            started : BOOLEAN, clean : BOOLEAN,
            patch : {"PASSED", "FAILED", "NONE"}, checked : BOOLEAN]
Outcomes ==
    UNION {{[state |-> state, started |-> launch.started,
             clean |-> ~launch.violations, patch |-> launch.patch,
             checked |-> Checked(launch)] : state \in Recorded(launch)} :
           launch \in {l \in Launch : Observable(l)}}
=============================================================================
