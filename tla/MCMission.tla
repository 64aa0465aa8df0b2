----------------------------- MODULE MCMission -----------------------------
(* Jobs, answers and trees for model checking a mission. *)
EXTENDS AdaptiveMission

MCFiles == {"code", "cache", "other"}
MCTree(code, cache, other) ==
    [f \in MCFiles |-> CASE f = "code" -> code [] f = "cache" -> cache [] f = "other" -> other]
MCOriginal == MCTree(1, 0, 1)

\* The code as it was or edited, a new file that a .gitignore may name, and an
\* edit outside the job's files.
MCTrees == {MCTree(1, 0, 1), MCTree(2, 0, 1), MCTree(1, 1, 1), MCTree(2, 1, 1),
            MCTree(1, 0, 2)}

MCJob(shots, sol, astra, judges, ignored) ==
    [shots |-> shots, max |-> [t \in {"sol", "astra"} |-> IF t = "sol" THEN sol ELSE astra],
     judges |-> judges, files |-> {"code", "cache"}, ignored |-> ignored]

\* Every tier with one call over three shots; sol alone, astra alone and jev
\* alone; a tier without calls; and a job whose files are partly ignored.
MCJobs ==
    {MCJob(3, 1, 1, {"sol", "astra"}, {}), MCJob(2, 1, 2, {"sol", "astra"}, {}),
     MCJob(2, 1, 1, {"sol"}, {}), MCJob(2, 0, 1, {"sol", "astra"}, {}),
     MCJob(1, 0, 0, {}, {}), MCJob(2, 1, 0, {"sol", "astra"}, {"cache"})}

MCScopes == {{}, {"code"}, {"code", "other"}}
MCAnswer(verdict, low, to, s) ==
    [verdict |-> verdict, low |-> low, to |-> to, scope |-> s]
MCAnswers ==
    {MCAnswer("DONE", low, "none", {}) : low \in BOOLEAN} \cup
    {MCAnswer("CONTINUE", FALSE, "none", s) : s \in MCScopes} \cup
    {MCAnswer("ESCALATE", TRUE, to, {}) : to \in {"astra", "human"}} \cup
    {MCAnswer("BLOCKED", FALSE, "none", {})}
=============================================================================
