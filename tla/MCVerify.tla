------------------------------ MODULE MCVerify ------------------------------
(* Contracts for model checking a verification. *)
EXTENDS VerifyEvidence

Command == [kind |-> "command"]
Text(f, expect) == [kind |-> "text", file |-> f, expect |-> expect]
Digest(f, expect) == [kind |-> "digest", file |-> f, expect |-> expect]

\* Files alone; a file before, between and after commands; two commands around
\* one file, so that the second can undo the first.
MCCriteriaLists ==
    {<<Text("code", "good"), Digest("data", "undecodable")>>,
     <<Command, Text("code", "good"), Command>>,
     <<Text("code", "good"), Command, Digest("data", "good")>>,
     <<Command, Command, Text("data", "good")>>}
=============================================================================
