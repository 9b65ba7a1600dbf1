---------------------------- MODULE MCApprovals ------------------------------
(* Instances of Approvals.  a and b need an approval, x is a call of a     *)
(* tool that is neither mapped nor in the allowlist.                       *)
EXTENDS Approvals, TLC

CONSTANTS a, b, x, t1, t2

MCOne == {a}
MCCallsOne == {a, x}
MCCapabilityOne == a :> "shell.execution"

MCTwo == {a, b}
MCCallsTwo == {a, b, x}
MCCapabilityTwo == a :> "shell.execution" @@ b :> "code.execution"

MCRisk == "shell.execution" :> "medium" @@ "code.execution" :> "high" @@ "git.push" :> "high"
MCAllowed == {"shell.execution", "code.execution"}

MCIds == 1..2
MCTasks == {t1, t2}
=============================================================================
