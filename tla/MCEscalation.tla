----------------------------- MODULE MCEscalation ----------------------------
EXTENDS Escalation

CONSTANTS k1, k2

MCTasks == {k1, k2}
(* A session that was killed.                                              *)
MCEarlier == {[status |-> "terminated", age |-> "old", since |-> FALSE]}
=============================================================================
