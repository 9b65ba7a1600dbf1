---------------------------- MODULE MCKillEvents -----------------------------
(* Instances of KillEvents for TLC. *)
EXTENDS KillEvents, TLC

CONSTANTS r1, r2, r3, r4, r5

ThreeRequests == {r1, r2, r3}
FiveRequests == {r1, r2, r3, r4, r5}

FiveRequestsAlike == Permutations(FiveRequests)
=============================================================================
