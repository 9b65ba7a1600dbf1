----------------------------- MODULE MCKillPath ------------------------------
(* Instances of KillPath for TLC. *)
EXTENDS KillPath, TLC

CONSTANTS a, b, h1, h2

OneSig == {a}
TwoSigs == {a, b}
OneCaller == {h1}
TwoCallers == {h1, h2}
NoGrants == {}
LoopGrants == {Loop}
ClockGrants == {WallClock}

TwoCallersAlike == Permutations(TwoCallers)
=============================================================================
