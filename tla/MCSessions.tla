----------------------------- MODULE MCSessions ------------------------------
(* Instances of Sessions.                                                  *)
EXTENDS Sessions, TLC

CONSTANTS h1, h2, s1, s2

MCThreads == {h1, h2}
MCSessions == {s1, s2}
MCAgents == 1..6
=============================================================================
