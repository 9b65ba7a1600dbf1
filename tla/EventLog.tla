------------------------------- MODULE EventLog ------------------------------
(***************************************************************************)
(* What the event pipeline of one agent promises: the events of a session, *)
(* numbered in the order in which they were recorded, reach the control    *)
(* plane without gaps.  At every moment the stored ones are the oldest,    *)
(* none is ever taken back, and one that is stored twice counts once.      *)
(***************************************************************************)
EXTENDS Naturals

VARIABLES
  recorded,   \* how many events the session has recorded
  stored      \* the numbers of those the control plane has

Init == recorded = 0 /\ stored = {}

Record == recorded' = recorded + 1 /\ UNCHANGED stored

Store ==
  /\ \E k \in 1..recorded : k \notin stored /\ stored' = 1..k
  /\ UNCHANGED recorded

Next == Record \/ Store

Spec == Init /\ [][Next]_<<recorded, stored>>
=============================================================================
