------------------------------ MODULE KillSwitch -----------------------------
(***************************************************************************)
(* What the supervision of a session promises, whoever asks for the kill:  *)
(* there is one kill and it has one cause; no tool call is let through     *)
(* after it, though one that was let through before may still start; and   *)
(* a death certificate is written only of a killed session and names that  *)
(* cause.                                                                  *)
(***************************************************************************)
CONSTANTS
  Threads,  \* threads of the agent that call tools
  Causes,   \* what a session may be killed for
  NoCause   \* the session is not killed

VARIABLES
  cause,    \* of the kill
  cleared,  \* threads with a tool call that was let through and not yet run
  named     \* the causes that certificates name

Init == cause = NoCause /\ cleared = {} /\ named = {}

Kill ==
  /\ cause = NoCause
  /\ cause' \in Causes
  /\ UNCHANGED <<cleared, named>>

Clear(t) ==
  /\ cause = NoCause
  /\ cleared' = cleared \cup {t}
  /\ UNCHANGED <<cause, named>>

Run(t) ==
  /\ t \in cleared
  /\ cleared' = cleared \ {t}
  /\ UNCHANGED <<cause, named>>

Certify ==
  /\ cause # NoCause
  /\ named' = named \cup {cause}
  /\ UNCHANGED <<cause, cleared>>

Next == Kill \/ Certify \/ \E t \in Threads : Clear(t) \/ Run(t)

Spec == Init /\ [][Next]_<<cause, cleared, named>>
=============================================================================
