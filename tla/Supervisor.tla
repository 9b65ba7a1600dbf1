------------------------------ MODULE Supervisor -----------------------------
(***************************************************************************)
(* hermeskill.supervisor.ProcessSupervisor, as execution.L3Executor uses   *)
(* it: an agent runs in a child process, and the parent polls it, sends    *)
(* SIGTERM when it has run too long or has stopped beating, waits a grace, *)
(* and sends SIGKILL.                                                      *)
(*                                                                         *)
(* Between two steps of the parent the child may do anything.  The parent  *)
(* may be interrupted at any step of run, once (Ctrl-C); the finally       *)
(* clause then kills the child.                                            *)
(***************************************************************************)
VARIABLES
  alive,    \* the child process runs
  exit,     \* how it ended
  limits,   \* which of wall_clock_seconds, heartbeat_timeout_seconds are set
  due,      \* the wall clock has passed its limit
  stale,    \* the last beat is older than its limit
  parent,   \* where run is
  trigger,  \* what _monitor returned
  signals,  \* the signals sent to the child
  outcome   \* what execute returned

vars == <<alive, exit, limits, due, stale, parent, trigger, signals, outcome>>

Limits == {"wall_clock", "heartbeat"}

TypeOK ==
  /\ alive \in BOOLEAN
  /\ exit \in {"none", "returned", "raised", "signalled"}
  /\ alive => exit = "none"
  /\ limits \subseteq Limits
  /\ due \in BOOLEAN /\ stale \in BOOLEAN
  /\ parent \in {"new", "monitoring", "polled", "terminating", "grace", "killing", "joining",
                 "finally", "over"}
  /\ trigger \in {"none", "completed", "wall_clock", "heartbeat_loss"}
  /\ signals \subseteq {"TERM", "KILL"}
  /\ outcome \in {"none", "success", "killed", "sigkilled", "interrupted"}
  /\ outcome # "none" <=> parent = "over"

Init ==
  /\ alive = FALSE /\ exit = "none"
  /\ limits \in SUBSET Limits
  /\ due = FALSE /\ stale = FALSE
  /\ parent = "new" /\ trigger = "none" /\ signals = {} /\ outcome = "none"

childVars == <<alive, exit>>
clockVars == <<due, stale>>
parentVars == <<parent, trigger, signals, outcome>>

-----------------------------------------------------------------------------
(* The child.                                                              *)

(* Heartbeat.beat.                                                         *)
Beat ==
  /\ alive
  /\ stale' = FALSE
  /\ UNCHANGED <<childVars, limits, due, parentVars>>

(* The target returns or raises.                                           *)
ChildExits ==
  /\ alive
  /\ alive' = FALSE /\ exit' \in {"returned", "raised"}
  /\ UNCHANGED <<limits, clockVars, parentVars>>

(* A signal ends it: SIGTERM if it does not ignore it, SIGKILL always.     *)
ChildObeys(signal) ==
  /\ alive /\ signal \in signals
  /\ alive' = FALSE /\ exit' = "signalled"
  /\ UNCHANGED <<limits, clockVars, parentVars>>

WallClockPasses ==
  /\ "wall_clock" \in limits /\ parent # "new" /\ ~due
  /\ due' = TRUE
  /\ UNCHANGED <<childVars, limits, stale, parentVars>>

BeatAges ==
  /\ "heartbeat" \in limits /\ parent # "new" /\ ~stale
  /\ stale' = TRUE
  /\ UNCHANGED <<childVars, limits, due, parentVars>>

-----------------------------------------------------------------------------
(* The parent.                                                             *)
Quiet == UNCHANGED <<childVars, limits, clockVars>>

(* run: the child is spawned.                                              *)
Spawn ==
  /\ parent = "new"
  /\ alive' = TRUE
  /\ parent' = "monitoring"
  /\ UNCHANGED <<exit, limits, clockVars, trigger, signals, outcome>>

(* Slip: run falls off its end. *)
EndsSilently(result) == parent' = "over" /\ UNCHANGED outcome

Ends(result) == parent' = "over" /\ outcome' = result

(* _monitor looks at the process, and later at the clocks.                 *)
Poll ==
  /\ parent = "monitoring"
  /\ IF alive THEN parent' = "polled" /\ UNCHANGED <<trigger, outcome>>
              ELSE trigger' = "completed" /\ Ends("success")
  /\ UNCHANGED signals /\ Quiet

(* Slip: with a heartbeat the wall clock is not looked at. *)
TrippedBeatFirst ==
  IF "heartbeat" \in limits THEN (IF stale THEN "heartbeat_loss" ELSE "none")
  ELSE IF "wall_clock" \in limits /\ due THEN "wall_clock" ELSE "none"

Tripped ==
  IF "wall_clock" \in limits /\ due THEN "wall_clock"
  ELSE IF "heartbeat" \in limits /\ stale THEN "heartbeat_loss" ELSE "none"

Check ==
  /\ parent = "polled"
  /\ trigger' = Tripped
  /\ parent' = IF Tripped = "none" THEN "monitoring" ELSE "terminating"
  /\ UNCHANGED <<signals, outcome>> /\ Quiet

(* _escalate.                                                              *)
Terminate ==
  /\ parent = "terminating"
  /\ signals' = signals \cup {"TERM"}
  /\ parent' = "grace"
  /\ UNCHANGED <<trigger, outcome>> /\ Quiet

(* Looked at in the grace and once more after it.                          *)
Exited ==
  /\ parent = "grace" /\ ~alive
  /\ Ends("killed")
  /\ UNCHANGED <<trigger, signals>> /\ Quiet

GraceExpires ==
  /\ parent = "grace" /\ alive
  /\ parent' = "killing"
  /\ UNCHANGED <<trigger, signals, outcome>> /\ Quiet

(* Slip: it reports the kill without having sent the signal. *)
KillForgotten ==
  /\ parent = "killing"
  /\ parent' = "joining"
  /\ UNCHANGED <<trigger, signals, outcome>> /\ Quiet

Kill ==
  /\ parent = "killing"
  /\ signals' = signals \cup {"KILL"}
  /\ parent' = "joining"
  /\ UNCHANGED <<trigger, outcome>> /\ Quiet

Join ==
  /\ parent = "joining" /\ ~alive
  /\ Ends("sigkilled")
  /\ UNCHANGED <<trigger, signals>> /\ Quiet

Interrupt ==
  /\ parent \notin {"new", "finally", "over"}
  /\ parent' = "finally"
  /\ UNCHANGED <<trigger, signals, outcome>> /\ Quiet

(* Slip: the exception goes by the child. *)
FinallyNothing ==
  /\ parent = "finally"
  /\ Ends("interrupted")
  /\ UNCHANGED <<trigger, signals>> /\ Quiet

(* The finally clause: a child that is still alive is killed, and joined   *)
(* for 5 s at most.  When run returns by itself there is none.             *)
Finally ==
  /\ parent = "finally"
  /\ signals' = IF alive THEN signals \cup {"KILL"} ELSE signals
  /\ Ends("interrupted")
  /\ UNCHANGED trigger /\ Quiet

Parent ==
  \/ Spawn \/ Poll \/ Check \/ Terminate \/ Exited \/ GraceExpires \/ Kill \/ Join \/ Finally

Next ==
  \/ Parent \/ Interrupt
  \/ Beat \/ ChildExits \/ (\E signal \in {"TERM", "KILL"} : ChildObeys(signal))
  \/ WallClockPasses \/ BeatAges

(* The parent runs and time passes; the system delivers SIGKILL.  The      *)
(* child may go on for ever, beating or not, and ignore SIGTERM.           *)
Fairness == WF_vars(Parent) /\ WF_vars(WallClockPasses) /\ WF_vars(ChildObeys("KILL"))
=============================================================================
