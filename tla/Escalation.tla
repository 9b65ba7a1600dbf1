------------------------------ MODULE Escalation -----------------------------
(***************************************************************************)
(* How an agent is stopped that does not stop by itself, and what others   *)
(* see of it.  ExecutionManager.execute runs a target in the caller's      *)
(* process, where a Watchdog may guard its task, or isolated in a child,   *)
(* which a ProcessSupervisor can kill.  The child's plugin writes its      *)
(* vitals until the process is gone, and a monitor reads them.             *)
(*                                                                         *)
(* The Hermes integration arms no watchdog, so the vitals are modelled for *)
(* the isolated agent.                                                     *)
(***************************************************************************)
EXTENDS Naturals

CONSTANTS Tasks, NoTask, Earlier, MaxWrites

ASSUME NoTaskAssumption == NoTask \notin Tasks
ASSUME MaxWritesAssumption == MaxWrites \in Nat

VARIABLES
  mode,                                                         \* ExecutionMode
  flag,                                                         \* of the agent's WatcherState
  event, stopping, slot, dog, escalated, task, scheduled, condemned,
  alive, exit, limits, due, stale, parent, trigger, signals, outcome,
  live, pending, writes, files, sweeping, monitor

W == INSTANCE Watchdog
S == INSTANCE Supervisor
V == INSTANCE Vitals

(* An earlier session's file was there before the monitor was started.     *)
ASSUME EarlierAssumption == Earlier \subseteq {f \in V!File : ~f.since}

watchdogVars == <<event, stopping, slot, dog, escalated, task, scheduled, condemned>>
supervisorVars == <<exit, limits, due, stale, parent, trigger, signals, outcome>>
vitalsVars == <<live, pending, writes, files, sweeping, monitor>>
vars == <<mode, flag, alive, watchdogVars, supervisorVars, vitalsVars>>

TypeOK ==
  /\ mode \in {"normal", "l3_isolated"}
  /\ W!TypeOK /\ S!TypeOK /\ V!TypeOK

(* Bound: the vitals are written where the supervisor is that of           *)
(* L3Executor itself, which sets no limit.                                 *)
Init ==
  /\ mode \in {"normal", "l3_isolated"}
  /\ W!Init /\ S!Init /\ V!Init
  /\ IF live THEN mode = "l3_isolated" /\ limits = {} ELSE files["earlier"] = V!NoFile

(* AsyncExecutor.execute calls the target where it is.                     *)
RunsInProcess ==
  /\ mode = "normal"
  /\ W!Next
  /\ UNCHANGED <<mode, alive, supervisorVars, vitalsVars>>

(* L3Executor.execute hands it to ProcessSupervisor.run.                   *)
RunsIsolated ==
  /\ mode = "l3_isolated"
  /\ UNCHANGED <<mode, watchdogVars>>
  /\ \/ S!Next /\ (V!Die \/ ((alive => alive') /\ UNCHANGED <<flag, vitalsVars>>))
     \/ V!Next /\ UNCHANGED supervisorVars

Next == RunsInProcess \/ RunsIsolated

Spec ==
  /\ Init /\ [][Next]_vars
  /\ W!Fairness /\ V!Fairness /\ (mode = "l3_isolated" => S!Fairness)

-----------------------------------------------------------------------------
(* Only a requested termination cancels a task: Watchdog.stop, which wakes *)
(* the thread through the event of a kill, never does, whenever it comes   *)
(* (apoptosis.py, stop and _run).                                          *)
CancelNeedsKill == (scheduled # {} \/ \E k \in Tasks : task[k] = "cancelled") => flag

(* The task that was armed when the termination was requested ends by      *)
(* itself, or the loop is handed its cancellation, unless the watchdog is  *)
(* stopped or armed with another invocation first.  What the task makes of *)
(* it is its own affair (apoptosis.py, Honest limitation).                 *)
CondemnedTaskIsCancelled ==
  \A k \in Tasks :
    (condemned = k) ~> \/ task[k] \in {"cancelled", "done"} \/ k \in scheduled
                       \/ slot # k \/ stopping # "no"

(* However run ends, interrupted included, it leaves no child behind that  *)
(* is not already sent SIGKILL (supervisor.py, run).                       *)
NoChildLeftBehind == parent = "over" => ~alive \/ "KILL" \in signals

(* The report matches the signals run has sent: none to a child it calls   *)
(* completed, SIGTERM to one it calls killed, and SIGKILL exactly when it  *)
(* says so; it reports none of them while the child runs.  A child that    *)
(* ends just as a limit trips is signalled, and reported as killed.        *)
ReportIsTrue ==
  /\ outcome = "success" => ~alive /\ signals = {}
  /\ outcome = "killed" => ~alive /\ signals = {"TERM"}
  /\ outcome = "sigkilled" => ~alive /\ signals = {"TERM", "KILL"}

(* With a wall clock every supervised run ends, also that of a child that  *)
(* keeps beating, or that ignores SIGTERM.                                 *)
SupervisedRunEnds ==
  (parent # "new" /\ "wall_clock" \in limits) ~> (parent = "over" /\ ~alive)

(* The monitor announces no death but that of the agent it watches: a      *)
(* flatline only after a kill, and in follow mode never the end of an      *)
(* earlier run (cli.py, _load_snapshot; plugin.py, session_finalize).      *)
NoFalseFlatline ==
  monitor.view \in {"flatline", "ended"} =>
    monitor.shows = "agent" /\ (monitor.view = "flatline" => flag)

(* A monitor does not show an agent as alive for ever whose process is     *)
(* gone without a last snapshot (cli.py, _render_vitals).                  *)
DeadAgentIsNoticed == ~alive ~> (monitor.view # "alive" \/ monitor.at = "crashed")
=============================================================================
