-------------------------------- MODULE Vitals -------------------------------
(***************************************************************************)
(* The live vitals of an agent: the snapshot its plugin writes at every    *)
(* hook (hermeskill/vitals.py, HermeskillPlugin._write_vitals) and what    *)
(* `hermeskill monitor` in another process shows of it (hermeskill/cli.py).*)
(*                                                                         *)
(* A snapshot is built from the watcher's state and then replaces the file *)
(* in one step; hooks of several threads do so at the same time.  The      *)
(* monitor watches one agent by its id, or follows the freshest live one;  *)
(* then it may come upon the file an earlier session has left.  A new      *)
(* session of any process sweeps the files that are an hour old.           *)
(***************************************************************************)
EXTENDS Naturals

CONSTANTS
  Earlier,     \* bound: the files an earlier session may have left
  MaxWrites    \* bound: snapshots written

VARIABLES
  alive,     \* the agent's process runs
  flag,      \* its session's terminate_requested
  live,      \* HermeskillPlugin._live_vitals
  pending,   \* snapshots that are built and not yet written
  writes,    \* how many were built
  files,     \* the live directory: the agent's file and the earlier one
  sweeping,  \* the file a sweep has found old and has still to unlink
  monitor    \* the command: whether and what it watches, and what it shows

vars == <<alive, flag, live, pending, writes, files, sweeping, monitor>>

NoFile == [status |-> "none", age |-> "fresh", since |-> FALSE]
Owners == {"agent", "earlier"}
Terminal == {"terminated", "ended_clean"}

(* since: it was built after the monitor was started.                      *)
Snapshot == [status : {"running"} \cup Terminal, since : BOOLEAN]
(* old: more than DEFAULT_MAX_AGE_SECONDS; dead: DEFAULT_SWEEP_AGE_SECONDS. *)
File == [status : {"running"} \cup Terminal, age : {"fresh", "old", "dead"}, since : BOOLEAN]

TypeOK ==
  /\ alive \in BOOLEAN /\ flag \in BOOLEAN /\ live \in BOOLEAN
  /\ pending \subseteq Snapshot
  /\ writes \in 0..MaxWrites
  /\ files \in [Owners -> File \cup {NoFile}]
  /\ sweeping \in Owners \cup {"none"}
  /\ monitor \in [at : {"off", "watching", "stopped", "crashed"},
                  follows : {"agent", "freshest"},
                  view : {"nothing", "waiting", "alive", "no signal", "flatline", "ended"},
                  shows : Owners \cup {"none"}]

Init ==
  /\ flag = FALSE
  /\ live \in BOOLEAN
  /\ pending = {} /\ writes = 0
  /\ files \in {[o \in Owners |-> IF o = "agent" THEN NoFile ELSE f] : f \in Earlier \cup {NoFile}}
  /\ sweeping = "none"
  /\ monitor \in [at : {"off"}, follows : {"agent", "freshest"}, view : {"nothing"}, shows : {"none"}]

-----------------------------------------------------------------------------
(* The agent's process.                                                    *)
agentVars == <<flag, live, pending, writes>>

RequestTermination ==
  /\ alive /\ ~flag
  /\ flag' = TRUE
  /\ UNCHANGED <<alive, live, pending, writes, files, sweeping, monitor>>

Build(status) ==
  /\ live /\ writes < MaxWrites
  /\ writes' = writes + 1
  /\ pending' = pending \cup {[status |-> status, since |-> monitor.at # "off"]}

(* Registration, and post_tool_call, pre_llm_call, post_api_request; one   *)
(* that found the state before session_finalize removed it may write last. *)
WriteRunning ==
  /\ alive
  /\ Build("running")
  /\ UNCHANGED <<alive, flag, live, files, sweeping, monitor>>

TerminalStatus == IF flag THEN "terminated" ELSE "ended_clean"

(* session_end at the end of a turn, session_finalize at that of a session. *)
WriteTerminal ==
  /\ alive
  /\ Build(TerminalStatus)
  /\ UNCHANGED <<alive, flag, live, files, sweeping, monitor>>

(* write_snapshot puts the file in place; a failed one is let go.          *)
Replace(p) ==
  /\ alive /\ p \in pending
  /\ pending' = pending \ {p}
  /\ files' = [files EXCEPT !["agent"] =
                 [status |-> p.status, age |-> "fresh", since |-> p.since]]
  /\ UNCHANGED <<alive, flag, live, writes, sweeping, monitor>>

WriteFails(p) ==
  /\ alive /\ p \in pending
  /\ pending' = pending \ {p}
  /\ UNCHANGED <<alive, flag, live, writes, files, sweeping, monitor>>

(* The process ends, however it does, and its threads with it.             *)
Die ==
  /\ alive
  /\ alive' = FALSE
  /\ pending' = {}
  /\ UNCHANGED <<flag, live, writes, files, sweeping, monitor>>

-----------------------------------------------------------------------------
(* The directory.                                                          *)
Older(age) == IF age = "fresh" THEN "old" ELSE "dead"

(* The earlier file is the older one.                                      *)
Age(o) ==
  /\ files[o] # NoFile /\ files[o].age # "dead"
  /\ o = "agent" /\ files["earlier"] # NoFile /\ files["earlier"].age # "dead"
       => files["earlier"].age # files[o].age
  /\ files' = [files EXCEPT ![o].age = Older(@)]
  /\ UNCHANGED <<alive, agentVars, sweeping, monitor>>

(* sweep_live_dir: stat, then unlink, of whatever is there by then.        *)
Sweep(o) ==
  /\ sweeping = "none" /\ files[o] # NoFile /\ files[o].age = "dead"
  /\ sweeping' = o
  /\ UNCHANGED <<alive, agentVars, files, monitor>>

Unlink ==
  /\ sweeping # "none"
  /\ files' = [files EXCEPT ![sweeping] = NoFile]
  /\ sweeping' = "none"
  /\ UNCHANGED <<alive, agentVars, monitor>>

-----------------------------------------------------------------------------
(* The monitor.                                                            *)
Launch ==
  /\ monitor.at = "off"
  /\ monitor' = [monitor EXCEPT !.at = "watching"]
  /\ UNCHANGED <<alive, agentVars, files, sweeping>>

(* iter_live_snapshots, without the terminal ones of before the watch.     *)

(* Slip: since is not looked at. *)
LiveAnyTime(o) ==
  /\ files[o] # NoFile
  /\ files[o].status = "running" => files[o].age = "fresh"

Live(o) ==
  /\ files[o] # NoFile
  /\ files[o].status = "running" => files[o].age = "fresh"
  /\ files[o].status \in Terminal => files[o].since

(* _load_snapshot: the file of the agent, or the freshest.                 *)
Loaded ==
  IF monitor.follows = "agent" THEN (IF files["agent"] # NoFile THEN "agent" ELSE "none")
  ELSE IF Live("agent") THEN "agent" ELSE IF Live("earlier") THEN "earlier" ELSE "none"

(* _render_vitals.                                                         *)

(* Slip: a running snapshot is one of a running agent. *)
RenderTrusting(f) ==
  CASE f.status = "terminated" -> "flatline"
    [] f.status = "ended_clean" -> "ended"
    [] OTHER -> "alive"

Render(f) ==
  CASE f.status = "terminated" -> "flatline"
    [] f.status = "ended_clean" -> "ended"
    [] f.status = "running" /\ f.age # "fresh" -> "no signal"
    [] OTHER -> "alive"

(* One round of the loop; a terminal snapshot ends it.                     *)
Frame ==
  /\ monitor.at = "watching"
  /\ monitor' = IF Loaded = "none"
                THEN [monitor EXCEPT !.view = "waiting", !.shows = "none"]
                ELSE [monitor EXCEPT !.view = Render(files[Loaded]), !.shows = Loaded,
                        !.at = IF files[Loaded].status \in Terminal THEN "stopped" ELSE @]
  /\ UNCHANGED <<alive, agentVars, files, sweeping>>

(* iter_live_snapshots reads a file and then asks for its time: when it is *)
(* unlinked in between, the command ends with an exception.                *)
FrameCrashes ==
  /\ monitor.at = "watching" /\ monitor.follows = "freshest"
  /\ sweeping # "none" /\ files[sweeping].status = "running"
  /\ files' = [files EXCEPT ![sweeping] = NoFile]
  /\ sweeping' = "none"
  /\ monitor' = [monitor EXCEPT !.at = "crashed"]
  /\ UNCHANGED <<alive, agentVars>>

Next ==
  \/ RequestTermination \/ WriteRunning \/ WriteTerminal
  \/ (\E p \in pending : Replace(p) \/ WriteFails(p))
  \/ (\E o \in Owners : Age(o) \/ Sweep(o)) \/ Unlink
  \/ Launch \/ Frame \/ FrameCrashes

(* Time passes and the monitor repaints.                                   *)
Fairness == WF_vars(Frame) /\ \A o \in Owners : WF_vars(Age(o))
=============================================================================
