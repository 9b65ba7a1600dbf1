--------------------------- MODULE EscalationProofs --------------------------
(***************************************************************************)
(* Proofs about Escalation: for every set of tasks and of files an earlier *)
(* session may have left, and any number of snapshots.                     *)
(*                                                                         *)
(* Each of the three components keeps an invariant of its own by its own   *)
(* steps (the lemmas DogSteps, SupervisorSteps and VitalsSteps).  All the  *)
(* others may do to it is to set the flag or to end the process, and       *)
(* neither disturbs it.                                                    *)
(***************************************************************************)
EXTENDS Escalation, TLAPS

(* Where the kill may have got to: only stop sets the event without the    *)
(* flag, and _stop is set by then; so a thread that saw the event, and     *)
(* then _stop unset, saw a kill.                                           *)
WatchdogInv ==
  /\ event => flag \/ stopping = "poked"
  /\ dog.at = "woken" /\ dog.triggered => flag \/ stopping = "poked"
  /\ dog.at = "unstopped" /\ dog.triggered => flag
  /\ dog.at \in {"grace", "looked", "expired"} => flag
  /\ CancelNeedsKill

(* The signals the child has been sent, by where run is.                   *)
SupervisorInv ==
  /\ parent = "new" => ~alive /\ exit = "none"
  /\ parent \in {"new", "monitoring", "polled", "terminating"} => signals = {}
  /\ parent \in {"grace", "killing"} => signals = {"TERM"}
  /\ parent = "joining" => signals = {"TERM", "KILL"}
  /\ NoChildLeftBehind
  /\ ReportIsTrue

(* A last snapshot of a killed session is built after the kill, and an     *)
(* earlier session's file is never taken for one of the watch.             *)
VitalsInv ==
  /\ \A p \in pending : p.status = "terminated" => flag
  /\ files["agent"].status = "terminated" => flag
  /\ ~files["earlier"].since
  /\ NoFalseFlatline

IInv == TypeOK /\ WatchdogInv /\ SupervisorInv /\ VitalsInv

-----------------------------------------------------------------------------
(* The watchdog.                                                           *)

(* The thread's records.                                                   *)
DogAts == {"off", "waiting", "woken", "unstopped", "grace", "looked", "expired", "exited"}

LEMMA DogRecord ==
  ASSUME NEW at \in DogAts, NEW b \in BOOLEAN, NEW k \in Tasks \cup {NoTask}
  PROVE  LET d == [at |-> at, triggered |-> b, seen |-> k]
         IN  /\ d \in [at : DogAts, triggered : BOOLEAN, seen : Tasks \cup {NoTask}]
             /\ d.at = at /\ d.triggered = b /\ d.seen = k
  OBVIOUS

LEMMA DogSteps ==
  ASSUME W!TypeOK, WatchdogInv, W!Next
  PROVE  W!TypeOK' /\ WatchdogInv' /\ (flag => flag') /\ flag' \in BOOLEAN
<1>. USE DEF WatchdogInv, CancelNeedsKill, W!TypeOK, W!Go, W!dogVars, W!stateVars, W!Idle
<1>1. CASE W!Wake
  BY <1>1, NoTaskAssumption DEF W!Wake
<1>2. CASE W!LookAtStop
  <2>1. CASE stopping # "no"
    <3>1. dog' = [at |-> "exited", triggered |-> FALSE, seen |-> NoTask]
      BY <1>2, <2>1 DEF W!LookAtStop
    <3>2. dog.at = "woken" /\ UNCHANGED <<flag, event, stopping, condemned, slot, task, escalated, scheduled>>
      BY <1>2 DEF W!LookAtStop
    <3>. QED BY <3>1, <3>2, NoTaskAssumption
  <2>2. CASE stopping = "no"
    <3>1. dog' = [at |-> "unstopped", triggered |-> dog.triggered, seen |-> NoTask]
      BY <1>2, <2>2 DEF W!LookAtStop
    <3>2. /\ dog' \in [at : DogAts, triggered : BOOLEAN, seen : Tasks \cup {NoTask}]
          /\ dog'.at = "unstopped" /\ dog'.triggered = dog.triggered /\ dog'.seen = NoTask
      BY <3>1, DogRecord DEF DogAts
    <3>3. dog.at = "woken" /\ UNCHANGED <<flag, event, stopping, condemned, slot, task, escalated, scheduled>>
      BY <1>2 DEF W!LookAtStop
    <3>. QED BY <2>2, <3>2, <3>3 DEF DogAts
  <2>. QED BY <2>1, <2>2
<1>13. CASE W!Start
  BY <1>13, NoTaskAssumption DEF W!Start
<1>3. CASE W!Look
  <2>1. CASE stopping # "no"
    <3>1. dog' = [at |-> "exited", triggered |-> FALSE, seen |-> NoTask]
      BY <1>3, <2>1 DEF W!Look
    <3>2. dog.at = "grace" /\ UNCHANGED <<flag, event, stopping, condemned, slot, task, escalated, scheduled>>
      BY <1>3 DEF W!Look
    <3>. QED BY <3>1, <3>2, NoTaskAssumption
  <2>2. CASE stopping = "no"
    <3>1. dog' = [at |-> "looked", triggered |-> FALSE, seen |-> slot]
      BY <1>3, <2>2 DEF W!Look
    <3>2. /\ dog' \in [at : DogAts, triggered : BOOLEAN, seen : Tasks \cup {NoTask}]
          /\ dog'.at = "looked" /\ dog'.triggered = FALSE /\ dog'.seen = slot
      BY <3>1, DogRecord DEF DogAts
    <3>3. dog.at = "grace" /\ UNCHANGED <<flag, event, stopping, condemned, slot, task, escalated, scheduled>>
      BY <1>3 DEF W!Look
    <3>. QED BY <3>2, <3>3 DEF DogAts
  <2>. QED BY <2>1, <2>2
<1>4. CASE W!Judge
  BY <1>4, NoTaskAssumption DEF W!Judge
<1>5. CASE W!GraceExpires
  BY <1>5, NoTaskAssumption DEF W!GraceExpires
<1>6. CASE W!Escalate
  BY <1>6, NoTaskAssumption DEF W!Escalate
<1>7. CASE W!Stop
  <2>1. CASE stopping = "no" /\ stopping' = "set"
    BY <1>7, <2>1 DEF W!Stop
  <2>2. CASE stopping = "set" /\ stopping' = "poked" /\ event' = TRUE
    BY <1>7, <2>2 DEF W!Stop
  <2>. QED BY <1>7, <2>1, <2>2 DEF W!Stop
<1>8. CASE W!RequestTermination
  BY <1>8, NoTaskAssumption DEF W!RequestTermination
<1>9. CASE W!SetEvent
  BY <1>9, NoTaskAssumption DEF W!SetEvent
<1>10. ASSUME NEW k \in Tasks, W!Arm(k)
       PROVE  W!TypeOK' /\ WatchdogInv' /\ (flag => flag') /\ flag' \in BOOLEAN
  <2>1. /\ task' = [task EXCEPT ![k] = "running"] /\ slot' = k
        /\ UNCHANGED <<flag, event, stopping, condemned, escalated, scheduled>>
    BY <1>10 DEF W!Arm, W!Refresh
  <2>2. CASE dog.at = "off"
    <3>1. dog' = [at |-> "waiting", triggered |-> FALSE, seen |-> NoTask]
      BY <1>10, <2>2 DEF W!Arm
    <3>. QED BY <2>1, <3>1, NoTaskAssumption
  <2>3. CASE dog.at # "off"
    <3>1. dog' = dog
      BY <1>10, <2>3 DEF W!Arm
    <3>. QED BY <2>1, <2>3, <3>1, NoTaskAssumption
  <2>. QED BY <2>2, <2>3
<1>11. ASSUME NEW k \in Tasks, W!Finish(k)
       PROVE  W!TypeOK' /\ WatchdogInv' /\ (flag => flag') /\ flag' \in BOOLEAN
  BY <1>11, NoTaskAssumption DEF W!Finish
<1>12. ASSUME NEW k \in Tasks, W!CancelTask(k)
       PROVE  W!TypeOK' /\ WatchdogInv' /\ (flag => flag') /\ flag' \in BOOLEAN
  BY <1>12, NoTaskAssumption DEF W!CancelTask
<1>. QED
  BY <1>1, <1>2, <1>3, <1>4, <1>5, <1>6, <1>7, <1>8, <1>9, <1>10, <1>11, <1>12, <1>13
  DEF W!Next, W!Dog

-----------------------------------------------------------------------------
(* The supervisor.                                                         *)

LEMMA SupervisorSteps ==
  ASSUME S!TypeOK, SupervisorInv, S!Next
  PROVE  S!TypeOK' /\ SupervisorInv'
<1>. USE DEF SupervisorInv, NoChildLeftBehind, ReportIsTrue, S!TypeOK, S!Limits,
             S!childVars, S!clockVars, S!parentVars, S!Quiet, S!Ends
<1>1. CASE S!Spawn
  BY <1>1 DEF S!Spawn
<1>2. CASE S!Poll
  BY <1>2 DEF S!Poll
<1>3. CASE S!Check
  BY <1>3 DEF S!Check, S!Tripped
<1>4. CASE S!Terminate
  BY <1>4 DEF S!Terminate
<1>5. CASE S!Exited
  BY <1>5 DEF S!Exited
<1>6. CASE S!GraceExpires
  BY <1>6 DEF S!GraceExpires
<1>7. CASE S!Kill
  BY <1>7 DEF S!Kill
<1>8. CASE S!Join
  BY <1>8 DEF S!Join
<1>9. CASE S!Finally
  BY <1>9 DEF S!Finally
<1>10. CASE S!Interrupt
  BY <1>10 DEF S!Interrupt
<1>11. CASE S!Beat
  BY <1>11 DEF S!Beat
<1>12. CASE S!ChildExits
  BY <1>12 DEF S!ChildExits
<1>13. ASSUME NEW signal \in {"TERM", "KILL"}, S!ChildObeys(signal)
       PROVE  S!TypeOK' /\ SupervisorInv'
  BY <1>13 DEF S!ChildObeys
<1>14. CASE S!WallClockPasses
  BY <1>14 DEF S!WallClockPasses
<1>15. CASE S!BeatAges
  BY <1>15 DEF S!BeatAges
<1>. QED
  BY <1>1, <1>2, <1>3, <1>4, <1>5, <1>6, <1>7, <1>8, <1>9, <1>10, <1>11, <1>12, <1>13, <1>14, <1>15
  DEF S!Next, S!Parent

-----------------------------------------------------------------------------
(* The vitals.                                                             *)

(* What a file may be, and that no file has no status.                     *)
LEMMA FileFacts ==
  /\ V!NoFile.status = "none" /\ ~V!NoFile.since
  /\ V!NoFile \notin V!File
  /\ \A f \in V!File \cup {V!NoFile} :
       f.status \in {"none", "running", "terminated", "ended_clean"} /\ f.since \in BOOLEAN
  /\ \A p \in V!Snapshot :
       /\ p.status \in {"running", "terminated", "ended_clean"} /\ p.since \in BOOLEAN
       /\ [status |-> p.status, age |-> "fresh", since |-> p.since] \in V!File
  /\ \A st \in {"running", "terminated", "ended_clean"}, b \in BOOLEAN :
       [status |-> st, since |-> b] \in V!Snapshot
<1>1. V!NoFile.status = "none" /\ ~V!NoFile.since
  BY DEF V!NoFile
<1>2. \A f \in V!File : f.status \in {"running", "terminated", "ended_clean"} /\ f.since \in BOOLEAN
  BY DEF V!File, V!Terminal
<1>3. V!NoFile.since \in BOOLEAN
  BY DEF V!NoFile
<1>4. \A p \in V!Snapshot :
        /\ p.status \in {"running", "terminated", "ended_clean"} /\ p.since \in BOOLEAN
        /\ [status |-> p.status, age |-> "fresh", since |-> p.since] \in V!File
  BY DEF V!Snapshot, V!File, V!Terminal
<1>5. \A st \in {"running", "terminated", "ended_clean"}, b \in BOOLEAN :
        [status |-> st, since |-> b] \in V!Snapshot
  BY DEF V!Snapshot, V!Terminal
<1>. QED BY <1>1, <1>2, <1>3, <1>4, <1>5

(* The frame that shows a flatline shows the agent's file.                 *)
LEMMA FrameFacts ==
  ASSUME V!TypeOK, VitalsInv, V!Frame
  PROVE  monitor' \in [at : {"off", "watching", "stopped", "crashed"},
                       follows : {"agent", "freshest"},
                       view : {"nothing", "waiting", "alive", "no signal", "flatline", "ended"},
                       shows : V!Owners \cup {"none"}]
         /\ NoFalseFlatline'
<1>1. PICK o : o = V!Loaded
  OBVIOUS
<1>2. o \in {"agent", "earlier", "none"}
  BY <1>1 DEF V!Loaded
<1>3. o = "earlier" => files["earlier"].status \notin {"terminated", "ended_clean"}
  BY <1>1 DEF V!Loaded, V!Live, V!Terminal, VitalsInv
<1>4. CASE o = "none"
  <2>1. monitor' = [monitor EXCEPT !.view = "waiting", !.shows = "none"]
    BY <1>1, <1>4 DEF V!Frame
  <2>2. monitor'.view = "waiting"
    BY <2>1 DEF V!TypeOK
  <2>. QED BY <2>1, <2>2 DEF V!TypeOK, V!Owners, NoFalseFlatline
<1>5. CASE o # "none"
  <2>1. PICK f : f = files[o]
    OBVIOUS
  <2>2. PICK view : view = V!Render(f)
    OBVIOUS
  <2>3. PICK at : at = IF f.status \in V!Terminal THEN "stopped" ELSE monitor.at
    OBVIOUS
  <2>4. monitor' = [monitor EXCEPT !.view = view, !.shows = o, !.at = at]
    BY <1>1, <1>5, <2>1, <2>2, <2>3 DEF V!Frame, V!TypeOK
  <2>5. view \in {"alive", "no signal", "flatline", "ended"}
        /\ (view = "flatline" => f.status = "terminated")
        /\ (view = "ended" => f.status = "ended_clean")
    BY <2>2 DEF V!Render
  <2>6. at \in {"off", "watching", "stopped", "crashed"}
    BY <2>3 DEF V!TypeOK
  <2>7. monitor'.view = view /\ monitor'.shows = o
    BY <2>4 DEF V!TypeOK
  <2>8. view \in {"flatline", "ended"} => o = "agent" /\ (view = "flatline" => flag)
    BY <1>2, <1>3, <1>5, <2>1, <2>5 DEF VitalsInv
  <2>9. flag' = flag
    BY DEF V!Frame, V!agentVars
  <2>10. NoFalseFlatline'
    BY <2>7, <2>8, <2>9 DEF NoFalseFlatline
  <2>. QED BY <1>2, <1>5, <2>4, <2>5, <2>6, <2>10 DEF V!TypeOK, V!Owners
<1>. QED BY <1>4, <1>5

(* A snapshot that is built stays within the bound.                        *)
LEMMA OneMore ==
  ASSUME V!TypeOK, writes < MaxWrites, writes' = writes + 1
  PROVE  writes' \in 0..MaxWrites
<1>1. writes \in 0..MaxWrites
  BY Zenon DEF V!TypeOK
<1>. QED BY <1>1, MaxWritesAssumption

LEMMA VitalsSteps ==
  ASSUME V!TypeOK, VitalsInv, V!Next \/ V!Die
  PROVE  V!TypeOK' /\ VitalsInv' /\ (flag => flag') /\ flag' \in BOOLEAN
<1>. USE DEF V!TypeOK, VitalsInv, NoFalseFlatline, V!agentVars
<1>1. CASE V!RequestTermination
  BY <1>1 DEF V!RequestTermination
<1>2. ASSUME NEW st \in {"running", "terminated", "ended_clean"}, V!Build(st),
             st = "terminated" => flag, UNCHANGED <<alive, flag, live, files, sweeping, monitor>>
      PROVE  V!TypeOK' /\ VitalsInv' /\ (flag => flag') /\ flag' \in BOOLEAN
  <2>1. PICK p : p = [status |-> st, since |-> monitor.at # "off"]
    OBVIOUS
  <2>2. (monitor.at # "off") \in BOOLEAN
    OBVIOUS
  <2>3. p \in V!Snapshot /\ p.status = st
    BY <2>1, <2>2, FileFacts
  <2>4. pending' = pending \cup {p}
    BY <1>2, <2>1, Zenon DEF V!Build
  <2>5. writes' = writes + 1 /\ writes < MaxWrites
    BY <1>2, Zenon DEF V!Build
  <2>6. writes' \in 0..MaxWrites
    BY <2>5, OneMore, Zenon
  <2>. QED BY <1>2, <2>3, <2>4, <2>6, Zenon
<1>3. CASE V!WriteRunning
  BY <1>2, <1>3 DEF V!WriteRunning
<1>4. CASE V!WriteTerminal
  <2>1. V!TerminalStatus \in {"terminated", "ended_clean"} /\ (V!TerminalStatus = "terminated" => flag)
    BY DEF V!TerminalStatus
  <2>. QED BY <1>2, <1>4, <2>1 DEF V!WriteTerminal
<1>5. ASSUME NEW p \in pending, V!Replace(p)
      PROVE  V!TypeOK' /\ VitalsInv' /\ (flag => flag') /\ flag' \in BOOLEAN
  <2>1. PICK f : f = [status |-> p.status, age |-> "fresh", since |-> p.since]
    OBVIOUS
  <2>2. f \in V!File /\ f.status = p.status
    BY <2>1, FileFacts
  <2>3. files' = [files EXCEPT !["agent"] = f] /\ pending' = pending \ {p}
        /\ UNCHANGED <<alive, flag, live, writes, sweeping, monitor>>
    BY <1>5, <2>1 DEF V!Replace
  <2>4. files'["agent"] = f /\ files'["earlier"] = files["earlier"]
        /\ files' \in [V!Owners -> V!File \cup {V!NoFile}]
    BY <2>2, <2>3 DEF V!Owners
  <2>. QED BY <2>2, <2>3, <2>4
<1>6. ASSUME NEW p \in pending, V!WriteFails(p)
      PROVE  V!TypeOK' /\ VitalsInv' /\ (flag => flag') /\ flag' \in BOOLEAN
  BY <1>6 DEF V!WriteFails
<1>7. CASE V!Die
  BY <1>7 DEF V!Die
<1>8. ASSUME NEW o \in V!Owners, V!Age(o)
      PROVE  V!TypeOK' /\ VitalsInv' /\ (flag => flag') /\ flag' \in BOOLEAN
  <2>1. PICK f : f = [files[o] EXCEPT !.age = V!Older(@)]
    OBVIOUS
  <2>2. files[o] \in V!File
    BY <1>8 DEF V!Age
  <2>3. f \in V!File /\ f.status = files[o].status /\ f.since = files[o].since
    <3>1. V!Older(files[o].age) \in {"fresh", "old", "dead"}
      BY DEF V!Older
    <3>. QED BY <2>1, <2>2, <3>1 DEF V!File
  <2>4. files' = [files EXCEPT ![o] = f]
    BY <1>8, <2>1 DEF V!Age
  <2>5. files' \in [V!Owners -> V!File \cup {V!NoFile}]
        /\ \A q \in V!Owners : files'[q].status = files[q].status /\ files'[q].since = files[q].since
    BY <2>3, <2>4
  <2>6. UNCHANGED <<alive, flag, live, pending, writes, sweeping, monitor>>
    BY <1>8 DEF V!Age
  <2>7. V!TypeOK'
    BY <2>5, <2>6
  <2>8. VitalsInv'
    BY <2>5, <2>6 DEF V!Owners
  <2>. QED BY <2>6, <2>7, <2>8
<1>9. ASSUME NEW o \in V!Owners, V!Sweep(o)
      PROVE  V!TypeOK' /\ VitalsInv' /\ (flag => flag') /\ flag' \in BOOLEAN
  BY <1>9 DEF V!Sweep
<1>10. ASSUME sweeping # "none", files' = [files EXCEPT ![sweeping] = V!NoFile]
       PROVE  /\ files' \in [V!Owners -> V!File \cup {V!NoFile}] /\ ~files'["earlier"].since
              /\ files'["agent"].status = "terminated" => flag
  BY <1>10, FileFacts DEF V!Owners
<1>11. CASE V!Unlink
  BY <1>10, <1>11 DEF V!Unlink
<1>12. CASE V!Launch
  BY <1>12 DEF V!Launch
<1>13. CASE V!Frame
  BY <1>13, FrameFacts DEF V!Frame
<1>14. CASE V!FrameCrashes
  BY <1>10, <1>14 DEF V!FrameCrashes
<1>. QED
  BY <1>1, <1>3, <1>4, <1>5, <1>6, <1>7, <1>8, <1>9, <1>11, <1>12, <1>13, <1>14 DEF V!Next

-----------------------------------------------------------------------------
(* The composition.                                                        *)

LEMMA Initially == Init => IInv
<1>. SUFFICES ASSUME Init PROVE IInv
  OBVIOUS
<1>1. W!TypeOK /\ WatchdogInv
  BY NoTaskAssumption DEF Init, W!Init, W!TypeOK, WatchdogInv, CancelNeedsKill
<1>2. S!TypeOK /\ SupervisorInv
  BY DEF Init, S!Init, S!TypeOK, S!Limits, SupervisorInv, NoChildLeftBehind, ReportIsTrue
<1>3. V!TypeOK /\ VitalsInv
  <2>1. PICK f \in Earlier \cup {V!NoFile} :
          files = [o \in V!Owners |-> IF o = "agent" THEN V!NoFile ELSE f]
    BY DEF Init, V!Init
  <2>2. f \in V!File \cup {V!NoFile} /\ ~f.since
    BY EarlierAssumption, FileFacts
  <2>3. /\ files["agent"] = V!NoFile /\ files["earlier"] = f
        /\ files \in [V!Owners -> V!File \cup {V!NoFile}]
    BY <2>1, <2>2 DEF V!Owners
  <2>4. monitor \in [at : {"off"}, follows : {"agent", "freshest"}, view : {"nothing"}, shows : {"none"}]
    BY DEF Init, V!Init
  <2>5. alive \in BOOLEAN /\ flag \in BOOLEAN /\ live \in BOOLEAN /\ pending = {} /\ writes = 0
        /\ sweeping = "none"
    BY DEF Init, V!Init, S!Init
  <2>6. /\ monitor \in [at : {"off", "watching", "stopped", "crashed"},
                          follows : {"agent", "freshest"},
                          view : {"nothing", "waiting", "alive", "no signal", "flatline", "ended"},
                          shows : V!Owners \cup {"none"}]
        /\ monitor.view = "nothing"
    BY <2>4 DEF V!Owners
  <2>7. V!TypeOK
    <3>1. writes \in 0..MaxWrites
      BY <2>5, MaxWritesAssumption
    <3>2. pending \subseteq V!Snapshot /\ sweeping \in V!Owners \cup {"none"}
      BY <2>5
    <3>. QED BY <2>3, <2>5, <2>6, <3>1, <3>2, Zenon DEF V!TypeOK
  <2>8. VitalsInv
    BY <2>2, <2>3, <2>5, <2>6, FileFacts DEF VitalsInv, NoFalseFlatline
  <2>. QED BY <2>7, <2>8
<1>. QED BY <1>1, <1>2, <1>3 DEF Init, IInv, TypeOK

LEMMA Steps == IInv /\ [Next]_vars => IInv'
<1>. SUFFICES ASSUME IInv, [Next]_vars PROVE IInv'
  OBVIOUS
<1>. USE DEF IInv, TypeOK
<1>1. (flag => flag') /\ flag' \in BOOLEAN /\ UNCHANGED watchdogVars => W!TypeOK' /\ WatchdogInv'
  BY DEF watchdogVars, W!TypeOK, WatchdogInv, CancelNeedsKill
<1>2. UNCHANGED <<alive, supervisorVars>> => S!TypeOK' /\ SupervisorInv'
  BY DEF supervisorVars, S!TypeOK, SupervisorInv, NoChildLeftBehind, ReportIsTrue
<1>3. (flag => flag') /\ flag' \in BOOLEAN /\ alive' \in BOOLEAN /\ UNCHANGED vitalsVars
        => V!TypeOK' /\ VitalsInv'
  BY DEF vitalsVars, V!TypeOK, VitalsInv, NoFalseFlatline
<1>4. CASE RunsInProcess
  <2>1. W!TypeOK' /\ WatchdogInv' /\ (flag => flag') /\ flag' \in BOOLEAN
    BY <1>4, DogSteps DEF RunsInProcess
  <2>. QED BY <1>2, <1>3, <1>4, <2>1 DEF RunsInProcess, S!TypeOK
<1>5. CASE /\ S!Next /\ UNCHANGED <<mode, watchdogVars>>
           /\ V!Die \/ ((alive => alive') /\ UNCHANGED <<flag, vitalsVars>>)
  <2>1. S!TypeOK' /\ SupervisorInv'
    BY <1>5, SupervisorSteps
  <2>2. CASE V!Die
    <3>1. V!TypeOK' /\ VitalsInv' /\ (flag => flag') /\ flag' \in BOOLEAN
      BY <2>2, VitalsSteps
    <3>. QED BY <1>1, <1>5, <2>1, <3>1
  <2>3. CASE UNCHANGED <<flag, vitalsVars>>
    BY <1>1, <1>3, <1>5, <2>1, <2>3 DEF S!TypeOK, V!TypeOK
  <2>. QED BY <1>5, <2>2, <2>3
<1>6. CASE RunsIsolated /\ V!Next /\ UNCHANGED supervisorVars
  <2>1. V!TypeOK' /\ VitalsInv' /\ (flag => flag') /\ flag' \in BOOLEAN
    BY <1>6, VitalsSteps
  <2>2. alive' = alive
    BY <1>6 DEF V!Next, V!RequestTermination, V!WriteRunning, V!WriteTerminal, V!Replace,
      V!WriteFails, V!Age, V!Sweep, V!Unlink, V!Launch, V!Frame, V!FrameCrashes
  <2>. QED BY <1>1, <1>2, <1>6, <2>1, <2>2 DEF RunsIsolated
<1>7. CASE UNCHANGED vars
  BY <1>1, <1>2, <1>3, <1>7 DEF vars, V!TypeOK
<1>. QED BY <1>4, <1>5, <1>6, <1>7 DEF Next, RunsIsolated

(* The invariants of the three components hold together, for any tasks,    *)
(* limits, number of snapshots and earlier sessions' files.                *)
THEOREM Invariance == Spec => []IInv
BY Initially, Steps, PTL DEF Spec

(* The state has its type, in both ways to run a target                    *)
(* (execution/manager.py, ExecutionManager.execute).                       *)
THEOREM TypeCorrect == Spec => []TypeOK
<1>1. IInv => TypeOK
  BY DEF IInv
<1>. QED BY <1>1, Invariance, PTL

(* The watchdog never has a task cancelled but for a kill: a stop, before, *)
(* during or after its grace, is not taken for one (apoptosis.py, stop,    *)
(* _run and _escalate).                                                    *)
THEOREM StopCancelsNothing == Spec => []CancelNeedsKill
<1>1. IInv => CancelNeedsKill
  BY DEF IInv, WatchdogInv
<1>. QED BY <1>1, Invariance, PTL

(* Wherever run is interrupted, it is not over before its child is gone or *)
(* has been sent SIGKILL (supervisor.py, run and its finally clause).      *)
THEOREM ChildIsReaped == Spec => []NoChildLeftBehind
<1>1. IInv => NoChildLeftBehind
  BY DEF IInv, SupervisorInv
<1>. QED BY <1>1, Invariance, PTL

(* The report of a supervised run says which signals were sent             *)
(* (supervisor.py, run and _escalate; execution/l3_executor.py).           *)
THEOREM ReportIsHonest == Spec => []ReportIsTrue
<1>1. IInv => ReportIsTrue
  BY DEF IInv, SupervisorInv
<1>. QED BY <1>1, Invariance, PTL

(* The monitor announces a death only of the agent it watches, and a       *)
(* flatline only after its kill, however writes, sweeps and earlier        *)
(* sessions' files interleave (vitals.py; cli.py, _load_snapshot).         *)
THEOREM DeathIsReal == Spec => []NoFalseFlatline
<1>1. IInv => NoFalseFlatline
  BY DEF IInv, VitalsInv
<1>. QED BY <1>1, Invariance, PTL
=============================================================================
