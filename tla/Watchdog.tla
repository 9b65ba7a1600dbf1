------------------------------- MODULE Watchdog ------------------------------
(***************************************************************************)
(* hermeskill.apoptosis.Watchdog: a thread beside the agent's asyncio loop *)
(* that waits for the kill, leaves the task a cooperative grace, and then  *)
(* has the loop cancel it.  An adapter arms it with the task of every      *)
(* invocation; the first time starts the thread.                           *)
(*                                                                         *)
(* A step of the thread is what it does between two looks at the shared    *)
(* state.  The tasks belong to the agent: one that is cancelled ends at    *)
(* its next await, and whether it gets there is up to it.                  *)
(***************************************************************************)
CONSTANTS
  Tasks,    \* the asyncio tasks of the agent's invocations
  NoTask

VARIABLES
  flag,       \* WatcherState.terminate_requested
  event,      \* WatcherState._terminate_event
  stopping,   \* _stop
  slot,       \* _task, and with it _loop
  dog,        \* the thread: where it is, what its wait returned, the task it has read
  escalated,  \* _escalated
  task,       \* the tasks
  scheduled,  \* the calls of task.cancel the loop has still to make
  condemned   \* the task in the slot when the termination was requested

vars == <<flag, event, stopping, slot, dog, escalated, task, scheduled, condemned>>

TypeOK ==
  /\ flag \in BOOLEAN /\ event \in BOOLEAN /\ stopping \in {"no", "set", "poked"}
  /\ slot \in Tasks \cup {NoTask}
  /\ dog \in [at : {"off", "waiting", "woken", "unstopped", "grace", "looked", "expired", "exited"},
              triggered : BOOLEAN, seen : Tasks \cup {NoTask}]
  /\ dog.triggered => dog.at \in {"woken", "unstopped"}
  /\ dog.seen # NoTask => dog.at = "looked"
  /\ dog.at = "off" <=> slot = NoTask
  /\ escalated \in BOOLEAN
  /\ task \in [Tasks -> {"new", "running", "cancelled", "done"}]
  /\ scheduled \subseteq Tasks
  /\ condemned \in Tasks \cup {NoTask}

Init ==
  /\ flag = FALSE /\ event = FALSE /\ stopping = "no"
  /\ slot = NoTask
  /\ dog = [at |-> "off", triggered |-> FALSE, seen |-> NoTask]
  /\ escalated = FALSE
  /\ task = [k \in Tasks |-> "new"]
  /\ scheduled = {}
  /\ condemned = NoTask

Go(at) == dog' = [at |-> at, triggered |-> FALSE, seen |-> NoTask]
dogVars == <<dog, escalated, scheduled>>
stateVars == <<flag, event, stopping, condemned>>

-----------------------------------------------------------------------------
Refresh(k) == slot' = k

(* arm, when an invocation starts.                                         *)
Arm(k) ==
  /\ task[k] = "new"
  /\ task' = [task EXCEPT ![k] = "running"]
  /\ Refresh(k)
  /\ IF dog.at = "off" THEN Go("waiting") ELSE UNCHANGED dog
  /\ UNCHANGED <<stateVars, escalated, scheduled>>

(* The task returns, or an await raises the cancellation in it.            *)
Finish(k) ==
  /\ task[k] \in {"running", "cancelled"}
  /\ task' = [task EXCEPT ![k] = "done"]
  /\ UNCHANGED <<stateVars, slot, dogVars>>

(* The loop runs the callback: a task that is done ignores it.             *)
CancelTask(k) ==
  /\ k \in scheduled
  /\ scheduled' = scheduled \ {k}
  /\ task' = [task EXCEPT ![k] = IF @ = "running" THEN "cancelled" ELSE @]
  /\ UNCHANGED <<stateVars, slot, dog, escalated>>

(* request_termination, or a caller that writes the flag alone; the event  *)
(* is set after the flag.                                                  *)
RequestTermination ==
  /\ ~flag
  /\ flag' = TRUE
  /\ condemned' = slot
  /\ UNCHANGED <<event, stopping, slot, task, dogVars>>

SetEvent ==
  /\ flag /\ ~event
  /\ event' = TRUE
  /\ UNCHANGED <<flag, stopping, condemned, slot, task, dogVars>>

(* Slip: stop wakes the thread before it has set _stop. *)
StopPokesFirst ==
  \/ /\ stopping = "no" /\ ~event
     /\ event' = TRUE
     /\ UNCHANGED <<flag, stopping, condemned, slot, task, dogVars>>
  \/ /\ stopping = "no" /\ event
     /\ stopping' = "poked"
     /\ UNCHANGED <<flag, event, condemned, slot, task, dogVars>>

(* stop, when the agent is unregistered: _stop, then the event to wake the *)
(* thread.                                                                 *)
Stop ==
  \/ /\ stopping = "no"
     /\ stopping' = "set"
     /\ UNCHANGED <<flag, event, condemned, slot, task, dogVars>>
  \/ /\ stopping = "set"
     /\ stopping' = "poked" /\ event' = TRUE
     /\ UNCHANGED <<flag, condemned, slot, task, dogVars>>

-----------------------------------------------------------------------------
(* The thread.                                                             *)
Idle == UNCHANGED <<stateVars, slot, task, escalated, scheduled>>

(* The wait returns: the event is set, or it is time to poll.              *)
Wake ==
  /\ dog.at = "waiting"
  /\ dog' = [at |-> "woken", triggered |-> event, seen |-> NoTask]
  /\ Idle

(* After the event _stop, which stop sets before the event; then the flag, *)
(* for a caller that wrote the flag alone.                                 *)
LookAtStop ==
  /\ dog.at = "woken"
  /\ IF stopping # "no" THEN Go("exited")
     ELSE dog' = [at |-> "unstopped", triggered |-> dog.triggered, seen |-> NoTask]
  /\ Idle

Start ==
  /\ dog.at = "unstopped"
  /\ Go(IF dog.triggered \/ flag THEN "grace" ELSE "waiting") /\ Idle

(* In the grace: _stop and the slot are read, then the task is looked at.  *)
Look ==
  /\ dog.at = "grace"
  /\ IF stopping # "no" THEN Go("exited")
     ELSE dog' = [at |-> "looked", triggered |-> FALSE, seen |-> slot]
  /\ Idle

Judge ==
  /\ dog.at = "looked"
  /\ Go(IF dog.seen \in Tasks /\ task[dog.seen] = "done" THEN "exited" ELSE "grace")
  /\ Idle

GraceExpires ==
  /\ dog.at = "grace"
  /\ Go("expired") /\ Idle

(* Slip: the mark is set before it is read. *)
EscalateMarked ==
  /\ dog.at = "expired"
  /\ escalated' = TRUE
  /\ Go("exited")
  /\ UNCHANGED <<stateVars, slot, task, scheduled>>

(* _escalate.                                                              *)
Escalate ==
  /\ dog.at = "expired"
  /\ escalated' = TRUE
  /\ scheduled' = IF ~escalated /\ slot \in Tasks /\ task[slot] # "done"
                  THEN scheduled \cup {slot} ELSE scheduled
  /\ Go("exited")
  /\ UNCHANGED <<stateVars, slot, task>>

Dog == Wake \/ LookAtStop \/ Start \/ Look \/ Judge \/ GraceExpires \/ Escalate

Next ==
  \/ Dog \/ Stop \/ RequestTermination \/ SetEvent
  \/ \E k \in Tasks : Arm(k) \/ Finish(k) \/ CancelTask(k)

(* The thread is scheduled and its clock runs.  Nothing is asked of the    *)
(* agent's loop, which may be blocked, nor of a task, cancelled or not.    *)
Fairness ==
  /\ WF_vars(Wake) /\ WF_vars(LookAtStop) /\ WF_vars(Start) /\ WF_vars(Look) /\ WF_vars(Judge)
  /\ SF_vars(GraceExpires) /\ WF_vars(Escalate)
=============================================================================
