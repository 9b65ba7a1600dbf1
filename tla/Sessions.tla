------------------------------- MODULE Sessions ------------------------------
(***************************************************************************)
(* The session router of the Hermes plugin (hermeskill_hermes/plugin.py):  *)
(* ensure_session, which gives every hook the one state of its session,    *)
(* session_finalize, session_reset and shutdown, and the watcher registry  *)
(* of hermeskill/watcher.py they keep in step with.                        *)
(*                                                                         *)
(* Hooks run on Hermes' threads.  A step is one critical section of        *)
(* _state_lock or _REGISTRY_LOCK; a registration runs on the loop thread   *)
(* between two of them and its caller waits at most 35 s for it.  A thread *)
(* that waits on the Event of a creation is woken by the step that sets    *)
(* it.  What a hook does with its state is KillPath's subject.             *)
(***************************************************************************)
EXTENDS Integers, FiniteSets, Functions

CONSTANTS
  Threads,        \* Hermes' threads
  Closer,         \* the thread that runs the atexit handler
  Sessions,       \* session ids
  Agents,         \* agent ids 1..n; a number no one refers to is taken again
  MaxGenerations, \* bound: finalizations in all
  MaxFaults       \* bound: registrations that fail or outlast the wait

None == 0
Nobody == "nobody"

ASSUME ThreadsAssumption == Closer \notin Threads /\ Nobody \notin Threads
ASSUME SessionsAssumption == Sessions # {}
ASSUME AgentsAssumption == IsFiniteSet(Agents) /\ Agents = 1..Cardinality(Agents)
ASSUME BoundsAssumption == MaxGenerations \in Nat /\ MaxFaults \in Nat

Hosts == Threads \cup {Closer}

VARIABLES
  states,      \* HermeskillPlugin._states, by agent id
  slot,        \* _creating_sessions: the thread that registers the session
  generation,  \* _session_generations
  registry,    \* _REGISTRY, the supervised agents
  th,          \* what each thread is doing
  orphans,     \* registrations still running whose caller has given up
  loopUp,      \* _loop_thread runs
  closing,     \* shutdown: its stage, and the sessions it has still to end
  faults,
  overtaken,   \* history: threads whose registration a finalization has overtaken
  abandoned,   \* history: agents of registrations that outlasted the wait
  excused      \* history: sessions that saw a fault, a finalization or the shutdown

routerVars == <<states, slot, generation>>
histVars   == <<overtaken, abandoned, excused>>
vars == <<routerVars, registry, th, orphans, loopUp, closing, faults, histVars>>

(* bare: between hooks, the last of which ran without a state.  then: the  *)
(* session to set up next, of a reset.                                     *)
ThreadState == [at    : {"idle", "bare", "again", "waiting", "woken", "creating", "created", "ending"},
                sid   : Sessions,
                gen   : Nat,
                agent : Agents \cup {None},
                then  : SUBSET Sessions]

TypeOK ==
  /\ states \in [Sessions -> Agents \cup {None}]
  /\ slot \in [Sessions -> Threads \cup {Nobody}]
  /\ generation \in [Sessions -> Nat]
  /\ registry \subseteq Agents
  /\ th \in [Hosts -> ThreadState]
  /\ orphans \in 0..MaxFaults
  /\ loopUp \in BOOLEAN
  /\ closing \in [at : {"no", "ending", "closed"}, left : SUBSET Sessions]
  /\ faults \in 0..MaxFaults
  /\ overtaken \subseteq Threads
  /\ abandoned \subseteq Agents
  /\ excused \subseteq Sessions

Idle == [at |-> "idle", sid |-> CHOOSE s \in Sessions : TRUE, gen |-> 0, agent |-> None, then |-> {}]

(* The plugin has been registered and started: no session exists yet.      *)
Init ==
  /\ states = [s \in Sessions |-> None]
  /\ slot = [s \in Sessions |-> Nobody]
  /\ generation = [s \in Sessions |-> 0]
  /\ registry = {}
  /\ th = [t \in Hosts |-> Idle]
  /\ orphans = 0
  /\ loopUp = TRUE
  /\ closing = [at |-> "no", left |-> {}]
  /\ faults = 0
  /\ overtaken = {}
  /\ abandoned = {}
  /\ excused = {}

-----------------------------------------------------------------------------
(* ensure_session.                                                         *)

(* The hook has its state, or none and fails open.                         *)
Result(s, a) == IF a = None THEN [Idle EXCEPT !.at = "bare", !.sid = s] ELSE Idle

(* Slip: a hook that finds a registration under way goes without. *)
AwaitsNone(t, s) == th' = [th EXCEPT ![t] = Result(s, None)]

Awaits(t, s) ==
  th' = [th EXCEPT ![t] = [Idle EXCEPT !.at = "waiting", !.sid = s, !.gen = th[slot[s]].gen]]

(* The first critical section: the session has a state; or another thread  *)
(* is registering it, and its Event is waited for; or the slot is free and *)
(* this thread reserves it.                                                *)
Look(t, s) ==
  \/ /\ states[s] # None
     /\ th' = [th EXCEPT ![t] = Result(s, states[s])]
     /\ UNCHANGED slot
  \/ /\ states[s] = None /\ slot[s] # Nobody
     /\ Awaits(t, s)
     /\ UNCHANGED slot
  \/ /\ states[s] = None /\ slot[s] = Nobody
     /\ slot' = [slot EXCEPT ![s] = t]
     /\ th' = [th EXCEPT ![t] = [Idle EXCEPT !.at = "creating", !.sid = s, !.gen = generation[s]]]

Free(t) == th[t].at \in {"idle", "bare"}

Hook(t, s) ==
  /\ Free(t)
  /\ Look(t, s)
  /\ UNCHANGED <<states, generation, registry, orphans, loopUp, closing, faults, histVars>>

LookAgain(t) ==
  /\ th[t].at = "again"
  /\ Look(t, th[t].sid)
  /\ UNCHANGED <<states, generation, registry, orphans, loopUp, closing, faults, histVars>>

(* The Event was set.  If the session has been finalized since the         *)
(* creation was reserved, look again.                                      *)
Woken(t) ==
  LET s == th[t].sid
  IN  /\ th[t].at = "woken"
      /\ IF generation[s] # th[t].gen
         THEN th' = [th EXCEPT ![t].at = "again"]
         ELSE th' = [th EXCEPT ![t] = Result(s, states[s])]
      /\ UNCHANGED <<routerVars, registry, orphans, loopUp, closing, faults, histVars>>

(* _create_session_state: the control plane answers or cannot be reached   *)
(* (a local id is used then); the watcher is registered.                   *)
Fresh == Agents \ (registry \cup {states[s] : s \in Sessions} \cup {th[t].agent : t \in Hosts})
NewAgent == CHOOSE a \in Fresh : \A b \in Fresh : a <= b

Created(t) ==
  /\ th[t].at = "creating"
  /\ loopUp
  /\ Fresh # {}
  /\ registry' = registry \cup {NewAgent}
  /\ th' = [th EXCEPT ![t].at = "created", ![t].agent = NewAgent]
  /\ UNCHANGED <<routerVars, orphans, loopUp, closing, faults, histVars>>

(* Any other answer is an exception; a loop that is closed refuses the     *)
(* coroutine, or never runs it.                                            *)
CreateFails(t) ==
  /\ th[t].at = "creating"
  /\ \/ loopUp /\ faults < MaxFaults /\ faults' = faults + 1
     \/ ~loopUp /\ UNCHANGED faults
  /\ th' = [th EXCEPT ![t].at = "created", ![t].agent = None]
  /\ excused' = excused \cup {th[t].sid}
  /\ UNCHANGED <<routerVars, registry, orphans, loopUp, closing, overtaken, abandoned>>

(* 35 s are over.  Nobody cancels the coroutine.                           *)
CreateTimesOut(t) ==
  /\ th[t].at = "creating"
  /\ loopUp
  /\ faults < MaxFaults
  /\ faults' = faults + 1
  /\ orphans' = orphans + 1
  /\ th' = [th EXCEPT ![t].at = "created", ![t].agent = None]
  /\ excused' = excused \cup {th[t].sid}
  /\ UNCHANGED <<routerVars, registry, loopUp, closing, overtaken, abandoned>>

OrphanCreated ==
  /\ orphans > 0
  /\ loopUp
  /\ Fresh # {}
  /\ orphans' = orphans - 1
  /\ registry' = registry \cup {NewAgent}
  /\ abandoned' = abandoned \cup {NewAgent}
  /\ UNCHANGED <<routerVars, th, loopUp, closing, faults, overtaken, excused>>

(* The finally block: the slot is given back; the new state is installed,  *)
(* unless the session was finalized meanwhile or has a state already, and  *)
(* then its watcher is unregistered; and the Event is set.                 *)

(* Slip: only a creation that succeeded sets the Event. *)
WakeOnSuccess(t, u) == th[u].at = "waiting" /\ th[u].sid = th[t].sid /\ th[t].agent # None

Wakes(t, u) == th[u].at = "waiting" /\ th[u].sid = th[t].sid

(* Slip: the invalidated state is dropped, its watcher is not. *)
UnregistersNothing(a) == registry

Unregisters(a) == registry \ {a}

Install(t) ==
  LET s == th[t].sid
      a == th[t].agent
      kept == IF a = None \/ generation[s] # th[t].gen THEN None
              ELSE IF states[s] # None THEN states[s] ELSE a
  IN  /\ th[t].at = "created"
      /\ slot' = [slot EXCEPT ![s] = Nobody]
      /\ states' = IF kept = a /\ a # None THEN [states EXCEPT ![s] = a] ELSE states
      /\ registry' = IF kept = a THEN registry ELSE Unregisters(a)
      /\ th' = [u \in Hosts |->
                  IF u = t THEN Result(s, kept)
                  ELSE IF Wakes(t, u) THEN [th[u] EXCEPT !.at = "woken"] ELSE th[u]]
      /\ overtaken' = overtaken \ {t}
      /\ UNCHANGED <<generation, orphans, loopUp, closing, faults, abandoned, excused>>

-----------------------------------------------------------------------------
(* session_finalize.  In the lock the generation moves on and the state is *)
(* popped; the certificate and the vitals are written; and the watcher is  *)
(* unregistered.  A session with no state is done at once.                 *)

(* Slip: creations that began before are not invalidated. *)
InvalidateNone(s) == generation

Invalidate(s) == [generation EXCEPT ![s] = @ + 1]

(* Slip: the reset's arguments are passed on, not the session. *)
AfterUnpacked(then) ==
  IF then = {} THEN Idle ELSE [Idle EXCEPT !.at = "again", !.sid = then]

(* session_reset goes on with the new session, the others are done.        *)
After(then) ==
  IF then = {} THEN Idle ELSE [Idle EXCEPT !.at = "again", !.sid = CHOOSE s \in then : TRUE]

Finalize(t, s, then) ==
  /\ Free(t)
  /\ FoldFunction(+, 0, generation) < MaxGenerations
  /\ generation' = Invalidate(s)
  /\ states' = [states EXCEPT ![s] = None]
  /\ th' = [th EXCEPT ![t] =
              IF states[s] = None THEN After(then)
              ELSE [Idle EXCEPT !.at = "ending", !.sid = s, !.agent = states[s], !.then = then]]
  /\ excused' = excused \cup {s}
  /\ overtaken' = overtaken \cup ({slot[s]} \ {Nobody})

SessionFinalize(t, s) ==
  /\ Finalize(t, s, {})
  /\ UNCHANGED <<slot, registry, orphans, loopUp, closing, faults, abandoned>>

(* session_reset ends the old session, and then sets up the new one.       *)
SessionReset(t, old, new) ==
  /\ old # new
  /\ Finalize(t, old, {new})
  /\ UNCHANGED <<slot, registry, orphans, loopUp, closing, faults, abandoned>>

Unregister(t) ==
  /\ th[t].at = "ending"
  /\ registry' = registry \ {th[t].agent}
  /\ th' = [th EXCEPT ![t] = After(th[t].then)]
  /\ UNCHANGED <<routerVars, orphans, loopUp, closing, faults, histVars>>

-----------------------------------------------------------------------------
(* shutdown, at exit: the sessions are listed once and finalized one by    *)
(* one; then worker, poller and loop are stopped.  Hooks may still arrive. *)

Listed == {s \in Sessions : states[s] # None}

Shutdown ==
  /\ closing.at = "no"
  /\ closing' = [at |-> "ending", left |-> Listed]
  /\ excused' = Sessions
  /\ UNCHANGED <<routerVars, registry, th, orphans, loopUp, faults, overtaken, abandoned>>

ShutdownFinalize(s) ==
  /\ s \in closing.left
  /\ Finalize(Closer, s, {})
  /\ closing' = [closing EXCEPT !.left = @ \ {s}]
  /\ UNCHANGED <<slot, registry, orphans, loopUp, faults, abandoned>>

ShutdownClose ==
  /\ closing = [at |-> "ending", left |-> {}]
  /\ Free(Closer)
  /\ closing' = [closing EXCEPT !.at = "closed"]
  /\ loopUp' = FALSE
  /\ UNCHANGED <<routerVars, registry, th, orphans, faults, histVars>>

Progress(t) ==
  LookAgain(t) \/ Woken(t) \/ Created(t) \/ CreateFails(t) \/ CreateTimesOut(t) \/ Install(t)

Next ==
  \/ \E t \in Threads, s \in Sessions : Hook(t, s) \/ SessionFinalize(t, s)
  \/ \E t \in Threads, s, r \in Sessions : SessionReset(t, s, r)
  \/ \E t \in Threads : Progress(t)
  \/ \E t \in Hosts : Unregister(t)
  \/ OrphanCreated
  \/ Shutdown \/ ShutdownClose
  \/ \E s \in Sessions : ShutdownFinalize(s)

(* Threads and the loop go on; nothing makes a hook or a finalization come. *)
Fairness == \A t \in Threads : WF_vars(Progress(t)) /\ WF_vars(Unregister(t))

Spec == Init /\ [][Next]_vars /\ Fairness

-----------------------------------------------------------------------------
(* A registration that a finalization has overtaken never comes back as    *)
(* the session's state, whatever the hooks have done since.                *)
NoRevival ==
  [][\A s \in Sessions : states[s] = None /\ states'[s] # None => slot[s] \notin overtaken]_vars

(* Router and registry agree: what a session routes to can be found by the *)
(* kill poller, and every supervised agent is a session's, or one that is  *)
(* being set up or ended, or is left over from a registration that         *)
(* outlasted the 35 s.                                                     *)
RegistryAccounted ==
  /\ \A s \in Sessions : states[s] # None => states[s] \in registry
  /\ \A a \in registry : \/ \E s \in Sessions : states[s] = a
                         \/ \E t \in Hosts : th[t].at \in {"created", "ending"} /\ th[t].agent = a
                         \/ a \in abandoned

(* A hook runs without supervision only for a reason: ensure_session has a *)
(* state for it unless the session saw a failed registration, was          *)
(* finalized, or the process shuts down.                                   *)
SupervisedUnlessExcused == \A t \in Threads : th[t].at = "bare" => th[t].sid \in excused

(* Every hook that waits for another thread's registration returns.        *)
HooksReturn == \A t \in Threads : ~Free(t) ~> Free(t)
=============================================================================
