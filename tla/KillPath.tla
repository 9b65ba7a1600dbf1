------------------------------ MODULE KillPath -------------------------------
(***************************************************************************)
(* The kill path of one supervised session: the WatcherState of            *)
(* hermeskill/watcher.py, the hooks Hermes calls around every tool and LLM *)
(* call (hermeskill_hermes/plugin.py and bridge.py, approvals disabled),   *)
(* and the two background tasks that write to the same state, the          *)
(* heartbeat worker and the kill-pending poller.                           *)
(*                                                                         *)
(* Hooks run on Hermes' threads (Callers), the tasks on the plugin's loop  *)
(* thread.  Nothing but the event queue is locked, so a step here is what  *)
(* runs between two points where the interpreter may switch threads: the   *)
(* calls the code makes.  The event queue, the vitals file and the         *)
(* counters only they report are left to other parts of the project.       *)
(***************************************************************************)
EXTENDS SymptomChecks

CONSTANTS
  Callers,    \* Hermes threads that drive this session's hooks
  Grantable,  \* policy.apoptosis_proofing.allowed_symptoms
  Poller      \* the thread of the kill-pending poller

ASSUME CallerAssumption ==
  /\ Poller \notin Callers
  /\ (Callers \cup {Poller}) \cap {"ran", "refused"} = {}
ASSUME GrantableAssumption == Grantable \subseteq Symptoms

ManualKill == "manual kill"
NoReason   == "none"
Causes     == Symptoms \cup {ManualKill}

Writers == Callers \cup {Poller}   \* who may call request_termination

VARIABLES
  terminateRequested,  \* WatcherState.terminate_requested
  terminateReason,     \* WatcherState.terminate_reason
  manualKill,          \* WatcherState.manual_kill is not None
  requestLog,          \* apoptosis_requested entries of WatcherState.shutdown_log
  loopSignatures,      \* WatcherState.loop_signatures
  tokens, cost,        \* WatcherState.total_*_tokens, total_cost_usd, metered
  uptime,              \* WatcherState.uptime_seconds(), metered
  grants,              \* symptoms covered by WatcherState.grants
  routed,              \* the plugin's _states still has the session
  registered,          \* the watcher registry still has the state
  pc,                  \* where each writer is
  call,                \* locals of each caller's hook
  beat,                \* the heartbeat responses in flight: at most one
  serverGrants,        \* symptoms the control plane has active grants for
  pendingKill,         \* an INITIATED manual kill waits on the control plane
  certs,               \* local death certificates emitted so far
  fate,                \* history: what became of each entry of loopSignatures
  late                 \* history: tools each caller started after the kill, up to 2

termVars   == <<terminateRequested, terminateReason, manualKill, requestLog>>
meterVars  == <<loopSignatures, tokens, cost, uptime, fate>>
remoteVars == <<grants, beat, serverGrants, pendingKill>>
lifeVars   == <<routed, registered, certs>>
hookVars   == <<call, late>>
vars == <<termVars, meterVars, remoteVars, lifeVars, hookVars, pc>>

CallState == [sig       : Sigs,
              hook      : {"pre", "post"},
              terminals : SUBSET Symptoms,  \* Terminal verdicts left after grants
              steer     : BOOLEAN]

(* The locals of a caller no hook of which is running pre_tool_call.       *)
NoCall == [sig |-> CHOOSE s \in Sigs : TRUE, hook |-> "post", terminals |-> {}, steer |-> FALSE]

Certificates == [reason : Causes \cup {NoReason}, manual : BOOLEAN, logged : BOOLEAN]

(* An undecided call is marked with its caller.                            *)
Fates == Callers \cup {"ran", "refused"}

HookPC   == {"idle", "entered", "recorded", "posted", "checked", "claimed",
             "stamped", "deciding", "cleared", "running", "unrouted", "certified"}
PollerPC == {"idle", "served", "found", "claimed", "stamped"}

TypeOK ==
  /\ terminateRequested \in BOOLEAN
  /\ terminateReason \in Causes \cup {NoReason}
  /\ manualKill \in BOOLEAN
  /\ requestLog \in Nat
  /\ loopSignatures \in Seq(Sigs)
  /\ tokens \in 0..TokenCap
  /\ cost \in 0..CostCap
  /\ uptime \in 0..(RuntimeCap + 1)
  /\ grants \subseteq Symptoms
  /\ routed \in BOOLEAN
  /\ registered \in BOOLEAN
  /\ pc \in [Writers -> HookPC \cup PollerPC]
  /\ pc[Poller] \in PollerPC
  /\ \A c \in Callers : pc[c] \in HookPC
  /\ call \in [Callers -> CallState]
  /\ beat \subseteq SUBSET Symptoms
  /\ serverGrants \subseteq Symptoms
  /\ pendingKill \in BOOLEAN
  /\ certs \subseteq Certificates
  /\ fate \in Seq(Fates)
  /\ late \in [Callers -> Nat]

Init ==
  /\ terminateRequested = FALSE
  /\ terminateReason = NoReason
  /\ manualKill = FALSE
  /\ requestLog = 0
  /\ loopSignatures = <<>>
  /\ tokens = 0
  /\ cost = 0
  /\ uptime = 0
  /\ grants = {}
  /\ routed = TRUE
  /\ registered = TRUE
  /\ pc = [w \in Writers |-> "idle"]
  /\ call = [c \in Callers |-> NoCall]
  /\ beat = {}
  /\ serverGrants = {}
  /\ pendingKill = FALSE
  /\ certs = {}
  /\ fate = <<>>
  /\ late = [c \in Callers |-> 0]

-----------------------------------------------------------------------------
(* request_termination, up to its first call: the guard and the assignment *)
(* of flag, reason and kill_event_id run without a thread switch.  The     *)
(* clock read behind terminate_requested_at lets others in, so manual_kill *)
(* is written in a second step and the shutdown log in a third.            *)

Goto(w, l) == pc' = [pc EXCEPT ![w] = l]

(* Slip: the guard forgotten, so the last cause wins. *)
ClaimUnguarded(w, cause) ==
  /\ terminateRequested' = TRUE
  /\ terminateReason' = cause
  /\ Goto(w, "claimed")
  /\ UNCHANGED <<manualKill, requestLog, meterVars, remoteVars, lifeVars, hookVars>>

Claim(w, cause) ==
  /\ ~terminateRequested
  /\ terminateRequested' = TRUE
  /\ terminateReason' = cause
  /\ Goto(w, "claimed")
  /\ UNCHANGED <<manualKill, requestLog, meterVars, remoteVars, lifeVars, hookVars>>

Stamp(w) ==
  /\ pc[w] = "claimed"
  /\ manualKill' = (w = Poller)
  /\ Goto(w, "stamped")
  /\ UNCHANGED <<terminateRequested, terminateReason, requestLog>>
  /\ UNCHANGED <<meterVars, remoteVars, lifeVars, hookVars>>

(* request_termination has returned: pre_tool_call goes on to its verdict, *)
(* the other hooks and the poller are done.                                *)
Deciding(w) == w \in Callers /\ call[w].hook = "pre"

(* Slip: every request returns into pre_tool_call. *)
ResumeDeciding(w) == Goto(w, "deciding") /\ UNCHANGED call

Resume(w) ==
  /\ Goto(w, IF Deciding(w) THEN "deciding" ELSE "idle")
  /\ call' = [c \in Callers |-> IF c = w /\ ~Deciding(w) THEN NoCall ELSE call[c]]

LogRequest(w) ==
  /\ pc[w] = "stamped"
  /\ requestLog' = requestLog + 1
  /\ Resume(w)
  /\ UNCHANGED <<terminateRequested, terminateReason, manualKill>>
  /\ UNCHANGED <<meterVars, remoteVars, lifeVars, late>>

-----------------------------------------------------------------------------
(* pre_tool_call                                                           *)

(* Slip: a killed session is let through instead of refused. *)
PreToolCallFailsOpen(c, sig) ==
  /\ pc[c] = "idle"
  /\ routed
  /\ call' = [call EXCEPT ![c] = [@ EXCEPT !.sig = sig, !.hook = "pre"]]
  /\ Goto(c, IF terminateRequested THEN "cleared" ELSE "entered")
  /\ UNCHANGED <<termVars, meterVars, remoteVars, lifeVars, late>>

(* A killed session refuses the call here, before anything is recorded:    *)
(* the hook returns the block directive and no variable changes.           *)
PreToolCall(c, sig) ==
  /\ pc[c] = "idle"
  /\ routed
  /\ ~terminateRequested
  /\ call' = [call EXCEPT ![c] = [@ EXCEPT !.sig = sig, !.hook = "pre"]]
  /\ Goto(c, "entered")
  /\ UNCHANGED <<termVars, meterVars, remoteVars, lifeVars, late>>

RecordToolCall(c) ==
  /\ pc[c] = "entered"
  /\ loopSignatures' = Push(loopSignatures, call[c].sig)
  /\ fate' = Push(fate, c)
  /\ Goto(c, "recorded")
  /\ UNCHANGED <<termVars, tokens, cost, uptime, remoteVars, lifeVars, hookVars>>

(* check_tool_scope, run_all and apply_grants on the grants cached now.    *)
PreToolChecks(c) ==
  /\ pc[c] = "recorded"
  /\ LET found == ScopeTerminals(call[c].sig)
                    \cup StateTerminals(loopSignatures, cost, tokens, uptime)
     IN  call' = [call EXCEPT ![c] =
           [@ EXCEPT !.terminals = ApplyGrants(found, grants),
                     !.steer     = LoopSteer(loopSignatures) /\ Loop \notin grants]]
  /\ Goto(c, "checked")
  /\ UNCHANGED <<termVars, meterVars, remoteVars, lifeVars, late>>

Terminate(c) ==
  /\ pc[c] = "checked"
  /\ call[c].terminals # {}
  /\ Claim(c, FirstTerminal(call[c].terminals))

(* No Terminal verdict, or the session is already being killed.            *)
NoTermination(c) ==
  /\ pc[c] = "checked"
  /\ call[c].terminals = {} \/ terminateRequested
  /\ Resume(c)
  /\ UNCHANGED <<termVars, meterVars, remoteVars, lifeVars, late>>

(* What the hook returns to Hermes; a refused call is closed in fate.      *)
Settle(c, outcome) ==
  fate' = [i \in DOMAIN fate |-> IF fate[i] = c THEN outcome ELSE fate[i]]

Refuse(c) ==
  /\ Settle(c, "refused")
  /\ Goto(c, "idle")
  /\ UNCHANGED <<termVars, loopSignatures, tokens, cost, uptime>>
  /\ call' = [call EXCEPT ![c] = NoCall]
  /\ UNCHANGED <<remoteVars, lifeVars, late>>

BlockKilled(c) ==
  /\ pc[c] = "deciding"
  /\ terminateRequested
  /\ Refuse(c)

BlockSteered(c) ==
  /\ pc[c] = "deciding"
  /\ ~terminateRequested
  /\ call[c].steer
  /\ Refuse(c)

(* Slip: the verdict is taken without a last look at the flag. *)
AllowUnchecked(c) ==
  /\ pc[c] = "deciding"
  /\ ~call[c].steer
  /\ Goto(c, "cleared")
  /\ UNCHANGED <<termVars, meterVars, remoteVars, lifeVars, hookVars>>

Allow(c) ==
  /\ pc[c] = "deciding"
  /\ ~terminateRequested
  /\ ~call[c].steer
  /\ Goto(c, "cleared")
  /\ UNCHANGED <<termVars, meterVars, remoteVars, lifeVars, hookVars>>

(* Hermes runs the tool it was not told to block.                          *)
ToolStart(c) ==
  /\ pc[c] = "cleared"
  /\ Settle(c, "ran")
  /\ late' = [late EXCEPT ![c] = IF terminateRequested /\ @ < 2 THEN @ + 1 ELSE @]
  /\ Goto(c, "running")
  /\ UNCHANGED <<termVars, loopSignatures, tokens, cost, uptime>>
  /\ UNCHANGED <<remoteVars, lifeVars, call>>

-----------------------------------------------------------------------------
(* post_tool_call and post_api_request: record, then run the state checks. *)
(* Either may arm the kill; neither has a way to block.                    *)

(* A session finalized while the tool ran is not this session any more.    *)
PostToolCall(c) ==
  /\ pc[c] = "running"
  /\ call' = [call EXCEPT ![c] = NoCall]
  /\ Goto(c, IF routed THEN "posted" ELSE "idle")
  /\ UNCHANGED <<termVars, meterVars, remoteVars, lifeVars, late>>

(* One unit of usage, priced or, for an unknown model, free; or no usage.  *)
Usage == {[tokens |-> 0, cost |-> 0], [tokens |-> 1, cost |-> 0], [tokens |-> 1, cost |-> 1]}

PostApiRequest(c, u) ==
  /\ pc[c] = "idle"
  /\ routed
  /\ tokens' = Metered(tokens, u.tokens, TokenCap)
  /\ cost' = Metered(cost, u.cost, CostCap)
  /\ Goto(c, "posted")
  /\ UNCHANGED <<termVars, loopSignatures, uptime, fate, remoteVars, lifeVars, hookVars>>

PostChecks(c) ==
  /\ pc[c] = "posted"
  /\ LET found == StateTerminals(loopSignatures, cost, tokens, uptime)
     IN  call' = [call EXCEPT ![c] = [@ EXCEPT !.terminals = ApplyGrants(found, grants)]]
  /\ Goto(c, "checked")
  /\ UNCHANGED <<termVars, meterVars, remoteVars, lifeVars, late>>

-----------------------------------------------------------------------------
(* on_session_end and on_session_finalize                                  *)

Certificate == [reason |-> terminateReason, manual |-> manualKill,
                logged |-> requestLog > 0]

EmitCertificate ==
  certs' = IF terminateRequested THEN certs \cup {Certificate} ELSE certs

SessionEnd(c) ==
  /\ pc[c] = "idle"
  /\ routed
  /\ terminateRequested
  /\ EmitCertificate
  /\ UNCHANGED <<termVars, meterVars, remoteVars, routed, registered, hookVars, pc>>

SessionFinalize(c) ==
  /\ pc[c] = "idle"
  /\ routed
  /\ routed' = FALSE
  /\ Goto(c, "unrouted")
  /\ UNCHANGED <<termVars, meterVars, remoteVars, registered, certs, hookVars>>

FinalCertificate(c) ==
  /\ pc[c] = "unrouted"
  /\ EmitCertificate
  /\ Goto(c, "certified")
  /\ UNCHANGED <<termVars, meterVars, remoteVars, routed, registered, hookVars>>

UnregisterWatcher(c) ==
  /\ pc[c] = "certified"
  /\ registered' = FALSE
  /\ Goto(c, "idle")
  /\ UNCHANGED <<termVars, meterVars, remoteVars, routed, certs, hookVars>>

-----------------------------------------------------------------------------
(* The kill-pending poller: an answer of GET /kills/pending that names     *)
(* this agent, the registry lookup, the request.  A failed or empty poll   *)
(* changes nothing.                                                        *)

PollServed ==
  /\ pc[Poller] = "idle"
  /\ pendingKill
  /\ Goto(Poller, "served")
  /\ UNCHANGED <<termVars, meterVars, remoteVars, lifeVars, hookVars>>

PollLookup ==
  /\ pc[Poller] = "served"
  /\ Goto(Poller, IF registered /\ ~terminateRequested THEN "found" ELSE "idle")
  /\ UNCHANGED <<termVars, meterVars, remoteVars, lifeVars, hookVars>>

(* Slip: the first reason is kept, the operator context is not. *)
PollTerminateLate ==
  /\ pc[Poller] = "found"
  /\ terminateRequested' = TRUE
  /\ terminateReason' = IF terminateRequested THEN terminateReason ELSE ManualKill
  /\ Goto(Poller, "claimed")
  /\ UNCHANGED <<manualKill, requestLog, meterVars, remoteVars, lifeVars, hookVars>>

(* Slip: a granted session is spared the operator's kill. *)
PollTerminateUngranted ==
  /\ pc[Poller] = "found"
  /\ grants = {}
  /\ Claim(Poller, ManualKill)

PollTerminate ==
  /\ pc[Poller] = "found"
  /\ Claim(Poller, ManualKill)

PollLost ==
  /\ pc[Poller] = "found"
  /\ terminateRequested
  /\ Goto(Poller, "idle")
  /\ UNCHANGED <<termVars, meterVars, remoteVars, lifeVars, hookVars>>

-----------------------------------------------------------------------------
(* The heartbeat worker: the control plane answers with the grants active  *)
(* then; the worker replaces the cache when the answer arrives, or keeps   *)
(* the old one when the call fails.                                        *)

HeartbeatServed ==
  /\ beat = {}
  /\ registered
  /\ beat' = {serverGrants}
  /\ UNCHANGED <<termVars, meterVars, grants, serverGrants, pendingKill>>
  /\ UNCHANGED <<lifeVars, hookVars, pc>>

HeartbeatArrives ==
  /\ \E g \in beat : grants' = g
  /\ beat' = {}
  /\ UNCHANGED <<termVars, meterVars, serverGrants, pendingKill, lifeVars, hookVars, pc>>

HeartbeatFails ==
  /\ beat # {}
  /\ beat' = {}
  /\ UNCHANGED <<termVars, meterVars, grants, serverGrants, pendingKill>>
  /\ UNCHANGED <<lifeVars, hookVars, pc>>

-----------------------------------------------------------------------------
(* The surroundings: the operator, who grants, revokes and kills, and time *)

ChangeGrants ==
  /\ serverGrants' \in SUBSET Grantable
  /\ UNCHANGED <<termVars, meterVars, grants, beat, pendingKill, lifeVars, hookVars, pc>>

OperatorKill ==
  /\ ~pendingKill
  /\ pendingKill' = TRUE
  /\ UNCHANGED <<termVars, meterVars, grants, beat, serverGrants, lifeVars, hookVars, pc>>

Tick ==
  /\ uptime <= RuntimeCap
  /\ uptime' = uptime + 1
  /\ UNCHANGED <<termVars, loopSignatures, tokens, cost, fate, remoteVars>>
  /\ UNCHANGED <<lifeVars, hookVars, pc>>

-----------------------------------------------------------------------------

(* The steps a hook takes by itself once Hermes has called it.             *)
HookStep(c) ==
  \/ RecordToolCall(c)
  \/ PreToolChecks(c)
  \/ Terminate(c)
  \/ NoTermination(c)
  \/ Stamp(c)
  \/ LogRequest(c)
  \/ BlockKilled(c)
  \/ BlockSteered(c)
  \/ Allow(c)
  \/ PostChecks(c)
  \/ FinalCertificate(c)
  \/ UnregisterWatcher(c)

PollerStep ==
  \/ PollServed
  \/ PollLookup
  \/ PollTerminate
  \/ PollLost
  \/ Stamp(Poller)
  \/ LogRequest(Poller)

HeartbeatStep == HeartbeatServed \/ HeartbeatArrives \/ HeartbeatFails

HermesStep(c) ==
  \/ \E sig \in Sigs : PreToolCall(c, sig)
  \/ ToolStart(c)
  \/ PostToolCall(c)
  \/ \E u \in Usage : PostApiRequest(c, u)
  \/ SessionEnd(c)
  \/ SessionFinalize(c)

Environment == ChangeGrants \/ OperatorKill \/ Tick

Next ==
  \/ \E c \in Callers : HookStep(c) \/ HermesStep(c)
  \/ PollerStep
  \/ HeartbeatStep
  \/ Environment

Spec == Init /\ [][Next]_vars

(* The interpreter runs every thread, Hermes runs a tool it was not told   *)
(* to block, and a poll succeeds now and then: nothing else is promised.   *)
Fairness ==
  /\ WF_vars(PollerStep)
  /\ \A c \in Callers : WF_vars(HookStep(c)) /\ WF_vars(ToolStart(c))

FairSpec == Spec /\ Fairness

-----------------------------------------------------------------------------
(* Properties                                                              *)

(* First cause wins: once requested, a termination is never withdrawn and  *)
(* no later verdict or operator kill replaces its reason                   *)
(* (request_termination is called from every hook and from the poller).    *)
FirstCauseWins ==
  [][terminateRequested =>
       /\ terminateRequested'
       /\ terminateReason' = terminateReason]_vars

(* Who is inside request_termination, past its guard.                      *)
Requesting == {w \in Writers : pc[w] \in {"claimed", "stamped"}}

(* A termination has one author: when no request is half written, the log  *)
(* holds exactly the entry of the cause that won, and operator context is  *)
(* there if and only if that cause is the operator's kill.                 *)
OneAuthor ==
  /\ requestLog <= 1
  /\ terminateRequested /\ Requesting = {} =>
       /\ requestLog = 1
       /\ manualKill <=> terminateReason = ManualKill

(* A call a Terminal verdict condemned never runs, even when another       *)
(* thread or the poller wins the request, and after the kill each thread   *)
(* starts at most the one tool it had already been cleared for             *)
(* (pre_tool_call looks at the flag at entry and before its verdict).      *)
HarmBounded ==
  \A c \in Callers :
    /\ pc[c] \in {"cleared", "running"} => call[c].terminals = {}
    /\ late[c] <= 1

(* Grants bound what they may suppress: a tool outside the allowlist is    *)
(* cleared only if the policy lets operators grant tool scope, whatever    *)
(* the cache held and however stale it was.                                *)
ScopeEnforced ==
  \A c \in Callers :
    pc[c] \in {"cleared", "running"} /\ call[c].sig \notin InScope => Scope \in Grantable

(* Spend past a cap that no grant may excuse kills the session: it is dead *)
(* or the hook that metered the spend has yet to act on it.                *)
BudgetEnforced ==
  tokens > 0 /\ (cost = CostCap \/ tokens = TokenCap) /\ Runaway \notin Grantable =>
    \/ terminateRequested
    \/ \E c \in Callers : \/ pc[c] = "posted"
                          \/ pc[c] = "checked" /\ Runaway \in call[c].terminals

RanInWindow(sig) ==
  {i \in DOMAIN loopSignatures : loopSignatures[i] = sig /\ fate[i] = "ran"}

(* The kill line holds for executions: unless loops may be granted, one    *)
(* signature never runs max_loop_repeats times within a window, however    *)
(* the threads interleave between recording a call and checking it.        *)
RepeatsBelowKill ==
  Loop \notin Grantable =>
    \A sig \in Sigs : Cardinality(RanInWindow(sig)) < MaxRepeats

(* check_loop steers on the current call's signature reaching              *)
(* loop_steer_repeats, so a repeat at the steer line is always blocked and *)
(* never runs.                                                             *)
RepeatsBelowSteer ==
  Loop \notin Grantable =>
    \A sig \in Sigs : Cardinality(RanInWindow(sig)) < SteerAt

(* Every local certificate, from session_end or session_finalize, names    *)
(* the cause that first killed the session, and never shows operator       *)
(* context for a kill a symptom caused.                                    *)
CertificatesNameTheCause ==
  \A k \in certs :
    /\ terminateRequested
    /\ k.reason = terminateReason
    /\ k.manual => k.reason = ManualKill

Cause == IF terminateRequested THEN terminateReason ELSE NoReason
Cleared == {c \in Callers : pc[c] = "cleared"}
Named == {k.reason : k \in certs}

(* The hooks and the poller are one kill switch, however they interleave:  *)
(* a kill is never withdrawn nor its cause replaced, no call is let        *)
(* through after it, by whomever it was, and every certificate names that  *)
(* cause (watcher.py, request_termination; plugin.py, pre_tool_call).      *)
Switch == INSTANCE KillSwitch
            WITH Threads <- Callers, NoCause <- NoReason,
                 cause <- Cause, cleared <- Cleared, named <- Named
ImplementsSwitch == Switch!Spec

(* "The cert builder sees both the flag and the operator info atomically": *)
(* a certificate of an operator's kill carries the operator.               *)
ManualCertificatesCarryOperator ==
  \A k \in certs : k.reason = ManualKill => k.manual

(* An operator's kill reaches a live session whatever grants it holds: the *)
(* session dies, of this or another cause, or leaves the registry first.   *)
ManualKillLands == pendingKill ~> (terminateRequested \/ ~registered)

(* A killed session comes to rest: from some point on, no thread is ever   *)
(* again cleared to start a tool.                                          *)
KilledSessionStops == terminateRequested ~> [](\A c \in Callers : pc[c] # "cleared")
=============================================================================
