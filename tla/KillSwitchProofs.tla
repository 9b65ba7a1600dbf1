--------------------------- MODULE KillSwitchProofs --------------------------
(***************************************************************************)
(* KillPath implements KillSwitch: every step of a hook, of the poller, of *)
(* a heartbeat or of the surroundings is a step of the switch or a         *)
(* stutter.  A kill is a Claim, a clearance an Allow, a run a ToolStart,   *)
(* and both ends of a session certify.                                     *)
(***************************************************************************)
EXTENDS KillPathProofs

(* A killed session has a cause.                                           *)
CauseInv == terminateRequested => terminateReason \in Causes

(* A step that the switch does not see: a thread may move, but not to or   *)
(* from "cleared".                                                         *)
Quiet ==
  /\ UNCHANGED <<terminateRequested, terminateReason, certs>>
  /\ \/ pc' = pc
     \/ \E w \in Writers, l \in (HookPC \cup PollerPC) \ {"cleared"} :
          pc[w] # "cleared" /\ Goto(w, l)

switchVars == <<Cause, Cleared, Named>>

USE DEF vars, termVars, meterVars, remoteVars, lifeVars, hookVars

(* "none" is no cause.                                                     *)
LEMMA Names ==
  /\ NoReason \notin Causes
  /\ Symptoms \subseteq Causes /\ ManualKill \in Causes
BY DEF NoReason, Causes, ManualKill, Symptoms, Scope, Loop, Runaway, WallClock

(* Only a thread that moves to or from "cleared" changes what is cleared.  *)
LEMMA MovesQuietly ==
  ASSUME TypeOK, NEW w \in Writers, NEW l, l # "cleared", pc[w] # "cleared", Goto(w, l)
  PROVE  Cleared' = Cleared
<1>1. pc \in [Writers -> HookPC \cup PollerPC] /\ pc' = [pc EXCEPT ![w] = l]
  BY DEF TypeOK, Goto
<1>2. \A c \in Callers : pc'[c] = "cleared" <=> pc[c] = "cleared"
  BY <1>1 DEF Writers
<1>. QED BY <1>2 DEF Cleared

(* A quiet step is a stutter of the switch.                                *)
LEMMA QuietStutters ==
  ASSUME TypeOK, CauseInv, Quiet
  PROVE  CauseInv' /\ UNCHANGED switchVars
<1>1. Cleared' = Cleared
  BY MovesQuietly DEF Quiet, Cleared
<1>. QED BY <1>1 DEF Cause, Quiet, CauseInv, switchVars, Named

(* request_termination.                                                    *)
LEMMA ClaimKills ==
  ASSUME TypeOK, RequestInv, CauseInv, NEW w \in Writers, NEW cause \in Causes,
         pc[w] # "cleared", Claim(w, cause)
  PROVE  CauseInv' /\ Switch!Kill
<1>1. terminateReason = NoReason /\ terminateReason' = cause /\ terminateRequested' /\ certs' = certs
  BY DEF Claim, RequestInv
<1>2. Cleared' = Cleared
  BY MovesQuietly DEF Claim
<1>. QED BY <1>1, <1>2 DEF Cause, CauseInv, Switch!Kill, Named

(* The two sites that write a certificate.                                 *)
LEMMA EmitCertifies ==
  ASSUME CauseInv, UNCHANGED <<terminateRequested, terminateReason>>, Cleared' = Cleared, EmitCertificate
  PROVE  CauseInv' /\ (Switch!Certify \/ UNCHANGED switchVars)
<1>1. CASE terminateRequested
  <2>1. Cause = terminateReason /\ Cause # NoReason
    BY <1>1, Names DEF CauseInv, Cause
  <2>2. PICK k : k = Certificate
    OBVIOUS
  <2>3. certs' = certs \cup {k} /\ k.reason = terminateReason
    BY <1>1, <2>2 DEF EmitCertificate, Certificate
  <2>4. Named' = Named \cup {terminateReason}
    BY <2>3 DEF Named
  <2>. QED BY <2>1, <2>4 DEF Cause, CauseInv, Switch!Certify
<1>2. CASE ~terminateRequested
  BY <1>2 DEF Cause, EmitCertificate, CauseInv, switchVars, Named
<1>. QED BY <1>1, <1>2

-----------------------------------------------------------------------------
(* What each actor's steps are to the switch.                              *)

(* request_termination returns.                                            *)
LEMMA ReturnsQuietly ==
  ASSUME TypeOK, NEW w \in Writers, pc[w] # "cleared", Resume(w),
         UNCHANGED <<terminateRequested, terminateReason, certs>>
  PROVE  Quiet
<1>1. CASE Deciding(w)
  BY <1>1 DEF Resume, Quiet, HookPC
<1>2. CASE ~Deciding(w)
  BY <1>2 DEF Resume, Quiet, HookPC
<1>. QED BY <1>1, <1>2

(* A hook kills, clears or certifies, or nobody sees it.                   *)
LEMMA HookSwitches ==
  ASSUME Inv, CauseInv, NEW c \in Callers, HookStep(c)
  PROVE  CauseInv' /\ [Switch!Next]_switchVars
<1>1. TypeOK /\ RequestInv /\ c \in Writers
  BY DEF Inv, Writers
<1>2. CASE RecordToolCall(c) \/ PreToolChecks(c) \/ PostChecks(c)
  <2>1. Quiet
    BY <1>1, <1>2 DEF RecordToolCall, PreToolChecks, PostChecks, Quiet, HookPC
  <2>. QED BY <1>1, <2>1, QuietStutters
<1>3. CASE Stamp(c) \/ UnregisterWatcher(c)
  <2>1. Quiet
    BY <1>1, <1>3 DEF Stamp, UnregisterWatcher, Quiet, HookPC
  <2>. QED BY <1>1, <2>1, QuietStutters
<1>4. CASE NoTermination(c) \/ LogRequest(c)
  <2>1. Quiet
    BY <1>1, <1>4, ReturnsQuietly DEF NoTermination, LogRequest
  <2>. QED BY <1>1, <2>1, QuietStutters
<1>5. CASE BlockKilled(c) \/ BlockSteered(c)
  <2>1. Quiet
    BY <1>1, <1>5 DEF BlockKilled, BlockSteered, Refuse, Quiet, HookPC
  <2>. QED BY <1>1, <2>1, QuietStutters
<1>6. CASE Terminate(c)
  <2>1. PICK cause : cause = FirstTerminal(call[c].terminals)
    OBVIOUS
  <2>2. cause \in Causes
    <3>1. call[c].terminals \in SUBSET Symptoms /\ call[c].terminals # {}
      BY <1>1, <1>6 DEF Terminate, TypeOK, CallState
    <3>. QED BY <2>1, <3>1, FirstTerminalIn, Names
  <2>. QED BY <1>1, <1>6, <2>1, <2>2, ClaimKills DEF Terminate, Switch!Next
<1>7. CASE Allow(c)
  <2>1. /\ UNCHANGED <<terminateRequested, terminateReason, certs>>
        /\ terminateReason = NoReason /\ pc' = [pc EXCEPT ![c] = "cleared"]
    BY <1>1, <1>7 DEF Allow, RequestInv, Goto
  <2>2. Cleared' = Cleared \cup {c}
    BY <1>1, <2>1 DEF TypeOK, Cleared, Writers
  <2>3. Named' = Named
    BY <2>1 DEF Named
  <2>. QED BY <2>1, <2>2, <2>3 DEF Cause, CauseInv, Switch!Next, Switch!Clear
<1>8. CASE FinalCertificate(c)
  <2>1. Cleared' = Cleared
    BY <1>1, <1>8, MovesQuietly DEF FinalCertificate
  <2>. QED BY <1>8, <2>1, EmitCertifies DEF FinalCertificate, Switch!Next
<1>. QED BY <1>2, <1>3, <1>4, <1>5, <1>6, <1>7, <1>8 DEF HookStep

(* Hermes runs what was cleared, or ends the session.                      *)
LEMMA HermesSwitches ==
  ASSUME Inv, CauseInv, NEW c \in Callers, HermesStep(c)
  PROVE  CauseInv' /\ [Switch!Next]_switchVars
<1>1. TypeOK /\ RequestInv /\ c \in Writers
  BY DEF Inv, Writers
<1>2. CASE (\E sig \in Sigs : PreToolCall(c, sig)) \/ (\E u \in Usage : PostApiRequest(c, u)) \/ SessionFinalize(c)
  <2>1. Quiet
    BY <1>1, <1>2 DEF PreToolCall, PostApiRequest, SessionFinalize, Quiet, HookPC
  <2>. QED BY <1>1, <2>1, QuietStutters
<1>3. CASE PostToolCall(c)
  <2>1. Quiet
    <3>1. CASE routed
      BY <1>1, <1>3, <3>1 DEF PostToolCall, Quiet, HookPC
    <3>2. CASE ~routed
      BY <1>1, <1>3, <3>2 DEF PostToolCall, Quiet, HookPC
    <3>. QED BY <3>1, <3>2
  <2>. QED BY <1>1, <2>1, QuietStutters
<1>4. CASE ToolStart(c)
  <2>1. /\ UNCHANGED <<terminateRequested, terminateReason, certs>>
        /\ pc[c] = "cleared" /\ pc' = [pc EXCEPT ![c] = "running"]
    BY <1>4 DEF ToolStart, Goto
  <2>2. Cleared' = Cleared \ {c} /\ c \in Cleared
    BY <1>1, <2>1 DEF TypeOK, Cleared, Writers
  <2>3. Named' = Named
    BY <2>1 DEF Named
  <2>. QED BY <2>1, <2>2, <2>3 DEF Cause, CauseInv, Switch!Next, Switch!Run
<1>5. CASE SessionEnd(c)
  <2>1. Cleared' = Cleared
    BY <1>5 DEF SessionEnd, Cleared
  <2>. QED BY <1>5, <2>1, EmitCertifies DEF SessionEnd, Switch!Next
<1>. QED BY <1>2, <1>3, <1>4, <1>5 DEF HermesStep

(* The poller kills, or nobody sees it.                                    *)
LEMMA PollerSwitches ==
  ASSUME Inv, CauseInv, PollerStep
  PROVE  CauseInv' /\ [Switch!Next]_switchVars
<1>1. TypeOK /\ RequestInv /\ Poller \in Writers
  BY DEF Inv, Writers
<1>2. CASE PollServed \/ PollLost \/ Stamp(Poller)
  <2>1. Quiet
    BY <1>1, <1>2 DEF PollServed, PollLost, Stamp, Quiet, PollerPC
  <2>. QED BY <1>1, <2>1, QuietStutters
<1>3. CASE PollLookup
  <2>1. Quiet
    <3>1. CASE registered /\ ~terminateRequested
      BY <1>1, <1>3, <3>1 DEF PollLookup, Quiet, PollerPC
    <3>2. CASE ~(registered /\ ~terminateRequested)
      BY <1>1, <1>3, <3>2 DEF PollLookup, Quiet, PollerPC
    <3>. QED BY <3>1, <3>2
  <2>. QED BY <1>1, <2>1, QuietStutters
<1>4. CASE LogRequest(Poller)
  <2>1. Quiet
    BY <1>1, <1>4, ReturnsQuietly DEF LogRequest
  <2>. QED BY <1>1, <2>1, QuietStutters
<1>5. CASE PollTerminate
  BY <1>1, <1>5, ClaimKills, Names DEF PollTerminate, Switch!Next
<1>. QED BY <1>2, <1>3, <1>4, <1>5 DEF PollerStep

(* Heartbeats, grants, operators and time do not touch the switch.         *)
LEMMA OthersStutter ==
  ASSUME Inv, CauseInv, HeartbeatStep \/ Environment \/ UNCHANGED vars
  PROVE  CauseInv' /\ [Switch!Next]_switchVars
<1>1. Quiet
  BY DEF HeartbeatStep, HeartbeatServed, HeartbeatArrives, HeartbeatFails,
         Environment, ChangeGrants, OperatorKill, Tick, Quiet
<1>. QED BY <1>1, QuietStutters DEF Inv

-----------------------------------------------------------------------------
(* However hooks, poller, heartbeats and the ends of the session           *)
(* interleave, they are one kill switch: request_termination is its only   *)
(* kill, no call is let through after it (plugin.py, pre_tool_call), and   *)
(* certificates name its cause (plugin.py, _emit_local_cert).              *)
THEOREM SwitchImplemented == Spec => ImplementsSwitch
<1>1. Init => CauseInv /\ Switch!Init
  BY DEF Cause, Init, CauseInv, Switch!Init, Cleared, Named, Writers
<1>2. Inv /\ CauseInv /\ [Next]_vars => CauseInv' /\ [Switch!Next]_switchVars
  BY HookSwitches, HermesSwitches, PollerSwitches, OthersStutter DEF Next
<1>. QED BY <1>1, <1>2, Invariance, PTL DEF Spec, ImplementsSwitch, Switch!Spec, switchVars
=============================================================================
