--------------------------- MODULE KillPathProofs ----------------------------
(* Theorems about KillPath and their proofs. *)
EXTENDS KillPath, SequenceTheorems, TLAPS

(* What every step is read through.                                        *)
USE DEF vars, termVars, meterVars, remoteVars, lifeVars, hookVars, Goto

LEMMA NoCallType == NoCall \in CallState
  BY ScopeAssumption DEF NoCall, CallState, Symptoms

LEMMA FirstTerminalIn ==
  ASSUME NEW T \in SUBSET Symptoms, T # {}
  PROVE  FirstTerminal(T) \in T
<1>1. \E s \in T : \A t \in T : Rank[s] <= Rank[t]
  <2>1. CASE Scope \in T
    BY <2>1 DEF Symptoms, Rank, Scope, Loop, Runaway, WallClock
  <2>2. CASE Scope \notin T /\ Loop \in T
    BY <2>2 DEF Symptoms, Rank, Scope, Loop, Runaway, WallClock
  <2>3. CASE Scope \notin T /\ Loop \notin T /\ Runaway \in T
    BY <2>3 DEF Symptoms, Rank, Scope, Loop, Runaway, WallClock
  <2>4. CASE T = {WallClock}
    BY <2>4 DEF Symptoms, Rank, Scope, Loop, Runaway, WallClock
  <2>. QED BY <2>1, <2>2, <2>3, <2>4 DEF Symptoms
<1>. QED BY <1>1 DEF FirstTerminal

LEMMA PushType ==
  ASSUME NEW S, NEW win \in Seq(S), NEW x \in S
  PROVE  Push(win, x) \in Seq(S)
<1>1. CASE Len(win) < Window
  BY <1>1, AppendProperties DEF Push
<1>2. CASE ~(Len(win) < Window)
  <2>1. win # <<>>
    BY <1>2, ThresholdAssumption
  <2>2. Tail(win) \in Seq(S)
    BY <2>1, HeadTailProperties
  <2>. QED BY <1>2, <2>2, AppendProperties DEF Push
<1>. QED BY <1>1, <1>2

LEMMA MeteredType ==
  ASSUME NEW cap \in Nat, NEW now \in 0..cap, NEW delta \in {0, 1}
  PROVE  Metered(now, delta, cap) \in 0..cap
  BY DEF Metered

LEMMA SettleType ==
  ASSUME fate \in Seq(Fates), NEW c \in Callers, NEW outcome \in {"ran", "refused"},
         Settle(c, outcome)
  PROVE  fate' \in Seq(Fates)
<1>1. \A i \in 1..Len(fate) : fate[i] \in Fates
  BY ElementOfSeq
<1>2. fate' = [i \in 1..Len(fate) |-> IF fate[i] = c THEN outcome ELSE fate[i]]
  BY LenProperties DEF Settle
<1>3. fate' \in [1..Len(fate) -> Fates]
  BY <1>1, <1>2 DEF Fates
<1>. QED BY <1>3, LenProperties

LEMMA EnteringType ==
  ASSUME NEW r \in CallState, NEW sig \in Sigs
  PROVE  [r EXCEPT !.sig = sig, !.hook = "pre"] \in CallState
  BY DEF CallState

LEMMA PostVerdictType ==
  ASSUME NEW r \in CallState, NEW T \in SUBSET Symptoms
  PROVE  [r EXCEPT !.terminals = T] \in CallState
  BY DEF CallState

LEMMA PreVerdictType ==
  ASSUME NEW r \in CallState, NEW T \in SUBSET Symptoms, NEW b \in BOOLEAN
  PROVE  [r EXCEPT !.terminals = T, !.steer = b] \in CallState
  BY DEF CallState

LEMMA CertificateType ==
  ASSUME TypeOK, EmitCertificate
  PROVE  certs' \subseteq Certificates
<1>1. Certificate \in Certificates
  BY DEF TypeOK, Certificate, Certificates
<1>. QED BY <1>1 DEF TypeOK, EmitCertificate

LEMMA InitType ==
  ASSUME Init
  PROVE  TypeOK
<1>1. /\ loopSignatures \in Seq(Sigs)
      /\ fate \in Seq(Fates)
      /\ certs \subseteq Certificates
  BY DEF Init
<1>2. /\ pc \in [Writers -> HookPC \cup PollerPC]
      /\ pc[Poller] \in PollerPC
      /\ \A c \in Callers : pc[c] \in HookPC
  BY DEF Init, Writers, HookPC, PollerPC
<1>3. call \in [Callers -> CallState] /\ late \in [Callers -> Nat]
  BY NoCallType DEF Init
<1>4. /\ tokens \in 0..TokenCap
      /\ cost \in 0..CostCap
      /\ uptime \in 0..(RuntimeCap + 1)
      /\ requestLog \in Nat
  BY CapAssumption DEF Init
<1>. QED BY <1>1, <1>2, <1>3, <1>4 DEF Init, TypeOK

LEMMA TypeStep ==
  ASSUME TypeOK, [Next]_vars
  PROVE  TypeOK'
<1>1. ASSUME NEW c \in Callers, RecordToolCall(c) PROVE TypeOK'
  BY <1>1, CallerAssumption, PushType
     DEF RecordToolCall, TypeOK, Writers, HookPC, PollerPC, CallState, Fates
<1>2. ASSUME NEW c \in Callers, PreToolChecks(c) PROVE TypeOK'
  <2> DEFINE found == ApplyGrants(ScopeTerminals(call[c].sig)
                        \cup StateTerminals(loopSignatures, cost, tokens, uptime),
                            grants)
             nudge == LoopSteer(loopSignatures) /\ Loop \notin grants
  <2>1. found \in SUBSET Symptoms
    BY DEF ApplyGrants, ScopeTerminals, StateTerminals, Symptoms
  <2>2. nudge \in BOOLEAN
    OBVIOUS
  <2> DEFINE checked == [call[c] EXCEPT !.terminals = found, !.steer = nudge]
  <2>3. call' = [call EXCEPT ![c] = checked]
    BY <1>2 DEF PreToolChecks
  <2>. HIDE DEF found, nudge
  <2>4. checked \in CallState
    BY <2>1, <2>2, PreVerdictType DEF TypeOK
  <2>. HIDE DEF checked
  <2>5. call' \in [Callers -> CallState]
    BY <2>3, <2>4 DEF TypeOK
  <2>. QED
    BY <1>2, <2>5, CallerAssumption
       DEF PreToolChecks, TypeOK, Writers, HookPC, PollerPC
<1>3. ASSUME NEW c \in Callers, Terminate(c) PROVE TypeOK'
  <2>1. FirstTerminal(call[c].terminals) \in Causes
    BY <1>3, FirstTerminalIn DEF Terminate, TypeOK, CallState, Causes
  <2>. QED
    BY <1>3, <2>1, CallerAssumption
       DEF Terminate, Claim, TypeOK, Writers, HookPC, PollerPC
<1>4. ASSUME NEW c \in Callers, NoTermination(c) PROVE TypeOK'
  BY <1>4, CallerAssumption, NoCallType
     DEF NoTermination, TypeOK, Writers, HookPC, PollerPC, Resume, Deciding
<1>5. ASSUME NEW c \in Callers, BlockKilled(c) PROVE TypeOK'
  <2>1. fate' \in Seq(Fates)
    BY <1>5, SettleType DEF BlockKilled, Refuse, TypeOK
  <2>2. call' \in [Callers -> CallState]
    BY <1>5, NoCallType DEF BlockKilled, Refuse, TypeOK
  <2>. QED
    BY <1>5, <2>1, <2>2, CallerAssumption
       DEF BlockKilled, Refuse, TypeOK, Writers, HookPC, PollerPC
<1>6. ASSUME NEW c \in Callers, BlockSteered(c) PROVE TypeOK'
  <2>1. fate' \in Seq(Fates)
    BY <1>6, SettleType DEF BlockSteered, Refuse, TypeOK
  <2>2. call' \in [Callers -> CallState]
    BY <1>6, NoCallType DEF BlockSteered, Refuse, TypeOK
  <2>. QED
    BY <1>6, <2>1, <2>2, CallerAssumption
       DEF BlockSteered, Refuse, TypeOK, Writers, HookPC, PollerPC
<1>7. ASSUME NEW c \in Callers, Allow(c) PROVE TypeOK'
  BY <1>7, CallerAssumption
     DEF Allow, TypeOK, Writers, HookPC, PollerPC
<1>8. ASSUME NEW c \in Callers, PostChecks(c) PROVE TypeOK'
  <2> DEFINE found == ApplyGrants(StateTerminals(loopSignatures, cost, tokens,
      uptime), grants)
  <2>1. found \in SUBSET Symptoms
    BY DEF ApplyGrants, StateTerminals, Symptoms
  <2> DEFINE checked == [call[c] EXCEPT !.terminals = found]
  <2>2. call' = [call EXCEPT ![c] = checked]
    BY <1>8 DEF PostChecks
  <2>. HIDE DEF found
  <2>3. checked \in CallState
    BY <2>1, PostVerdictType DEF TypeOK
  <2>. HIDE DEF checked
  <2>4. call' \in [Callers -> CallState]
    BY <2>2, <2>3 DEF TypeOK
  <2>. QED
    BY <1>8, <2>4, CallerAssumption
       DEF PostChecks, TypeOK, Writers, HookPC, PollerPC
<1>9. ASSUME NEW c \in Callers, FinalCertificate(c) PROVE TypeOK'
  BY <1>9, CallerAssumption, CertificateType
     DEF FinalCertificate, TypeOK, Writers, HookPC, PollerPC
<1>10. ASSUME NEW c \in Callers, UnregisterWatcher(c) PROVE TypeOK'
  BY <1>10, CallerAssumption
     DEF UnregisterWatcher, TypeOK, Writers, HookPC, PollerPC
<1>11. ASSUME NEW w \in Writers, Stamp(w) PROVE TypeOK'
  BY <1>11, CallerAssumption
     DEF Stamp, TypeOK, Writers, HookPC, PollerPC
<1>12. ASSUME NEW w \in Writers, LogRequest(w) PROVE TypeOK'
  BY <1>12, CallerAssumption, NoCallType
     DEF LogRequest, TypeOK, Writers, HookPC, PollerPC, Resume, Deciding
<1>13. ASSUME NEW c \in Callers, NEW sig \in Sigs, PreToolCall(c, sig) PROVE TypeOK'
  <2>1. [call[c] EXCEPT !.sig = sig, !.hook = "pre"] \in CallState
    BY EnteringType DEF TypeOK
  <2>2. call' \in [Callers -> CallState]
    BY <1>13, <2>1 DEF PreToolCall, TypeOK
  <2>. QED
    BY <1>13, <2>2, CallerAssumption
       DEF PreToolCall, TypeOK, Writers, HookPC, PollerPC
<1>14. ASSUME NEW c \in Callers, ToolStart(c) PROVE TypeOK'
  BY <1>14, CallerAssumption, SettleType
     DEF ToolStart, TypeOK, Writers, HookPC, PollerPC
<1>15. ASSUME NEW c \in Callers, PostToolCall(c) PROVE TypeOK'
  <2>1. call' \in [Callers -> CallState]
    BY <1>15, NoCallType DEF PostToolCall, TypeOK
  <2>. QED
    BY <1>15, <2>1, CallerAssumption
       DEF PostToolCall, TypeOK, Writers, HookPC, PollerPC
<1>16. ASSUME NEW c \in Callers, NEW u \in Usage, PostApiRequest(c, u) PROVE TypeOK'
  <2>1. u.tokens \in {0, 1} /\ u.cost \in {0, 1}
    BY DEF Usage
  <2>2. Metered(tokens, u.tokens, TokenCap) \in 0..TokenCap
    BY <2>1, CapAssumption, MeteredType DEF TypeOK
  <2>3. Metered(cost, u.cost, CostCap) \in 0..CostCap
    BY <2>1, CapAssumption, MeteredType DEF TypeOK
  <2>. QED
    BY <1>16, <2>2, <2>3, CallerAssumption
       DEF PostApiRequest, TypeOK, Writers, HookPC, PollerPC
<1>17. ASSUME NEW c \in Callers, SessionEnd(c) PROVE TypeOK'
  BY <1>17, CertificateType
     DEF SessionEnd, TypeOK
<1>18. ASSUME NEW c \in Callers, SessionFinalize(c) PROVE TypeOK'
  BY <1>18, CallerAssumption
     DEF SessionFinalize, TypeOK, Writers, HookPC, PollerPC
<1>19. ASSUME PollServed PROVE TypeOK'
  BY <1>19, CallerAssumption
     DEF PollServed, TypeOK, Writers, HookPC, PollerPC
<1>20. ASSUME PollLookup PROVE TypeOK'
  BY <1>20, CallerAssumption
     DEF PollLookup, TypeOK, Writers, HookPC, PollerPC
<1>21. ASSUME PollTerminate PROVE TypeOK'
  BY <1>21, CallerAssumption
     DEF PollTerminate, TypeOK, Writers, HookPC, PollerPC, Claim, Causes
<1>22. ASSUME PollLost PROVE TypeOK'
  BY <1>22, CallerAssumption
     DEF PollLost, TypeOK, Writers, HookPC, PollerPC
<1>23. ASSUME HeartbeatServed PROVE TypeOK'
  BY <1>23 DEF HeartbeatServed, TypeOK
<1>24. ASSUME HeartbeatArrives PROVE TypeOK'
  BY <1>24 DEF HeartbeatArrives, TypeOK
<1>25. ASSUME HeartbeatFails PROVE TypeOK'
  BY <1>25 DEF HeartbeatFails, TypeOK
<1>26. ASSUME ChangeGrants PROVE TypeOK'
  BY <1>26, GrantableAssumption
     DEF ChangeGrants, TypeOK
<1>27. ASSUME OperatorKill PROVE TypeOK'
  BY <1>27 DEF OperatorKill, TypeOK
<1>28. ASSUME Tick PROVE TypeOK'
  BY <1>28, CapAssumption
     DEF Tick, TypeOK
<1>29. CASE UNCHANGED vars
  BY <1>29 DEF TypeOK
<1>. QED
  BY <1>1, <1>2, <1>3, <1>4, <1>5, <1>6, <1>7, <1>8, <1>9, <1>10, <1>11, <1>12,
      <1>13, <1>14, <1>15, <1>16, <1>17, <1>18, <1>19, <1>20, <1>21, <1>22, <1>23,
      <1>24, <1>25, <1>26, <1>27, <1>28, <1>29 DEF Next, HookStep, HermesStep,
      PollerStep, HeartbeatStep, Environment, Writers

-----------------------------------------------------------------------------
(* The inductive invariant.  Its parts follow the protocol of              *)
(* request_termination, the two points where pre_tool_call looks at the    *)
(* flag, and the bound the policy puts on what a grant can cover.          *)

(* Nobody is inside request_termination before the flag is set; after it,  *)
(* one writer at most is, and what it has written so far is its own.       *)
RequestInv ==
  /\ ~terminateRequested => /\ terminateReason = NoReason
                            /\ ~manualKill
                            /\ requestLog = 0
                            /\ Requesting = {}
  /\ requestLog \in {0, 1}
  /\ \A v, w \in Requesting : v = w
  /\ \A w \in Requesting :
       /\ requestLog = 0
       /\ terminateReason = ManualKill <=> w = Poller
       /\ manualKill <=> pc[w] = "stamped" /\ w = Poller
  /\ terminateRequested /\ Requesting = {} =>
       /\ requestLog = 1
       /\ manualKill <=> terminateReason = ManualKill

(* What the locals of a hook say of where it is.                           *)
HookInv ==
  \A c \in Callers :
    /\ pc[c] \in {"entered", "recorded", "deciding", "cleared", "running"} =>
        call[c].hook = "pre"
    /\ pc[c] \in {"idle", "posted", "unrouted", "certified"} => call[c].hook = "post"

(* A condemned call passes the decision only with the flag set, and a      *)
(* thread that has started a tool after the kill is not cleared again.     *)
HarmInv ==
  \A c \in Callers :
    /\ pc[c] \in {"claimed", "stamped"} => terminateRequested
    /\ pc[c] = "deciding" /\ call[c].terminals # {} => terminateRequested
    /\ pc[c] \in {"cleared", "running"} => call[c].terminals = {}
    /\ late[c] \in {0, 1}
    /\ late[c] = 1 => terminateRequested /\ pc[c] # "cleared"

CertInv ==
  \A k \in certs :
    /\ terminateRequested
    /\ k.reason = terminateReason
    /\ k.manual => k.reason = ManualKill

(* Every set of grants, on the server, in flight or cached, is one the     *)
(* policy allows.                                                          *)
GrantInv ==
  /\ serverGrants \subseteq Grantable
  /\ grants \subseteq Grantable
  /\ \A g \in beat : g \subseteq Grantable

(* A checked call that is out of scope keeps its verdict to the end.       *)
ScopeInv ==
  \A c \in Callers :
    /\ pc[c] \in {"checked", "claimed", "stamped", "deciding", "cleared", "running"}
    /\ call[c].hook = "pre"
    /\ call[c].sig \notin InScope
    /\ Scope \notin Grantable
    => Scope \in call[c].terminals

LEMMA GrantStep ==
  ASSUME GrantInv, [Next]_vars
  PROVE  GrantInv'
<1>1. ASSUME
       \/ HeartbeatServed \/ HeartbeatArrives \/ HeartbeatFails \/ ChangeGrants
     PROVE  GrantInv'
   BY <1>1
      DEF HeartbeatServed, HeartbeatArrives, HeartbeatFails, ChangeGrants, GrantInv
<1>2. ASSUME NEW c \in Callers,
       \/ RecordToolCall(c) \/ PreToolChecks(c) \/ Terminate(c) \/ NoTermination(c)
       \/ BlockKilled(c) \/ BlockSteered(c) \/ Allow(c) \/ PostChecks(c)
       \/ FinalCertificate(c) \/ UnregisterWatcher(c) \/ ToolStart(c)
       \/ PostToolCall(c) \/ SessionEnd(c) \/ SessionFinalize(c)
     PROVE  GrantInv'
   BY <1>2
      DEF RecordToolCall, PreToolChecks, Terminate, NoTermination, BlockKilled,
         BlockSteered, Allow, PostChecks, FinalCertificate, UnregisterWatcher,
         ToolStart, PostToolCall, SessionEnd, SessionFinalize, GrantInv, Claim,
         Refuse
<1>3. ASSUME NEW w \in Writers,
       \/ Stamp(w) \/ LogRequest(w)
     PROVE  GrantInv'
   BY <1>3 DEF Stamp, LogRequest, GrantInv
<1>4. ASSUME NEW c \in Callers, NEW sig \in Sigs, PreToolCall(c, sig) PROVE GrantInv'
   BY <1>4 DEF PreToolCall, GrantInv
<1>5. ASSUME NEW c \in Callers, NEW u \in Usage, PostApiRequest(c, u) PROVE GrantInv'
   BY <1>5 DEF PostApiRequest, GrantInv
<1>6. ASSUME
       \/ PollServed \/ PollLookup \/ PollTerminate \/ PollLost \/ OperatorKill \/ Tick
     PROVE  GrantInv'
   BY <1>6
      DEF PollServed, PollLookup, PollTerminate, PollLost, OperatorKill, Tick,
         GrantInv, Claim
<1>7. CASE UNCHANGED vars
   BY <1>7 DEF GrantInv
<1>. QED
   BY <1>1, <1>2, <1>3, <1>4, <1>5, <1>6, <1>7
      DEF Next, HookStep, HermesStep, PollerStep, HeartbeatStep, Environment,
         Writers

LEMMA HookInvStep ==
  ASSUME TypeOK, HookInv, [Next]_vars
  PROVE  HookInv'
<1>1. ASSUME NEW c \in Callers, RecordToolCall(c) PROVE HookInv'
   BY <1>1, CallerAssumption
      DEF RecordToolCall, HookInv, TypeOK, Writers, HookPC, PollerPC
<1>2. ASSUME NEW c \in Callers, PreToolChecks(c) PROVE HookInv'
   BY <1>2, CallerAssumption
      DEF PreToolChecks, HookInv, TypeOK, Writers, HookPC, PollerPC
<1>3. ASSUME NEW c \in Callers, Terminate(c) PROVE HookInv'
   BY <1>3, CallerAssumption
      DEF Terminate, HookInv, TypeOK, Writers, HookPC, PollerPC, Claim
<1>4. ASSUME NEW c \in Callers, NoTermination(c) PROVE HookInv'
   BY <1>4, CallerAssumption
      DEF NoTermination, HookInv, TypeOK, Writers, HookPC, PollerPC, NoCall, Resume,
         Deciding
<1>5. ASSUME NEW c \in Callers, BlockKilled(c) PROVE HookInv'
   BY <1>5, CallerAssumption
      DEF BlockKilled, HookInv, TypeOK, Writers, HookPC, PollerPC, Refuse, NoCall
<1>6. ASSUME NEW c \in Callers, BlockSteered(c) PROVE HookInv'
   BY <1>6, CallerAssumption
      DEF BlockSteered, HookInv, TypeOK, Writers, HookPC, PollerPC, Refuse, NoCall
<1>7. ASSUME NEW c \in Callers, Allow(c) PROVE HookInv'
   BY <1>7, CallerAssumption
      DEF Allow, HookInv, TypeOK, Writers, HookPC, PollerPC
<1>8. ASSUME NEW c \in Callers, PostChecks(c) PROVE HookInv'
   BY <1>8, CallerAssumption
      DEF PostChecks, HookInv, TypeOK, Writers, HookPC, PollerPC
<1>9. ASSUME NEW c \in Callers, FinalCertificate(c) PROVE HookInv'
   BY <1>9, CallerAssumption
      DEF FinalCertificate, HookInv, TypeOK, Writers, HookPC, PollerPC
<1>10. ASSUME NEW c \in Callers, UnregisterWatcher(c) PROVE HookInv'
   BY <1>10, CallerAssumption
      DEF UnregisterWatcher, HookInv, TypeOK, Writers, HookPC, PollerPC
<1>11. ASSUME NEW w \in Writers, Stamp(w) PROVE HookInv'
   BY <1>11, CallerAssumption
      DEF Stamp, HookInv, TypeOK, Writers, HookPC, PollerPC
<1>12. ASSUME NEW w \in Writers, LogRequest(w) PROVE HookInv'
   BY <1>12, CallerAssumption
      DEF LogRequest, HookInv, TypeOK, Writers, HookPC, PollerPC, NoCall, Resume,
         Deciding
<1>13. ASSUME NEW c \in Callers, NEW sig \in Sigs, PreToolCall(c, sig) PROVE HookInv'
   BY <1>13, CallerAssumption
      DEF PreToolCall, HookInv, TypeOK, Writers, HookPC, PollerPC
<1>14. ASSUME NEW c \in Callers, ToolStart(c) PROVE HookInv'
   BY <1>14, CallerAssumption
      DEF ToolStart, HookInv, TypeOK, Writers, HookPC, PollerPC
<1>15. ASSUME NEW c \in Callers, PostToolCall(c) PROVE HookInv'
   BY <1>15, CallerAssumption
      DEF PostToolCall, HookInv, TypeOK, Writers, HookPC, PollerPC, NoCall
<1>16. ASSUME NEW c \in Callers, NEW u \in Usage, PostApiRequest(c, u) PROVE HookInv'
   BY <1>16, CallerAssumption
      DEF PostApiRequest, HookInv, TypeOK, Writers, HookPC, PollerPC
<1>17. ASSUME NEW c \in Callers, SessionEnd(c) PROVE HookInv'
   BY <1>17, CallerAssumption
      DEF SessionEnd, HookInv, TypeOK, Writers, HookPC, PollerPC
<1>18. ASSUME NEW c \in Callers, SessionFinalize(c) PROVE HookInv'
   BY <1>18, CallerAssumption
      DEF SessionFinalize, HookInv, TypeOK, Writers, HookPC, PollerPC
<1>19. ASSUME
       \/ HeartbeatServed \/ HeartbeatArrives \/ HeartbeatFails \/ ChangeGrants
       \/ OperatorKill \/ Tick \/ PollServed \/ PollLookup \/ PollTerminate \/ PollLost
     PROVE  HookInv'
   BY <1>19, CallerAssumption
      DEF HeartbeatServed, HeartbeatArrives, HeartbeatFails, ChangeGrants,
         OperatorKill, Tick, PollServed, PollLookup, PollTerminate, PollLost,
         HookInv, TypeOK, Writers, Claim
<1>20. CASE UNCHANGED vars
   BY <1>20 DEF HookInv
<1>. QED
   BY <1>1, <1>2, <1>3, <1>4, <1>5, <1>6, <1>7, <1>8, <1>9, <1>10, <1>11, <1>12,
      <1>13, <1>14, <1>15, <1>16, <1>17, <1>18, <1>19, <1>20
      DEF Next, HookStep, HermesStep, PollerStep, HeartbeatStep, Environment,
         Writers

LEMMA RequestStep ==
  ASSUME TypeOK, RequestInv, [Next]_vars
  PROVE  RequestInv'
<1>1. ASSUME NEW c \in Callers, RecordToolCall(c) PROVE RequestInv'
   BY <1>1, CallerAssumption
      DEF RecordToolCall, RequestInv, Requesting, TypeOK, Writers, HookPC, PollerPC
<1>2. ASSUME NEW c \in Callers, PreToolChecks(c) PROVE RequestInv'
   BY <1>2, CallerAssumption
      DEF PreToolChecks, RequestInv, Requesting, TypeOK, Writers, HookPC, PollerPC
<1>3. ASSUME NEW c \in Callers, NoTermination(c) PROVE RequestInv'
   BY <1>3, CallerAssumption
      DEF NoTermination, RequestInv, Requesting, TypeOK, Writers, HookPC, PollerPC,
         Resume
<1>4. ASSUME NEW c \in Callers, BlockKilled(c) PROVE RequestInv'
   BY <1>4, CallerAssumption
      DEF BlockKilled, RequestInv, Requesting, TypeOK, Writers, HookPC, PollerPC,
         Refuse
<1>5. ASSUME NEW c \in Callers, BlockSteered(c) PROVE RequestInv'
   BY <1>5, CallerAssumption
      DEF BlockSteered, RequestInv, Requesting, TypeOK, Writers, HookPC, PollerPC,
         Refuse
<1>6. ASSUME NEW c \in Callers, Allow(c) PROVE RequestInv'
   BY <1>6, CallerAssumption
      DEF Allow, RequestInv, Requesting, TypeOK, Writers, HookPC, PollerPC
<1>7. ASSUME NEW c \in Callers, PostChecks(c) PROVE RequestInv'
   BY <1>7, CallerAssumption
      DEF PostChecks, RequestInv, Requesting, TypeOK, Writers, HookPC, PollerPC
<1>8. ASSUME NEW c \in Callers, FinalCertificate(c) PROVE RequestInv'
   BY <1>8, CallerAssumption
      DEF FinalCertificate, RequestInv, Requesting, TypeOK, Writers, HookPC,
         PollerPC
<1>9. ASSUME NEW c \in Callers, UnregisterWatcher(c) PROVE RequestInv'
   BY <1>9, CallerAssumption
      DEF UnregisterWatcher, RequestInv, Requesting, TypeOK, Writers, HookPC,
         PollerPC
<1>10. ASSUME NEW c \in Callers, ToolStart(c) PROVE RequestInv'
   BY <1>10, CallerAssumption
      DEF ToolStart, RequestInv, Requesting, TypeOK, Writers, HookPC, PollerPC
<1>11. ASSUME NEW c \in Callers, PostToolCall(c) PROVE RequestInv'
   BY <1>11, CallerAssumption
      DEF PostToolCall, RequestInv, Requesting, TypeOK, Writers, HookPC, PollerPC
<1>12. ASSUME NEW c \in Callers, SessionFinalize(c) PROVE RequestInv'
   BY <1>12, CallerAssumption
      DEF SessionFinalize, RequestInv, Requesting, TypeOK, Writers, HookPC,
         PollerPC
<1>13. ASSUME NEW c \in Callers, NEW sig \in Sigs, PreToolCall(c, sig) PROVE RequestInv'
   BY <1>13, CallerAssumption
      DEF PreToolCall, RequestInv, Requesting, TypeOK, Writers, HookPC, PollerPC
<1>14. ASSUME NEW c \in Callers, NEW u \in Usage, PostApiRequest(c, u) PROVE RequestInv'
   BY <1>14, CallerAssumption
      DEF PostApiRequest, RequestInv, Requesting, TypeOK, Writers, HookPC, PollerPC
<1>15. ASSUME NEW c \in Callers, SessionEnd(c) PROVE RequestInv'
   BY <1>15, CallerAssumption
      DEF SessionEnd, RequestInv, Requesting, TypeOK, Writers, HookPC, PollerPC
<1>16. ASSUME
       \/ PollServed \/ PollLookup \/ PollLost
     PROVE  RequestInv'
   BY <1>16, CallerAssumption
      DEF PollServed, PollLookup, PollLost, RequestInv, Requesting, TypeOK, Writers,
         HookPC, PollerPC
<1>17. ASSUME
       \/ HeartbeatServed \/ HeartbeatArrives \/ HeartbeatFails \/ ChangeGrants
       \/ OperatorKill \/ Tick
     PROVE  RequestInv'
   BY <1>17
      DEF HeartbeatServed, HeartbeatArrives, HeartbeatFails, ChangeGrants,
         OperatorKill, Tick, RequestInv, Requesting, TypeOK, Writers, HookPC,
         PollerPC
<1>18. ASSUME NEW c \in Callers, Terminate(c) PROVE RequestInv'
  <2>1. FirstTerminal(call[c].terminals) \in Symptoms
    BY <1>18, FirstTerminalIn DEF Terminate, TypeOK, CallState
  <2>2. FirstTerminal(call[c].terminals) # ManualKill
    BY <2>1 DEF Symptoms, Scope, Loop, Runaway, WallClock, ManualKill
  <2>. QED
    BY <1>18, <2>2, CallerAssumption
       DEF Terminate, Claim, RequestInv, Requesting, TypeOK, Writers
<1>19. ASSUME PollTerminate PROVE RequestInv'
   BY <1>19, CallerAssumption
      DEF PollTerminate, RequestInv, Requesting, TypeOK, Writers, HookPC, PollerPC,
         Claim
<1>20. ASSUME NEW w \in Writers, Stamp(w) PROVE RequestInv'
   BY <1>20, CallerAssumption
      DEF Stamp, RequestInv, Requesting, TypeOK, Writers, HookPC, PollerPC
<1>21. ASSUME NEW w \in Writers, LogRequest(w) PROVE RequestInv'
   BY <1>21, CallerAssumption
      DEF LogRequest, RequestInv, Requesting, TypeOK, Writers, HookPC, PollerPC,
         Resume, Deciding
<1>22. CASE UNCHANGED vars
   BY <1>22 DEF RequestInv, Requesting
<1>. QED
   BY <1>1, <1>2, <1>3, <1>4, <1>5, <1>6, <1>7, <1>8, <1>9, <1>10, <1>11, <1>12,
      <1>13, <1>14, <1>15, <1>16, <1>17, <1>18, <1>19, <1>20, <1>21, <1>22
      DEF Next, HookStep, HermesStep, PollerStep, HeartbeatStep, Environment,
         Writers

LEMMA HarmStep ==
  ASSUME TypeOK, RequestInv, HookInv, HarmInv, [Next]_vars
  PROVE  HarmInv'
<1>1. ASSUME NEW c \in Callers, RecordToolCall(c) PROVE HarmInv'
   BY <1>1, CallerAssumption
      DEF RecordToolCall, HarmInv, TypeOK, Writers, HookPC, PollerPC, HookInv,
         RequestInv, Requesting
<1>2. ASSUME NEW c \in Callers, PreToolChecks(c) PROVE HarmInv'
   BY <1>2, CallerAssumption
      DEF PreToolChecks, HarmInv, TypeOK, Writers, HookPC, PollerPC, HookInv,
         RequestInv, Requesting
<1>3. ASSUME NEW c \in Callers, Terminate(c) PROVE HarmInv'
   BY <1>3, CallerAssumption
      DEF Terminate, HarmInv, TypeOK, Writers, HookPC, PollerPC, HookInv,
         RequestInv, Requesting, Claim
<1>4. ASSUME NEW c \in Callers, NoTermination(c) PROVE HarmInv'
   BY <1>4, CallerAssumption
      DEF NoTermination, HarmInv, TypeOK, Writers, HookPC, PollerPC, HookInv,
         RequestInv, Requesting, Resume, Deciding, NoCall
<1>5. ASSUME NEW c \in Callers, BlockKilled(c) PROVE HarmInv'
   BY <1>5, CallerAssumption
      DEF BlockKilled, HarmInv, TypeOK, Writers, HookPC, PollerPC, HookInv,
         RequestInv, Requesting, Refuse, NoCall
<1>6. ASSUME NEW c \in Callers, BlockSteered(c) PROVE HarmInv'
   BY <1>6, CallerAssumption
      DEF BlockSteered, HarmInv, TypeOK, Writers, HookPC, PollerPC, HookInv,
         RequestInv, Requesting, Refuse, NoCall
<1>7. ASSUME NEW c \in Callers, Allow(c) PROVE HarmInv'
   BY <1>7, CallerAssumption
      DEF Allow, HarmInv, TypeOK, Writers, HookPC, PollerPC, HookInv, RequestInv,
         Requesting
<1>8. ASSUME NEW c \in Callers, PostChecks(c) PROVE HarmInv'
   BY <1>8, CallerAssumption
      DEF PostChecks, HarmInv, TypeOK, Writers, HookPC, PollerPC, HookInv,
         RequestInv, Requesting
<1>9. ASSUME NEW c \in Callers, FinalCertificate(c) PROVE HarmInv'
   BY <1>9, CallerAssumption
      DEF FinalCertificate, HarmInv, TypeOK, Writers, HookPC, PollerPC, HookInv,
         RequestInv, Requesting
<1>10. ASSUME NEW c \in Callers, UnregisterWatcher(c) PROVE HarmInv'
   BY <1>10, CallerAssumption
      DEF UnregisterWatcher, HarmInv, TypeOK, Writers, HookPC, PollerPC, HookInv,
         RequestInv, Requesting
<1>11. ASSUME NEW w \in Writers, Stamp(w) PROVE HarmInv'
   BY <1>11, CallerAssumption
      DEF Stamp, HarmInv, TypeOK, Writers, HookPC, PollerPC, HookInv, RequestInv,
         Requesting
<1>12. ASSUME NEW w \in Writers, LogRequest(w) PROVE HarmInv'
   BY <1>12, CallerAssumption
      DEF LogRequest, HarmInv, TypeOK, Writers, HookPC, PollerPC, HookInv,
         RequestInv, Requesting, Resume, Deciding, NoCall
<1>13. ASSUME NEW c \in Callers, NEW sig \in Sigs, PreToolCall(c, sig) PROVE HarmInv'
   BY <1>13, CallerAssumption
      DEF PreToolCall, HarmInv, TypeOK, Writers, HookPC, PollerPC, HookInv,
         RequestInv, Requesting
<1>14. ASSUME NEW c \in Callers, ToolStart(c) PROVE HarmInv'
   BY <1>14, CallerAssumption
      DEF ToolStart, HarmInv, TypeOK, Writers, HookPC, PollerPC, HookInv,
         RequestInv, Requesting
<1>15. ASSUME NEW c \in Callers, PostToolCall(c) PROVE HarmInv'
   BY <1>15, CallerAssumption
      DEF PostToolCall, HarmInv, TypeOK, Writers, HookPC, PollerPC, HookInv,
         RequestInv, Requesting, NoCall
<1>16. ASSUME NEW c \in Callers, NEW u \in Usage, PostApiRequest(c, u) PROVE HarmInv'
   BY <1>16, CallerAssumption
      DEF PostApiRequest, HarmInv, TypeOK, Writers, HookPC, PollerPC, HookInv,
         RequestInv, Requesting
<1>17. ASSUME NEW c \in Callers, SessionEnd(c) PROVE HarmInv'
   BY <1>17, CallerAssumption
      DEF SessionEnd, HarmInv, TypeOK, Writers, HookPC, PollerPC, HookInv,
         RequestInv, Requesting
<1>18. ASSUME NEW c \in Callers, SessionFinalize(c) PROVE HarmInv'
   BY <1>18, CallerAssumption
      DEF SessionFinalize, HarmInv, TypeOK, Writers, HookPC, PollerPC, HookInv,
         RequestInv, Requesting
<1>19. ASSUME
       \/ HeartbeatServed \/ HeartbeatArrives \/ HeartbeatFails \/ ChangeGrants
       \/ OperatorKill \/ Tick \/ PollServed \/ PollLookup \/ PollTerminate \/ PollLost
     PROVE  HarmInv'
   BY <1>19, CallerAssumption
      DEF HeartbeatServed, HeartbeatArrives, HeartbeatFails, ChangeGrants,
         OperatorKill, Tick, PollServed, PollLookup, PollTerminate, PollLost,
         HarmInv, TypeOK, Writers, HookPC, PollerPC, Claim
<1>20. CASE UNCHANGED vars
   BY <1>20 DEF HarmInv
<1>. QED
   BY <1>1, <1>2, <1>3, <1>4, <1>5, <1>6, <1>7, <1>8, <1>9, <1>10, <1>11, <1>12,
      <1>13, <1>14, <1>15, <1>16, <1>17, <1>18, <1>19, <1>20
      DEF Next, HookStep, HermesStep, PollerStep, HeartbeatStep, Environment,
         Writers

LEMMA CertStep ==
  ASSUME RequestInv, CertInv, [Next]_vars
  PROVE  CertInv'
<1>1. ASSUME NEW c \in Callers,
       \/ RecordToolCall(c) \/ PreToolChecks(c) \/ NoTermination(c) \/ BlockKilled(c)
       \/ BlockSteered(c) \/ Allow(c) \/ PostChecks(c) \/ UnregisterWatcher(c)
       \/ ToolStart(c) \/ PostToolCall(c) \/ SessionFinalize(c)
     PROVE  CertInv'
   BY <1>1
      DEF RecordToolCall, PreToolChecks, NoTermination, BlockKilled, BlockSteered,
         Allow, PostChecks, UnregisterWatcher, ToolStart, PostToolCall,
         SessionFinalize, CertInv, Refuse
<1>2. ASSUME NEW w \in Writers,
       \/ Stamp(w) \/ LogRequest(w)
     PROVE  CertInv'
   BY <1>2 DEF Stamp, LogRequest, CertInv
<1>3. ASSUME NEW c \in Callers, NEW sig \in Sigs, PreToolCall(c, sig) PROVE CertInv'
   BY <1>3 DEF PreToolCall, CertInv
<1>4. ASSUME NEW c \in Callers, NEW u \in Usage, PostApiRequest(c, u) PROVE CertInv'
   BY <1>4 DEF PostApiRequest, CertInv
<1>5. ASSUME
       \/ PollServed \/ PollLookup \/ PollLost \/ HeartbeatServed \/ HeartbeatArrives
       \/ HeartbeatFails \/ ChangeGrants \/ OperatorKill \/ Tick
     PROVE  CertInv'
   BY <1>5
      DEF PollServed, PollLookup, PollLost, HeartbeatServed, HeartbeatArrives,
         HeartbeatFails, ChangeGrants, OperatorKill, Tick, CertInv
<1>6. ASSUME NEW c \in Callers, Terminate(c) PROVE CertInv'
   BY <1>6 DEF Terminate, CertInv, Claim
<1>7. ASSUME PollTerminate PROVE CertInv'
   BY <1>7 DEF PollTerminate, CertInv, Claim
<1>8. ASSUME NEW c \in Callers,
       \/ SessionEnd(c) \/ FinalCertificate(c)
     PROVE  CertInv'
  <2>1. manualKill => terminateReason = ManualKill
    BY DEF RequestInv, Requesting
  <2>. QED
    BY <1>8, <2>1 DEF SessionEnd, FinalCertificate, EmitCertificate, Certificate,
        CertInv
<1>9. CASE UNCHANGED vars
   BY <1>9 DEF CertInv
<1>. QED
   BY <1>1, <1>2, <1>3, <1>4, <1>5, <1>6, <1>7, <1>8, <1>9
      DEF Next, HookStep, HermesStep, PollerStep, HeartbeatStep, Environment,
         Writers

LEMMA ScopeStep ==
  ASSUME TypeOK, GrantInv, HookInv, ScopeInv, [Next]_vars
  PROVE  ScopeInv'
<1>1. ASSUME NEW c \in Callers, RecordToolCall(c) PROVE ScopeInv'
   BY <1>1, CallerAssumption
      DEF RecordToolCall, ScopeInv, TypeOK, Writers, HookPC, PollerPC, HookInv
<1>2. ASSUME NEW c \in Callers, PreToolChecks(c) PROVE ScopeInv'
  <2>1. call[c].sig \notin InScope /\ Scope \notin Grantable => Scope \in
      call'[c].terminals
    BY <1>2 DEF PreToolChecks, TypeOK, CallState, ApplyGrants, ScopeTerminals, GrantInv
  <2>2. call'[c].sig = call[c].sig
    BY <1>2 DEF PreToolChecks, TypeOK, CallState
  <2>3. \A d \in Callers \ {c} : call'[d] = call[d] /\ pc'[d] = pc[d]
    BY <1>2 DEF PreToolChecks, TypeOK, Writers
  <2>. QED
    BY <2>1, <2>2, <2>3 DEF ScopeInv
<1>3. ASSUME NEW c \in Callers, Terminate(c) PROVE ScopeInv'
   BY <1>3, CallerAssumption
      DEF Terminate, ScopeInv, TypeOK, Writers, HookPC, PollerPC, HookInv, Claim
<1>4. ASSUME NEW c \in Callers, NoTermination(c) PROVE ScopeInv'
   BY <1>4, CallerAssumption
      DEF NoTermination, ScopeInv, TypeOK, Writers, HookPC, PollerPC, HookInv,
         Resume, Deciding, NoCall
<1>5. ASSUME NEW c \in Callers, BlockKilled(c) PROVE ScopeInv'
   BY <1>5, CallerAssumption
      DEF BlockKilled, ScopeInv, TypeOK, Writers, HookPC, PollerPC, HookInv, Refuse,
         NoCall
<1>6. ASSUME NEW c \in Callers, BlockSteered(c) PROVE ScopeInv'
   BY <1>6, CallerAssumption
      DEF BlockSteered, ScopeInv, TypeOK, Writers, HookPC, PollerPC, HookInv,
         Refuse, NoCall
<1>7. ASSUME NEW c \in Callers, Allow(c) PROVE ScopeInv'
   BY <1>7, CallerAssumption
      DEF Allow, ScopeInv, TypeOK, Writers, HookPC, PollerPC, HookInv
<1>8. ASSUME NEW c \in Callers, PostChecks(c) PROVE ScopeInv'
   BY <1>8, CallerAssumption
      DEF PostChecks, ScopeInv, TypeOK, Writers, HookPC, PollerPC, HookInv
<1>9. ASSUME NEW c \in Callers, FinalCertificate(c) PROVE ScopeInv'
   BY <1>9, CallerAssumption
      DEF FinalCertificate, ScopeInv, TypeOK, Writers, HookPC, PollerPC, HookInv
<1>10. ASSUME NEW c \in Callers, UnregisterWatcher(c) PROVE ScopeInv'
   BY <1>10, CallerAssumption
      DEF UnregisterWatcher, ScopeInv, TypeOK, Writers, HookPC, PollerPC, HookInv
<1>11. ASSUME NEW w \in Writers, Stamp(w) PROVE ScopeInv'
   BY <1>11, CallerAssumption
      DEF Stamp, ScopeInv, TypeOK, Writers, HookPC, PollerPC, HookInv
<1>12. ASSUME NEW w \in Writers, LogRequest(w) PROVE ScopeInv'
   BY <1>12, CallerAssumption
      DEF LogRequest, ScopeInv, TypeOK, Writers, HookPC, PollerPC, HookInv, Resume,
         Deciding, NoCall
<1>13. ASSUME NEW c \in Callers, NEW sig \in Sigs, PreToolCall(c, sig) PROVE ScopeInv'
   BY <1>13, CallerAssumption
      DEF PreToolCall, ScopeInv, TypeOK, Writers, HookPC, PollerPC, HookInv
<1>14. ASSUME NEW c \in Callers, ToolStart(c) PROVE ScopeInv'
   BY <1>14, CallerAssumption
      DEF ToolStart, ScopeInv, TypeOK, Writers, HookPC, PollerPC, HookInv
<1>15. ASSUME NEW c \in Callers, PostToolCall(c) PROVE ScopeInv'
   BY <1>15, CallerAssumption
      DEF PostToolCall, ScopeInv, TypeOK, Writers, HookPC, PollerPC, HookInv,
         NoCall
<1>16. ASSUME NEW c \in Callers, NEW u \in Usage, PostApiRequest(c, u) PROVE ScopeInv'
   BY <1>16, CallerAssumption
      DEF PostApiRequest, ScopeInv, TypeOK, Writers, HookPC, PollerPC, HookInv
<1>17. ASSUME NEW c \in Callers, SessionEnd(c) PROVE ScopeInv'
   BY <1>17, CallerAssumption
      DEF SessionEnd, ScopeInv, TypeOK, Writers, HookPC, PollerPC, HookInv
<1>18. ASSUME NEW c \in Callers, SessionFinalize(c) PROVE ScopeInv'
   BY <1>18, CallerAssumption
      DEF SessionFinalize, ScopeInv, TypeOK, Writers, HookPC, PollerPC, HookInv
<1>19. ASSUME
       \/ HeartbeatServed \/ HeartbeatArrives \/ HeartbeatFails \/ ChangeGrants
       \/ OperatorKill \/ Tick \/ PollServed \/ PollLookup \/ PollTerminate \/ PollLost
     PROVE  ScopeInv'
   BY <1>19, CallerAssumption
      DEF HeartbeatServed, HeartbeatArrives, HeartbeatFails, ChangeGrants,
         OperatorKill, Tick, PollServed, PollLookup, PollTerminate, PollLost,
         ScopeInv, TypeOK, Writers, HookPC, PollerPC, Claim
<1>20. CASE UNCHANGED vars
   BY <1>20 DEF ScopeInv
<1>. QED
   BY <1>1, <1>2, <1>3, <1>4, <1>5, <1>6, <1>7, <1>8, <1>9, <1>10, <1>11, <1>12,
      <1>13, <1>14, <1>15, <1>16, <1>17, <1>18, <1>19, <1>20
      DEF Next, HookStep, HermesStep, PollerStep, HeartbeatStep, Environment,
         Writers

LEMMA BudgetStep ==
  ASSUME TypeOK, GrantInv, BudgetEnforced, [Next]_vars
  PROVE  BudgetEnforced'
<1>1. ASSUME NEW c \in Callers, RecordToolCall(c) PROVE BudgetEnforced'
   BY <1>1, CallerAssumption
      DEF RecordToolCall, BudgetEnforced, TypeOK, Writers, HookPC, PollerPC
<1>2. ASSUME NEW c \in Callers, PreToolChecks(c) PROVE BudgetEnforced'
   BY <1>2, CallerAssumption
      DEF PreToolChecks, BudgetEnforced, TypeOK, Writers, HookPC, PollerPC
<1>3. ASSUME NEW c \in Callers, Terminate(c) PROVE BudgetEnforced'
   BY <1>3, CallerAssumption
      DEF Terminate, BudgetEnforced, TypeOK, Writers, HookPC, PollerPC, Claim
<1>4. ASSUME NEW c \in Callers, NoTermination(c) PROVE BudgetEnforced'
   BY <1>4, CallerAssumption
      DEF NoTermination, BudgetEnforced, TypeOK, Writers, HookPC, PollerPC, Resume,
         Deciding
<1>5. ASSUME NEW c \in Callers, BlockKilled(c) PROVE BudgetEnforced'
   BY <1>5, CallerAssumption
      DEF BlockKilled, BudgetEnforced, TypeOK, Writers, HookPC, PollerPC, Refuse
<1>6. ASSUME NEW c \in Callers, BlockSteered(c) PROVE BudgetEnforced'
   BY <1>6, CallerAssumption
      DEF BlockSteered, BudgetEnforced, TypeOK, Writers, HookPC, PollerPC, Refuse
<1>7. ASSUME NEW c \in Callers, Allow(c) PROVE BudgetEnforced'
   BY <1>7, CallerAssumption
      DEF Allow, BudgetEnforced, TypeOK, Writers, HookPC, PollerPC
<1>8. ASSUME NEW c \in Callers, PostChecks(c) PROVE BudgetEnforced'
  <2>1. tokens > 0 /\ (cost = CostCap \/ tokens = TokenCap) /\ Runaway \notin Grantable
          => Runaway \in call'[c].terminals
    BY <1>8, CapAssumption
       DEF PostChecks, TypeOK, CallState, ApplyGrants, StateTerminals, OverBudget,
           GrantInv
  <2>2. pc'[c] = "checked"
    BY <1>8 DEF PostChecks, TypeOK, Writers
  <2>. QED
    BY <1>8, <2>1, <2>2 DEF PostChecks, BudgetEnforced
<1>9. ASSUME NEW c \in Callers, FinalCertificate(c) PROVE BudgetEnforced'
   BY <1>9, CallerAssumption
      DEF FinalCertificate, BudgetEnforced, TypeOK, Writers, HookPC, PollerPC
<1>10. ASSUME NEW c \in Callers, UnregisterWatcher(c) PROVE BudgetEnforced'
   BY <1>10, CallerAssumption
      DEF UnregisterWatcher, BudgetEnforced, TypeOK, Writers, HookPC, PollerPC
<1>11. ASSUME NEW w \in Writers, Stamp(w) PROVE BudgetEnforced'
   BY <1>11, CallerAssumption
      DEF Stamp, BudgetEnforced, TypeOK, Writers, HookPC, PollerPC
<1>12. ASSUME NEW w \in Writers, LogRequest(w) PROVE BudgetEnforced'
   BY <1>12, CallerAssumption
      DEF LogRequest, BudgetEnforced, TypeOK, Writers, HookPC, PollerPC, Resume,
         Deciding
<1>13. ASSUME NEW c \in Callers, NEW sig \in Sigs, PreToolCall(c, sig) PROVE
    BudgetEnforced'
   BY <1>13, CallerAssumption
      DEF PreToolCall, BudgetEnforced, TypeOK, Writers, HookPC, PollerPC
<1>14. ASSUME NEW c \in Callers, ToolStart(c) PROVE BudgetEnforced'
   BY <1>14, CallerAssumption
      DEF ToolStart, BudgetEnforced, TypeOK, Writers, HookPC, PollerPC
<1>15. ASSUME NEW c \in Callers, PostToolCall(c) PROVE BudgetEnforced'
   BY <1>15, CallerAssumption
      DEF PostToolCall, BudgetEnforced, TypeOK, Writers, HookPC, PollerPC
<1>16. ASSUME NEW c \in Callers, NEW u \in Usage, PostApiRequest(c, u) PROVE
    BudgetEnforced'
   BY <1>16, CallerAssumption
      DEF PostApiRequest, BudgetEnforced, TypeOK, Writers, HookPC, PollerPC
<1>17. ASSUME NEW c \in Callers, SessionEnd(c) PROVE BudgetEnforced'
   BY <1>17, CallerAssumption
      DEF SessionEnd, BudgetEnforced, TypeOK, Writers, HookPC, PollerPC
<1>18. ASSUME NEW c \in Callers, SessionFinalize(c) PROVE BudgetEnforced'
   BY <1>18, CallerAssumption
      DEF SessionFinalize, BudgetEnforced, TypeOK, Writers, HookPC, PollerPC
<1>19. ASSUME
       \/ HeartbeatServed \/ HeartbeatArrives \/ HeartbeatFails \/ ChangeGrants
       \/ OperatorKill \/ Tick \/ PollServed \/ PollLookup \/ PollTerminate \/ PollLost
     PROVE  BudgetEnforced'
   BY <1>19, CallerAssumption
      DEF HeartbeatServed, HeartbeatArrives, HeartbeatFails, ChangeGrants,
         OperatorKill, Tick, PollServed, PollLookup, PollTerminate, PollLost,
         BudgetEnforced, TypeOK, Writers, HookPC, PollerPC, Claim
<1>20. CASE UNCHANGED vars
   BY <1>20 DEF BudgetEnforced
<1>. QED
   BY <1>1, <1>2, <1>3, <1>4, <1>5, <1>6, <1>7, <1>8, <1>9, <1>10, <1>11, <1>12,
      <1>13, <1>14, <1>15, <1>16, <1>17, <1>18, <1>19, <1>20
      DEF Next, HookStep, HermesStep, PollerStep, HeartbeatStep, Environment,
         Writers

-----------------------------------------------------------------------------
(* Theorems                                                                *)

Inv ==
  /\ TypeOK
  /\ RequestInv
  /\ HookInv
  /\ HarmInv
  /\ CertInv
  /\ GrantInv
  /\ ScopeInv
  /\ BudgetEnforced

LEMMA InitInv == Init => Inv
<1>. SUFFICES ASSUME Init PROVE Inv
  OBVIOUS
<1>1. TypeOK
  BY InitType
<1>2. RequestInv
  BY CallerAssumption DEF Init, RequestInv, Requesting
<1>3. HookInv /\ HarmInv
  BY DEF Init, HookInv, HarmInv, NoCall, Writers
<1>4. CertInv /\ GrantInv
  BY DEF Init, CertInv, GrantInv
<1>5. ScopeInv
  BY DEF Init, ScopeInv, Writers
<1>6. BudgetEnforced
  BY DEF Init, BudgetEnforced
<1>. QED BY <1>1, <1>2, <1>3, <1>4, <1>5, <1>6 DEF Inv

LEMMA StepInv == Inv /\ [Next]_vars => Inv'
  BY TypeStep, RequestStep, HookInvStep, HarmStep, CertStep, GrantStep, ScopeStep,
      BudgetStep
     DEF Inv

(* The invariant of the kill path holds in every reachable state, for any  *)
(* number of hook threads, any policy and any grants it allows.            *)
THEOREM Invariance == Spec => []Inv
  BY InitInv, StepInv, PTL DEF Spec

(* Every state is well typed: flags, meters within their caps, a window of *)
(* signatures with its history, each thread at a point of its own program. *)
THEOREM TypeCorrect == Spec => []TypeOK
<1>1. Inv => TypeOK
  BY DEF Inv
<1>. QED BY <1>1, Invariance, PTL

(* A termination has one author: the request that found the flag down      *)
(* writes the reason, the operator context and the only log entry, even    *)
(* though it writes them in three steps among racing threads.              *)
THEOREM SingleAuthor == Spec => []OneAuthor
<1>1. Inv => OneAuthor
  BY DEF Inv, RequestInv, OneAuthor
<1>. QED BY <1>1, Invariance, PTL

(* A condemned call never runs, and each thread starts one tool at most    *)
(* after the kill: the flag is looked at again before the verdict.         *)
THEOREM HarmIsBounded == Spec => []HarmBounded
<1>1. Inv => HarmBounded
  BY DEF Inv, HarmInv, HarmBounded
<1>. QED BY <1>1, Invariance, PTL

(* A certificate emitted at any moment names the first cause of the kill.  *)
THEOREM CertificatesTrue == Spec => []CertificatesNameTheCause
<1>1. Inv => CertificatesNameTheCause
  BY DEF Inv, CertInv, CertificatesNameTheCause
<1>. QED BY <1>1, Invariance, PTL

(* No grant outside the policy's list, however stale, clears a call that   *)
(* is out of scope.                                                        *)
THEOREM ScopeIsEnforced == Spec => []ScopeEnforced
<1>1. Inv => ScopeEnforced
  BY DEF Inv, HookInv, HarmInv, ScopeInv, ScopeEnforced
<1>. QED BY <1>1, Invariance, PTL

(* Spend past a cap that cannot be granted away is a kill, done or due in  *)
(* the hook that metered it.                                               *)
THEOREM BudgetIsEnforced == Spec => []BudgetEnforced
<1>1. Inv => BudgetEnforced
  BY DEF Inv
<1>. QED BY <1>1, Invariance, PTL

(* First cause wins: no step of any thread withdraws a termination or      *)
(* replaces its reason.                                                    *)
THEOREM FirstCause == Spec => FirstCauseWins
<1>1. [Next]_vars => [terminateRequested =>
                        /\ terminateRequested'
                        /\ terminateReason' = terminateReason]_vars
  <2> DEFINE First == terminateRequested => /\ terminateRequested'
                                           /\ terminateReason' = terminateReason
  <2>. SUFFICES ASSUME [Next]_vars PROVE First
    OBVIOUS
  <2>1. ASSUME NEW c \in Callers,
         \/ RecordToolCall(c) \/ PreToolChecks(c) \/ Terminate(c) \/ NoTermination(c)
         \/ BlockKilled(c) \/ BlockSteered(c) \/ Allow(c) \/ PostChecks(c)
         \/ FinalCertificate(c) \/ UnregisterWatcher(c) \/ ToolStart(c)
         \/ PostToolCall(c) \/ SessionEnd(c) \/ SessionFinalize(c)
       PROVE  First
     BY <2>1
        DEF RecordToolCall, PreToolChecks, Terminate, NoTermination, BlockKilled,
           BlockSteered, Allow, PostChecks, FinalCertificate, UnregisterWatcher,
           ToolStart, PostToolCall, SessionEnd, SessionFinalize, Claim, Refuse
  <2>2. ASSUME NEW w \in Writers,
         \/ Stamp(w) \/ LogRequest(w)
       PROVE  First
     BY <2>2 DEF Stamp, LogRequest
  <2>3. ASSUME NEW c \in Callers, NEW sig \in Sigs, PreToolCall(c, sig) PROVE First
     BY <2>3 DEF PreToolCall
  <2>4. ASSUME NEW c \in Callers, NEW u \in Usage, PostApiRequest(c, u) PROVE First
     BY <2>4 DEF PostApiRequest
  <2>5. ASSUME
         \/ PollServed \/ PollLookup \/ PollTerminate \/ PollLost \/ HeartbeatServed
         \/ HeartbeatArrives \/ HeartbeatFails \/ ChangeGrants \/ OperatorKill \/ Tick
       PROVE  First
     BY <2>5
        DEF PollServed, PollLookup, PollTerminate, PollLost, HeartbeatServed,
           HeartbeatArrives, HeartbeatFails, ChangeGrants, OperatorKill, Tick, Claim
  <2>6. CASE UNCHANGED vars
     BY <2>6
  <2>. QED
     BY <2>1, <2>2, <2>3, <2>4, <2>5, <2>6
        DEF Next, HookStep, HermesStep, PollerStep, HeartbeatStep, Environment,
           Writers
<1>. QED BY <1>1, PTL DEF Spec, FirstCauseWins

=============================================================================
