---------------------------- MODULE SymptomChecks ----------------------------
(***************************************************************************)
(* The supervision verdicts of hermeskill/checks.py, as operators.         *)
(*                                                                         *)
(* A tool call is a member of Sigs: the loop signature of watcher.py, that *)
(* is the tool name with a digest of its arguments.  A verdict is the      *)
(* symptom it names.  Meters are read against their caps only, so a meter  *)
(* is a number that stops counting at the first value the checks cannot    *)
(* tell from a larger one.                                                 *)
(***************************************************************************)
EXTENDS Naturals, Sequences, FiniteSets

CONSTANTS
  Sigs,        \* loop signatures a session may produce
  InScope,     \* the signatures whose tool check_tool_scope accepts
  MaxRepeats,  \* policy.thresholds.max_loop_repeats
  SteerAt,     \* policy.thresholds.loop_steer_repeats
  Window,      \* policy.thresholds.loop_window_actions
  TokenCap,    \* policy.thresholds.max_tokens_per_run, in units of usage
  CostCap,     \* policy.thresholds.max_cost_usd, in units of usage
  RuntimeCap   \* policy.thresholds.max_runtime_seconds, in ticks

(* loop_steer_repeats must lie below max_loop_repeats; None, steering      *)
(* disabled, is SteerAt = MaxRepeats.                                      *)
ASSUME ScopeAssumption == Sigs # {} /\ InScope \subseteq Sigs
ASSUME ThresholdAssumption ==
  /\ MaxRepeats \in Nat \ {0}
  /\ SteerAt \in 1..MaxRepeats
  /\ Window \in Nat \ {0}
ASSUME CapAssumption ==
  /\ TokenCap \in Nat \ {0}
  /\ CostCap \in Nat
  /\ RuntimeCap \in Nat \ {0}

Scope     == "tool_scope_violation"
Loop      == "loop"
Runaway   == "token_runaway"
WallClock == "wall_clock"

Symptoms == {Scope, Loop, Runaway, WallClock}

(* The order in which on_pre_tool_call and run_all collect the verdicts.   *)
Rank == [s \in Symptoms |-> CASE s = Scope   -> 1
                              [] s = Loop    -> 2
                              [] s = Runaway -> 3
                              [] OTHER       -> 4]

-----------------------------------------------------------------------------

(* deque(maxlen = Window).append *)
Push(win, x) == IF Len(win) < Window THEN Append(win, x) ELSE Append(Tail(win), x)

Repeats(win, sig) == Cardinality({i \in DOMAIN win : win[i] = sig})

(* Slip: one more repeat than the policy allows. *)
LoopTerminalPast(win) == \E sig \in Sigs : Repeats(win, sig) > MaxRepeats

LoopTerminal(win) == \E sig \in Sigs : Repeats(win, sig) >= MaxRepeats

(* Slip: one more repeat before the nudge. *)
LoopSteerPast(win) ==
  /\ SteerAt < MaxRepeats
  /\ win # <<>>
  /\ ~LoopTerminal(win)
  /\ Repeats(win, win[Len(win)]) > SteerAt

(* Steering looks at the newest entry of the window, whoever appended it.  *)
LoopSteer(win) ==
  /\ SteerAt < MaxRepeats
  /\ win # <<>>
  /\ ~LoopTerminal(win)
  /\ Repeats(win, win[Len(win)]) >= SteerAt

OverBudget(cost, tokens) == cost >= CostCap \/ tokens >= TokenCap

OverTime(uptime) == uptime > RuntimeCap

(* Slip: the token cap alone is enforced. *)
StateTerminalsUnpriced(win, cost, tokens, uptime) ==
  {s \in {Loop, Runaway, WallClock} :
     \/ s = Loop /\ LoopTerminal(win)
     \/ s = Runaway /\ tokens >= TokenCap
     \/ s = WallClock /\ OverTime(uptime)}

(* run_all: the state-only checks that end in a Terminal.                  *)
StateTerminals(win, cost, tokens, uptime) ==
  {s \in {Loop, Runaway, WallClock} :
     \/ /\ s = Loop
        /\ LoopTerminal(win)
     \/ /\ s = Runaway
        /\ OverBudget(cost, tokens)
     \/ /\ s = WallClock
        /\ OverTime(uptime)}

ScopeTerminals(sig) == IF sig \in InScope THEN {} ELSE {Scope}

(* Slip: any grant excuses every symptom. *)
ApplyGrantsToAll(terminals, covered) == IF covered = {} THEN terminals ELSE {}

(* apply_grants: a symptom some cached grant lists becomes a warning.      *)
ApplyGrants(terminals, covered) == terminals \ covered

(* The Terminal the callers act on: the first of the list.                 *)
FirstTerminal(terminals) ==
  CHOOSE s \in terminals : \A t \in terminals : Rank[s] <= Rank[t]

(* A meter that stops at the cap it is compared with.                      *)
Metered(now, delta, cap) == IF now + delta <= cap THEN now + delta ELSE cap
=============================================================================
