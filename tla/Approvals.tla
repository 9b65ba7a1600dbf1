------------------------------ MODULE Approvals ------------------------------
(***************************************************************************)
(* Interactive approval of tool calls, end to end for one session: the     *)
(* plugin's pre_tool_call (hermeskill_hermes/plugin.py), the approval      *)
(* phase it runs on the loop thread (bridge.evaluate_tool_approval), the   *)
(* HTTP service behind it, and the control plane's handlers that create,   *)
(* return, approve and deny requests (control_plane/api/approvals.py).     *)
(*                                                                         *)
(* The Hermes thread submits a coroutine and waits at most 10 s for it; a  *)
(* coroutine it gave up on goes on.  The server reads and writes in        *)
(* separate statements, so handlers interleave at those points.  Symptoms  *)
(* other than the tool scope are KillPath's; time shows only as a request  *)
(* or a grant whose time is over.                                          *)
(***************************************************************************)
EXTENDS Naturals, FiniteSets

CONSTANTS
  Calls,        \* tool calls: a tool with its arguments (the idempotency tuple)
  InScope,      \* calls of tools in the policy's allowlist
  Capability,   \* the tool map: the capability of each call whose tool it has
  Risk,         \* the registry: the risk of each known capability
  Allowed,      \* the capabilities the profile of the policy allows
  ScopeGrantable, \* the policy lets an operator grant tool_scope_violation
  Ids,          \* approval request ids, 1..n in the order of their insertion
  Tasks,        \* evaluate_tool_approval coroutines that may be alive at once
  MaxDecisions, \* bound: operator handlers in flight at once
  MaxFaults     \* bound: lost requests, failed handlers, timeouts and direct grants

ASSUME CallsAssumption == Calls # {} /\ InScope \subseteq Calls /\ DOMAIN Capability \subseteq Calls
ASSUME IdsAssumption == IsFiniteSet(Ids) /\ Ids = 1..Cardinality(Ids)
ASSUME FaultsAssumption == MaxFaults \in Nat
ASSUME GrantableAssumption == ScopeGrantable \in BOOLEAN

(* CapabilityResolver.check, and the calls evaluate_tool_approval asks an  *)
(* operator about.  A call that is denied or unmapped passes the gate like *)
(* one that is allowed.                                                    *)
EvaluateRisk(risk) ==
  CASE risk = "low" -> "ALLOW"
    [] risk \in {"medium", "high"} -> "APPROVAL_REQUIRED"
    [] OTHER -> "DENY"

Check(capability) ==
  IF capability \in DOMAIN Risk \cap Allowed THEN EvaluateRisk(Risk[capability]) ELSE "DENY"

Gated == {c \in DOMAIN Capability : Check(Capability[c]) = "APPROVAL_REQUIRED"}

NoId == 0
Statuses == {"unused", "pending", "approved", "denied", "expired"}

(* A tool_approval_requests row.  An approved row has its grant_id.        *)
Rows == [status : Statuses, key : Calls]
Unused == [status |-> "unused", key |-> CHOOSE c \in Calls : TRUE]

VARIABLES
  rows,       \* tool_approval_requests, in the control plane
  decisions,  \* operator handlers between their read and their commit
  task,       \* the coroutines, each with the server handler it waits for
  thread,     \* the coroutine the Hermes thread waits for in pre_tool_call
  pending,    \* HermeskillPlugin._pending_approval[session], the id
  terminateRequested,
  cached,     \* WatcherState.grants covers tool_scope_violation
  faults,
  consented,  \* history: requests an operator has approved
  granted,    \* history: an operator has granted tool_scope_violation directly
  used,       \* history: requests whose approval has let a call through
  excused     \* history: requests forgotten for a reason ApprovedCallRuns names

serverVars  == <<rows, decisions>>
sessionVars == <<pending, terminateRequested, cached>>
histVars == <<consented, granted, used, excused>>
vars == <<serverVars, task, thread, sessionVars, faults, histVars>>

(* What the coroutine ends with: a directive, or an exception.             *)
Results == [kind : {"pass", "refuse", "pending", "crash"}, id : Ids \cup {NoId}]
Pass == [kind |-> "pass", id |-> NoId]
Crash == [kind |-> "crash", id |-> NoId]
Refuse == [kind |-> "refuse", id |-> NoId]

(* at: where the coroutine is; server: what its handler still has to do;   *)
(* reply: the row it asks for or hears of, and the status it was told.     *)
NoReply == [id |-> NoId, status |-> "unused"]
TaskState == [at     : {"free", "queued", "get", "create", "done"},
              server : {"none", "select", "insert"},
              call   : Calls,
              reply  : [id : Ids \cup {NoId}, status : Statuses \cup {"error"}],
              result : Results]

FreeTask == [at |-> "free", server |-> "none", call |-> Unused.key, reply |-> NoReply,
             result |-> Pass]

Nobody == "nobody"
Decisions == [verb : {"approved", "denied", "expired"}, id : Ids]

TypeOK ==
  /\ rows \in [Ids -> Rows]
  /\ decisions \subseteq Decisions
  /\ task \in [Tasks -> TaskState]
  /\ thread \in Tasks \cup {Nobody}
  /\ pending \in Ids \cup {NoId}
  /\ terminateRequested \in BOOLEAN
  /\ cached \in BOOLEAN
  /\ faults \in 0..MaxFaults
  /\ consented \subseteq Ids /\ used \subseteq Ids /\ excused \subseteq Ids
  /\ granted \in BOOLEAN

Init ==
  /\ rows = [i \in Ids |-> Unused]
  /\ decisions = {}
  /\ task = [t \in Tasks |-> FreeTask]
  /\ thread = Nobody
  /\ pending = NoId
  /\ terminateRequested = FALSE
  /\ cached = FALSE
  /\ faults = 0
  /\ consented = {} /\ used = {} /\ excused = {}
  /\ granted = FALSE

-----------------------------------------------------------------------------
(* The plugin: pre_tool_call on the Hermes thread.                         *)

(* A free coroutine; they tell nothing apart. *)
FreeSlot == CHOOSE t \in Tasks : task[t] = FreeTask

(* A killed session is refused at once; any other call submits the         *)
(* coroutine to the loop thread and waits.                                 *)
PreToolCall(c) ==
  /\ thread = Nobody
  /\ ~terminateRequested
  /\ \E t \in Tasks :
       /\ task[t] = FreeTask /\ t = FreeSlot
       /\ task' = [task EXCEPT ![t].at = "queued", ![t].call = c, ![t].reply.id = pending]
       /\ thread' = t
  /\ UNCHANGED <<serverVars, sessionVars, faults, histVars>>

(* The coroutine is over; a handler it gave up on may still run.           *)
Released(state) ==
  IF state.server = "none" THEN FreeTask
  ELSE [FreeTask EXCEPT !.server = state.server, !.call = state.call]

(* What the thread does with the outcome: pending keeps the id, anything   *)
(* else drops it; the call runs if it was not refused and the session has  *)
(* not been killed meanwhile.                                              *)
Passes(result) == result.kind \in {"pass", "crash"} /\ ~terminateRequested

(* Slip: the id outlives the call it let through. *)
KeptAlways(result) == result.id

Kept(result) == IF result.kind = "pending" THEN result.id ELSE NoId

Decide(result) ==
  /\ pending' = Kept(result)
  /\ used' = IF Passes(result) THEN used \cup ({result.id} \ {NoId}) ELSE used
  /\ thread' = Nobody
  /\ UNCHANGED <<serverVars, terminateRequested, cached, consented, granted>>

(* The pending id is dropped although nothing was learnt of its request.   *)
Forgotten == excused \cup ({pending} \ {NoId})

Finish ==
  /\ thread # Nobody
  /\ task[thread].at = "done"
  /\ Decide(task[thread].result)
  /\ excused' = IF task[thread].call \in Gated THEN excused ELSE Forgotten
  /\ task' = [task EXCEPT ![thread] = Released(@)]
  /\ UNCHANGED faults

(* After 10 s the wait raises; the exception is logged and the call is     *)
(* decided as if the approval phase had found nothing: it runs.  The       *)
(* coroutine goes on, and nobody takes its result.                         *)
Timeout ==
  /\ thread # Nobody
  /\ task[thread].at # "done"
  /\ faults < MaxFaults
  /\ faults' = faults + 1
  /\ Decide(Crash)
  /\ excused' = Forgotten
  /\ UNCHANGED task

-----------------------------------------------------------------------------
(* The coroutine on the loop thread, from one await to the next.           *)

(* Nobody takes the result of a coroutine the thread has given up on.      *)
Ends(t, result, server) ==
  LET over == [task[t] EXCEPT !.at = "done", !.result = result, !.reply = NoReply, !.server = server]
  IN  task' = [task EXCEPT ![t] = IF thread = t THEN over ELSE Released(over)]

(* on_pre_tool_call comes first: a tool outside the allowlist requests the *)
(* termination unless a grant is cached.                                   *)

(* Slip: the allowlist is left to the approval. *)
CondemnedUnscoped(c) == terminateRequested

Condemned(c) == terminateRequested \/ (c \notin InScope /\ ~cached)

(* Then the gate: a killed session and a call that needs no approval pass; *)
(* else the pending request is fetched, or one is made.                    *)
Evaluate(t) ==
  LET c == task[t].call
  IN  /\ task[t].at = "queued"
      /\ terminateRequested' = Condemned(c)
      /\ IF Condemned(c) \/ c \notin Gated
         THEN Ends(t, Pass, "none")
         ELSE IF task[t].reply.id # NoId
         THEN task' = [task EXCEPT ![t].at = "get"]
         ELSE task' = [task EXCEPT ![t].at = "create", ![t].server = "select"]
      /\ UNCHANGED <<serverVars, thread, pending, cached, faults, histVars>>

(* The answer has arrived.  Approved: the grant is put at the head of the  *)
(* session's cache and the call passes.  Denied: refused, and the id is    *)
(* not kept.  Pending and expired: refused, and the id is kept.  A server  *)
(* error is an exception: of the fetch it makes the coroutine ask anew, of *)
(* the creation it ends the coroutine.                                     *)
Receive(t) ==
  LET answer == task[t].reply
  IN  /\ task[t].at \in {"get", "create"}
      /\ answer.status # "unused"
      /\ cached' = (cached \/ answer.status = "approved")
      /\ \/ /\ answer.status = "approved"
            /\ Ends(t, [kind |-> "pass", id |-> answer.id], "none")
         \/ answer.status = "denied" /\ Ends(t, Refuse, "none")
         \/ /\ answer.status \in {"pending", "expired"}
            /\ Ends(t, [kind |-> "pending", id |-> answer.id], "none")
         \/ answer.status = "error" /\ Ends(t, Crash, "none")
      /\ UNCHANGED <<serverVars, thread, pending, terminateRequested, faults, histVars>>

(* Any exception of the fetch, a lost request or a failing server alike:   *)
(* the id is forgotten and a request is made.                              *)
GetFails(t) ==
  /\ task[t].at = "get"
  /\ faults < MaxFaults
  /\ faults' = faults + 1
  /\ task' = [task EXCEPT ![t].at = "create", ![t].server = "select", ![t].reply = NoReply]
  /\ excused' = IF thread = t THEN Forgotten ELSE excused
  /\ UNCHANGED <<serverVars, thread, sessionVars, consented, granted, used>>

(* Slip: fail open when the service is out of reach. *)
UnavailableOpen == Pass

Unavailable == Refuse

(* The creation is lost on the wire: ApprovalUnavailable, the call is      *)
(* refused.  The handler may have the request all the same and finish it.  *)
CreateLost(t) ==
  /\ task[t].at = "create"
  /\ faults < MaxFaults
  /\ faults' = faults + 1
  /\ \E heard \in BOOLEAN :
       Ends(t, Unavailable, IF heard THEN task[t].server ELSE "none")
  /\ UNCHANGED <<serverVars, thread, sessionVars, histVars>>

(* The creation fails in the server (5xx), or the agent is gone (404).     *)
CreateFails(t) ==
  /\ task[t].at = "create"
  /\ task[t].server # "none"
  /\ faults < MaxFaults
  /\ faults' = faults + 1
  /\ task' = [task EXCEPT ![t].server = "none", ![t].reply.status = "error"]
  /\ UNCHANGED <<serverVars, thread, sessionVars, histVars>>

-----------------------------------------------------------------------------
(* The control plane.                                                      *)

(* Only a coroutine that still waits hears the answer.                     *)
Answer(t, id, status) ==
  task' = [task EXCEPT ![t] =
             IF @.at = "create" THEN [@ EXCEPT !.server = "none", !.reply = [id |-> id, status |-> status]]
             ELSE IF @.at = "free" THEN FreeTask
             ELSE [@ EXCEPT !.server = "none"]]


GetApproval(t) ==
  /\ task[t].at = "get"
  /\ task[t].reply.status = "unused"
  /\ task' = [task EXCEPT ![t].reply.status = rows[task[t].reply.id].status]
  /\ UNCHANGED <<serverVars, thread, sessionVars, faults, histVars>>

(* create_approval_request reads the pending rows of the same call: one is *)
(* the answer, none lets it insert, and two make scalar_one_or_none raise. *)
Waiting(c) == {i \in Ids : rows[i].status = "pending" /\ rows[i].key = c}

CreateSelect(t) ==
  /\ task[t].server = "select"
  /\ \/ /\ Waiting(task[t].call) = {}
        /\ task' = [task EXCEPT ![t].server = "insert"]
     \/ \E i \in Ids : Waiting(task[t].call) = {i} /\ Answer(t, i, "pending")
     \/ /\ Cardinality(Waiting(task[t].call)) > 1
        /\ Answer(t, NoId, "error")
  /\ UNCHANGED <<serverVars, thread, sessionVars, faults, histVars>>

(* The row is added and committed; no unique index stands in the way of a  *)
(* second pending row.                                                     *)
CreateInsert(t) ==
  /\ task[t].server = "insert"
  /\ \E i \in Ids :
       /\ rows[i].status = "unused"
       /\ \A j \in 1..(i - 1) : rows[j].status # "unused"
       /\ rows' = [rows EXCEPT ![i] = [Unused EXCEPT !.status = "pending", !.key = task[t].call]]
       /\ Answer(t, i, "pending")
  /\ UNCHANGED <<decisions, thread, sessionVars, faults, histVars>>

(* approve and deny load the row and refuse one that is decided (409);     *)
(* approve also looks at the clock and expires a request whose time is     *)
(* over.  The write follows in a second step, whatever has been committed  *)
(* in between.                                                             *)
Load(i, verb) ==
  /\ rows[i].status = "pending"
  /\ Cardinality(decisions) < MaxDecisions
  /\ decisions' = decisions \cup {[verb |-> verb, id |-> i]}
  /\ UNCHANGED <<rows, task, thread, sessionVars, faults, histVars>>

(* Slip: a status the enumeration does not have. *)
CommitDecided(d) ==
  /\ d \in decisions
  /\ decisions' = decisions \ {d}
  /\ rows' = [rows EXCEPT ![d.id].status = "decided"]
  /\ UNCHANGED <<task, thread, sessionVars, faults, histVars>>

Commit(d) ==
  /\ d \in decisions
  /\ decisions' = decisions \ {d}
  /\ rows' = [rows EXCEPT ![d.id].status = d.verb]
  /\ consented' = IF d.verb = "approved" THEN consented \cup {d.id} ELSE consented
  /\ excused' = IF rows[d.id].status = "pending" THEN excused ELSE excused \cup {d.id}
  /\ UNCHANGED <<task, thread, sessionVars, faults, granted, used>>

-----------------------------------------------------------------------------
(* What else writes to the session.  An operator may grant the scope       *)
(* directly, if the policy allows it.  A heartbeat replaces the cached     *)
(* grants by those the server found active when it read them: that may be  *)
(* before the first was issued, or after the last expired or was revoked.  *)
(* The kill paths of KillPath request the termination.                     *)

CreateGrant ==
  /\ ScopeGrantable
  /\ ~granted
  /\ faults < MaxFaults
  /\ faults' = faults + 1
  /\ granted' = TRUE
  /\ UNCHANGED <<serverVars, task, thread, sessionVars, consented, used, excused>>

Heartbeat ==
  /\ \E answer \in {FALSE, granted \/ consented # {}} : cached' = answer
  /\ UNCHANGED <<serverVars, task, thread, pending, terminateRequested, faults, histVars>>

RequestTermination ==
  /\ ~terminateRequested
  /\ terminateRequested' = TRUE
  /\ UNCHANGED <<serverVars, task, thread, pending, cached, faults, histVars>>

Coroutine(t) == Evaluate(t) \/ Receive(t)
Handler(t) == GetApproval(t) \/ CreateSelect(t) \/ CreateInsert(t)
Fault(t) == GetFails(t) \/ CreateLost(t) \/ CreateFails(t)
Operate(d) == Load(d.id, d.verb) \/ Commit(d)

Next ==
  \/ \E c \in Calls : PreToolCall(c)
  \/ Finish \/ Timeout
  \/ \E t \in Tasks : Coroutine(t) \/ Handler(t) \/ Fault(t)
  \/ \E d \in Decisions : Operate(d)
  \/ CreateGrant \/ Heartbeat \/ RequestTermination

(* The loop and the server make progress, the thread takes what is ready,  *)
(* and the agent retries the call it was told to retry.                    *)
Retry == \E i \in Ids : pending = i /\ PreToolCall(rows[i].key)

Fairness ==
  /\ WF_vars(Finish) /\ WF_vars(Retry)
  /\ \A t \in Tasks : WF_vars(Coroutine(t)) /\ WF_vars(Handler(t))

Spec == Init /\ [][Next]_vars /\ Fairness

-----------------------------------------------------------------------------
(* This step lets a call through: under a request, whose approval was the  *)
(* answer, or under none, because the call needs no approval, or because   *)
(* its evaluation crashed or outlasted the wait.                           *)
Outcome == IF task[thread].at = "done" THEN task[thread].result ELSE Crash

Runs(call, warrant) ==
  /\ thread # Nobody /\ thread' = Nobody
  /\ task[thread].call = call
  /\ Passes(Outcome)
  /\ Outcome.id = warrant

(* The loop thread has checked the call's scope and whether to ask.        *)
Checked == task[thread].at # "queued"

(* The approval phase itself fails closed: it lets a call that needs an    *)
(* approval pass only on an operator's consent to the request it fetched.  *)
(* A request that is lost, expired, denied or answered late, or that two   *)
(* operators decide, is never taken for one (bridge.py).                   *)
PassNeedsConsent ==
  \A t \in Tasks :
    task[t].at = "done" /\ task[t].result.kind = "pass" /\ task[t].call \in Gated =>
      task[t].result.id \in consented \/ terminateRequested

(* The answer that a request is approved lets one call through: a second   *)
(* call never passes on the same request, whatever coroutines the thread   *)
(* has given up on and however the operators race (plugin.py forgets the   *)
(* id).  The grant the approval creates is another warrant.                *)
IdSpentOnce ==
  [][\A c \in Calls, w \in Ids : Runs(c, w) => w \notin used]_vars

(* A tool outside the allowlist, once its scope is checked, runs only in a *)
(* session to which an operator gave an approval or a grant: the check     *)
(* comes before the approval phase, and only a cached grant excuses from   *)
(* it, be the evaluation answered, crashed or given up on (bridge.py).     *)
OutOfScopeNeedsOperator ==
  [][\A c \in Calls \ InScope, w \in Ids \cup {NoId} :
       Runs(c, w) /\ Checked => granted \/ consented # {}]_vars


(* A call that was found to need an approval does not run without one if   *)
(* the control plane is unreachable ("the tool does not run",              *)
(* approval.py).  The thread waits 10 s, the coroutine 30 s for an answer. *)
ConsentBeforeRun ==
  [][\A c \in Gated, w \in Ids \cup {NoId} : Runs(c, w) /\ Checked => w \in consented]_vars

(* An approval is for the call it was asked for ("Used for idempotency +   *)
(* argument-match before granting", 0005_tool_approval_requests.py).  The  *)
(* plugin keeps one pending id per session and fetches it for any call.    *)
ApprovalMatchesCall ==
  [][\A c \in Calls, w \in Ids : Runs(c, w) => rows[w].key = c]_vars
=============================================================================
