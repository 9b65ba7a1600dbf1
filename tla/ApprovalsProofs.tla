----------------------------- MODULE ApprovalsProofs ----------------------------
(* Theorems about Approvals and their proofs. *)
EXTENDS Approvals, FiniteSetTheorems, TLAPS

(* A row says "approved" only after an operator's consent, and one that    *)
(* was consented to is decided for good.                                   *)
RowInv ==
  \A i \in Ids :
    /\ rows[i].status = "approved" => i \in consented
    /\ i \in consented => rows[i].status \notin {"unused", "pending"}

(* An operator has given an approval or a grant.                           *)
Excusable == granted \/ consented # {}

(* A coroutine: what it asks for exists; what it was told was true; past   *)
(* the scope check its tool is in the allowlist, excusable, or the session *)
(* is killed; what it lets through needs no approval, or has one, or the   *)
(* session is killed.                                                      *)
TaskInv(x) ==
  /\ x.at = "get" => x.reply.id \in Ids
  /\ x.reply.status = "approved" => x.reply.id \in consented
  /\ x.at = "done" /\ x.result.kind = "pass" =>
       /\ x.result.id # NoId => x.result.id \in consented
       /\ x.result.id = NoId => x.call \notin Gated \/ terminateRequested
  /\ x.at = "done" /\ x.result.kind = "crash" => x.result.id = NoId
  /\ x.at \in {"get", "create", "done"} /\ x.call \notin InScope => Excusable \/ terminateRequested

CachedInv == cached => Excusable

(* An approval that has let a call through is not on its way to another:   *)
(* neither kept by the session nor held by the coroutine it waits for.     *)
HeldInv(x) == x.at # "free" /\ x.reply.id \notin used /\ x.result.id \notin used

UsedInv ==
  /\ used \subseteq consented
  /\ pending \notin used
  /\ thread # Nobody => HeldInv(task[thread])

TasksInv == \A t \in Tasks : TaskInv(task[t])

IInv == TypeOK /\ RowInv /\ CachedInv /\ UsedInv /\ TasksInv

USE DEF vars, serverVars, sessionVars, histVars

-----------------------------------------------------------------------------
(* Values.                                                                 *)

LEMMA NoIdFacts == NoId \notin Ids
BY FS_CardinalityType, IdsAssumption DEF NoId

LEMMA FreeTaskFacts ==
  /\ FreeTask \in TaskState /\ Unused \in Rows /\ Unused.key \in Calls
  /\ FreeTask.at = "free" /\ FreeTask.server = "none" /\ FreeTask.reply = NoReply /\ FreeTask.result = Pass
  /\ NoReply.id = NoId /\ NoReply.status = "unused"
  /\ Pass.kind = "pass" /\ Pass.id = NoId /\ Crash.kind = "crash" /\ Crash.id = NoId
  /\ Refuse.kind = "refuse" /\ Refuse.id = NoId
  /\ Pass \in Results /\ Crash \in Results /\ Refuse \in Results
<1>1. (CHOOSE c \in Calls : TRUE) \in Calls
  BY CallsAssumption
<1>2. Unused \in Rows /\ Unused.key \in Calls
  BY <1>1 DEF Unused, Rows, Statuses
<1>3. Pass \in Results /\ Crash \in Results /\ Refuse \in Results
  BY DEF Pass, Crash, Refuse, Results
<1>. QED BY <1>2, <1>3 DEF FreeTask, TaskState, NoReply, Statuses, Pass, Crash, Refuse

(* What remains of a coroutine that is released.                           *)
LEMMA ReleasedFacts ==
  ASSUME NEW x \in TaskState
  PROVE  /\ Released(x) \in TaskState /\ Released(x).at = "free"
         /\ Released(x).reply = NoReply /\ Released(x).result = Pass
<1>1. x.server \in {"none", "select", "insert"} /\ x.call \in Calls
  BY DEF TaskState
<1>2. CASE x.server = "none"
  BY <1>2, FreeTaskFacts DEF Released
<1>3. CASE x.server # "none"
  <2>1. Released(x) = [FreeTask EXCEPT !.server = x.server, !.call = x.call]
    BY <1>3 DEF Released
  <2>. QED BY <1>1, <2>1, FreeTaskFacts DEF TaskState
<1>. QED BY <1>2, <1>3

-----------------------------------------------------------------------------
(* What a step that changes one coroutine has to show.                     *)
LEMMA TaskChanges ==
  ASSUME IInv, NEW t \in Tasks, NEW x \in TaskState, TaskInv(x)',
         task' = [task EXCEPT ![t] = x],
         consented \subseteq consented', granted => granted', terminateRequested => terminateRequested'
  PROVE  task' \in [Tasks -> TaskState] /\ TasksInv' /\ task'[t] = x
<1>1. task \in [Tasks -> TaskState] /\ \A u \in Tasks : TaskInv(task[u])
  BY DEF IInv, TypeOK, TasksInv
<1>2. task'[t] = x /\ \A u \in Tasks : u # t => task'[u] = task[u]
  BY <1>1
<1>3. ASSUME NEW u \in Tasks, u # t PROVE TaskInv(task[u])'
  BY <1>1, <1>2, <1>3 DEF TaskInv, Excusable
<1>4. TaskInv(task[t])'
  BY <1>2 DEF TaskInv
<1>. QED BY <1>1, <1>2, <1>3, <1>4 DEF TasksInv

LEMMA TasksUnchanged ==
  ASSUME IInv, task' = task, consented \subseteq consented', granted => granted', terminateRequested => terminateRequested'
  PROVE  TasksInv'
  BY DEF IInv, TasksInv, TaskInv, Excusable

(* The same for the coroutines' place in UsedInv.                          *)
LEMMA UsedKept ==
  ASSUME IInv, NEW t \in Tasks, NEW x \in TaskState, task' = [task EXCEPT ![t] = x],
         thread = t /\ t # Nobody => HeldInv(x), consented \subseteq consented', UNCHANGED <<thread, pending, used>>
  PROVE  UsedInv'
<1>1. task \in [Tasks -> TaskState] /\ UsedInv /\ thread \in Tasks \cup {Nobody}
  BY DEF IInv, TypeOK
<1>2. task'[t] = x /\ \A u \in Tasks : u # t => task'[u] = task[u]
  BY <1>1
<1>. QED BY <1>1, <1>2 DEF UsedInv, HeldInv

(* A coroutine ends.                                                       *)
LEMMA EndsFacts ==
  ASSUME IInv, NEW t \in Tasks, NEW result \in Results, NEW server \in {"none", "select", "insert"},
         Ends(t, result, server)
  PROVE  \E x \in TaskState :
           /\ task' = [task EXCEPT ![t] = x]
           /\ x.reply = NoReply
           /\ \/ thread = t /\ x.at = "done" /\ x.result = result /\ x.call = task[t].call
              \/ thread # t /\ x.at = "free" /\ x.result = Pass
<1>. DEFINE over == [task[t] EXCEPT !.at = "done", !.result = result, !.reply = NoReply, !.server = server]
<1>1. task[t] \in TaskState
  BY DEF IInv, TypeOK
<1>2. NoReply \in [id : Ids \cup {NoId}, status : Statuses \cup {"error"}]
  BY DEF NoReply, Statuses
<1>3. over \in TaskState /\ over.at = "done" /\ over.result = result /\ over.reply = NoReply
      /\ over.call = task[t].call
  BY <1>1, <1>2 DEF TaskState
<1>4. task' = [task EXCEPT ![t] = IF thread = t THEN over ELSE Released(over)]
  BY DEF Ends
<1>. HIDE DEF over
<1>5. CASE thread = t
  BY <1>3, <1>4, <1>5
<1>6. CASE thread # t
  BY <1>3, <1>4, <1>6, ReleasedFacts
<1>. QED BY <1>5, <1>6

(* A handler answers.                                                      *)
LEMMA AnswerFacts ==
  ASSUME IInv, NEW t \in Tasks, NEW id \in Ids \cup {NoId}, NEW status \in {"pending", "error"},
         Answer(t, id, status)
  PROVE  \E x \in TaskState :
           /\ task' = [task EXCEPT ![t] = x]
           /\ \/ x.at = "create" /\ x.reply.id = id /\ x.reply.status = status /\ x.result = task[t].result
                 /\ x.call = task[t].call /\ task[t].at = "create"
              \/ x.at = "free" /\ x.reply = NoReply /\ x.result = Pass /\ task[t].at = "free"
              \/ x.at = task[t].at /\ x.reply = task[t].reply /\ x.result = task[t].result /\ x.call = task[t].call
<1>1. task[t] \in TaskState /\ t \in DOMAIN task
  BY DEF IInv, TypeOK
<1>. DEFINE x == [task[t] EXCEPT !.server = "none", !.reply = [id |-> id, status |-> status]]
            y == [task[t] EXCEPT !.server = "none"]
<1>2. task' = [task EXCEPT ![t] = IF task[t].at = "create" THEN x ELSE IF task[t].at = "free" THEN FreeTask ELSE y]
  BY <1>1 DEF Answer
<1>3. x \in TaskState /\ x.at = task[t].at /\ x.reply.id = id /\ x.reply.status = status
      /\ x.result = task[t].result /\ x.call = task[t].call
  BY <1>1 DEF TaskState, Statuses
<1>4. y \in TaskState /\ y.at = task[t].at /\ y.reply = task[t].reply /\ y.result = task[t].result
      /\ y.call = task[t].call
  BY <1>1 DEF TaskState
<1>. HIDE DEF x, y
<1>5. CASE task[t].at = "create"
  BY <1>2, <1>3, <1>5
<1>6. CASE task[t].at = "free"
  BY <1>2, <1>6, FreeTaskFacts
<1>7. CASE task[t].at \notin {"create", "free"}
  BY <1>2, <1>4, <1>7
<1>. QED BY <1>5, <1>6, <1>7

(* A step of one coroutine that leaves the server's rows alone.            *)
LEMMA CoroutineStep ==
  ASSUME IInv, NEW t \in Tasks, NEW x \in TaskState, task' = [task EXCEPT ![t] = x],
         TaskInv(x)', thread = t /\ t # Nobody => HeldInv(x),
         UNCHANGED <<serverVars, thread, pending, consented, granted, used>>, excused' \subseteq Ids,
         terminateRequested' \in BOOLEAN, terminateRequested => terminateRequested',
         cached' \in BOOLEAN, cached' => Excusable, faults' \in 0..MaxFaults
  PROVE  IInv'
<1>1. task' \in [Tasks -> TaskState] /\ TasksInv'
  BY TaskChanges
<1>2. UsedInv'
  BY UsedKept
<1>3. TypeOK'
  BY <1>1 DEF IInv, TypeOK
<1>4. RowInv' /\ CachedInv'
  BY DEF IInv, RowInv, CachedInv, Excusable
<1>. QED BY <1>1, <1>2, <1>3, <1>4 DEF IInv

LEMMA OneFaultMore ==
  ASSUME IInv, faults < MaxFaults, faults' = faults + 1
  PROVE  faults' \in 0..MaxFaults
  BY FaultsAssumption DEF IInv, TypeOK

-----------------------------------------------------------------------------
(* The actions.                                                            *)

LEMMA StepPreToolCall ==
  ASSUME IInv, NEW c \in Calls, PreToolCall(c)
  PROVE  IInv'
<1>1. PICK t \in Tasks : /\ task[t] = FreeTask /\ thread' = t
                         /\ task' = [task EXCEPT ![t].at = "queued", ![t].call = c, ![t].reply.id = pending]
  BY DEF PreToolCall
<1>2. PICK x : x = [FreeTask EXCEPT !.at = "queued", !.call = c, !.reply.id = pending]
  OBVIOUS
<1>3. task' = [task EXCEPT ![t] = x]
  BY <1>1, <1>2
<1>4. x \in TaskState /\ x.at = "queued" /\ x.reply.id = pending /\ x.reply.status = "unused"
      /\ x.result = Pass
  <2>1. pending \in Ids \cup {NoId}
    BY DEF IInv, TypeOK
  <2>2. FreeTask.reply \in [id : Ids \cup {NoId}, status : Statuses \cup {"error"}]
    BY FreeTaskFacts DEF TaskState
  <2>3. [FreeTask.reply EXCEPT !.id = pending] \in [id : Ids \cup {NoId}, status : Statuses \cup {"error"}]
        /\ [FreeTask.reply EXCEPT !.id = pending].id = pending
        /\ [FreeTask.reply EXCEPT !.id = pending].status = "unused"
    BY <2>1, <2>2, FreeTaskFacts
  <2>. QED BY <1>2, <2>3, FreeTaskFacts DEF TaskState
<1>5. UNCHANGED <<serverVars, sessionVars, faults, histVars>>
  BY DEF PreToolCall
<1>6. TaskInv(x)'
  BY <1>4 DEF TaskInv
<1>7. task' \in [Tasks -> TaskState] /\ TasksInv' /\ task'[t] = x
  BY <1>3, <1>4, <1>5, <1>6, TaskChanges
<1>8. UsedInv'
  BY <1>1, <1>4, <1>5, <1>7, NoIdFacts, FreeTaskFacts DEF IInv, UsedInv, HeldInv, TypeOK
<1>9. TypeOK'
  BY <1>1, <1>5, <1>7 DEF IInv, TypeOK
<1>. QED BY <1>5, <1>7, <1>8, <1>9 DEF IInv, RowInv, CachedInv, Excusable

(* The thread goes on with an outcome.                                     *)
LEMMA StepDecide ==
  ASSUME IInv, NEW result \in Results, Decide(result), thread # Nobody,
         result.id # NoId => result.id \notin used,
         Passes(result) => result.id = NoId \/ result.id \in consented,
         task' \in [Tasks -> TaskState], TasksInv', faults' \in 0..MaxFaults, excused' \subseteq Ids
  PROVE  IInv'
<1>1. /\ UNCHANGED <<serverVars, terminateRequested, cached, consented, granted>> /\ thread' = Nobody
      /\ pending' = IF result.kind = "pending" THEN result.id ELSE NoId
      /\ used' = IF Passes(result) THEN used \cup ({result.id} \ {NoId}) ELSE used
  BY DEF Decide, Kept
<1>2. result.kind \in {"pass", "refuse", "pending", "crash"} /\ result.id \in Ids \cup {NoId}
  BY DEF Results
<1>3. used \subseteq Ids /\ used \subseteq consented /\ NoId \notin used
  BY NoIdFacts DEF IInv, TypeOK, UsedInv
<1>4. used' \subseteq Ids /\ used' \subseteq consented
  BY <1>1, <1>2, <1>3
<1>5. pending' \notin used'
  BY <1>1, <1>2, <1>3 DEF Passes
<1>6. TypeOK'
  BY <1>1, <1>2, <1>4 DEF IInv, TypeOK
<1>7. UsedInv'
  BY <1>1, <1>4, <1>5 DEF UsedInv
<1>. QED BY <1>1, <1>6, <1>7 DEF IInv, RowInv, CachedInv, Excusable

(* What is excused are requests.                                           *)
LEMMA ForgottenIds ==
  ASSUME IInv
  PROVE  Forgotten \subseteq Ids /\ excused \subseteq Ids
  BY NoIdFacts DEF IInv, TypeOK, Forgotten

LEMMA StepFinish ==
  ASSUME IInv, Finish
  PROVE  IInv'
<1>1. PICK t : t = thread
  OBVIOUS
<1>2. /\ t \in Tasks /\ thread # Nobody /\ task[t].at = "done" /\ Decide(task[t].result)
      /\ task' = [task EXCEPT ![t] = Released(task[t])] /\ faults' = faults
  BY <1>1 DEF Finish, IInv, TypeOK
<1>3. PICK result : result = task[t].result
  OBVIOUS
<1>4. task[t] \in TaskState /\ TaskInv(task[t])
  BY <1>2 DEF IInv, TypeOK, TasksInv
<1>5. result \in Results
  BY <1>3, <1>4 DEF TaskState
<1>6. PICK x \in TaskState : x = Released(task[t]) /\ x.at = "free" /\ x.reply = NoReply /\ x.result = Pass
  BY <1>4, ReleasedFacts
<1>7. TaskInv(x)'
  BY <1>6, FreeTaskFacts DEF TaskInv
<1>8. UNCHANGED <<consented, granted, terminateRequested>> /\ excused' \subseteq Ids
  BY <1>1, <1>2, ForgottenIds DEF Decide, Finish
<1>9. task' \in [Tasks -> TaskState] /\ TasksInv'
  BY <1>2, <1>6, <1>7, <1>8, TaskChanges
<1>10. result.id \notin used
  BY <1>1, <1>2, <1>3 DEF IInv, UsedInv, HeldInv
<1>11. Passes(result) => result.id = NoId \/ result.id \in consented
  <2>1. CASE result.kind = "pass"
    BY <1>2, <1>3, <1>4, <2>1 DEF TaskInv
  <2>2. CASE result.kind = "crash"
    BY <1>2, <1>3, <1>4, <2>2 DEF TaskInv
  <2>. QED BY <2>1, <2>2 DEF Passes
<1>. QED BY <1>2, <1>3, <1>5, <1>8, <1>9, <1>10, <1>11, StepDecide DEF IInv, TypeOK

LEMMA StepTimeout ==
  ASSUME IInv, Timeout
  PROVE  IInv'
<1>1. Decide(Crash) /\ task' = task /\ thread # Nobody /\ faults' \in 0..MaxFaults
  BY OneFaultMore DEF Timeout
<1>2. UNCHANGED <<consented, granted, terminateRequested>> /\ excused' \subseteq Ids
  BY <1>1, ForgottenIds DEF Decide, Timeout
<1>3. TasksInv'
  BY <1>1, <1>2, TasksUnchanged
<1>4. Passes(Crash) => Crash.id = NoId
  BY FreeTaskFacts
<1>. QED BY <1>1, <1>2, <1>3, <1>4, FreeTaskFacts, StepDecide DEF IInv, TypeOK

LEMMA TaskType ==
  ASSUME IInv, NEW t \in Tasks
  PROVE  /\ task[t] \in TaskState /\ TaskInv(task[t]) /\ task \in [Tasks -> TaskState]
         /\ thread = t /\ t # Nobody => HeldInv(task[t])
  BY DEF IInv, TypeOK, TasksInv, UsedInv, HeldInv

LEMMA NobodysIds ==
  ASSUME IInv
  PROVE  NoId \notin used /\ NoReply.id \notin used /\ Pass.id \notin used
  BY NoIdFacts, FreeTaskFacts DEF IInv, TypeOK

LEMMA StepEvaluate ==
  ASSUME IInv, NEW t \in Tasks, Evaluate(t)
  PROVE  IInv'
<1>. DEFINE c == task[t].call
<1>1. /\ task[t].at = "queued" /\ terminateRequested' = Condemned(c)
      /\ IF Condemned(c) \/ c \notin Gated
         THEN Ends(t, Pass, "none")
         ELSE IF task[t].reply.id # NoId
         THEN task' = [task EXCEPT ![t].at = "get"]
         ELSE task' = [task EXCEPT ![t].at = "create", ![t].server = "select"]
      /\ UNCHANGED <<serverVars, thread, pending, cached, faults, histVars>>
  BY DEF Evaluate
<1>2. terminateRequested' \in BOOLEAN /\ (terminateRequested => terminateRequested')
  BY <1>1 DEF IInv, TypeOK, Condemned
<1>3. cached' \in BOOLEAN /\ (cached' => Excusable) /\ faults' \in 0..MaxFaults /\ excused' \subseteq Ids
  BY <1>1 DEF IInv, TypeOK, CachedInv
<1>4. CASE Condemned(c) \/ c \notin Gated
  <2>1. Ends(t, Pass, "none")
    BY <1>1, <1>4
  <2>2. PICK x \in TaskState :
           /\ task' = [task EXCEPT ![t] = x]
           /\ x.reply = NoReply /\ x.result = Pass
           /\ (x.at = "done" /\ x.call = c) \/ (x.at = "free" /\ thread # t)
    BY <2>1, EndsFacts, FreeTaskFacts
  <2>3. c \notin InScope => Excusable' \/ terminateRequested'
    BY <1>1 DEF Condemned, IInv, CachedInv, Excusable
  <2>4. TaskInv(x)'
    BY <1>1, <1>4, <2>2, <2>3, FreeTaskFacts DEF TaskInv
  <2>5. thread = t /\ t # Nobody => HeldInv(x)
    BY <2>2, NobodysIds DEF HeldInv
  <2>. QED BY <1>1, <1>2, <1>3, <2>2, <2>4, <2>5, CoroutineStep
<1>5. CASE ~(Condemned(c) \/ c \notin Gated)
  <2>1. PICK x : x = IF task[t].reply.id # NoId THEN [task[t] EXCEPT !.at = "get"]
                     ELSE [task[t] EXCEPT !.at = "create", !.server = "select"]
    OBVIOUS
  <2>2. task' = [task EXCEPT ![t] = x]
    BY <1>1, <1>5, <2>1
  <2>3. /\ x \in TaskState /\ x.at \in {"get", "create"} /\ x.reply = task[t].reply /\ x.result = task[t].result
        /\ x.call = c
        /\ x.at = "get" => x.reply.id \in Ids
    BY <2>1, TaskType DEF TaskState
  <2>4. TaskInv(x)'
    <3>1. c \notin InScope => Excusable' \/ terminateRequested'
      BY <1>1, <1>5 DEF Condemned, IInv, CachedInv, Excusable
    <3>. QED BY <1>1, <2>3, <3>1, TaskType DEF TaskInv
  <2>5. thread = t /\ t # Nobody => HeldInv(x)
    BY <2>3, TaskType DEF HeldInv
  <2>. QED BY <1>1, <1>2, <1>3, <2>2, <2>3, <2>4, <2>5, CoroutineStep
<1>. QED BY <1>4, <1>5

LEMMA StepReceive ==
  ASSUME IInv, NEW t \in Tasks, Receive(t)
  PROVE  IInv'
<1>. DEFINE answer == task[t].reply
<1>1. /\ answer.status # "unused" /\ task[t].at \in {"get", "create"} /\ cached' = (cached \/ answer.status = "approved")
      /\ UNCHANGED <<serverVars, thread, pending, terminateRequested, faults, histVars>>
  BY DEF Receive
<1>2. answer \in [id : Ids \cup {NoId}, status : Statuses \cup {"error"}]
      /\ (answer.status = "approved" => answer.id \in consented)
      /\ (thread = t /\ t # Nobody => answer.id \notin used)
  BY TaskType DEF TaskState, TaskInv, HeldInv
<1>3. PICK result \in Results :
        /\ Ends(t, result, "none")
        /\ result.id = NoId \/ result.id = answer.id
        /\ result.kind = "pass" => answer.status = "approved" /\ result.id = answer.id
        /\ result.kind = "crash" => result.id = NoId
  <2>1. CASE answer.status = "approved" /\ Ends(t, [kind |-> "pass", id |-> answer.id], "none")
    BY <1>2, <2>1 DEF Results
  <2>2. CASE Ends(t, Refuse, "none") \/ Ends(t, Crash, "none")
    BY <2>2, FreeTaskFacts
  <2>3. CASE Ends(t, [kind |-> "pending", id |-> answer.id], "none")
    BY <1>2, <2>3 DEF Results
  <2>. QED BY <2>1, <2>2, <2>3 DEF Receive
<1>4. PICK x \in TaskState :
         /\ task' = [task EXCEPT ![t] = x]
         /\ x.reply = NoReply
         /\ \/ thread = t /\ x.at = "done" /\ x.result = result /\ x.call = task[t].call
            \/ thread # t /\ x.at = "free" /\ x.result = Pass
  BY <1>3, EndsFacts
<1>5. TaskInv(x)'
  <2>1. consented' = consented
    BY <1>1
  <2>2. x.at = "done" /\ x.result.kind = "pass" => x.result.id \in consented /\ x.result.id # NoId
    BY <1>2, <1>3, <1>4, NoIdFacts DEF IInv, TypeOK
  <2>3. task[t].call \notin InScope => Excusable' \/ terminateRequested'
    BY <1>1, TaskType DEF TaskInv, Excusable
  <2>. QED BY <1>3, <1>4, <2>1, <2>2, <2>3, FreeTaskFacts DEF TaskInv
<1>6. thread = t /\ t # Nobody => HeldInv(x)
  BY <1>2, <1>3, <1>4, NobodysIds DEF HeldInv
<1>7. cached' \in BOOLEAN /\ (cached' => Excusable)
  BY <1>1, <1>2 DEF IInv, CachedInv, Excusable, TypeOK
<1>. QED BY <1>1, <1>4, <1>5, <1>6, <1>7, CoroutineStep DEF IInv, TypeOK

(* The coroutine keeps its place, or asks anew; the answer is no approval. *)
LEMMA StepGetFails ==
  ASSUME IInv, NEW t \in Tasks, GetFails(t)
  PROVE  IInv'
<1>1. PICK x : x = [task[t] EXCEPT !.at = "create", !.server = "select", !.reply = NoReply]
  OBVIOUS
<1>2. /\ task' = [task EXCEPT ![t] = x] /\ faults' \in 0..MaxFaults /\ task[t].at = "get"
      /\ UNCHANGED <<serverVars, thread, sessionVars, consented, granted, used>> /\ excused' \subseteq Ids
  BY <1>1, OneFaultMore, ForgottenIds DEF GetFails
<1>3. x \in TaskState /\ x.at = "create" /\ x.reply = NoReply /\ x.result = task[t].result
      /\ x.call = task[t].call
  BY <1>1, TaskType DEF TaskState, NoReply, Statuses
<1>4. TaskInv(x)' /\ (thread = t /\ t # Nobody => HeldInv(x))
  BY <1>2, <1>3, TaskType, FreeTaskFacts, NobodysIds DEF TaskInv, HeldInv, Excusable
<1>. QED BY <1>2, <1>3, <1>4, CoroutineStep DEF IInv, TypeOK, CachedInv

LEMMA StepCreateLost ==
  ASSUME IInv, NEW t \in Tasks, CreateLost(t)
  PROVE  IInv'
<1>1. PICK server \in {"none", "select", "insert"} : Ends(t, Refuse, server)
  BY TaskType DEF CreateLost, TaskState, Unavailable
<1>2. faults' \in 0..MaxFaults /\ UNCHANGED <<serverVars, thread, sessionVars, histVars>> /\ task[t].at = "create"
  BY OneFaultMore DEF CreateLost
<1>3. PICK x \in TaskState :
         /\ task' = [task EXCEPT ![t] = x]
         /\ x.reply = NoReply
         /\ (x.at = "done" /\ x.result = Refuse /\ x.call = task[t].call) \/ (x.at = "free" /\ x.result = Pass /\ thread # t)
  BY <1>1, EndsFacts, FreeTaskFacts
<1>4. TaskInv(x)' /\ (thread = t /\ t # Nobody => HeldInv(x))
  BY <1>2, <1>3, TaskType, FreeTaskFacts, NobodysIds DEF TaskInv, HeldInv, Excusable
<1>. QED BY <1>2, <1>3, <1>4, CoroutineStep DEF IInv, TypeOK, CachedInv

LEMMA StepCreateFails ==
  ASSUME IInv, NEW t \in Tasks, CreateFails(t)
  PROVE  IInv'
<1>1. PICK x : x = [task[t] EXCEPT !.server = "none", !.reply.status = "error"]
  OBVIOUS
<1>2. /\ task' = [task EXCEPT ![t] = x] /\ faults' \in 0..MaxFaults /\ task[t].at = "create"
      /\ UNCHANGED <<serverVars, thread, sessionVars, histVars>>
  BY <1>1, OneFaultMore DEF CreateFails
<1>3. /\ x \in TaskState /\ x.at = "create" /\ x.reply.id = task[t].reply.id
      /\ x.reply.status = "error" /\ x.result = task[t].result
      /\ x.call = task[t].call
  BY <1>1, <1>2, TaskType DEF TaskState
<1>4. TaskInv(x)' /\ (thread = t /\ t # Nobody => HeldInv(x))
  BY <1>2, <1>3, TaskType DEF TaskInv, HeldInv, Excusable
<1>. QED BY <1>2, <1>3, <1>4, CoroutineStep DEF IInv, TypeOK, CachedInv

LEMMA StepGetApproval ==
  ASSUME IInv, NEW t \in Tasks, GetApproval(t)
  PROVE  IInv'
<1>1. PICK x : x = [task[t] EXCEPT !.reply.status = rows[task[t].reply.id].status]
  OBVIOUS
<1>2. /\ task' = [task EXCEPT ![t] = x] /\ task[t].at = "get"
      /\ UNCHANGED <<serverVars, thread, sessionVars, faults, histVars>>
  BY <1>1 DEF GetApproval
<1>3. /\ task[t].reply.id \in Ids /\ rows[task[t].reply.id].status \in Statuses
      /\ (rows[task[t].reply.id].status = "approved" => task[t].reply.id \in consented)
  BY <1>2, TaskType DEF TaskInv, IInv, TypeOK, Rows, RowInv
<1>4. /\ x \in TaskState /\ x.at = "get" /\ x.reply.id = task[t].reply.id
      /\ x.reply.status = rows[task[t].reply.id].status /\ x.result = task[t].result
      /\ x.call = task[t].call
  BY <1>1, <1>2, <1>3, TaskType DEF TaskState
<1>5. TaskInv(x)' /\ (thread = t /\ t # Nobody => HeldInv(x))
  BY <1>2, <1>3, <1>4, TaskType DEF TaskInv, HeldInv, Excusable
<1>. QED BY <1>2, <1>4, <1>5, CoroutineStep DEF IInv, TypeOK, CachedInv

LEMMA StepCreateSelect ==
  ASSUME IInv, NEW t \in Tasks, CreateSelect(t)
  PROVE  IInv'
<1>1. UNCHANGED <<serverVars, thread, sessionVars, faults, histVars>>
  BY DEF CreateSelect
<1>2. CASE task' = [task EXCEPT ![t].server = "insert"]
  <2>1. PICK x : x = [task[t] EXCEPT !.server = "insert"]
    OBVIOUS
  <2>2. task' = [task EXCEPT ![t] = x] /\ x \in TaskState /\ x.at = task[t].at /\ x.call = task[t].call
        /\ x.reply = task[t].reply /\ x.result = task[t].result
    BY <1>2, <2>1, TaskType DEF TaskState
  <2>3. TaskInv(x)' /\ (thread = t /\ t # Nobody => HeldInv(x))
    BY <1>1, <2>2, TaskType DEF TaskInv, HeldInv, Excusable
  <2>. QED BY <1>1, <2>2, <2>3, CoroutineStep DEF IInv, TypeOK, CachedInv
<1>3. ASSUME NEW id \in Ids \cup {NoId}, NEW status \in {"pending", "error"}, Answer(t, id, status),
             id \notin used
      PROVE  IInv'
  <2>1. PICK x \in TaskState :
           /\ task' = [task EXCEPT ![t] = x]
           /\ \/ x.at = "create" /\ x.reply.id = id /\ x.reply.status = status /\ x.result = task[t].result
                 /\ x.call = task[t].call /\ task[t].at = "create"
              \/ x.at = "free" /\ x.reply = NoReply /\ x.result = Pass /\ task[t].at = "free"
              \/ x.at = task[t].at /\ x.reply = task[t].reply /\ x.result = task[t].result /\ x.call = task[t].call
    BY <1>3, AnswerFacts
  <2>2. TaskInv(x)'
    BY <1>1, <2>1, FreeTaskFacts, TaskType DEF TaskInv, Excusable
  <2>3. thread = t /\ t # Nobody => HeldInv(x)
    BY <1>3, <2>1, TaskType, NobodysIds DEF HeldInv
  <2>. QED BY <1>1, <2>1, <2>2, <2>3, CoroutineStep DEF IInv, TypeOK, CachedInv
<1>4. ASSUME NEW i \in Ids, Waiting(task[t].call) = {i}, Answer(t, i, "pending") PROVE IInv'
  <2>1. i \notin used
    BY <1>4 DEF Waiting, IInv, UsedInv, RowInv
  <2>. QED BY <1>3, <1>4, <2>1
<1>5. CASE Answer(t, NoId, "error")
  BY <1>3, <1>5, NobodysIds
<1>. QED BY <1>2, <1>4, <1>5 DEF CreateSelect

LEMMA StepCreateInsert ==
  ASSUME IInv, NEW t \in Tasks, CreateInsert(t)
  PROVE  IInv'
<1>1. PICK i \in Ids :
        /\ rows[i].status = "unused" /\ Answer(t, i, "pending")
        /\ rows' = [rows EXCEPT ![i] = [Unused EXCEPT !.status = "pending", !.key = task[t].call]]
  BY DEF CreateInsert
<1>2. UNCHANGED <<decisions, thread, sessionVars, faults, histVars>>
  BY DEF CreateInsert
<1>3. PICK row : row = [Unused EXCEPT !.status = "pending", !.key = task[t].call]
  OBVIOUS
<1>4. row \in Rows /\ row.status = "pending" /\ rows' = [rows EXCEPT ![i] = row]
  BY <1>1, <1>3, TaskType, FreeTaskFacts DEF Rows, Statuses, TaskState
<1>5. i \notin consented /\ i \notin used
  BY <1>1 DEF IInv, RowInv, UsedInv
<1>6. PICK x \in TaskState :
         /\ task' = [task EXCEPT ![t] = x]
         /\ \/ x.at = "create" /\ x.reply.id = i /\ x.reply.status = "pending" /\ x.result = task[t].result
               /\ x.call = task[t].call /\ task[t].at = "create"
            \/ x.at = "free" /\ x.reply = NoReply /\ x.result = Pass /\ task[t].at = "free"
            \/ x.at = task[t].at /\ x.reply = task[t].reply /\ x.result = task[t].result /\ x.call = task[t].call
  BY <1>1, AnswerFacts
<1>7. TaskInv(x)'
  BY <1>2, <1>6, FreeTaskFacts, TaskType DEF TaskInv, Excusable
<1>8. thread = t /\ t # Nobody => HeldInv(x)
  BY <1>5, <1>6, TaskType, NobodysIds DEF HeldInv
<1>9. task' \in [Tasks -> TaskState] /\ TasksInv' /\ UsedInv'
  BY <1>2, <1>6, <1>7, <1>8, TaskChanges, UsedKept
<1>10. RowInv'
  BY <1>2, <1>4, <1>5 DEF IInv, TypeOK, RowInv
<1>11. TypeOK'
  BY <1>2, <1>4, <1>9 DEF IInv, TypeOK
<1>. QED BY <1>2, <1>9, <1>10, <1>11 DEF IInv, CachedInv, Excusable

LEMMA StepOperate ==
  ASSUME IInv, NEW d \in Decisions, Operate(d)
  PROVE  IInv'
<1>1. d.id \in Ids /\ d.verb \in {"approved", "denied", "expired"}
  BY DEF Decisions
<1>2. UNCHANGED <<task, thread, sessionVars, faults, granted, used>> /\ excused' \subseteq Ids
  BY <1>1, ForgottenIds DEF Operate, Load, Commit
<1>3. CASE Load(d.id, d.verb)
  <2>1. [verb |-> d.verb, id |-> d.id] \in Decisions
    BY <1>1 DEF Decisions
  <2>2. UNCHANGED <<rows, consented>> /\ decisions' \subseteq Decisions
    BY <1>3, <2>1 DEF Load, IInv, TypeOK
  <2>3. TasksInv'
    BY <1>2, <2>2, TasksUnchanged
  <2>. QED BY <1>2, <2>2, <2>3 DEF IInv, TypeOK, RowInv, CachedInv, Excusable, UsedInv, HeldInv
<1>4. CASE Commit(d)
  <2>1. /\ decisions' \subseteq Decisions /\ rows' = [rows EXCEPT ![d.id].status = d.verb]
        /\ consented' = IF d.verb = "approved" THEN consented \cup {d.id} ELSE consented
    BY <1>4 DEF Commit, IInv, TypeOK
  <2>2. rows' \in [Ids -> Rows] /\ rows'[d.id].status = d.verb /\ \A i \in Ids : i # d.id => rows'[i] = rows[i]
    BY <1>1, <2>1 DEF IInv, TypeOK, Rows, Statuses
  <2>3. consented' \subseteq Ids /\ consented \subseteq consented' /\ consented' \subseteq consented \cup {d.id}
        /\ (d.verb = "approved" => d.id \in consented')
    BY <1>1, <2>1 DEF IInv, TypeOK
  <2>4. RowInv'
    BY <1>1, <2>2, <2>3 DEF IInv, RowInv
  <2>5. TasksInv'
    BY <1>2, <2>3, TasksUnchanged
  <2>. QED BY <1>2, <2>1, <2>2, <2>3, <2>4, <2>5 DEF IInv, TypeOK, CachedInv, Excusable, UsedInv, HeldInv
<1>. QED BY <1>3, <1>4 DEF Operate

LEMMA StepOther ==
  ASSUME IInv, CreateGrant \/ Heartbeat \/ RequestTermination \/ UNCHANGED vars
  PROVE  IInv'
<1>1. /\ UNCHANGED <<serverVars, task, thread, pending, consented, used, excused>>
      /\ faults' \in 0..MaxFaults
      /\ granted' \in BOOLEAN /\ (granted => granted')
      /\ terminateRequested' \in BOOLEAN /\ (terminateRequested => terminateRequested')
      /\ cached' \in BOOLEAN /\ (cached' => Excusable)
  <2>1. CASE CreateGrant
    <3>1. faults' \in 0..MaxFaults
      BY <2>1, FaultsAssumption DEF IInv, TypeOK, CreateGrant
    <3>. QED BY <2>1, <3>1 DEF IInv, TypeOK, CachedInv, CreateGrant
  <2>2. CASE Heartbeat
    <3>1. PICK answer \in {FALSE, granted \/ consented # {}} : cached' = answer
      BY <2>2 DEF Heartbeat
    <3>2. cached' \in BOOLEAN /\ (cached' => Excusable)
      BY <3>1 DEF IInv, TypeOK, Excusable
    <3>. QED BY <2>2, <3>2 DEF IInv, TypeOK, Heartbeat
  <2>3. CASE RequestTermination
    BY <2>3 DEF IInv, TypeOK, CachedInv, RequestTermination
  <2>4. CASE UNCHANGED vars
    BY <2>4 DEF IInv, TypeOK, CachedInv
  <2>. QED BY <2>1, <2>2, <2>3, <2>4
<1>2. TasksInv'
  BY <1>1, TasksUnchanged
<1>. QED BY <1>1, <1>2 DEF IInv, TypeOK, RowInv, CachedInv, Excusable, UsedInv, HeldInv

-----------------------------------------------------------------------------
(* The theorems.                                                           *)

LEMMA Initially == Init => IInv
<1>. SUFFICES ASSUME Init PROVE IInv
  OBVIOUS
<1>1. TypeOK
  <2>1. task \in [Tasks -> TaskState] /\ rows \in [Ids -> Rows]
    BY FreeTaskFacts DEF Init
  <2>2. faults \in 0..MaxFaults
    BY FaultsAssumption DEF Init
  <2>. QED BY <2>1, <2>2 DEF Init, TypeOK
<1>2. RowInv
  BY DEF Init, RowInv, Unused
<1>3. TasksInv
  <2>. SUFFICES ASSUME NEW t \in Tasks PROVE TaskInv(FreeTask)
    BY DEF Init, TasksInv
  <2>. QED BY FreeTaskFacts DEF TaskInv
<1>. QED BY <1>1, <1>2, <1>3 DEF Init, IInv, CachedInv, UsedInv

LEMMA Inductive ==
  ASSUME IInv, [Next]_vars
  PROVE  IInv'
BY StepPreToolCall, StepFinish, StepTimeout, StepEvaluate, StepReceive, StepGetFails, StepCreateLost,
   StepCreateFails, StepGetApproval, StepCreateSelect, StepCreateInsert, StepOperate, StepOther
DEF Next, Coroutine, Handler, Fault

(* The invariant of the approval gate holds whatever requests are lost,    *)
(* time out or are answered late, and whatever operators decide meanwhile. *)
THEOREM Invariance == Spec => []IInv
BY Initially, Inductive, PTL DEF Spec

(* Every approval row, coroutine and reply is well typed, also those of    *)
(* coroutines the hook no longer waits for.                                *)
THEOREM TypeCorrect == Spec => []TypeOK
<1>1. IInv => TypeOK
  BY DEF IInv
<1>. QED BY <1>1, Invariance, PTL

(* What a call that runs has behind it.                                    *)
LEMMA Warrant ==
  ASSUME IInv, NEW c \in Calls, NEW w \in Ids \cup {NoId}, Runs(c, w)
  PROVE  /\ w # NoId => w \notin used
         /\ c \notin InScope /\ Checked => granted \/ consented # {}
<1>1. /\ thread \in Tasks /\ thread # Nobody /\ task[thread].call = c /\ ~terminateRequested
      /\ (IF task[thread].at = "done" THEN task[thread].result ELSE Crash).id = w
  BY DEF Runs, Passes, Outcome, IInv, TypeOK
<1>2. TaskInv(task[thread]) /\ task[thread] \in TaskState
  BY <1>1, TaskType
<1>3. w # NoId => w \notin used
  BY <1>1, FreeTaskFacts DEF IInv, UsedInv, HeldInv
<1>4. task[thread].at # "free"
  BY <1>1 DEF IInv, UsedInv, HeldInv
<1>5. c \notin InScope /\ Checked => granted \/ consented # {}
  BY <1>1, <1>2, <1>4 DEF TaskInv, Checked, Excusable, TaskState
<1>. QED BY <1>3, <1>5

(* The approval phase never takes a request that is lost, denied, expired  *)
(* or still open for an approval (bridge.py, evaluate_tool_approval, and   *)
(* approvals.py): what it passes has an operator's consent.                *)
THEOREM ConsentFirst == Spec => []PassNeedsConsent
<1>1. IInv => PassNeedsConsent
  BY DEF IInv, TasksInv, TaskInv, PassNeedsConsent
<1>. QED BY <1>1, Invariance, PTL

(* An approved answer lets one call through, although a coroutine that     *)
(* timed out may still hold it (plugin.py, pre_tool_call; bridge.py).      *)
THEOREM SpentOnce == Spec => IdSpentOnce
<1>1. IInv => \A c \in Calls, w \in Ids : Runs(c, w) => w \notin used
  BY Warrant, NoIdFacts
<1>. QED BY <1>1, Invariance, PTL DEF IdSpentOnce

(* A tool outside the allowlist whose scope was checked runs only after an *)
(* operator gave an approval or a grant, also when its evaluation crashes  *)
(* or outlasts the thread's wait (bridge.py; grants.py).                   *)
THEOREM NoneOutOfScope == Spec => OutOfScopeNeedsOperator
<1>1. IInv => \A c \in Calls \ InScope, w \in Ids \cup {NoId} :
                Runs(c, w) /\ Checked => granted \/ consented # {}
  BY Warrant
<1>. QED BY <1>1, Invariance, PTL DEF OutOfScopeNeedsOperator
=============================================================================
