----------------------------- MODULE EventDelivery ---------------------------
(***************************************************************************)
(* The way of a session's events: WatcherState's queue and the background  *)
(* worker that drains it (hermeskill/watcher.py), the events endpoint      *)
(* (control_plane/api/events.py), and an operator's `logs --follow`        *)
(* (hermeskill/cli.py) reading them by id.                                 *)
(*                                                                         *)
(* The queue is locked; the worker is one task, so its POSTs follow one    *)
(* another.  A POST it has given up on goes on: the control plane may      *)
(* still insert its rows, which draws their ids, and commit them, which    *)
(* makes them appear, each at any later time.                              *)
(***************************************************************************)
EXTENDS Naturals, Sequences, FiniteSets

CONSTANTS
  BatchMax,   \* EVENT_BATCH_MAX
  HeadLimit,  \* logs --limit
  TailLimit,  \* the limit of a poll of logs --follow
  MaxEvents,  \* bound: events recorded
  MaxFaults   \* bound: POSTs that fail

ASSUME LimitsAssumption ==
  /\ BatchMax \in Nat \ {0} /\ HeadLimit \in Nat \ {0} /\ TailLimit \in Nat \ {0}
  /\ MaxEvents \in Nat /\ MaxFaults \in Nat

VARIABLES
  produced,    \* how many events were enqueued; an event is its number
  queue,       \* WatcherState._pending_events
  worker,      \* the worker: where it is, and what it has still to post
  requests,    \* POSTs whose rows are not inserted yet
  txs,         \* those whose rows are, but not committed
  nextId,      \* the sequence behind events.id
  rows,        \* the committed rows
  registered,  \* the watcher is in the registry
  stopping,    \* BackgroundWorker.stop was called
  follower,    \* the logs command: its cursor, and the smallest id of its first page
  printed,     \* events it has printed
  faults,
  overtaken    \* history: a batch was inserted after its sender had given up on it

clientVars == <<produced, queue, worker, registered, stopping>>
serverVars == <<requests, txs, nextId, rows, overtaken>>
readerVars == <<follower, printed>>
vars == <<clientVars, serverVars, readerVars, faults>>

Events == 1..MaxEvents
Row == [id : Nat, event : Events]
Stored == {r.event : r \in rows}

(* waits: the worker still waits for the answer.  no tells requests apart  *)
(* that carry the same events: how many POSTs had failed before.           *)
TypeOK ==
  /\ produced \in 0..MaxEvents
  /\ queue \in Seq(Events)
  /\ worker \in [at : {"rest", "sending", "waiting", "stopped"}, todo : Seq(Events), last : BOOLEAN]
  /\ worker.at \in {"sending", "waiting"} <=> worker.todo # <<>>
  /\ requests \subseteq [no : 0..faults, events : Seq(Events), waits : BOOLEAN]
  /\ txs \subseteq [first : 1..(nextId - 1), events : Seq(Events), waits : BOOLEAN]
  /\ nextId \in Nat
  /\ rows \subseteq Row
  /\ registered \in BOOLEAN
  /\ stopping \in BOOLEAN
  /\ follower \in [at : {"start", "following"}, cursor : Nat, floor : Nat]
  /\ printed \subseteq Events
  /\ faults \in 0..MaxFaults
  /\ overtaken \in BOOLEAN

Init ==
  /\ produced = 0
  /\ queue = <<>>
  /\ worker = [at |-> "rest", todo |-> <<>>, last |-> FALSE]
  /\ requests = {}
  /\ txs = {}
  /\ nextId = 1
  /\ rows = {}
  /\ registered = TRUE
  /\ stopping = FALSE
  /\ follower = [at |-> "start", cursor |-> 0, floor |-> 0]
  /\ printed = {}
  /\ faults = 0
  /\ overtaken = FALSE

-----------------------------------------------------------------------------
(* The agent's process.                                                    *)

(* _enqueue, from any hook.                                                *)
Record ==
  /\ produced < MaxEvents
  /\ produced' = produced + 1
  /\ queue' = Append(queue, produced + 1)
  /\ UNCHANGED <<worker, registered, stopping, serverVars, readerVars, faults>>

(* The worker goes on with what is left of the events it has drained; its  *)
(* last drain is that of the stop.                                         *)

(* Slip: it posts again before it looks whether anything is left. *)
ContinueAnyway(events, last) ==
  worker' = [at |-> IF last THEN "stopped" ELSE "sending", todo |-> events, last |-> last]

Continue(events, last) ==
  worker' = [at |-> IF events # <<>> THEN "sending" ELSE IF last THEN "stopped" ELSE "rest",
             todo |-> events, last |-> last]

(* A tick drains the queue of a registered watcher.                        *)

(* Slip: it waits for a full batch. *)
TickFull ==
  /\ worker.at = "rest"
  /\ Len(queue) >= BatchMax \/ stopping
  /\ Continue(IF registered THEN queue ELSE <<>>, stopping)
  /\ queue' = IF registered THEN <<>> ELSE queue
  /\ UNCHANGED <<produced, registered, stopping, serverVars, readerVars, faults>>

Tick ==
  /\ worker.at = "rest"
  /\ queue # <<>> \/ stopping
  /\ Continue(IF registered THEN queue ELSE <<>>, stopping)
  /\ queue' = IF registered THEN <<>> ELSE queue
  /\ UNCHANGED <<produced, registered, stopping, serverVars, readerVars, faults>>

Chunk == SubSeq(worker.todo, 1, IF Len(worker.todo) < BatchMax THEN Len(worker.todo) ELSE BatchMax)

(* Slip: the next chunk starts with the last event of this one. *)
RestOverlapping == SubSeq(worker.todo, BatchMax, Len(worker.todo))

Rest == SubSeq(worker.todo, BatchMax + 1, Len(worker.todo))

(* Slip: the events that could not be posted are put behind the new ones. *)
RequeueBehind(todo) == queue \o todo

Requeue(todo) == todo \o queue

(* The POST fails: what was not accepted goes back to the queue.           *)
PostFails ==
  /\ faults < MaxFaults
  /\ faults' = faults + 1
  /\ queue' = Requeue(worker.todo)
  /\ Continue(<<>>, worker.last)
  /\ UNCHANGED <<produced, registered, stopping, readerVars>>

Accepted ==
  /\ Continue(Rest, worker.last)
  /\ UNCHANGED <<produced, queue, registered, stopping, readerVars, faults>>

(* session_finalize unregisters the watcher, whatever is queued.           *)
Unregister ==
  /\ registered
  /\ registered' = FALSE
  /\ UNCHANGED <<produced, queue, worker, stopping, serverVars, readerVars, faults>>

Stop ==
  /\ ~stopping
  /\ stopping' = TRUE
  /\ UNCHANGED <<produced, queue, worker, registered, serverVars, readerVars, faults>>

-----------------------------------------------------------------------------
(* The wire and the control plane.                                         *)

Send ==
  /\ worker.at = "sending"
  /\ requests' = requests \cup {[no |-> faults, events |-> Chunk, waits |-> TRUE]}
  /\ worker' = [worker EXCEPT !.at = "waiting"]
  /\ UNCHANGED <<produced, queue, registered, stopping, txs, nextId, rows, overtaken, readerVars, faults>>

(* What becomes of a POST concerns the worker while it waits for it.       *)
FailsIf(waits) == IF waits THEN PostFails ELSE UNCHANGED <<clientVars, readerVars, faults>>

(* The request is lost, or fails before the rows are added.                *)
LostOnTheWay(r) ==
  /\ r \in requests
  /\ requests' = requests \ {r}
  /\ FailsIf(r.waits)
  /\ UNCHANGED <<txs, nextId, rows, overtaken>>

(* The client's timeout before the rows are added.  The handler goes on.   *)
GiveUpRequest(r) ==
  /\ r \in requests
  /\ r.waits
  /\ requests' = (requests \ {r}) \cup {[r EXCEPT !.waits = FALSE]}
  /\ PostFails
  /\ UNCHANGED <<txs, nextId, rows, overtaken>>

(* post_events is past its own reads: it adds the rows of the batch, and   *)
(* each draws its id.                                                      *)
Insert(r) ==
  /\ r \in requests
  /\ requests' = requests \ {r}
  /\ txs' = txs \cup {[first |-> nextId, events |-> r.events, waits |-> r.waits]}
  /\ nextId' = nextId + Len(r.events)
  /\ overtaken' = (overtaken \/ ~r.waits)
  /\ UNCHANGED <<clientVars, rows, readerVars, faults>>

RowsOf(tx) == {[id |-> tx.first + i - 1, event |-> tx.events[i]] : i \in DOMAIN tx.events}

(* The batch is committed as a whole.  The answer may be lost.             *)
Commit(tx) ==
  /\ tx \in txs
  /\ txs' = txs \ {tx}
  /\ rows' = rows \cup RowsOf(tx)
  /\ (tx.waits /\ Accepted) \/ FailsIf(tx.waits)
  /\ UNCHANGED <<requests, nextId, overtaken>>

(* A failure of the control plane rolls the batch back.                    *)
Abort(tx) ==
  /\ tx \in txs
  /\ txs' = txs \ {tx}
  /\ FailsIf(tx.waits)
  /\ UNCHANGED <<requests, nextId, rows, overtaken>>

(* The client's timeout.  The transaction goes on.                         *)
GiveUp(tx) ==
  /\ tx \in txs
  /\ tx.waits
  /\ txs' = (txs \ {tx}) \cup {[tx EXCEPT !.waits = FALSE]}
  /\ PostFails
  /\ UNCHANGED <<requests, nextId, rows, overtaken>>

-----------------------------------------------------------------------------
(* logs --follow.                                                          *)

Newest(n) == {r \in rows : Cardinality({q \in rows : q.id > r.id}) < n}
After(cursor, n) ==
  {r \in rows : r.id > cursor /\ Cardinality({q \in rows : q.id > cursor /\ q.id < r.id}) < n}

LargestId(page) == CHOOSE i \in {r.id : r \in page} : \A r \in page : r.id <= i
SmallestId(page) == CHOOSE i \in {r.id : r \in page} : \A r \in page : i <= r.id

Prints(page) == printed' = printed \cup {r.event : r \in page}

(* The first page: the newest rows, descending; its head is the cursor.    *)
FirstPage ==
  /\ follower.at = "start"
  /\ LET page == Newest(HeadLimit)
     IN  /\ Prints(page)
         /\ follower' = [at |-> "following",
                         cursor |-> IF page = {} THEN 0 ELSE LargestId(page),
                         floor |-> IF page = {} THEN 0 ELSE SmallestId(page)]
  /\ UNCHANGED <<clientVars, serverVars, faults>>

(* Slip: the cursor jumps to the newest id, whatever the page holds. *)
CursorAtNewest(page) == LargestId(rows)

CursorAfter(page) == LargestId(page)

(* Then the rows after the cursor, ascending.                              *)
Poll ==
  /\ follower.at = "following"
  /\ LET page == After(follower.cursor, TailLimit)
     IN  /\ page # {}
         /\ Prints(page)
         /\ follower' = [follower EXCEPT !.cursor = CursorAfter(page)]
  /\ UNCHANGED <<clientVars, serverVars, faults>>

Next ==
  \/ Record \/ Tick \/ Unregister \/ Stop
  \/ Send \/ \E r \in requests : LostOnTheWay(r) \/ GiveUpRequest(r) \/ Insert(r)
  \/ \E tx \in txs : Commit(tx) \/ Abort(tx) \/ GiveUp(tx)
  \/ FirstPage \/ Poll

(* The worker's interval comes round, the control plane goes on with what  *)
(* it has, and the operator keeps polling.                                 *)
Fairness ==
  /\ WF_vars(Tick) /\ WF_vars(Send) /\ WF_vars(Poll)
  /\ WF_vars(\E r \in requests : Insert(r)) /\ WF_vars(\E tx \in txs : Commit(tx))

Spec == Init /\ [][Next]_vars /\ Fairness

-----------------------------------------------------------------------------
(* What is recorded is stored without gaps and in order, whatever POSTs    *)
(* fail, are given up on or are answered late: the pipeline implements     *)
(* EventLog.                                                               *)
Log == INSTANCE EventLog WITH recorded <- produced, stored <- Stored
ImplementsLog == Log!Spec

(* An event is stored again only for a POST that was given up on or whose  *)
(* answer was lost.                                                        *)
CopiesBounded == \A e \in Events : Cardinality({r \in rows : r.event = e}) <= faults + 1

(* No event is skipped by logs --follow: a row behind the cursor, but not  *)
(* older than the first page, holds an event that is printed or has        *)
(* another row still to come ("Tail events as they arrive", cli.py).       *)
FollowerMissesNothing ==
  follower.at = "following" =>
    \A r \in rows : r.id \in follower.floor..follower.cursor =>
      r.event \in printed \/ \E q \in rows : q.event = r.event /\ q.id > follower.cursor

(* Rows appear in another order than their ids; but only a batch that is   *)
(* inserted after its sender has given up on it, and posts again, can make *)
(* the follower miss an event.                                             *)
MissedOnlyBehindLateInsert == overtaken \/ FollowerMissesNothing

(* A recorded event is stored in the end, unless its session ends or the   *)
(* worker stops first; and an operator who follows sees what is stored, if *)
(* it is not older than the first page and no insertion came too late.     *)
EventsArrive ==
  \A e \in Events :
    /\ (e <= produced) ~> (e \in Stored \/ ~registered \/ worker.at = "stopped")
    /\ (e \in Stored /\ follower.at = "following") ~>
         (e \in printed \/ overtaken \/ \E r \in rows : r.event = e /\ r.id < follower.floor)
=============================================================================
