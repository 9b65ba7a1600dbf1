------------------------------ MODULE KillEvents -----------------------------
(***************************************************************************)
(* The kill_events of one agent in the control plane: an operator's        *)
(* POST /agents/{id}/terminate, the death certificates the SDK posts, the  *)
(* feedback a certificate's token allows, and the deletion of the agent.   *)
(*                                                                         *)
(* Each request is a handler with a READ COMMITTED transaction of its own. *)
(* A handler reads in one or two steps and writes in a last one: flush and *)
(* commit hold the rows they touch, so concurrent writers pass one at a    *)
(* time, each with what it read before.  What the last step then meets in  *)
(* the tables (a unique index, a foreign key, a row that has gone) rolls   *)
(* the whole transaction back.                                             *)
(***************************************************************************)
EXTENDS Naturals, FiniteSets

CONSTANTS
  Requests,  \* HTTP requests about the agent, each handled once
  Nobody     \* no request

ASSUME NobodyAssumption == Nobody \notin Requests

VARIABLES
  agent,       \* agents.status, or "deleted"
  killEvents,  \* rows of kill_events; the inserting request stands for the id
  tokens,      \* rows of feedback_tokens
  sdkKill,     \* the cause the SDK died of: "none", "auto" or "manual"
  pc,          \* where the handler of each request is
  existing     \* ids of the active events create_kill_event has read

vars == <<agent, killEvents, tokens, sdkKill, pc, existing>>

KillEvent == [id      : Requests,
              trigger : {"auto", "manual"},
              status  : {"initiated", "confirmed"},
              cert    : Requests \cup {Nobody},  \* who posted death_certificate
              label   : Requests \cup {Nobody}]  \* who set feedback_label

FeedbackToken == [event : Requests, cert : Requests, used : BOOLEAN]

TypeOK ==
  /\ agent \in {"registered", "dying", "terminated", "deleted"}
  /\ killEvents \subseteq KillEvent
  /\ tokens \subseteq FeedbackToken
  /\ sdkKill \in {"none", "auto", "manual"}
  /\ pc \in [Requests -> {"idle", "terminating", "loaded", "read", "deleting",
                          "pruning", "judging", "created", "conflict", "failed", "done"}]
  /\ existing \in [Requests -> SUBSET Requests]

Init ==
  /\ agent = "registered"
  /\ killEvents = {}
  /\ tokens = {}
  /\ sdkKill = "none"
  /\ pc = [r \in Requests |-> "idle"]
  /\ existing = [r \in Requests |-> {}]

Goto(r, l) == pc' = [pc EXCEPT ![r] = l]

(* Neither status leaves the index ux_kill_events_one_active_per_agent.    *)
Active == {e \in killEvents : e.status \in {"initiated", "confirmed"}}

(* A handler's answer that writes nothing: an early return or a rollback.  *)
Answer(r, l) == Goto(r, l) /\ UNCHANGED <<agent, killEvents, tokens, sdkKill, existing>>

-----------------------------------------------------------------------------
(* POST /agents/{id}/terminate                                             *)

TerminateLoad(r) ==
  /\ pc[r] = "idle"
  /\ Answer(r, IF agent \in {"deleted", "terminated"} THEN "done" ELSE "terminating")

InsertInitiated(r) ==
  /\ killEvents' = killEvents \cup
       {[id |-> r, trigger |-> "manual", status |-> "initiated",
         cert |-> Nobody, label |-> Nobody]}
  /\ agent' = "dying"
  /\ Goto(r, "done")
  /\ UNCHANGED <<tokens, sdkKill, existing>>

(* Slip: the index does not cover the insert.                              *)
TerminateCommitUnindexed(r) ==
  /\ pc[r] = "terminating"
  /\ agent # "deleted"
  /\ InsertInitiated(r)

TerminateCommit(r) ==
  /\ pc[r] = "terminating"
  /\ agent # "deleted"
  /\ Active = {}
  /\ InsertInitiated(r)

(* Slip: the status is written outside the transaction that fails.         *)
TerminateRollbackHalf(r) ==
  /\ pc[r] = "terminating"
  /\ agent = "deleted" \/ Active # {}
  /\ agent' = IF agent = "deleted" THEN agent ELSE "dying"
  /\ Goto(r, "done")
  /\ UNCHANGED <<killEvents, tokens, sdkKill, existing>>

TerminateRollback(r) ==
  /\ pc[r] = "terminating"
  /\ agent = "deleted" \/ Active # {}
  /\ Answer(r, "done")

-----------------------------------------------------------------------------
(* POST /agents/{id}/kill_events                                           *)

(* Slip: a certificate is taken from an SDK that is alive.                 *)
CertLoadAlive(r) ==
  /\ pc[r] = "idle"
  /\ Answer(r, IF agent = "deleted" THEN "failed" ELSE "loaded")

CertLoad(r) ==
  /\ pc[r] = "idle"
  /\ sdkKill # "none"
  /\ Answer(r, IF agent = "deleted" THEN "failed" ELSE "loaded")

CertRead(r) ==
  /\ pc[r] = "loaded"
  /\ existing' = [existing EXCEPT ![r] = {e.id : e \in Active}]
  /\ Goto(r, IF \E e \in Active : e.status = "confirmed" THEN "conflict" ELSE "read")
  /\ UNCHANGED <<agent, killEvents, tokens, sdkKill>>

(* What both branches of _build_or_update_kill_event end in.               *)
Confirm(r, e, others) ==
  /\ killEvents' = others \cup
       {[id |-> e.id, trigger |-> e.trigger, status |-> "confirmed",
         cert |-> r, label |-> e.label]}
  /\ agent' = "terminated"
  /\ tokens' = tokens \cup {[event |-> e.id, cert |-> r, used |-> FALSE]}
  /\ Goto(r, "created")
  /\ UNCHANGED <<sdkKill, existing>>

CertInsertable(r) == existing[r] = {} /\ agent # "deleted" /\ Active = {}

(* The row read before is still there, and has no token yet.               *)
CertUpdatable(r) ==
  /\ existing[r] # {}
  /\ existing[r] \subseteq {e.id : e \in killEvents}
  /\ \A t \in tokens : t.event \notin existing[r]

CertInsert(r) ==
  /\ pc[r] = "read"
  /\ CertInsertable(r)
  /\ Confirm(r, [id |-> r, trigger |-> sdkKill, label |-> Nobody], killEvents)

(* Slip: feedback_tokens.kill_event_id is not unique.                      *)
CertUpdateUnchecked(r) ==
  /\ pc[r] = "read"
  /\ \E e \in killEvents :
       /\ e.id \in existing[r]
       /\ Confirm(r, e, killEvents \ {e})

(* Slip: a conflict on the token is swallowed, the rest is committed.      *)
CertUpdateSwallowing(r) ==
  /\ pc[r] = "read"
  /\ \E e \in killEvents :
       /\ e.id \in existing[r]
       /\ killEvents' = (killEvents \ {e}) \cup
            {[e EXCEPT !.status = "confirmed", !.cert = r]}
       /\ tokens' = IF CertUpdatable(r)
                    THEN tokens \cup {[event |-> e.id, cert |-> r, used |-> FALSE]}
                    ELSE tokens
  /\ agent' = "terminated"
  /\ Goto(r, "created")
  /\ UNCHANGED <<sdkKill, existing>>

CertUpdate(r) ==
  /\ pc[r] = "read"
  /\ CertUpdatable(r)
  /\ \E e \in killEvents :
       /\ e.id \in existing[r]
       /\ Confirm(r, e, killEvents \ {e})

(* IntegrityError of the index, the token or the foreign key is a 409; an  *)
(* UPDATE that finds its row deleted is a 500.                             *)
CertRollback(r) ==
  /\ pc[r] = "read"
  /\ ~CertInsertable(r) /\ ~CertUpdatable(r)
  /\ Answer(r, IF agent = "deleted" THEN "failed" ELSE "conflict")

-----------------------------------------------------------------------------
(* The SDK dies once, of the first cause: a symptom of its own, or the     *)
(* manual kill GET /kills/pending has shown its poller.                    *)

SymptomKill ==
  /\ sdkKill = "none"
  /\ sdkKill' = "auto"
  /\ UNCHANGED <<agent, killEvents, tokens, pc, existing>>

PendingKill ==
  /\ sdkKill = "none"
  /\ \E e \in killEvents : e.status = "initiated" /\ e.trigger = "manual"
  /\ sdkKill' = "manual"
  /\ UNCHANGED <<agent, killEvents, tokens, pc, existing>>

-----------------------------------------------------------------------------
(* POST /feedback/{token}: the token is read, then token and event are     *)
(* written.  An unknown, expired or used token changes nothing.            *)

FeedbackRead(r) ==
  /\ pc[r] = "idle"
  /\ \E t \in tokens : ~t.used
  /\ Answer(r, "judging")

FeedbackCommit(r) ==
  /\ pc[r] = "judging"
  /\ tokens # {}
  /\ tokens' = {[t EXCEPT !.used = TRUE] : t \in tokens}
  /\ killEvents' = {[e EXCEPT !.label = r] : e \in killEvents}
  /\ Goto(r, "done")
  /\ UNCHANGED <<agent, sdkKill, existing>>

FeedbackGone(r) ==
  /\ pc[r] = "judging"
  /\ tokens = {}
  /\ Answer(r, "failed")

-----------------------------------------------------------------------------
(* DELETE /agents/{id} and POST /agents/prune: an agent is chosen in one   *)
(* step and deleted, with all that hangs off it, in a later one.           *)

DeleteLoad(r) ==
  /\ pc[r] = "idle"
  /\ Answer(r, IF agent = "deleted" THEN "done" ELSE "deleting")

(* prune with the default status; any other status is a DeleteLoad.        *)
PruneSelect(r) ==
  /\ pc[r] = "idle"
  /\ Answer(r, IF agent = "terminated" THEN "pruning" ELSE "done")

CascadeDelete(r) ==
  /\ pc[r] \in {"deleting", "pruning"}
  /\ agent' = "deleted"
  /\ killEvents' = {}
  /\ tokens' = {}
  /\ Goto(r, "done")
  /\ UNCHANGED <<sdkKill, existing>>

-----------------------------------------------------------------------------

Handle(r) ==
  \/ TerminateLoad(r)
  \/ TerminateCommit(r)
  \/ TerminateRollback(r)
  \/ CertLoad(r)
  \/ CertRead(r)
  \/ CertInsert(r)
  \/ CertUpdate(r)
  \/ CertRollback(r)
  \/ FeedbackRead(r)
  \/ FeedbackCommit(r)
  \/ FeedbackGone(r)
  \/ DeleteLoad(r)
  \/ PruneSelect(r)
  \/ CascadeDelete(r)

Next ==
  \/ \E r \in Requests : Handle(r)
  \/ SymptomKill
  \/ PendingKill

Spec == Init /\ [][Next]_vars

-----------------------------------------------------------------------------
(* Properties                                                              *)

(* The two tables tell one story: an agent is dying exactly while an       *)
(* operator's kill waits for its certificate, terminated exactly when a    *)
(* certificate has arrived, and a deleted agent leaves nothing behind      *)
(* (terminate_agent and create_kill_event write both rows from what they   *)
(* read before the other one committed).                                   *)
StatusAgreement ==
  /\ agent \in {"registered", "deleted"} <=> killEvents = {}
  /\ agent = "dying"      <=> \E e \in killEvents : e.status = "initiated"
  /\ agent = "terminated" <=> \E e \in killEvents : e.status = "confirmed"

(* Every stored certificate has one token, the one whose link it carries,  *)
(* and there is no token without its certificate (create_kill_event puts   *)
(* the link in the certificate before it knows whether the token is kept). *)
CertHasItsToken ==
  \A r \in Requests :
    {t \in tokens : t.cert = r} # {} <=>
      \E e \in killEvents :
        /\ e.status = "confirmed"
        /\ e.cert = r
        /\ {t.cert : t \in {u \in tokens : u.event = e.id}} = {r}

(* The first certificate stands: no later post, however stale what it read *)
(* is, replaces the certificate, the cause or the id of a confirmed event. *)
FirstCertStands ==
  [][\A e \in killEvents :
       e.status = "confirmed" =>
         \/ agent' = "deleted"
         \/ \E f \in killEvents' :
              /\ f.status = "confirmed"
              /\ <<f.id, f.trigger, f.cert>> = <<e.id, e.trigger, e.cert>>]_vars

(* An agent only moves on in its life, whatever a slow handler has read    *)
(* before: dying to terminated, terminated to deleted, deleted for good.   *)
NoResurrection ==
  [][/\ agent = "dying"      => agent' # "registered"
     /\ agent = "terminated" => agent' \in {"terminated", "deleted"}
     /\ agent = "deleted"    => agent' = "deleted"]_vars

(* POST /agents/prune with its default deletes terminated agents only,     *)
(* though it selects them in one statement and deletes them in another.    *)
PruneSparesLive ==
  [][\A r \in Requests :
       pc[r] = "pruning" /\ pc'[r] = "done" => agent \in {"terminated", "deleted"}]_vars

(* create_kill_event's docstring: all three paths, the 409 included, leave *)
(* the agent terminated; "after this returns, GET /agents/{id} shows the   *)
(* agent as terminated".                                                   *)
AnsweredCertTerminates ==
  (\E r \in Requests : pc[r] \in {"created", "conflict"}) =>
    agent \in {"terminated", "deleted"}

(* FeedbackToken's docstring: "Single-use", a second submission is a 410:  *)
(* the verdict on a kill is never overwritten.                             *)
FeedbackSingleUse ==
  [][\A e \in killEvents : e.label # Nobody =>
       \A f \in killEvents' : f.id = e.id => f.label = e.label]_vars
=============================================================================
