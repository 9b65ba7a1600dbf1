-------------------------- MODULE KillEventsProofs ---------------------------
(* Theorems about KillEvents and their proofs. *)
EXTENDS KillEvents, TLAPS

USE DEF vars, Goto, Answer

(* What the index, the token's uniqueness and the commits keep of the      *)
(* tables.  A stale read is harmless because of the last two parts: the    *)
(* event of an agent has no token exactly while it lacks its certificate.  *)
TableInv ==
  /\ \A e, f \in killEvents : e = f
  /\ \A t, u \in tokens : t = u
  /\ StatusAgreement
  /\ \A t \in tokens : \E e \in killEvents :
       e.status = "confirmed" /\ e.id = t.event /\ e.cert = t.cert
  /\ \A e \in killEvents : e.status = "confirmed" => \E t \in tokens :
       e.id = t.event /\ e.cert = t.cert

PruneInv == \A r \in Requests : pc[r] = "pruning" => agent \in {"terminated", "deleted"}

(* A certificate is only posted by an SDK that has died.                   *)
LoadedInv == \A r \in Requests : pc[r] \in {"loaded", "read"} => sdkKill # "none"

Inv == TypeOK /\ TableInv /\ PruneInv /\ LoadedInv

(* The tables with one event and no token, or an event and its token.     *)
LEMMA OneInitiated ==
  ASSUME NEW row, killEvents' = {row}, tokens' = {}, agent' = "dying",
         row.status = "initiated"
  PROVE  TableInv'
  BY DEF TableInv, StatusAgreement

LEMMA OneConfirmed ==
  ASSUME NEW row, NEW token, killEvents' = {row}, tokens' = {token},
         agent' = "terminated", row.status = "confirmed",
         row.id = token.event, row.cert = token.cert
  PROVE  TableInv'
  BY DEF TableInv, StatusAgreement

(* What both ways to confirm come to, when the event is the only one.      *)
LEMMA ConfirmTables ==
  ASSUME NEW r \in Requests, NEW e, tokens = {}, Confirm(r, e, {})
  PROVE  TableInv'
<1> DEFINE row == [id |-> e.id, trigger |-> e.trigger, status |-> "confirmed",
                   cert |-> r, label |-> e.label]
           token == [event |-> e.id, cert |-> r, used |-> FALSE]
<1>1. killEvents' = {row} /\ tokens' = {token} /\ agent' = "terminated"
  BY DEF Confirm
<1>2. /\ row.status = "confirmed"
      /\ row.id = token.event
      /\ row.cert = token.cert
  OBVIOUS
<1>. HIDE DEF row, token
<1>. QED BY <1>1, <1>2, OneConfirmed

LEMMA ConfirmType ==
  ASSUME TypeOK, NEW r \in Requests, NEW e, NEW others \in SUBSET KillEvent,
         e.id \in Requests, e.trigger \in {"auto", "manual"}, e.label \in Requests \cup {Nobody},
         Confirm(r, e, others)
  PROVE  TypeOK'
<1> DEFINE row == [id |-> e.id, trigger |-> e.trigger, status |-> "confirmed",
                   cert |-> r, label |-> e.label]
           token == [event |-> e.id, cert |-> r, used |-> FALSE]
<1>1. row \in KillEvent /\ token \in FeedbackToken
  BY DEF KillEvent, FeedbackToken
<1>2. killEvents' = others \cup {row} /\ tokens' = tokens \cup {token}
  BY DEF Confirm
<1>. HIDE DEF row, token
<1>. QED BY <1>1, <1>2 DEF Confirm, TypeOK

LEMMA TypeStep ==
  ASSUME TypeOK, LoadedInv, [Next]_vars
  PROVE  TypeOK'
<1>1. ASSUME NEW r \in Requests, CertUpdate(r) PROVE TypeOK'
  <2>1. PICK e \in killEvents : Confirm(r, e, killEvents \ {e})
    BY <1>1 DEF CertUpdate
  <2>2. e \in KillEvent /\ killEvents \ {e} \in SUBSET KillEvent
    BY DEF TypeOK
  <2>3. e.id \in Requests /\ e.trigger \in {"auto", "manual"} /\ e.label \in Requests \cup {Nobody}
    BY <2>2 DEF KillEvent
  <2>. QED BY <2>1, <2>2, <2>3, ConfirmType
<1>2. ASSUME NEW r \in Requests, CertInsert(r) PROVE TypeOK'
  <2> DEFINE e == [id |-> r, trigger |-> sdkKill, label |-> Nobody]
  <2>1. Confirm(r, e, killEvents)
    BY <1>2 DEF CertInsert
  <2>2. sdkKill # "none"
    BY <1>2 DEF CertInsert, LoadedInv
  <2>3. e.id \in Requests /\ e.trigger \in {"auto", "manual"} /\ e.label \in Requests \cup {Nobody}
    BY <2>2 DEF TypeOK
  <2>4. killEvents \in SUBSET KillEvent
    BY DEF TypeOK
  <2>. HIDE DEF e
  <2>. QED BY <2>1, <2>3, <2>4, ConfirmType
<1>3. ASSUME NEW r \in Requests, CertRead(r) PROVE TypeOK'
  BY <1>3 DEF CertRead, Active, TypeOK, KillEvent
<1>4. ASSUME NEW r \in Requests, FeedbackCommit(r) PROVE TypeOK'
  <2>1. \A e \in KillEvent : [e EXCEPT !.label = r] \in KillEvent
    BY DEF KillEvent
  <2>2. \A t \in FeedbackToken : [t EXCEPT !.used = TRUE] \in FeedbackToken
    BY DEF FeedbackToken
  <2>. QED BY <1>4, <2>1, <2>2 DEF FeedbackCommit, TypeOK
<1>5. ASSUME NEW r \in Requests, TerminateCommit(r) PROVE TypeOK'
  BY <1>5 DEF TerminateCommit, InsertInitiated, TypeOK, KillEvent
<1>6. ASSUME NEW r \in Requests,
             \/ TerminateLoad(r) \/ TerminateRollback(r) \/ CertLoad(r) \/ CertRollback(r)
             \/ FeedbackRead(r) \/ FeedbackGone(r) \/ DeleteLoad(r) \/ PruneSelect(r)
             \/ CascadeDelete(r)
      PROVE  TypeOK'
  BY <1>6 DEF TerminateLoad, TerminateRollback, CertLoad, CertRollback, FeedbackRead,
              FeedbackGone, DeleteLoad, PruneSelect, CascadeDelete, TypeOK
<1>7. CASE SymptomKill \/ PendingKill
  BY <1>7 DEF SymptomKill, PendingKill, TypeOK
<1>8. CASE UNCHANGED vars
  BY <1>8 DEF TypeOK
<1>. QED
  BY <1>1, <1>2, <1>3, <1>4, <1>5, <1>6, <1>7, <1>8 DEF Next, Handle

(* The steps that leave both tables and the agent alone.                   *)
LEMMA TableFrame ==
  ASSUME TableInv, UNCHANGED <<agent, killEvents, tokens>>
  PROVE  TableInv'
  BY DEF TableInv, StatusAgreement

LEMMA TableStep ==
  ASSUME TypeOK, TableInv, [Next]_vars
  PROVE  TableInv'
<1>1. ASSUME NEW r \in Requests, TerminateCommit(r) PROVE TableInv'
  <2>1. killEvents = {} /\ tokens = {}
    BY <1>1 DEF TerminateCommit, Active, TypeOK, KillEvent, TableInv
  <2> DEFINE row == [id |-> r, trigger |-> "manual", status |-> "initiated",
                     cert |-> Nobody, label |-> Nobody]
  <2>2. killEvents' = {row} /\ tokens' = {} /\ agent' = "dying"
    BY <1>1, <2>1 DEF TerminateCommit, InsertInitiated
  <2>3. row.status = "initiated"
    OBVIOUS
  <2>. HIDE DEF row
  <2>. QED BY <2>2, <2>3, OneInitiated
<1>2. ASSUME NEW r \in Requests, CertInsert(r) PROVE TableInv'
  <2>1. killEvents = {} /\ tokens = {}
    BY <1>2 DEF CertInsert, CertInsertable, Active, TypeOK, KillEvent, TableInv
  <2> DEFINE e == [id |-> r, trigger |-> sdkKill, label |-> Nobody]
  <2>2. Confirm(r, e, {})
    BY <1>2, <2>1 DEF CertInsert
  <2>. HIDE DEF e
  <2>. QED BY <2>1, <2>2, ConfirmTables
<1>3. ASSUME NEW r \in Requests, CertUpdate(r) PROVE TableInv'
  <2>1. PICK e \in killEvents : e.id \in existing[r] /\ Confirm(r, e, killEvents \ {e})
    BY <1>3 DEF CertUpdate
  <2>2. killEvents = {e} /\ tokens = {}
    BY <1>3, <2>1 DEF CertUpdate, CertUpdatable, TableInv
  <2>3. Confirm(r, e, {})
    BY <2>1, <2>2
  <2>. QED BY <2>2, <2>3, ConfirmTables
<1>4. ASSUME NEW r \in Requests, FeedbackCommit(r) PROVE TableInv'
  <2>1. PICK t \in tokens : tokens = {t}
    BY <1>4 DEF FeedbackCommit, TableInv
  <2>2. PICK e \in killEvents : /\ killEvents = {e}
                               /\ e.status = "confirmed"
                               /\ e.id = t.event
                               /\ e.cert = t.cert
    BY <2>1 DEF TableInv
  <2> DEFINE row == [e EXCEPT !.label = r]
             token == [t EXCEPT !.used = TRUE]
  <2>3. killEvents' = {row} /\ tokens' = {token}
    BY <1>4, <2>1, <2>2 DEF FeedbackCommit
  <2>4. row.status = e.status /\ row.id = e.id /\ row.cert = e.cert
    BY DEF TypeOK, KillEvent
  <2>5. token.event = t.event /\ token.cert = t.cert
    BY DEF TypeOK, FeedbackToken
  <2>6. agent' = "terminated"
    BY <1>4, <2>2 DEF FeedbackCommit, TableInv, StatusAgreement
  <2>. HIDE DEF row, token
  <2>. QED BY <2>2, <2>3, <2>4, <2>5, <2>6, OneConfirmed
<1>5. ASSUME NEW r \in Requests, CascadeDelete(r) PROVE TableInv'
  BY <1>5 DEF CascadeDelete, TableInv, StatusAgreement
<1>6. ASSUME NEW r \in Requests,
             \/ TerminateLoad(r) \/ TerminateRollback(r) \/ CertLoad(r) \/ CertRead(r)
             \/ CertRollback(r) \/ FeedbackRead(r) \/ FeedbackGone(r) \/ DeleteLoad(r)
             \/ PruneSelect(r)
      PROVE  TableInv'
  BY <1>6, TableFrame
     DEF TerminateLoad, TerminateRollback, CertLoad, CertRead, CertRollback, FeedbackRead,
         FeedbackGone, DeleteLoad, PruneSelect
<1>7. CASE SymptomKill \/ PendingKill
  BY <1>7, TableFrame DEF SymptomKill, PendingKill
<1>8. CASE UNCHANGED vars
  BY <1>8, TableFrame
<1>. QED
  BY <1>1, <1>2, <1>3, <1>4, <1>5, <1>6, <1>7, <1>8 DEF Next, Handle

(* What an agent may become in a step.                                     *)
LEMMA AgentMoves ==
  ASSUME TypeOK, TableInv, [Next]_vars
  PROVE  /\ agent = "dying" => agent' # "registered"
         /\ agent = "terminated" => agent' \in {"terminated", "deleted"}
         /\ agent = "deleted" => agent' = "deleted"
<1>1. ASSUME NEW r \in Requests, TerminateCommit(r)
      PROVE  agent = "registered" /\ agent' = "dying"
  BY <1>1 DEF TerminateCommit, InsertInitiated, Active, TypeOK, KillEvent, TableInv,
              StatusAgreement
<1>2. ASSUME NEW r \in Requests, CertInsert(r) \/ CertUpdate(r)
      PROVE  agent # "deleted" /\ agent' = "terminated"
  BY <1>2 DEF CertInsert, CertInsertable, CertUpdate, Confirm, TableInv, StatusAgreement
<1>3. ASSUME NEW r \in Requests, CascadeDelete(r) PROVE agent' = "deleted"
  BY <1>3 DEF CascadeDelete
<1>4. ASSUME NEW r \in Requests,
             \/ TerminateLoad(r) \/ TerminateRollback(r) \/ CertLoad(r) \/ CertRead(r)
             \/ CertRollback(r) \/ FeedbackRead(r) \/ FeedbackCommit(r) \/ FeedbackGone(r)
             \/ DeleteLoad(r) \/ PruneSelect(r)
      PROVE  agent' = agent
  BY <1>4 DEF TerminateLoad, TerminateRollback, CertLoad, CertRead, CertRollback,
              FeedbackRead, FeedbackCommit, FeedbackGone, DeleteLoad, PruneSelect
<1>5. CASE SymptomKill \/ PendingKill \/ UNCHANGED vars
  BY <1>5 DEF SymptomKill, PendingKill
<1>. QED
  BY <1>1, <1>2, <1>3, <1>4, <1>5 DEF Next, Handle, TypeOK

LEMMA HandlerStep ==
  ASSUME TypeOK, LoadedInv, PruneInv, TableInv, [Next]_vars
  PROVE  LoadedInv' /\ PruneInv'
<1>1. ASSUME NEW r \in Requests, Handle(r) PROVE LoadedInv'
  BY <1>1 DEF Handle, TerminateLoad, TerminateCommit, InsertInitiated, TerminateRollback,
              CertLoad, CertRead, CertInsert, CertUpdate, Confirm, CertRollback,
              FeedbackRead, FeedbackCommit, FeedbackGone, DeleteLoad, PruneSelect,
              CascadeDelete, TypeOK, LoadedInv
<1>2. ASSUME NEW r \in Requests, Handle(r)
      PROVE  \A q \in Requests : pc'[q] = "pruning" =>
               pc[q] = "pruning" \/ agent \in {"terminated", "deleted"}
  BY <1>2 DEF Handle, TerminateLoad, TerminateCommit, InsertInitiated, TerminateRollback,
              CertLoad, CertRead, CertInsert, CertUpdate, Confirm, CertRollback,
              FeedbackRead, FeedbackCommit, FeedbackGone, DeleteLoad, PruneSelect,
              CascadeDelete, TypeOK
<1>3. CASE SymptomKill \/ PendingKill \/ UNCHANGED vars
  BY <1>3 DEF SymptomKill, PendingKill, LoadedInv, PruneInv
<1>4. ASSUME NEW r \in Requests, Handle(r) PROVE PruneInv'
  BY <1>2, <1>4, AgentMoves DEF PruneInv, TypeOK
<1>. QED BY <1>1, <1>3, <1>4 DEF Next

LEMMA InitInv == Init => Inv
  BY DEF Init, Inv, TypeOK, TableInv, StatusAgreement, PruneInv, LoadedInv

LEMMA StepInv == Inv /\ [Next]_vars => Inv'
  BY TypeStep, TableStep, HandlerStep DEF Inv

(* The tables of the control plane stay consistent whatever handlers race, *)
(* for any number of requests.                                             *)
THEOREM Invariance == Spec => []Inv
  BY InitInv, StepInv, PTL DEF Spec

(* Every state is well typed.                                              *)
THEOREM TypeCorrect == Spec => []TypeOK
<1>1. Inv => TypeOK
  BY DEF Inv
<1>. QED BY <1>1, Invariance, PTL

(* agents.status and kill_events agree after every commit, although each   *)
(* handler decides from rows it read before the others committed.          *)
THEOREM StatusesAgree == Spec => []StatusAgreement
<1>1. Inv => StatusAgreement
  BY DEF Inv, TableInv
<1>. QED BY <1>1, Invariance, PTL

(* Every stored certificate has the one token its link names.              *)
THEOREM CertificatesHaveTokens == Spec => []CertHasItsToken
<1>1. Inv => CertHasItsToken
  <2>. SUFFICES ASSUME Inv, NEW r \in Requests
                PROVE  {t \in tokens : t.cert = r} # {} <=>
                         \E e \in killEvents :
                           /\ e.status = "confirmed"
                           /\ e.cert = r
                           /\ {t.cert : t \in {u \in tokens : u.event = e.id}} = {r}
    BY DEF CertHasItsToken
  <2>1. ASSUME NEW t \in tokens, t.cert = r
        PROVE  \E e \in killEvents :
                 /\ e.status = "confirmed"
                 /\ e.cert = r
                 /\ {u.cert : u \in {v \in tokens : v.event = e.id}} = {r}
    <3>1. PICK e \in killEvents : e.status = "confirmed" /\ e.id = t.event /\ e.cert = t.cert
      BY DEF Inv, TableInv
    <3>2. {v \in tokens : v.event = e.id} = {t}
      BY <3>1 DEF Inv, TableInv
    <3>. QED BY <2>1, <3>1, <3>2
  <2>2. ASSUME NEW e \in killEvents, e.status = "confirmed", e.cert = r
        PROVE  {t \in tokens : t.cert = r} # {}
    BY <2>2 DEF Inv, TableInv
  <2>. QED BY <2>1, <2>2
<1>. QED BY <1>1, Invariance, PTL

(* An agent's status only moves on, whatever a slow handler read before.   *)
THEOREM AgentsMoveOn == Spec => NoResurrection
<1>1. Inv /\ [Next]_vars =>
        [/\ agent = "dying"      => agent' # "registered"
         /\ agent = "terminated" => agent' \in {"terminated", "deleted"}
         /\ agent = "deleted"    => agent' = "deleted"]_vars
  BY AgentMoves DEF Inv
<1>. QED BY <1>1, Invariance, PTL DEF Spec, NoResurrection

LEMMA CertStep ==
  ASSUME TypeOK, TableInv, [Next]_vars, NEW e \in killEvents, e.status = "confirmed"
  PROVE  \/ agent' = "deleted"
         \/ \E f \in killEvents' :
              /\ f.status = "confirmed"
              /\ <<f.id, f.trigger, f.cert>> = <<e.id, e.trigger, e.cert>>
<1>1. tokens # {} /\ Active # {}
  BY DEF TableInv, Active
<1>2. ASSUME NEW r \in Requests, CertUpdate(r) PROVE FALSE
  BY <1>2 DEF CertUpdate, CertUpdatable, TableInv
<1>3. ASSUME NEW r \in Requests, TerminateCommit(r) \/ CertInsert(r) PROVE FALSE
  BY <1>1, <1>3 DEF TerminateCommit, CertInsert, CertInsertable
<1>4. ASSUME NEW r \in Requests, FeedbackCommit(r)
      PROVE  \E f \in killEvents' :
               /\ f.status = "confirmed"
               /\ <<f.id, f.trigger, f.cert>> = <<e.id, e.trigger, e.cert>>
  <2> DEFINE f == [e EXCEPT !.label = r]
  <2>1. f \in killEvents'
    BY <1>4 DEF FeedbackCommit
  <2>2. f.status = e.status /\ f.id = e.id /\ f.trigger = e.trigger /\ f.cert = e.cert
    BY DEF TypeOK, KillEvent
  <2>. HIDE DEF f
  <2>. QED BY <2>1, <2>2
<1>5. ASSUME NEW r \in Requests, CascadeDelete(r) PROVE agent' = "deleted"
  BY <1>5 DEF CascadeDelete
<1>6. ASSUME NEW r \in Requests,
             \/ TerminateLoad(r) \/ TerminateRollback(r) \/ CertLoad(r) \/ CertRead(r)
             \/ CertRollback(r) \/ FeedbackRead(r) \/ FeedbackGone(r) \/ DeleteLoad(r)
             \/ PruneSelect(r)
      PROVE  killEvents' = killEvents
  BY <1>6 DEF TerminateLoad, TerminateRollback, CertLoad, CertRead, CertRollback,
              FeedbackRead, FeedbackGone, DeleteLoad, PruneSelect
<1>7. CASE SymptomKill \/ PendingKill \/ UNCHANGED vars
  BY <1>7 DEF SymptomKill, PendingKill
<1>. QED
  BY <1>2, <1>3, <1>4, <1>5, <1>6, <1>7 DEF Next, Handle

(* The first certificate stands: a post that read the event before it was  *)
(* confirmed finds its token taken and rolls back.                         *)
THEOREM FirstCertificate == Spec => FirstCertStands
<1>1. Inv /\ [Next]_vars =>
        [\A e \in killEvents :
           e.status = "confirmed" =>
             \/ agent' = "deleted"
             \/ \E f \in killEvents' :
                  /\ f.status = "confirmed"
                  /\ <<f.id, f.trigger, f.cert>> = <<e.id, e.trigger, e.cert>>]_vars
  BY CertStep DEF Inv
<1>. QED BY <1>1, Invariance, PTL DEF Spec, FirstCertStands

(* A prune deletes the agent only if it has been terminated meanwhile too. *)
THEOREM PruneIsSafe == Spec => PruneSparesLive
<1>1. Inv /\ [Next]_vars =>
        [\A r \in Requests :
           pc[r] = "pruning" /\ pc'[r] = "done" => agent \in {"terminated", "deleted"}]_vars
  BY DEF Inv, PruneInv
<1>. QED BY <1>1, Invariance, PTL DEF Spec, PruneSparesLive
=============================================================================
