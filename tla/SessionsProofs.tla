----------------------------- MODULE SessionsProofs -----------------------------
(* Theorems about Sessions and their proofs. *)
EXTENDS Sessions, FiniteSetTheorems, TLAPS

(* A thread.  Only one that registers a session holds its slot, and one    *)
(* that waits has the creation's generation; an agent a thread holds is    *)
(* supervised; and what goes without an agent has an excuse.               *)
Creating(t) == th[t].at \in {"creating", "created"}

ThreadInv(t) ==
  /\ t = Closer => th[t].at \in {"idle", "ending"} /\ th[t].then = {}
  /\ th[t].agent # None => th[t].at \in {"created", "ending"} /\ th[t].agent \in registry
  /\ Creating(t) => slot[th[t].sid] = t /\ th[t].gen <= generation[th[t].sid]
  /\ th[t].at = "created" /\ th[t].agent = None => th[t].sid \in excused
  /\ th[t].at = "waiting" => slot[th[t].sid] # Nobody /\ th[t].gen = th[slot[th[t].sid]].gen
  /\ th[t].at = "woken" /\ generation[th[t].sid] = th[t].gen /\ states[th[t].sid] = None =>
       th[t].sid \in excused
  /\ th[t].at = "bare" => th[t].sid \in excused

SessionInv(s) ==
  /\ slot[s] # Nobody => Creating(slot[s]) /\ th[slot[s]].sid = s
  /\ states[s] # None => states[s] \in registry
  /\ generation[s] # 0 => s \in excused

(* No agent is held twice.                                                 *)
DistinctInv ==
  /\ \A s, r \in Sessions : s # r /\ states[s] # None => states[s] # states[r]
  /\ \A t, u \in Hosts : t # u /\ th[t].agent # None => th[t].agent # th[u].agent
  /\ \A s \in Sessions, t \in Hosts : states[s] # None => states[s] # th[t].agent

(* A creation that was overtaken is of an earlier generation.              *)
OvertakenInv == \A t \in overtaken : Creating(t) /\ th[t].gen # generation[th[t].sid]

AccountedInv ==
  \A a \in registry : \/ \E s \in Sessions : states[s] = a
                      \/ \E t \in Hosts : th[t].at \in {"created", "ending"} /\ th[t].agent = a
                      \/ a \in abandoned

IInv ==
  /\ TypeOK /\ orphans <= faults
  /\ \A t \in Hosts : ThreadInv(t)
  /\ \A s \in Sessions : SessionInv(s)
  /\ DistinctInv /\ OvertakenInv /\ AccountedInv

USE DEF vars, routerVars, histVars

-----------------------------------------------------------------------------
(* Values.                                                                 *)

LEMMA Constants ==
  /\ None \notin Agents /\ Agents \in SUBSET Nat
  /\ Closer \in Hosts /\ Threads \subseteq Hosts /\ Nobody \notin Threads
  /\ \A t \in Hosts : t # Closer => t \in Threads
<1>1. Cardinality(Agents) \in Nat
  BY FS_CardinalityType, AgentsAssumption
<1>. QED BY <1>1, AgentsAssumption, ThreadsAssumption DEF None, Hosts

LEMMA IdleFacts ==
  /\ Idle \in ThreadState /\ Idle.at = "idle" /\ Idle.agent = None /\ Idle.then = {} /\ Idle.sid \in Sessions
<1>1. (CHOOSE s \in Sessions : TRUE) \in Sessions
  BY SessionsAssumption
<1>. QED BY <1>1 DEF Idle, ThreadState

LEMMA ResultFacts ==
  ASSUME NEW s \in Sessions, NEW a
  PROVE  /\ Result(s, a) \in ThreadState /\ Result(s, a).agent = None /\ Result(s, a).then = {}
         /\ a = None => Result(s, a).at = "bare" /\ Result(s, a).sid = s
         /\ a # None => Result(s, a).at = "idle"
<1>1. CASE a = None
  BY <1>1, IdleFacts DEF Result, ThreadState
<1>2. CASE a # None
  BY <1>2, IdleFacts DEF Result
<1>. QED BY <1>1, <1>2

LEMMA AfterFacts ==
  ASSUME NEW then \in SUBSET Sessions
  PROVE  /\ After(then) \in ThreadState /\ After(then).agent = None /\ After(then).then = {}
         /\ After(then).at \in {"idle", "again"}
         /\ then = {} => After(then).at = "idle"
<1>1. CASE then = {}
  BY <1>1, IdleFacts DEF After
<1>2. CASE then # {}
  <2>1. (CHOOSE s \in then : TRUE) \in Sessions
    BY <1>2
  <2>. QED BY <1>2, <2>1, IdleFacts DEF After, ThreadState
<1>. QED BY <1>1, <1>2

LEMMA Least ==
  ASSUME NEW S \in SUBSET Nat, S # {}
  PROVE  \E n \in S : \A m \in S : n <= m
<1>1. PICK n \in S : \A m \in S : ~ (<<m, n>> \in OpToRel(<, Nat))
  BY NatLessThanWellFounded, WFMin
<1>2. \A m \in S : ~ (m < n)
  <2>. SUFFICES ASSUME NEW m \in S, m < n PROVE <<m, n>> \in OpToRel(<, Nat)
    BY <1>1
  <2>. QED BY DEF OpToRel
<1>. QED BY <1>2

LEMMA NewAgentIsFresh ==
  ASSUME Fresh # {}
  PROVE  /\ NewAgent \in Agents /\ NewAgent # None /\ NewAgent \notin registry
         /\ \A s \in Sessions : states[s] # NewAgent
         /\ \A t \in Hosts : th[t].agent # NewAgent
<1>1. Fresh \in SUBSET Nat
  BY Constants DEF Fresh
<1>2. \E a \in Fresh : \A b \in Fresh : a <= b
  BY <1>1, Least
<1>3. NewAgent \in Fresh
  BY <1>2 DEF NewAgent
<1>. QED BY <1>3, Constants DEF Fresh

(* What is known of a thread and of a session.                             *)
LEMMA Parts ==
  ASSUME IInv
  PROVE  /\ th \in [Hosts -> ThreadState] /\ states \in [Sessions -> Agents \cup {None}]
         /\ slot \in [Sessions -> Threads \cup {Nobody}] /\ generation \in [Sessions -> Nat]
         /\ registry \subseteq Agents /\ excused \subseteq Sessions
         /\ \A t \in Hosts : /\ ThreadInv(t) /\ th[t] \in ThreadState /\ th[t].sid \in Sessions
                             /\ th[t].gen \in Nat /\ th[t].agent \in Agents \cup {None}
         /\ \A s \in Sessions : SessionInv(s)
  BY DEF IInv, TypeOK, ThreadState

LEMMA ThreadKept ==
  ASSUME IInv, NEW u \in Hosts, th'[u] = th[u], excused \subseteq excused',
         generation' \in [Sessions -> Nat],
         th[u].agent # None => th[u].agent \in registry',
         Creating(u) => slot'[th[u].sid] = u /\ generation'[th[u].sid] >= generation[th[u].sid],
         th[u].at = "waiting" =>
           slot'[th[u].sid] = slot[th[u].sid] /\ th'[slot[th[u].sid]].gen = th[slot[th[u].sid]].gen,
         th[u].at = "woken" /\ generation'[th[u].sid] = th[u].gen /\ states'[th[u].sid] = None =>
           \/ generation[th[u].sid] = th[u].gen /\ states[th[u].sid] = None
           \/ th[u].sid \in excused'
  PROVE  ThreadInv(u)'
<1>1. /\ ThreadInv(u) /\ th[u].sid \in Sessions /\ th[u].gen \in Nat
      /\ generation[th[u].sid] \in Nat /\ generation'[th[u].sid] \in Nat
  BY Parts
<1>2. Creating(u)' <=> Creating(u)
  BY DEF Creating
<1>3. Creating(u) => slot'[th[u].sid] = u /\ th[u].gen <= generation'[th[u].sid]
  BY <1>1 DEF ThreadInv
<1>. QED BY <1>1, <1>2, <1>3 DEF ThreadInv

LEMMA OneThread ==
  ASSUME IInv, NEW t \in Hosts, NEW x \in ThreadState, th' = [th EXCEPT ![t] = x]
  PROVE  /\ th' \in [Hosts -> ThreadState] /\ th'[t] = x
         /\ \A u \in Hosts : u # t => th'[u] = th[u]
  BY Parts

(* Who holds the slot of a session is a thread that creates it.            *)
LEMMA Holder ==
  ASSUME IInv, NEW s \in Sessions, slot[s] # Nobody
  PROVE  slot[s] \in Threads /\ slot[s] \in Hosts /\ Creating(slot[s]) /\ th[slot[s]].sid = s
  BY Parts, Constants DEF SessionInv

(* A step of a thread between two sections that matter.                    *)
LEMMA StepAside ==
  ASSUME IInv, NEW t \in Threads, th[t].at \notin {"creating", "created", "ending"},
         NEW x \in ThreadState, th' = [th EXCEPT ![t] = x],
         x.agent = None, x.at \in {"idle", "bare", "again", "waiting"},
         x.at = "bare" => x.sid \in excused,
         x.at = "waiting" => slot[x.sid] # Nobody /\ x.gen = th[slot[x.sid]].gen,
         UNCHANGED <<routerVars, registry, orphans, loopUp, closing, faults, histVars>>
  PROVE  IInv'
<1>1. t \in Hosts /\ t # Closer /\ x.sid \in Sessions /\ th[t].agent = None
  BY Parts, Constants, ThreadsAssumption DEF ThreadState, ThreadInv
<1>2. /\ th' \in [Hosts -> ThreadState] /\ th'[t] = x
      /\ \A u \in Hosts : u # t => th'[u] = th[u]
  BY <1>1, OneThread
<1>3. \A u \in Hosts : Creating(u) => u # t
  BY DEF Creating
<1>4. \A u \in Hosts : Creating(u) => Creating(u)' /\ th'[u] = th[u]
  BY <1>2, <1>3 DEF Creating
<1>5. ASSUME NEW u \in Hosts PROVE ThreadInv(u)'
  <2>1. CASE u # t
    <3>1. Creating(u) => slot'[th[u].sid] = u /\ generation'[th[u].sid] >= generation[th[u].sid]
      BY Parts DEF ThreadInv
    <3>2. th[u].at = "waiting" => th'[slot[th[u].sid]].gen = th[slot[th[u].sid]].gen
      BY <1>4, Parts, Holder DEF ThreadInv
    <3>. QED BY <1>2, <2>1, <3>1, <3>2, ThreadKept, Parts DEF ThreadInv
  <2>2. CASE u = t
    <3>1. x.at = "waiting" => th'[slot[x.sid]].gen = th[slot[x.sid]].gen
      BY <1>1, <1>4, Holder
    <3>. QED BY <1>1, <1>2, <2>2, <3>1 DEF ThreadInv, Creating
  <2>. QED BY <2>1, <2>2
<1>6. ASSUME NEW s \in Sessions PROVE SessionInv(s)'
  BY <1>4, Parts, Holder DEF SessionInv
<1>7. DistinctInv'
  BY <1>1, <1>2 DEF IInv, DistinctInv
<1>8. OvertakenInv'
  BY <1>2, <1>4, Constants DEF IInv, OvertakenInv, TypeOK
<1>9. AccountedInv'
  BY <1>2 DEF IInv, AccountedInv
<1>10. TypeOK' /\ orphans' <= faults'
  BY <1>2 DEF IInv, TypeOK
<1>. QED BY <1>5, <1>6, <1>7, <1>8, <1>9, <1>10 DEF IInv

(* A thread takes the free slot of a session.                              *)
LEMMA StepReserve ==
  ASSUME IInv, NEW t \in Threads, th[t].at \notin {"creating", "created", "ending"},
         NEW s \in Sessions, slot[s] = Nobody,
         slot' = [slot EXCEPT ![s] = t],
         th' = [th EXCEPT ![t] = [Idle EXCEPT !.at = "creating", !.sid = s, !.gen = generation[s]]],
         UNCHANGED <<states, generation, registry, orphans, loopUp, closing, faults, histVars>>
  PROVE  IInv'
<1>0. PICK x : x = [Idle EXCEPT !.at = "creating", !.sid = s, !.gen = generation[s]]
  OBVIOUS
<1>1. /\ t \in Hosts /\ t # Closer /\ th[t].agent = None /\ x \in ThreadState
      /\ x.at = "creating" /\ x.sid = s /\ x.gen = generation[s] /\ x.agent = None
  <2>1. t \in Hosts /\ t # Closer /\ th[t].agent = None
    BY Parts, Constants, ThreadsAssumption DEF ThreadInv
  <2>2. generation[s] \in Nat
    BY Parts
  <2>. QED BY <1>0, <2>1, <2>2, IdleFacts DEF ThreadState
<1>2. /\ th' \in [Hosts -> ThreadState] /\ th'[t] = x
      /\ \A u \in Hosts : u # t => th'[u] = th[u]
  BY <1>0, <1>1, OneThread
<1>3. slot' \in [Sessions -> Threads \cup {Nobody}] /\ slot'[s] = t /\ t # Nobody
      /\ \A r \in Sessions : r # s => slot'[r] = slot[r]
  BY Parts, Constants
<1>4. \A u \in Hosts : Creating(u) => Creating(u)' /\ th'[u] = th[u] /\ th[u].sid # s
  BY <1>2, Parts, Constants DEF Creating, ThreadInv
<1>5. ASSUME NEW u \in Hosts PROVE ThreadInv(u)'
  <2>1. CASE u # t
    <3>1. Creating(u) => slot'[th[u].sid] = u /\ generation'[th[u].sid] >= generation[th[u].sid]
      BY <1>3, <1>4, Parts DEF ThreadInv
    <3>2. th[u].at = "waiting" => slot'[th[u].sid] = slot[th[u].sid]
                                  /\ th'[slot[th[u].sid]].gen = th[slot[th[u].sid]].gen
      BY <1>3, <1>4, Parts, Holder DEF ThreadInv
    <3>. QED BY <1>2, <2>1, <3>1, <3>2, ThreadKept, Parts DEF ThreadInv
  <2>2. CASE u = t
    <3>1. x.gen <= generation'[x.sid] /\ slot'[x.sid] = t
      BY <1>1, <1>3, Parts
    <3>. QED BY <1>1, <1>2, <2>2, <3>1 DEF ThreadInv, Creating
  <2>. QED BY <2>1, <2>2
<1>6. ASSUME NEW r \in Sessions PROVE SessionInv(r)'
  <2>1. CASE r = s
    BY <1>1, <1>2, <1>3, <2>1, Parts DEF SessionInv, Creating
  <2>2. CASE r # s
    <3>1. slot[r] # Nobody => th'[slot[r]] = th[slot[r]] /\ Creating(slot[r]) /\ th[slot[r]].sid = r
      BY <1>4, Holder
    <3>. QED BY <1>3, <2>2, <3>1, Parts DEF SessionInv, Creating
  <2>. QED BY <2>1, <2>2
<1>7. DistinctInv'
  BY <1>1, <1>2 DEF IInv, DistinctInv
<1>8. OvertakenInv'
  BY <1>2, <1>4, Constants DEF IInv, OvertakenInv, TypeOK
<1>9. AccountedInv'
  BY <1>2 DEF IInv, AccountedInv
<1>10. TypeOK' /\ orphans' <= faults'
  BY <1>2, <1>3 DEF IInv, TypeOK
<1>. QED BY <1>5, <1>6, <1>7, <1>8, <1>9, <1>10 DEF IInv

LEMMA StepLook ==
  ASSUME IInv, NEW t \in Threads, th[t].at \notin {"creating", "created", "ending"},
         NEW s \in Sessions, Look(t, s),
         UNCHANGED <<states, generation, registry, orphans, loopUp, closing, faults, histVars>>
  PROVE  IInv'
<1>1. CASE states[s] # None /\ th' = [th EXCEPT ![t] = Result(s, states[s])] /\ UNCHANGED slot
  <2>1. PICK x : x = Result(s, states[s])
    OBVIOUS
  <2>2. x \in ThreadState /\ x.agent = None /\ x.at = "idle"
    BY <1>1, <2>1, ResultFacts
  <2>. QED BY <1>1, <2>1, <2>2, StepAside
<1>2. CASE slot[s] # Nobody /\ Awaits(t, s) /\ UNCHANGED slot
  <2>1. PICK x : x = [Idle EXCEPT !.at = "waiting", !.sid = s, !.gen = th[slot[s]].gen]
    OBVIOUS
  <2>2. th[slot[s]].gen \in Nat
    BY <1>2, Holder, Parts
  <2>3. x \in ThreadState /\ x.agent = None /\ x.at = "waiting" /\ x.sid = s /\ x.gen = th[slot[s]].gen
    BY <2>1, <2>2, IdleFacts DEF ThreadState
  <2>4. th' = [th EXCEPT ![t] = x]
    BY <1>2, <2>1 DEF Awaits
  <2>. QED BY <1>2, <2>3, <2>4, StepAside
<1>. QED BY <1>1, <1>2, StepReserve DEF Look

LEMMA StepWoken ==
  ASSUME IInv, NEW t \in Threads, Woken(t)
  PROVE  IInv'
<1>. DEFINE s == th[t].sid
<1>1. /\ th[t].at = "woken" /\ t \in Hosts /\ s \in Sessions
      /\ UNCHANGED <<routerVars, registry, orphans, loopUp, closing, faults, histVars>>
  BY Parts, Constants DEF Woken
<1>2. CASE generation[s] # th[t].gen
  <2>1. PICK x : x = [th[t] EXCEPT !.at = "again"]
    OBVIOUS
  <2>2. th' = [th EXCEPT ![t] = x]
    BY <1>2, <2>1 DEF Woken
  <2>3. x \in ThreadState /\ x.at = "again" /\ x.agent = None
    BY <1>1, <2>1, Parts DEF ThreadState, ThreadInv
  <2>. QED BY <1>1, <2>2, <2>3, StepAside
<1>3. CASE generation[s] = th[t].gen
  <2>1. PICK x : x = Result(s, states[s])
    OBVIOUS
  <2>2. th' = [th EXCEPT ![t] = x]
    BY <1>3, <2>1 DEF Woken
  <2>3. x \in ThreadState /\ x.agent = None /\ x.at \in {"idle", "bare"}
        /\ (x.at = "bare" => x.sid = s /\ states[s] = None)
    BY <1>1, <2>1, ResultFacts
  <2>4. x.at = "bare" => x.sid \in excused
    BY <1>1, <1>3, <2>3, Parts DEF ThreadInv
  <2>. QED BY <1>1, <2>2, <2>3, <2>4, StepAside
<1>. QED BY <1>2, <1>3

-----------------------------------------------------------------------------
(* Registrations.                                                          *)

LEMMA StepCreation ==
  ASSUME IInv, NEW t \in Threads, th[t].at = "creating", NEW a \in Agents \cup {None},
         th' = [th EXCEPT ![t] = [th[t] EXCEPT !.at = "created", !.agent = a]],
         registry' = registry \cup ({a} \ {None}),
         a # None => /\ \A s \in Sessions : states[s] # a
                     /\ \A u \in Hosts : th[u].agent # a,
         excused \subseteq excused', excused' \subseteq Sessions, a = None => th[t].sid \in excused',
         orphans' \in 0..MaxFaults, faults' \in 0..MaxFaults, orphans' <= faults',
         UNCHANGED <<routerVars, loopUp, closing, overtaken, abandoned>>
  PROVE  IInv'
<1>0. PICK x : x = [th[t] EXCEPT !.at = "created", !.agent = a]
  OBVIOUS
<1>1. t \in Hosts /\ t # Closer /\ th[t].agent = None
  BY Parts, Constants, ThreadsAssumption DEF ThreadInv
<1>2. /\ x \in ThreadState /\ x.at = "created" /\ x.agent = a /\ x.sid = th[t].sid
      /\ x.gen = th[t].gen /\ x.sid \in Sessions /\ x.gen \in Nat
  BY <1>0, <1>1, Parts DEF ThreadState
<1>3. /\ th' \in [Hosts -> ThreadState] /\ th'[t] = x
      /\ \A u \in Hosts : u # t => th'[u] = th[u]
  BY <1>0, <1>1, <1>2, OneThread
<1>4. \A u \in Hosts : Creating(u) => Creating(u)' /\ th'[u].sid = th[u].sid /\ th'[u].gen = th[u].gen
  BY <1>2, <1>3 DEF Creating
<1>5. ASSUME NEW u \in Hosts PROVE ThreadInv(u)'
  <2>1. CASE u # t
    <3>1. Creating(u) => slot'[th[u].sid] = u /\ generation'[th[u].sid] >= generation[th[u].sid]
      BY Parts DEF ThreadInv
    <3>2. th[u].at = "waiting" => th'[slot[th[u].sid]].gen = th[slot[th[u].sid]].gen
      BY <1>4, Parts, Holder DEF ThreadInv
    <3>. QED BY <1>3, <2>1, <3>1, <3>2, ThreadKept, Parts DEF ThreadInv
  <2>2. CASE u = t
    <3>1. slot'[x.sid] = t /\ x.gen <= generation'[x.sid]
      BY <1>1, <1>2, Parts DEF ThreadInv, Creating
    <3>2. a # None => a \in registry'
      OBVIOUS
    <3>. QED BY <1>1, <1>2, <1>3, <2>2, <3>1, <3>2 DEF ThreadInv, Creating
  <2>. QED BY <2>1, <2>2
<1>6. ASSUME NEW s \in Sessions PROVE SessionInv(s)'
  <2>1. slot[s] # Nobody => Creating(slot[s]) /\ th'[slot[s]].sid = s /\ th'[slot[s]].at \in {"creating", "created"}
    BY <1>4, Holder DEF Creating
  <2>. QED BY <2>1, Parts DEF SessionInv, Creating
<1>7. DistinctInv'
  BY <1>1, <1>2, <1>3 DEF IInv, DistinctInv
<1>8. OvertakenInv'
  BY <1>4, Constants DEF IInv, OvertakenInv, TypeOK
<1>9. AccountedInv'
  <2>. SUFFICES ASSUME NEW b \in registry'
                PROVE  \/ \E s \in Sessions : states'[s] = b
                       \/ \E u \in Hosts : th'[u].at \in {"created", "ending"} /\ th'[u].agent = b
                       \/ b \in abandoned'
    BY DEF AccountedInv
  <2>1. CASE b = a
    BY <1>1, <1>2, <1>3, <2>1
  <2>2. CASE b \in registry /\ b # a
    BY <1>1, <1>3, <2>2, Constants, Parts DEF IInv, AccountedInv
  <2>. QED BY <2>1, <2>2
<1>10. TypeOK'
  <2>1. registry' \subseteq Agents
    BY Parts
  <2>. QED BY <1>3, <2>1 DEF IInv, TypeOK
<1>. QED BY <1>5, <1>6, <1>7, <1>8, <1>9, <1>10 DEF IInv

LEMMA StepCreate ==
  ASSUME IInv, NEW t \in Threads, Created(t) \/ CreateFails(t) \/ CreateTimesOut(t)
  PROVE  IInv'
<1>1. /\ orphans \in 0..MaxFaults /\ faults \in 0..MaxFaults /\ orphans <= faults /\ MaxFaults \in Nat
      /\ excused \subseteq Sessions /\ th[t].sid \in Sessions
  BY BoundsAssumption, Parts, Constants DEF IInv, TypeOK
<1>2. CASE Created(t)
  <2>1. PICK a : a = NewAgent
    OBVIOUS
  <2>2. a \in Agents /\ a # None /\ (\A s \in Sessions : states[s] # a) /\ (\A u \in Hosts : th[u].agent # a)
    BY <1>2, <2>1, NewAgentIsFresh DEF Created
  <2>3. registry' = registry \cup ({a} \ {None})
    BY <1>2, <2>1, <2>2 DEF Created
  <2>4. th' = [th EXCEPT ![t] = [th[t] EXCEPT !.at = "created", !.agent = a]]
    BY <1>2, <2>1 DEF Created
  <2>. QED BY <1>1, <1>2, <2>2, <2>3, <2>4, StepCreation DEF Created
<1>3. ASSUME CreateFails(t) \/ CreateTimesOut(t) PROVE IInv'
  <2>1. /\ th[t].at = "creating" /\ excused' = excused \cup {th[t].sid}
        /\ th' = [th EXCEPT ![t] = [th[t] EXCEPT !.at = "created", !.agent = None]]
        /\ registry' = registry \cup ({None} \ {None})
        /\ UNCHANGED <<routerVars, loopUp, closing, overtaken, abandoned>>
    BY <1>3 DEF CreateFails, CreateTimesOut
  <2>2. orphans' \in 0..MaxFaults /\ faults' \in 0..MaxFaults /\ orphans' <= faults'
    BY <1>1, <1>3 DEF CreateFails, CreateTimesOut
  <2>. QED BY <1>1, <2>1, <2>2, StepCreation
<1>. QED BY <1>2, <1>3

LEMMA StepOrphanCreated ==
  ASSUME IInv, OrphanCreated
  PROVE  IInv'
<1>1. /\ registry' = registry \cup {NewAgent} /\ abandoned' = abandoned \cup {NewAgent}
      /\ NewAgent \in Agents /\ orphans > 0 /\ orphans' = orphans - 1
      /\ UNCHANGED <<routerVars, th, loopUp, closing, faults, overtaken, excused>>
  BY NewAgentIsFresh DEF OrphanCreated
<1>2. orphans' \in 0..MaxFaults /\ orphans' <= faults'
  BY <1>1, BoundsAssumption DEF IInv, TypeOK
<1>3. TypeOK'
  BY <1>1, <1>2 DEF IInv, TypeOK
<1>4. \A u \in Hosts : ThreadInv(u)'
  BY <1>1, Parts DEF ThreadInv, Creating
<1>5. \A s \in Sessions : SessionInv(s)'
  BY <1>1, Parts DEF SessionInv, Creating
<1>6. DistinctInv' /\ OvertakenInv'
  BY <1>1 DEF IInv, DistinctInv, OvertakenInv, Creating
<1>7. AccountedInv'
  BY <1>1 DEF IInv, AccountedInv
<1>. QED BY <1>2, <1>3, <1>4, <1>5, <1>6, <1>7 DEF IInv

-----------------------------------------------------------------------------
(* Finalizations.                                                          *)

LEMMA StepFinalize ==
  ASSUME IInv, NEW t \in Hosts, NEW s \in Sessions, NEW then \in SUBSET Sessions,
         t = Closer => then = {}, Finalize(t, s, then),
         closing' \in [at : {"no", "ending", "closed"}, left : SUBSET Sessions],
         UNCHANGED <<slot, registry, orphans, loopUp, faults, abandoned>>
  PROVE  IInv'
<1>0. PICK x : x = IF states[s] = None THEN After(then)
                   ELSE [Idle EXCEPT !.at = "ending", !.sid = s, !.agent = states[s], !.then = then]
  OBVIOUS
<1>1. /\ th[t].at \in {"idle", "bare"} /\ th[t].agent = None /\ states[s] \in Agents \cup {None}
      /\ states[s] # None => states[s] \in registry
  BY Parts DEF Finalize, Free, ThreadInv, SessionInv
<1>2. /\ x \in ThreadState /\ x.at \in {"idle", "again", "ending"} /\ x.agent = states[s]
      /\ x.agent # None => x.at = "ending"
      /\ t = Closer => x.at \in {"idle", "ending"} /\ x.then = {}
  <2>1. CASE states[s] = None
    BY <1>0, <2>1, AfterFacts
  <2>2. CASE states[s] # None
    BY <1>0, <1>1, <2>2, IdleFacts DEF ThreadState
  <2>. QED BY <2>1, <2>2
<1>3. /\ th' = [th EXCEPT ![t] = x] /\ generation' = [generation EXCEPT ![s] = @ + 1]
      /\ states' = [states EXCEPT ![s] = None] /\ excused' = excused \cup {s}
      /\ overtaken' = overtaken \cup ({slot[s]} \ {Nobody})
  BY <1>0 DEF Finalize, Invalidate
<1>4. /\ th' \in [Hosts -> ThreadState] /\ th'[t] = x
      /\ \A u \in Hosts : u # t => th'[u] = th[u]
  BY <1>2, <1>3, OneThread
<1>5. /\ generation' \in [Sessions -> Nat] /\ generation'[s] = generation[s] + 1
      /\ \A r \in Sessions : r # s => generation'[r] = generation[r]
      /\ \A r \in Sessions : generation[r] \in Nat /\ generation'[r] >= generation[r]
  <2>1. generation \in [Sessions -> Nat]
    BY Parts
  <2>2. \A r \in Sessions : generation'[r] = IF r = s THEN generation[s] + 1 ELSE generation[r]
    BY <1>3, <2>1
  <2>3. generation' \in [Sessions -> Nat]
    BY <1>3, <2>1
  <2>4. \A r \in Sessions : generation[r] \in Nat
    BY <2>1
  <2>. QED BY <2>2, <2>3, <2>4
<1>6. /\ states' \in [Sessions -> Agents \cup {None}] /\ states'[s] = None
      /\ \A r \in Sessions : r # s => states'[r] = states[r]
  BY <1>3, Parts
<1>7. \A u \in Hosts : Creating(u) => Creating(u)' /\ th'[u] = th[u]
  BY <1>1, <1>4 DEF Creating
<1>8. ASSUME NEW u \in Hosts PROVE ThreadInv(u)'
  <2>1. CASE u # t
    <3>1. th[u].sid \in Sessions
      BY Parts
    <3>2. Creating(u) => slot'[th[u].sid] = u /\ generation'[th[u].sid] >= generation[th[u].sid]
      BY <1>5, <3>1, Parts DEF ThreadInv
    <3>3. th[u].at = "waiting" => th'[slot[th[u].sid]].gen = th[slot[th[u].sid]].gen
      BY <1>7, Parts, Holder DEF ThreadInv
    <3>4. th[u].at = "woken" /\ generation'[th[u].sid] = th[u].gen /\ states'[th[u].sid] = None =>
           \/ generation[th[u].sid] = th[u].gen /\ states[th[u].sid] = None
           \/ th[u].sid \in excused'
      BY <1>3, <1>5, <1>6, <3>1
    <3>5. th'[u] = th[u] /\ excused \subseteq excused' /\ (th[u].agent # None => th[u].agent \in registry')
      BY <1>3, <1>4, <2>1, Parts DEF ThreadInv
    <3>. QED BY <1>5, <3>2, <3>3, <3>4, <3>5, ThreadKept
  <2>2. CASE u = t
    BY <1>1, <1>2, <1>4, <2>2 DEF ThreadInv, Creating
  <2>. QED BY <2>1, <2>2
<1>9. ASSUME NEW r \in Sessions PROVE SessionInv(r)'
  <2>1. slot[r] # Nobody => Creating(slot[r]) /\ th'[slot[r]] = th[slot[r]] /\ th[slot[r]].sid = r
    BY <1>7, Holder
  <2>2. states'[r] # None => states'[r] \in registry'
    BY <1>6, Parts DEF SessionInv
  <2>3. generation'[r] # 0 => r \in excused'
    BY <1>3, <1>5, Parts DEF SessionInv
  <2>. QED BY <2>1, <2>2, <2>3 DEF SessionInv, Creating
<1>10. DistinctInv'
  <2>1. ASSUME NEW r \in Sessions, NEW q \in Sessions, r # q, states'[r] # None PROVE states'[r] # states'[q]
    BY <1>6, <2>1 DEF IInv, DistinctInv
  <2>2. ASSUME NEW u \in Hosts, NEW v \in Hosts, u # v, th'[u].agent # None
        PROVE  th'[u].agent # th'[v].agent
    BY <1>2, <1>4, <2>2 DEF IInv, DistinctInv
  <2>3. ASSUME NEW r \in Sessions, NEW u \in Hosts, states'[r] # None PROVE states'[r] # th'[u].agent
    BY <1>2, <1>4, <1>6, <2>3 DEF IInv, DistinctInv
  <2>. QED BY <2>1, <2>2, <2>3 DEF DistinctInv
<1>11. OvertakenInv'
  <2>. SUFFICES ASSUME NEW u \in overtaken' PROVE Creating(u)' /\ th'[u].gen # generation'[th'[u].sid]
    BY DEF OvertakenInv
  <2>1. u \in Hosts /\ Creating(u)
    BY <1>3, Constants, Holder DEF IInv, OvertakenInv, TypeOK
  <2>2. th'[u] = th[u] /\ Creating(u)' /\ th[u].gen <= generation[th[u].sid]
        /\ th[u].sid \in Sessions /\ th[u].gen \in Nat
    BY <1>7, <2>1, Parts DEF ThreadInv
  <2>3. CASE u \in overtaken
    <3>1. th[u].gen # generation[th[u].sid]
      BY <2>3 DEF IInv, OvertakenInv
    <3>2. generation'[th[u].sid] >= generation[th[u].sid] /\ generation[th[u].sid] \in Nat
          /\ generation'[th[u].sid] \in Nat
      BY <1>5, <2>2
    <3>. QED BY <2>2, <3>1, <3>2
  <2>4. CASE u = slot[s] /\ u # Nobody
    BY <1>5, <2>2, <2>4, Holder
  <2>. QED BY <1>3, <2>3, <2>4
<1>12. AccountedInv'
  <2>. SUFFICES ASSUME NEW b \in registry
                PROVE  \/ \E r \in Sessions : states'[r] = b
                       \/ \E u \in Hosts : th'[u].at \in {"created", "ending"} /\ th'[u].agent = b
                       \/ b \in abandoned'
    BY DEF AccountedInv
  <2>1. CASE b = states[s]
    <3>1. b # None
      BY Parts, Constants
    <3>. QED BY <1>2, <1>4, <2>1, <3>1
  <2>2. CASE b # states[s]
    <3>1. \/ \E r \in Sessions : states[r] = b /\ r # s
          \/ \E u \in Hosts : th[u].at \in {"created", "ending"} /\ th[u].agent = b /\ u # t
          \/ b \in abandoned
      BY <1>1, <2>2 DEF IInv, AccountedInv
    <3>. QED BY <1>4, <1>6, <3>1
  <2>. QED BY <2>1, <2>2
<1>13. TypeOK' /\ orphans' <= faults'
  <2>1. overtaken' \subseteq Threads /\ excused' \subseteq Sessions
    BY <1>3, Holder DEF IInv, TypeOK
  <2>. QED BY <1>4, <1>5, <1>6, <2>1 DEF IInv, TypeOK
<1>. QED BY <1>8, <1>9, <1>10, <1>11, <1>12, <1>13 DEF IInv

LEMMA StepUnregister ==
  ASSUME IInv, NEW t \in Hosts, Unregister(t)
  PROVE  IInv'
<1>0. PICK x : x = After(th[t].then)
  OBVIOUS
<1>1. /\ th[t].at = "ending" /\ registry' = registry \ {th[t].agent} /\ th' = [th EXCEPT ![t] = x]
      /\ UNCHANGED <<routerVars, orphans, loopUp, closing, faults, histVars>>
  BY <1>0 DEF Unregister
<1>2. th[t].then \in SUBSET Sessions /\ (t = Closer => th[t].then = {})
  BY Parts DEF ThreadState, ThreadInv
<1>3. /\ x \in ThreadState /\ x.agent = None /\ x.then = {} /\ x.at \in {"idle", "again"}
      /\ t = Closer => x.at = "idle"
  BY <1>0, <1>2, AfterFacts
<1>4. /\ th' \in [Hosts -> ThreadState] /\ th'[t] = x
      /\ \A u \in Hosts : u # t => th'[u] = th[u]
  BY <1>1, <1>3, OneThread
<1>5. \A u \in Hosts : Creating(u) => Creating(u)' /\ th'[u] = th[u]
  BY <1>1, <1>4 DEF Creating
<1>6. ASSUME NEW u \in Hosts PROVE ThreadInv(u)'
  <2>1. CASE u # t
    <3>1. Creating(u) => slot'[th[u].sid] = u /\ generation'[th[u].sid] >= generation[th[u].sid]
      BY <1>1, Parts DEF ThreadInv
    <3>2. th[u].at = "waiting" => th'[slot[th[u].sid]].gen = th[slot[th[u].sid]].gen
      BY <1>5, Parts, Holder DEF ThreadInv
    <3>3. th[u].agent # None => th[u].agent \in registry'
      BY <1>1, <2>1, Parts DEF ThreadInv, IInv, DistinctInv
    <3>. QED BY <1>1, <1>4, <2>1, <3>1, <3>2, <3>3, ThreadKept, Parts
  <2>2. CASE u = t
    BY <1>3, <1>4, <2>2 DEF ThreadInv, Creating
  <2>. QED BY <2>1, <2>2
<1>7. ASSUME NEW s \in Sessions PROVE SessionInv(s)'
  <2>1. slot[s] # Nobody => Creating(slot[s]) /\ th'[slot[s]] = th[slot[s]] /\ th[slot[s]].sid = s
    BY <1>5, Holder
  <2>2. states[s] # None => states[s] \in registry'
    BY <1>1, Parts DEF SessionInv, IInv, DistinctInv
  <2>. QED BY <1>1, <2>1, <2>2, Parts DEF SessionInv, Creating
<1>8. DistinctInv'
  BY <1>1, <1>3, <1>4 DEF IInv, DistinctInv
<1>9. OvertakenInv'
  BY <1>1, <1>5, Constants DEF IInv, OvertakenInv, TypeOK
<1>10. AccountedInv'
  BY <1>1, <1>4 DEF IInv, AccountedInv
<1>11. TypeOK' /\ orphans' <= faults'
  BY <1>1, <1>4 DEF IInv, TypeOK
<1>. QED BY <1>6, <1>7, <1>8, <1>9, <1>10, <1>11 DEF IInv

LEMMA StepClosing ==
  ASSUME IInv, Shutdown \/ ShutdownClose \/ UNCHANGED vars
  PROVE  IInv'
<1>1. /\ UNCHANGED <<routerVars, registry, th, orphans, faults, overtaken, abandoned>>
      /\ excused' \in {excused, Sessions} /\ loopUp' \in BOOLEAN
      /\ closing' \in [at : {"no", "ending", "closed"}, left : SUBSET Sessions]
  <2>1. CASE Shutdown
    BY <2>1 DEF Shutdown, Listed, IInv, TypeOK
  <2>2. CASE ShutdownClose
    <3>1. closing' = [closing EXCEPT !.at = "closed"]
      BY <2>2 DEF ShutdownClose
    <3>2. closing' \in [at : {"no", "ending", "closed"}, left : SUBSET Sessions]
      BY <3>1 DEF IInv, TypeOK
    <3>. QED BY <2>2, <3>2 DEF ShutdownClose
  <2>3. CASE UNCHANGED vars
    BY <2>3 DEF IInv, TypeOK
  <2>. QED BY <2>1, <2>2, <2>3
<1>2. excused \subseteq excused' /\ excused' \subseteq Sessions
  BY <1>1, Parts
<1>3. TypeOK' /\ orphans' <= faults'
  BY <1>1, <1>2 DEF IInv, TypeOK
<1>4. \A u \in Hosts : ThreadInv(u)'
  BY <1>1, <1>2, Parts DEF ThreadInv, Creating
<1>5. \A s \in Sessions : SessionInv(s)'
  BY <1>1, <1>2, Parts DEF SessionInv, Creating
<1>6. DistinctInv' /\ OvertakenInv' /\ AccountedInv'
  BY <1>1 DEF IInv, DistinctInv, OvertakenInv, AccountedInv, Creating
<1>. QED BY <1>3, <1>4, <1>5, <1>6 DEF IInv

-----------------------------------------------------------------------------
(* The end of a registration.                                              *)

LEMMA InstallFacts ==
  ASSUME IInv, NEW t \in Threads, Install(t), NEW s, NEW a, s = th[t].sid, a = th[t].agent
  PROVE  /\ s \in Sessions /\ a \in Agents \cup {None} /\ t \in Hosts /\ t # Closer
         /\ Creating(t) /\ slot[s] = t /\ (a # None => a \in registry) /\ (a = None => s \in excused)
         /\ slot' = [slot EXCEPT ![s] = Nobody]
         /\ \A u \in Hosts : u # t => th'[u] =
              IF th[u].at = "waiting" /\ th[u].sid = s THEN [th[u] EXCEPT !.at = "woken"] ELSE th[u]
         /\ th'[t].agent = None /\ th'[t].at \in {"idle", "bare"}
         /\ th'[t].at = "bare" => th'[t].sid = s /\ s \in excused
         /\ th' \in [Hosts -> ThreadState]
         /\ \/ a # None /\ states[s] = None /\ states' = [states EXCEPT ![s] = a] /\ registry' = registry
            \/ states' = states /\ registry' = registry \ {a}
         /\ generation[s] = th[t].gen /\ states'[s] = None => s \in excused
         /\ overtaken' = overtaken \ {t}
         /\ UNCHANGED <<generation, orphans, loopUp, closing, faults, abandoned, excused>>
<1>1. /\ s \in Sessions /\ a \in Agents \cup {None} /\ t \in Hosts /\ t # Closer
      /\ th[t].at = "created" /\ Creating(t)
  BY Parts, Constants, ThreadsAssumption DEF Install, Creating
<1>2. /\ slot[s] = t /\ (a # None => a \in registry) /\ (a = None => s \in excused)
      /\ th[t].gen <= generation[s] /\ th[t].gen \in Nat /\ generation[s] \in Nat
      /\ (generation[s] # 0 => s \in excused) /\ states[s] \in Agents \cup {None}
      /\ states[s] # None => states[s] # a
  BY <1>1, Parts DEF ThreadInv, SessionInv, IInv, DistinctInv
<1>3. PICK kept : kept = IF a = None \/ generation[s] # th[t].gen THEN None
                         ELSE IF states[s] # None THEN states[s] ELSE a
  OBVIOUS
<1>4. /\ slot' = [slot EXCEPT ![s] = Nobody]
      /\ states' = IF kept = a /\ a # None THEN [states EXCEPT ![s] = a] ELSE states
      /\ registry' = IF kept = a THEN registry ELSE registry \ {a}
      /\ th' = [u \in Hosts |->
                  IF u = t THEN Result(s, kept)
                  ELSE IF th[u].at = "waiting" /\ th[u].sid = s THEN [th[u] EXCEPT !.at = "woken"] ELSE th[u]]
      /\ overtaken' = overtaken \ {t}
      /\ UNCHANGED <<generation, orphans, loopUp, closing, faults, abandoned, excused>>
  BY <1>3 DEF Install, Wakes, Unregisters
<1>5. PICK x : x = Result(s, kept)
  OBVIOUS
<1>6. /\ x \in ThreadState /\ x.agent = None /\ x.at \in {"idle", "bare"}
      /\ x.at = "bare" => x.sid = s /\ kept = None
  BY <1>1, <1>5, ResultFacts
<1>7. kept = None => s \in excused
  <2>1. generation[s] # th[t].gen => generation[s] # 0
    BY <1>2
  <2>. QED BY <1>2, <1>3, <2>1
<1>8. th' \in [Hosts -> ThreadState]
  <2>1. \A u \in Hosts : th[u] \in ThreadState /\ [th[u] EXCEPT !.at = "woken"] \in ThreadState
    BY Parts DEF ThreadState
  <2>. QED BY <1>4, <1>5, <1>6, <2>1
<1>9. \/ a # None /\ states[s] = None /\ states' = [states EXCEPT ![s] = a] /\ registry' = registry
      \/ states' = states /\ registry' = registry \ {a}
  <2>1. CASE a = None
    <3>1. registry \ {a} = registry
      BY <2>1, Parts, Constants
    <3>. QED BY <1>3, <1>4, <2>1, <3>1
  <2>2. CASE a # None /\ kept = a
    BY <1>2, <1>3, <1>4, <2>2
  <2>3. CASE a # None /\ kept # a
    BY <1>4, <2>3
  <2>. QED BY <2>1, <2>2, <2>3
<1>10. generation[s] = th[t].gen /\ states'[s] = None => s \in excused
  BY <1>1, <1>2, <1>3, <1>4, Parts
<1>11. /\ th'[t] = x
       /\ \A u \in Hosts : u # t => th'[u] =
            IF th[u].at = "waiting" /\ th[u].sid = s THEN [th[u] EXCEPT !.at = "woken"] ELSE th[u]
  BY <1>1, <1>4, <1>5
<1>. QED BY <1>1, <1>2, <1>4, <1>6, <1>7, <1>8, <1>9, <1>10, <1>11

LEMMA StepInstall ==
  ASSUME IInv, NEW t \in Threads, Install(t)
  PROVE  IInv'
<1>0. PICK s, a : s = th[t].sid /\ a = th[t].agent
  OBVIOUS
<1>1. /\ s \in Sessions /\ a \in Agents \cup {None} /\ t \in Hosts /\ t # Closer
      /\ Creating(t) /\ slot[s] = t /\ (a # None => a \in registry) /\ (a = None => s \in excused)
      /\ slot' = [slot EXCEPT ![s] = Nobody] /\ th' \in [Hosts -> ThreadState]
      /\ \/ a # None /\ states[s] = None /\ states' = [states EXCEPT ![s] = a] /\ registry' = registry
         \/ states' = states /\ registry' = registry \ {a}
      /\ generation[s] = th[t].gen /\ states'[s] = None => s \in excused
      /\ overtaken' = overtaken \ {t}
      /\ UNCHANGED <<generation, orphans, loopUp, closing, faults, abandoned, excused>>
  BY <1>0, InstallFacts
<1>2. /\ \A u \in Hosts : u # t => th'[u] =
             IF th[u].at = "waiting" /\ th[u].sid = s THEN [th[u] EXCEPT !.at = "woken"] ELSE th[u]
      /\ th'[t].agent = None /\ th'[t].at \in {"idle", "bare"}
      /\ th'[t].at = "bare" => th'[t].sid = s /\ s \in excused
  BY <1>0, InstallFacts
<1>4. ASSUME NEW u \in Hosts, u # t
      PROVE  /\ th'[u].sid = th[u].sid /\ th'[u].gen = th[u].gen /\ th'[u].agent = th[u].agent
             /\ th'[u].then = th[u].then
             /\ \/ th[u].at = "waiting" /\ th[u].sid = s /\ th'[u].at = "woken"
                \/ th'[u] = th[u] /\ ~(th[u].at = "waiting" /\ th[u].sid = s)
  BY <1>2, <1>4, Parts DEF ThreadState
<1>5. \A u \in Hosts : u # t /\ Creating(u) => Creating(u)' /\ th'[u] = th[u] /\ th[u].sid # s
  BY <1>1, <1>4, Parts DEF Creating, ThreadInv
<1>6. slot' \in [Sessions -> Threads \cup {Nobody}] /\ slot'[s] = Nobody
      /\ \A r \in Sessions : r # s => slot'[r] = slot[r]
  BY <1>1, Parts
<1>7. /\ states' \in [Sessions -> Agents \cup {None}] /\ \A r \in Sessions : r # s => states'[r] = states[r]
      /\ states'[s] = states[s] \/ (states'[s] = a /\ a # None /\ states[s] = None /\ registry' = registry)
  BY <1>1, Parts
<1>8. registry' \subseteq registry /\ \A b \in registry : b # a => b \in registry'
  BY <1>1
<1>9. ASSUME NEW u \in Hosts, u # t PROVE ThreadInv(u)'
  <2>1. th[u].sid \in Sessions /\ th[u].gen \in Nat /\ ThreadInv(u)
    BY Parts
  <2>2. th[u].agent # None => th[u].agent \in registry'
    BY <1>0, <1>1, <1>8, <1>9, <2>1 DEF ThreadInv, IInv, DistinctInv
  <2>3. CASE th'[u] = th[u] /\ ~(th[u].at = "waiting" /\ th[u].sid = s)
    <3>1. Creating(u) => slot'[th[u].sid] = u /\ generation'[th[u].sid] >= generation[th[u].sid]
      BY <1>1, <1>5, <1>6, <1>9, <2>1, Parts DEF ThreadInv
    <3>2. th[u].at = "waiting" => slot'[th[u].sid] = slot[th[u].sid]
                                  /\ th'[slot[th[u].sid]].gen = th[slot[th[u].sid]].gen
      <4>. SUFFICES ASSUME th[u].at = "waiting" PROVE slot'[th[u].sid] = slot[th[u].sid]
                                  /\ th'[slot[th[u].sid]].gen = th[slot[th[u].sid]].gen
        OBVIOUS
      <4>1. slot[th[u].sid] # Nobody /\ th[u].sid # s
        BY <2>1, <2>3 DEF ThreadInv
      <4>2. slot[th[u].sid] \in Hosts /\ slot[th[u].sid] # t
        BY <1>0, <2>1, <4>1, Holder
      <4>. QED BY <1>4, <1>6, <2>1, <4>1, <4>2
    <3>3. states'[th[u].sid] = None => states[th[u].sid] = None
      BY <1>7, <2>1
    <3>. QED BY <1>1, <2>2, <2>3, <3>1, <3>2, <3>3, ThreadKept, Parts
  <2>4. CASE th[u].at = "waiting" /\ th[u].sid = s /\ th'[u].at = "woken"
    <3>1. th[u].gen = th[t].gen
      BY <1>1, <2>1, <2>4 DEF ThreadInv
    <3>2. generation'[s] = th'[u].gen /\ states'[s] = None => s \in excused'
      BY <1>1, <1>4, <1>9, <3>1
    <3>3. th'[u].sid = s /\ th'[u].agent = None /\ u # Closer
      BY <1>4, <1>9, <2>1, <2>4 DEF ThreadInv
    <3>. QED BY <2>4, <3>2, <3>3 DEF ThreadInv, Creating
  <2>. QED BY <1>4, <1>9, <2>3, <2>4
<1>10. ThreadInv(t)'
  BY <1>1, <1>2 DEF ThreadInv, Creating
<1>11. ASSUME NEW r \in Sessions PROVE SessionInv(r)'
  <2>1. slot'[r] # Nobody => th'[slot'[r]].at \in {"creating", "created"} /\ th'[slot'[r]].sid = r
    <3>1. CASE r # s /\ slot[r] # Nobody
      <4>1. slot[r] \in Hosts /\ Creating(slot[r]) /\ th[slot[r]].sid = r /\ slot[r] # t
        BY <1>0, <3>1, Holder
      <4>. QED BY <1>5, <1>6, <3>1, <4>1 DEF Creating
    <3>. QED BY <1>6, <3>1
  <2>2. states'[r] # None => states'[r] \in registry'
    BY <1>0, <1>1, <1>7, <1>8, Parts DEF SessionInv, IInv, DistinctInv
  <2>3. generation'[r] # 0 => r \in excused'
    BY <1>1, Parts DEF SessionInv
  <2>. QED BY <2>1, <2>2, <2>3 DEF SessionInv, Creating
<1>12. DistinctInv'
  <2>1. ASSUME NEW r \in Sessions, NEW q \in Sessions, r # q, states'[r] # None PROVE states'[r] # states'[q]
    BY <1>0, <1>1, <1>7, <2>1 DEF IInv, DistinctInv
  <2>2. ASSUME NEW u \in Hosts, NEW v \in Hosts, u # v, th'[u].agent # None
        PROVE  th'[u].agent # th'[v].agent
    <3>1. u # t
      BY <1>2, <2>2
    <3>2. th'[u].agent = th[u].agent /\ (v # t => th'[v].agent = th[v].agent) /\ (v = t => th'[v].agent = None)
      BY <1>2, <1>4, <3>1
    <3>. QED BY <2>2, <3>2 DEF IInv, DistinctInv
  <2>3. ASSUME NEW r \in Sessions, NEW u \in Hosts, states'[r] # None PROVE states'[r] # th'[u].agent
    <3>1. CASE u = t
      BY <1>2, <2>3, <3>1
    <3>2. CASE u # t
      <4>1. th'[u].agent = th[u].agent
        BY <1>4, <3>2
      <4>. QED BY <1>0, <1>1, <1>7, <2>3, <3>2, <4>1 DEF IInv, DistinctInv
    <3>. QED BY <3>1, <3>2
  <2>. QED BY <2>1, <2>2, <2>3 DEF DistinctInv
<1>13. OvertakenInv'
  BY <1>1, <1>5, Constants DEF IInv, OvertakenInv, TypeOK
<1>14. AccountedInv'
  <2>. SUFFICES ASSUME NEW b \in registry'
                PROVE  \/ \E r \in Sessions : states'[r] = b
                       \/ \E u \in Hosts : th'[u].at \in {"created", "ending"} /\ th'[u].agent = b
                       \/ b \in abandoned'
    BY DEF AccountedInv
  <2>1. b \in registry /\ b # None
    BY <1>8, Parts, Constants
  <2>2. CASE \E r \in Sessions : states[r] = b
    BY <1>7, <2>1, <2>2
  <2>3. CASE b = a
    BY <1>1, <1>7, <2>3
  <2>4. ASSUME NEW u \in Hosts, u # t, th[u].at \in {"created", "ending"}, th[u].agent = b
        PROVE  th'[u].at \in {"created", "ending"} /\ th'[u].agent = b
    BY <1>4, <2>4
  <2>. QED BY <1>0, <1>1, <2>1, <2>2, <2>3, <2>4 DEF IInv, AccountedInv
<1>15. TypeOK' /\ orphans' <= faults'
  BY <1>1, <1>6, <1>7, <1>8 DEF IInv, TypeOK
<1>. QED BY <1>9, <1>10, <1>11, <1>12, <1>13, <1>14, <1>15 DEF IInv

-----------------------------------------------------------------------------
(* The theorems.                                                           *)

LEMMA Initially == Init => IInv
<1>. SUFFICES ASSUME Init PROVE IInv
  OBVIOUS
<1>1. \A t \in Hosts : th[t] = Idle
  BY DEF Init
<1>2. TypeOK /\ orphans <= faults
  <2>1. th \in [Hosts -> ThreadState]
    BY IdleFacts DEF Init
  <2>2. orphans \in 0..MaxFaults /\ faults \in 0..MaxFaults /\ orphans <= faults
    BY BoundsAssumption DEF Init
  <2>. QED BY <2>1, <2>2 DEF Init, TypeOK
<1>3. \A t \in Hosts : ThreadInv(t)
  BY <1>1, IdleFacts DEF ThreadInv, Creating
<1>4. \A s \in Sessions : SessionInv(s)
  BY DEF Init, SessionInv
<1>5. DistinctInv /\ OvertakenInv /\ AccountedInv
  BY <1>1, IdleFacts DEF Init, DistinctInv, OvertakenInv, AccountedInv
<1>. QED BY <1>2, <1>3, <1>4, <1>5 DEF IInv

LEMMA Inductive ==
  ASSUME IInv, [Next]_vars
  PROVE  IInv'
<1>1. ASSUME NEW t \in Threads, NEW s \in Sessions, Hook(t, s) PROVE IInv'
  BY <1>1, StepLook DEF Hook, Free
<1>2. ASSUME NEW t \in Threads, LookAgain(t) PROVE IInv'
  BY <1>2, StepLook, Parts, Constants DEF LookAgain
<1>3. closing \in [at : {"no", "ending", "closed"}, left : SUBSET Sessions]
  BY DEF IInv, TypeOK
<1>4. ASSUME NEW t \in Threads, NEW s \in Sessions, SessionFinalize(t, s) PROVE IInv'
  <2>1. t \in Hosts /\ {} \in SUBSET Sessions
    BY Constants
  <2>. QED BY <1>3, <1>4, <2>1, StepFinalize DEF SessionFinalize
<1>5. ASSUME NEW t \in Threads, NEW s \in Sessions, NEW r \in Sessions, SessionReset(t, s, r) PROVE IInv'
  <2>1. t \in Hosts /\ {r} \in SUBSET Sessions /\ t # Closer
    BY Constants, ThreadsAssumption
  <2>. QED BY <1>3, <1>5, <2>1, StepFinalize DEF SessionReset
<1>6. ASSUME NEW s \in Sessions, ShutdownFinalize(s) PROVE IInv'
  <2>1. Closer \in Hosts /\ {} \in SUBSET Sessions
    BY Constants
  <2>2. closing' \in [at : {"no", "ending", "closed"}, left : SUBSET Sessions]
    BY <1>3, <1>6 DEF ShutdownFinalize
  <2>. QED BY <1>6, <2>1, <2>2, StepFinalize DEF ShutdownFinalize
<1>. QED
  BY <1>1, <1>2, <1>4, <1>5, <1>6, StepWoken, StepCreate, StepInstall, StepUnregister, StepOrphanCreated,
     StepClosing
  DEF Next, Progress

(* The invariant of the router holds in every reachable state, for any     *)
(* sets of threads, sessions and agents.                                   *)
THEOREM Invariance == Spec => []IInv
BY Initially, Inductive, PTL DEF Spec

(* Every slot, state, generation and thread of the router is well typed in *)
(* every reachable state.                                                  *)
THEOREM TypeCorrect == Spec => []TypeOK
<1>1. IInv => TypeOK
  BY DEF IInv
<1>. QED BY <1>1, Invariance, PTL

(* The router and the registry agree in every reachable state, whatever    *)
(* registrations, finalizations, resets and the shutdown do at the same    *)
(* time (ensure_session, session_finalize and shutdown of plugin.py).      *)
THEOREM RegistryAgrees == Spec => []RegistryAccounted
<1>1. IInv => RegistryAccounted
  BY DEF IInv, SessionInv, AccountedInv, RegistryAccounted
<1>. QED BY <1>1, Invariance, PTL

(* ensure_session (plugin.py) returns without a state only for a reason: a *)
(* registration that failed or outlasted its caller, a finalization that   *)
(* overtook it, or the shutdown.                                           *)
THEOREM Supervised == Spec => []SupervisedUnlessExcused
<1>1. IInv => SupervisedUnlessExcused
  BY Constants DEF IInv, ThreadInv, SupervisedUnlessExcused
<1>. QED BY <1>1, Invariance, PTL

(* Only a registration installs a state, and none that was overtaken does. *)
LEMMA InstallsItsOwn ==
  ASSUME IInv, [Next]_vars, NEW s \in Sessions, states[s] = None, states'[s] # None
  PROVE  \E t \in Threads : th[t].at = "created" /\ th[t].sid = s /\ generation[s] = th[t].gen
<1>1. states \in [Sessions -> Agents \cup {None}]
  BY Parts
<1>2. ASSUME NEW t \in Hosts, NEW r \in Sessions, NEW then, Finalize(t, r, then) PROVE FALSE
  <2>1. states' = [states EXCEPT ![r] = None]
    BY <1>2 DEF Finalize
  <2>. QED BY <1>1, <2>1
<1>3. states' # states
  BY <1>1
<1>4. PICK t \in Threads : Install(t)
  BY <1>2, <1>3, Constants
  DEF Next, Progress, Hook, LookAgain, Woken, Created, CreateFails, CreateTimesOut, OrphanCreated,
      SessionFinalize, SessionReset, Unregister, Shutdown, ShutdownClose, ShutdownFinalize
<1>5. PICK r, a : r = th[t].sid /\ a = th[t].agent
  OBVIOUS
<1>6. PICK kept : kept = IF a = None \/ generation[r] # th[t].gen THEN None
                         ELSE IF states[r] # None THEN states[r] ELSE a
  OBVIOUS
<1>7. /\ th[t].at = "created"
      /\ states' = IF kept = a /\ a # None THEN [states EXCEPT ![r] = a] ELSE states
  BY <1>4, <1>5, <1>6 DEF Install
<1>8. kept = a /\ a # None
  BY <1>3, <1>7
<1>9. r = s /\ generation[r] = th[t].gen
  BY <1>1, <1>6, <1>7, <1>8
<1>. QED BY <1>5, <1>7, <1>9

(* A registration that a finalization has overtaken never comes back:      *)
(* ensure_session (plugin.py) compares the generation under the lock       *)
(* before it installs the state.                                           *)
THEOREM NothingRevives == Spec => NoRevival
<1>1. IInv /\ [Next]_vars =>
        [\A s \in Sessions : states[s] = None /\ states'[s] # None => slot[s] \notin overtaken]_vars
  <2>. SUFFICES ASSUME IInv, [Next]_vars, NEW s \in Sessions, states[s] = None, states'[s] # None
                PROVE  slot[s] \notin overtaken
    OBVIOUS
  <2>1. PICK t \in Threads : th[t].at = "created" /\ th[t].sid = s /\ generation[s] = th[t].gen
    BY InstallsItsOwn
  <2>2. slot[s] = t
    BY <2>1, Parts, Constants DEF ThreadInv, Creating
  <2>. QED BY <2>1, <2>2 DEF IInv, OvertakenInv
<1>. QED BY <1>1, Invariance, PTL DEF Spec, NoRevival
=============================================================================
