------------------------- MODULE EventDeliveryProofs -------------------------
(* Theorems about EventDelivery and their proofs. *)
EXTENDS EventDelivery, SequenceTheorems, FiniteSetTheorems, TLAPS

(* The client.  The events up to Sent are accepted; the later ones are in  *)
(* the worker's hands and then in the queue, in order and without a gap.   *)
Consecutive(s, first) == \A i \in 1..Len(s) : s[i] = first + i - 1

Todo == worker.todo
Sent == produced - Len(queue) - Len(Todo)

BacklogInv ==
  /\ Sent \in Nat
  /\ Consecutive(Todo, Sent + 1)
  /\ Consecutive(queue, Sent + Len(Todo) + 1)

(* Every batch on its way, a request or a transaction, is a run of events  *)
(* that begins with one that is accepted already, or is the next.  The one *)
(* the worker waits for is its chunk; and the latest to draw its ids, if   *)
(* none was inserted after its sender had given up on it.                  *)
Shape(batch) ==
  /\ batch.events # <<>> /\ Len(batch.events) <= BatchMax
  /\ batch.events[1] <= Sent + 1
  /\ Consecutive(batch.events, batch.events[1])
  /\ batch.events[1] + Len(batch.events) <= produced + 1

Asking(r) ==
  /\ worker.at = "waiting" /\ r.events = Chunk
  /\ \A q \in requests : q # r => ~q.waits
  /\ \A tx \in txs : ~tx.waits

Latest(tx) ==
  /\ \A u \in txs : u # tx => u.first < tx.first
  /\ \A r \in rows : r.id < tx.first

Awaited(tx) ==
  /\ worker.at = "waiting" /\ tx.events = Chunk
  /\ \A r \in requests : ~r.waits
  /\ \A u \in txs : u # tx => ~u.waits
  /\ overtaken \/ Latest(tx)

RequestInv == \A r \in requests : Shape(r) /\ (r.waits => Asking(r))
TxInv == \A tx \in txs : Shape(tx) /\ (tx.waits => Awaited(tx))

StoredInv == \E n \in 0..produced : Stored = 1..n /\ Sent <= n

(* Ids.                                                                    *)
IdsOf(tx) == tx.first..(tx.first + Len(tx.events) - 1)

IdInv ==
  /\ IsFiniteSet(rows) /\ nextId >= 1
  /\ \A r \in rows : r.id \in 1..(nextId - 1)
  /\ \A tx \in txs : tx.first + Len(tx.events) <= nextId
  /\ \A tx \in txs : \A r \in rows : r.id \notin IdsOf(tx)
  /\ \A tx, u \in txs : tx # u => IdsOf(tx) \cap IdsOf(u) = {}

(* How often an event was inserted, how often it may still be for the      *)
(* requests there are, and whether it may be asked for once more.          *)
Carries(batch, e) == \E i \in 1..Len(batch.events) : batch.events[i] = e

Inserted(e) == {r \in rows \cup UNION {RowsOf(tx) : tx \in txs} : r.event = e}
Asked(e) == {r \in requests : Carries(r, e)}
Underway(e) ==
  \/ \E r \in requests : r.waits /\ Carries(r, e)
  \/ \E tx \in txs : tx.waits /\ Carries(tx, e)

Unasked(e) == IF e > Sent /\ ~Underway(e) THEN 1 ELSE 0

CopiesOf(e) ==
  /\ IsFiniteSet(Inserted(e)) /\ IsFiniteSet(Asked(e))
  /\ Cardinality(Inserted(e)) + Cardinality(Asked(e)) + Unasked(e) <= faults + 1

CopiesInv == \A e \in Events : CopiesOf(e)

(* A transaction that was given up on is repeated: each of its events has  *)
(* another row behind it, or nothing has been stored behind it and what is *)
(* posted next begins with its events.                                     *)
Repeated(tx) ==
  \A i \in 1..Len(tx.events) :
    \E q \in rows : q.event = tx.events[i] /\ q.id > tx.first + i - 1

Upcoming == IF Todo = <<>> THEN queue ELSE Todo

ToRepeat(tx) ==
  /\ tx.events[1] = Sent + 1
  /\ Len(tx.events) <= Len(Upcoming)
  /\ \A r \in rows : r.id < tx.first
  /\ \A u \in txs : u.first > tx.first =>
       u.events[1] = tx.events[1] /\ Len(u.events) >= Len(tx.events)

LateInv == overtaken \/ \A tx \in txs : ~tx.waits => Repeated(tx) \/ ToRepeat(tx)

CursorInv ==
  follower.at = "following" =>
    follower.cursor = 0 \/ \E r \in rows : r.id = follower.cursor

IInv ==
  /\ TypeOK
  /\ BacklogInv /\ RequestInv /\ TxInv /\ StoredInv /\ IdInv /\ CopiesInv
  /\ LateInv /\ CursorInv /\ MissedOnlyBehindLateInsert

USE DEF vars, clientVars, serverVars, readerVars

-----------------------------------------------------------------------------
(* The client's queue and chunks.                                          *)

LEMMA ChunkFacts ==
  ASSUME TypeOK, Todo # <<>>
  PROVE  /\ Chunk \in Seq(Events) /\ Chunk # <<>>
         /\ Len(Chunk) \in 1..BatchMax /\ Len(Chunk) <= Len(Todo)
         /\ Len(Todo) <= BatchMax => Len(Chunk) = Len(Todo)
         /\ Len(Todo) > BatchMax => Len(Chunk) = BatchMax
         /\ \A i \in 1..Len(Chunk) : Chunk[i] = Todo[i]
         /\ Rest \in Seq(Events) /\ Len(Rest) = Len(Todo) - Len(Chunk)
         /\ \A i \in 1..Len(Rest) : Rest[i] = Todo[Len(Chunk) + i]
<1> DEFINE todo == Todo
           m == IF Len(todo) < BatchMax THEN Len(todo) ELSE BatchMax
<1>1. todo \in Seq(Events) /\ Len(todo) \in Nat \ {0} /\ BatchMax \in Nat \ {0}
  BY EmptySeq, LimitsAssumption DEF TypeOK, Todo
<1>2. \A i \in 1..Len(todo) : todo[i] \in Events
  BY <1>1, ElementOfSeq
<1>3. m \in Nat /\ m >= 1 /\ m <= Len(todo) /\ m <= BatchMax
  BY <1>1
<1>4. /\ SubSeq(todo, 1, m) \in Seq(Events) /\ Len(SubSeq(todo, 1, m)) = m
      /\ \A i \in 1..m : SubSeq(todo, 1, m)[i] = todo[i]
  <2>1. \A i \in 1..m : todo[i] \in Events
    BY <1>1, <1>2, <1>3
  <2>. HIDE DEF todo, m
  <2>2. /\ SubSeq(todo, 1, m) \in Seq(Events)
        /\ Len(SubSeq(todo, 1, m)) = IF 1 <= m THEN m - 1 + 1 ELSE 0
        /\ \A i \in 1..m - 1 + 1 : SubSeq(todo, 1, m)[i] = todo[1 + i - 1]
    BY <1>3, <2>1, SubSeqProperties
  <2>. QED BY <1>3, <2>2
<1>5. /\ Rest \in Seq(Events)
      /\ Len(Rest) = Len(todo) - m
      /\ \A i \in 1..Len(Rest) : Rest[i] = todo[m + i]
  <2>1. \A i \in BatchMax + 1 .. Len(todo) : todo[i] \in Events
    BY <1>1, <1>2
  <2>2. /\ Rest \in Seq(Events)
        /\ Len(Rest) = IF BatchMax + 1 <= Len(todo) THEN Len(todo) - (BatchMax + 1) + 1 ELSE 0
        /\ \A i \in 1..Len(todo) - (BatchMax + 1) + 1 : Rest[i] = todo[BatchMax + 1 + i - 1]
    <3>. HIDE DEF todo
    <3>. QED BY <1>1, <2>1, SubSeqProperties, Rest = SubSeq(todo, BatchMax + 1, Len(todo)) DEF Rest, todo, Todo
  <2>3. CASE Len(todo) > BatchMax
    <3>1. m = BatchMax /\ Len(Rest) = Len(todo) - BatchMax
      BY <1>1, <2>2, <2>3
    <3>2. \A i \in 1..Len(Rest) : i \in Int /\ BatchMax + 1 + i - 1 = BatchMax + i
      BY <1>1
    <3>. HIDE DEF todo, m
    <3>. QED BY <1>1, <2>2, <3>1, <3>2
  <2>4. CASE Len(todo) <= BatchMax
    <3>1. m = Len(todo) /\ Len(Rest) = 0
      BY <1>1, <2>2, <2>4
    <3>. HIDE DEF todo, m
    <3>. QED BY <1>1, <2>2, <3>1
  <2>. QED BY <1>1, <2>3, <2>4
<1>6. Chunk = SubSeq(todo, 1, m)
  BY DEF Chunk, Todo
<1>7. Chunk \in Seq(Events) /\ Len(Chunk) = m /\ \A i \in 1..m : Chunk[i] = todo[i]
  BY <1>4, <1>6
<1>8. Chunk # <<>>
  BY <1>3, <1>7, EmptySeq
<1>9. (Len(todo) <= BatchMax => m = Len(todo)) /\ (Len(todo) > BatchMax => m = BatchMax)
  BY <1>1
<1>. HIDE DEF m
<1>. QED BY <1>1, <1>3, <1>5, <1>7, <1>8, <1>9

LEMMA ClientTypes ==
  ASSUME TypeOK, BacklogInv
  PROVE  /\ queue \in Seq(Events) /\ Len(queue) \in Nat
         /\ Todo \in Seq(Events) /\ Len(Todo) \in Nat
         /\ Sent \in Nat /\ produced \in Nat /\ Sent = produced - Len(queue) - Len(Todo)
         /\ worker.last \in BOOLEAN /\ worker.at \in {"sending", "waiting"} <=> Todo # <<>>
<1>1. queue \in Seq(Events) /\ Todo \in Seq(Events)
  BY DEF TypeOK, Todo
<1>. QED BY <1>1, LenProperties DEF TypeOK, BacklogInv, Sent, Todo

LEMMA ChunkRun ==
  ASSUME TypeOK, BacklogInv, Todo # <<>>
  PROVE  /\ Chunk \in Seq(Events) /\ Chunk # <<>> /\ Len(Chunk) \in Nat
         /\ Len(Chunk) >= 1 /\ Len(Chunk) <= BatchMax /\ Len(Chunk) <= Len(Todo)
         /\ Chunk[1] = Sent + 1 /\ Consecutive(Chunk, Chunk[1])
         /\ Chunk[1] + Len(Chunk) <= produced + 1
         /\ Len(Todo) > BatchMax => Len(Chunk) = BatchMax
         /\ Len(Todo) <= BatchMax => Len(Chunk) = Len(Todo)
<1>1. /\ Chunk \in Seq(Events) /\ Chunk # <<>> /\ Len(Chunk) \in Nat
      /\ Len(Chunk) >= 1 /\ Len(Chunk) <= BatchMax /\ Len(Chunk) <= Len(Todo)
      /\ \A i \in 1..Len(Chunk) : Chunk[i] = Todo[i]
      /\ Len(Todo) > BatchMax => Len(Chunk) = BatchMax
      /\ Len(Todo) <= BatchMax => Len(Chunk) = Len(Todo)
  BY ChunkFacts, LimitsAssumption
<1>2. /\ Len(Todo) \in Nat /\ Len(queue) \in Nat /\ Sent \in Nat /\ produced \in Nat
      /\ Sent = produced - Len(queue) - Len(Todo)
  BY ClientTypes
<1>3. \A i \in 1..Len(Chunk) : Chunk[i] = Sent + 1 + i - 1
  BY <1>1, <1>2 DEF BacklogInv, Consecutive
<1>4. 1 \in 1..Len(Chunk)
  BY <1>1
<1>5. Chunk[1] = Sent + 1
  BY <1>2, <1>3, <1>4
<1>6. Consecutive(Chunk, Chunk[1])
  BY <1>3, <1>5 DEF Consecutive
<1>7. Chunk[1] + Len(Chunk) <= produced + 1
  BY <1>1, <1>2, <1>5
<1>. QED BY <1>1, <1>5, <1>6, <1>7

(* What the handling of an answer does to the client.                      *)
ClientInv ==
  /\ queue \in Seq(Events)
  /\ worker \in [at : {"rest", "sending", "waiting", "stopped"}, todo : Seq(Events), last : BOOLEAN]
  /\ worker.at \in {"sending", "waiting"} <=> Todo # <<>>
  /\ BacklogInv

(* The client's part of the invariant, from what becomes of its variables. *)
LEMMA Client ==
  ASSUME queue' \in Seq(Events), NEW at \in {"rest", "sending", "waiting", "stopped"},
         NEW todo \in Seq(Events), NEW last \in BOOLEAN,
         worker' = [at |-> at, todo |-> todo, last |-> last],
         at \in {"sending", "waiting"} <=> todo # <<>>,
         produced' \in Nat, NEW sent \in Nat, sent = produced' - Len(queue') - Len(todo),
         Consecutive(todo, sent + 1), Consecutive(queue', sent + Len(todo) + 1)
  PROVE  ClientInv' /\ Sent' = sent /\ Todo' = todo /\ worker'.at = at
<1>1. Todo' = todo /\ worker'.at = at
  BY DEF Todo
<1>2. Sent' = sent
  BY <1>1 DEF Sent
<1>3. /\ Sent' \in Nat /\ Consecutive(Todo', Sent' + 1)
      /\ Consecutive(queue', Sent' + Len(Todo') + 1)
  BY <1>1, <1>2
<1>4. BacklogInv'
  BY <1>3 DEF BacklogInv, Consecutive
<1>5. worker' \in [at : {"rest", "sending", "waiting", "stopped"}, todo : Seq(Events), last : BOOLEAN]
  OBVIOUS
<1>. QED BY <1>1, <1>2, <1>4, <1>5 DEF ClientInv

LEMMA FailedPost ==
  ASSUME TypeOK, BacklogInv, PostFails
  PROVE  /\ ClientInv' /\ Sent' = Sent /\ produced' = produced
         /\ Todo' = <<>> /\ worker'.at \in {"rest", "stopped"}
         /\ Len(queue') = Len(Todo) + Len(queue)
         /\ faults' = faults + 1 /\ faults' \in 0..MaxFaults
<1>. USE ClientTypes
<1>1. /\ queue' = Todo \o queue /\ produced' = produced
      /\ worker' = [at |-> IF worker.last THEN "stopped" ELSE "rest", todo |-> <<>>, last |-> worker.last]
      /\ faults' = faults + 1 /\ faults < MaxFaults
  BY DEF PostFails, Requeue, Continue, Todo
<1>2. /\ queue' \in Seq(Events) /\ Len(queue') = Len(Todo) + Len(queue)
      /\ \A i \in 1..Len(Todo) + Len(queue) : queue'[i] =
           IF i <= Len(Todo) THEN Todo[i] ELSE queue[i - Len(Todo)]
  BY <1>1, ConcatProperties
<1>3. <<>> \in Seq(Events) /\ Len(<<>>) = 0
  BY EmptySeq
<1>4. Consecutive(<<>>, Sent + 1)
  BY <1>3 DEF Consecutive
<1>5. Consecutive(queue', Sent + 0 + 1)
  <2>. SUFFICES ASSUME NEW i \in 1..Len(queue') PROVE queue'[i] = Sent + 0 + 1 + i - 1
    BY DEF Consecutive
  <2>1. CASE i <= Len(Todo)
    BY <1>2, <2>1 DEF BacklogInv, Consecutive
  <2>2. CASE i > Len(Todo)
    <3>1. i - Len(Todo) \in 1..Len(queue)
      BY <1>2, <2>2
    <3>2. queue[i - Len(Todo)] = Sent + Len(Todo) + 1 + (i - Len(Todo)) - 1
      BY <3>1 DEF BacklogInv, Consecutive
    <3>3. queue'[i] = queue[i - Len(Todo)]
      BY <1>2, <2>2, <3>1
    <3>4. Sent \in Nat /\ Len(Todo) \in Nat /\ Len(queue) \in Nat /\ i \in Nat
      <4>1. Sent \in Nat
        BY DEF BacklogInv
      <4>. QED BY <4>1
    <3>. QED BY <3>2, <3>3, <3>4
  <2>. QED BY <1>2, <2>1, <2>2
<1>6. /\ Sent = produced' - Len(queue') - Len(<<>>)
      /\ Consecutive(queue', Sent + Len(<<>>) + 1)
  BY <1>1, <1>2, <1>3, <1>5
<1>7. faults' \in 0..MaxFaults
  BY <1>1, LimitsAssumption DEF TypeOK
<1>. DEFINE at == IF worker.last THEN "stopped" ELSE "rest"
<1>8. at \in {"rest", "stopped"} /\ worker' = [at |-> at, todo |-> <<>>, last |-> worker.last]
  BY <1>1
<1>9. worker.last \in BOOLEAN
  BY DEF TypeOK
<1>10. Sent \in Nat /\ produced' \in Nat
  BY <1>1
<1>11. at \in {"rest", "sending", "waiting", "stopped"} /\ at \notin {"sending", "waiting"}
  OBVIOUS
<1>. HIDE DEF at
<1>12. ClientInv' /\ Sent' = Sent /\ Todo' = <<>> /\ worker'.at = at
  <2>. HIDE ClientTypes
  <2>. QED BY <1>2, <1>3, <1>4, <1>6, <1>8, <1>9, <1>10, <1>11, Client
<1>. QED BY <1>1, <1>2, <1>7, <1>8, <1>12

LEMMA AcceptedPost ==
  ASSUME TypeOK, BacklogInv, Todo # <<>>, Accepted
  PROVE  /\ ClientInv' /\ Sent' = Sent + Len(Chunk) /\ produced' = produced
         /\ queue' = queue /\ faults' = faults /\ worker'.at # "waiting"
         /\ Len(Todo') = Len(Todo) - Len(Chunk)
<1>. USE ClientTypes
<1>. DEFINE at == IF Rest # <<>> THEN "sending" ELSE IF worker.last THEN "stopped" ELSE "rest"
<1>1. /\ queue' = queue /\ produced' = produced /\ faults' = faults
      /\ worker' = [at |-> at, todo |-> Rest, last |-> worker.last]
  BY DEF Accepted, Continue
<1>2. /\ Rest \in Seq(Events) /\ Len(Rest) = Len(Todo) - Len(Chunk)
      /\ \A i \in 1..Len(Rest) : Rest[i] = Todo[Len(Chunk) + i]
      /\ Len(Chunk) \in Nat /\ Len(Rest) \in Nat
  BY ChunkFacts, LenProperties
<1>3. Consecutive(Rest, Sent + Len(Chunk) + 1)
  <2>. SUFFICES ASSUME NEW i \in 1..Len(Rest) PROVE Rest[i] = Sent + Len(Chunk) + 1 + i - 1
    BY DEF Consecutive
  <2>1. Len(Chunk) + i \in 1..Len(Todo)
    BY <1>2
  <2>2. Todo[Len(Chunk) + i] = Sent + 1 + (Len(Chunk) + i) - 1
    BY <2>1 DEF BacklogInv, Consecutive
  <2>. QED BY <1>2, <2>2
<1>4. Consecutive(queue, Sent + Len(Chunk) + Len(Rest) + 1)
  <2>1. Sent + Len(Chunk) + Len(Rest) + 1 = Sent + Len(Todo) + 1
    BY <1>2
  <2>. QED BY <2>1 DEF BacklogInv
<1>5. /\ Sent + Len(Chunk) \in Nat
      /\ Sent + Len(Chunk) = produced' - Len(queue') - Len(Rest)
  BY <1>1, <1>2
<1>6. at \in {"rest", "sending", "stopped"} /\ (at = "sending" <=> Rest # <<>>)
  OBVIOUS
<1>. HIDE DEF at
<1>7. ClientInv' /\ Sent' = Sent + Len(Chunk) /\ Todo' = Rest /\ worker'.at = at
  BY <1>1, <1>2, <1>3, <1>4, <1>5, <1>6, Client
<1>. QED BY <1>1, <1>2, <1>6, <1>7

LEMMA TickClient ==
  ASSUME TypeOK, BacklogInv, Tick
  PROVE  /\ ClientInv' /\ Sent' = Sent /\ produced' = produced
         /\ Todo = <<>> /\ worker.at # "waiting" /\ worker'.at # "waiting"
         /\ \/ Todo' = queue /\ queue' = <<>>
            \/ Todo' = <<>> /\ queue' = queue
<1>. USE ClientTypes
<1>1. /\ Todo = <<>> /\ Len(Todo) = 0 /\ stopping \in BOOLEAN
      /\ Len(<<>>) = 0 /\ <<>> \in Seq(Events) /\ \A n : Consecutive(<<>>, n)
  BY EmptySeq DEF TypeOK, Tick, Consecutive
<1>2. produced' = produced /\ worker.at = "rest"
  BY DEF Tick
<1>3. Consecutive(queue, Sent + 1) /\ Consecutive(queue, Sent + 0 + 1)
  BY <1>1 DEF BacklogInv
<1>4. CASE registered
  <2>. DEFINE at == IF queue # <<>> THEN "sending" ELSE IF stopping THEN "stopped" ELSE "rest"
  <2>1. queue' = <<>> /\ worker' = [at |-> at, todo |-> queue, last |-> stopping]
    BY <1>4 DEF Tick, Continue
  <2>2. at \in {"rest", "sending", "stopped"} /\ (at = "sending" <=> queue # <<>>)
    OBVIOUS
  <2>3. Sent = produced' - Len(queue') - Len(queue)
    BY <1>1, <1>2, <2>1
  <2>4. Consecutive(queue', Sent + Len(queue) + 1)
    BY <1>1, <2>1
  <2>. HIDE DEF at
  <2>5. ClientInv' /\ Sent' = Sent /\ Todo' = queue /\ worker'.at = at
    BY <1>1, <1>2, <1>3, <2>1, <2>2, <2>3, <2>4, Client
  <2>. QED BY <1>1, <1>2, <2>1, <2>2, <2>5
<1>5. CASE ~registered
  <2>. DEFINE at == IF stopping THEN "stopped" ELSE "rest"
  <2>1. queue' = queue /\ worker' = [at |-> at, todo |-> <<>>, last |-> stopping]
    BY <1>5 DEF Tick, Continue
  <2>2. at \in {"rest", "stopped"}
    OBVIOUS
  <2>3. Sent = produced' - Len(queue') - Len(<<>>) /\ Consecutive(queue', Sent + Len(<<>>) + 1)
    BY <1>1, <1>2, <1>3, <2>1
  <2>. HIDE DEF at
  <2>4. ClientInv' /\ Sent' = Sent /\ Todo' = <<>> /\ worker'.at = at
    BY <1>1, <1>2, <2>1, <2>2, <2>3, Client
  <2>. QED BY <1>1, <1>2, <2>1, <2>2, <2>4
<1>. QED BY <1>4, <1>5

LEMMA RecordClient ==
  ASSUME TypeOK, BacklogInv, Record
  PROVE  /\ ClientInv' /\ Sent' = Sent /\ produced' = produced + 1 /\ produced' \in 0..MaxEvents
         /\ Todo' = Todo /\ worker' = worker /\ Len(queue') = Len(queue) + 1
<1>. USE ClientTypes
<1>1. /\ produced' = produced + 1 /\ produced + 1 \in Events /\ worker' = worker
      /\ queue' = Append(queue, produced + 1) /\ produced' \in 0..MaxEvents
  BY LimitsAssumption DEF Record, Events, TypeOK
<1>2. /\ queue' \in Seq(Events) /\ Len(queue') = Len(queue) + 1
      /\ \A i \in 1..Len(queue) : queue'[i] = queue[i]
      /\ queue'[Len(queue) + 1] = produced + 1
  BY <1>1, AppendProperties
<1>3. Todo' = Todo
  BY <1>1 DEF Todo
<1>4. Sent' = Sent
  BY <1>1, <1>2, <1>3 DEF Sent
<1>5. Consecutive(queue', Sent + Len(Todo) + 1)
  <2>. SUFFICES ASSUME NEW i \in 1..Len(queue') PROVE queue'[i] = Sent + Len(Todo) + 1 + i - 1
    BY DEF Consecutive
  <2>1. CASE i \in 1..Len(queue)
    BY <1>2, <2>1 DEF BacklogInv, Consecutive
  <2>2. CASE i = Len(queue) + 1
    BY <1>2, <2>2
  <2>. QED BY <1>2, <2>1, <2>2
<1>6. BacklogInv'
  BY <1>3, <1>4, <1>5 DEF BacklogInv, Consecutive
<1>. QED BY <1>1, <1>2, <1>3, <1>4, <1>6 DEF ClientInv, TypeOK

-----------------------------------------------------------------------------
(* Pages of rows.                                                          *)

LEMMA Least ==
  ASSUME NEW S \in SUBSET Nat, S # {}
  PROVE  \E n \in S : \A m \in S : n <= m
<1>1. PICK n \in S : \A m \in S : ~ (<<m, n>> \in OpToRel(<, Nat))
  BY NatLessThanWellFounded, WFMin
<1>2. \A m \in S : ~ (m < n)
  <2>. SUFFICES ASSUME NEW m \in S, m < n PROVE <<m, n>> \in OpToRel(<, Nat)
    BY <1>1
  <2>. QED BY DEF OpToRel
<1>. QED BY <1>2

LEMMA Greatest ==
  ASSUME NEW S \in SUBSET Nat, S # {}, NEW bound \in Nat, \A n \in S : n <= bound
  PROVE  \E n \in S : \A m \in S : m <= n
<1>. DEFINE D == {bound - n : n \in S}
<1>1. D \in SUBSET Nat /\ D # {}
  <2>1. \A n \in S : n \in Nat /\ n <= bound
    OBVIOUS
  <2>2. \A n \in S : bound - n \in Nat
    BY <2>1
  <2>. QED BY <2>2
<1>2. PICK d \in D : \A e \in D : d <= e
  <2>. HIDE DEF D
  <2>. QED BY <1>1, Least
<1>3. PICK n \in S : d = bound - n
  OBVIOUS
<1>4. \A m \in S : d <= bound - m
  BY <1>2
<1>. QED BY <1>3, <1>4

LEMMA PageIds ==
  ASSUME TypeOK, IdInv, NEW page \in SUBSET rows, page # {}
  PROVE  /\ \E r \in page : r.id = LargestId(page)
         /\ \A r \in page : r.id <= LargestId(page)
         /\ \E r \in page : r.id = SmallestId(page)
         /\ SmallestId(page) \in Nat
         /\ \A r \in page : SmallestId(page) <= r.id
<1>. DEFINE I == {r.id : r \in page}
<1>1. nextId \in Nat /\ \A r \in page : r.id \in 1..(nextId - 1)
  BY DEF TypeOK, IdInv
<1>2. I \in SUBSET Nat /\ I # {} /\ \A n \in I : n <= nextId
  BY <1>1
<1>3. (\E n \in I : \A m \in I : m <= n) /\ (\E n \in I : \A m \in I : n <= m)
  <2>. HIDE DEF I
  <2>. QED BY <1>1, <1>2, Least, Greatest
<1>4. LargestId(page) \in I /\ \A r \in page : r.id <= LargestId(page)
  BY <1>3 DEF LargestId
<1>5. SmallestId(page) \in I /\ \A r \in page : SmallestId(page) <= r.id
  BY <1>3 DEF SmallestId
<1>. QED BY <1>2, <1>4, <1>5

LEMMA RowsOfTx ==
  ASSUME TypeOK, NEW tx \in txs
  PROVE  /\ RowsOf(tx) \subseteq Row
         /\ \A r \in RowsOf(tx) : \E i \in 1..Len(tx.events) :
              r.id = tx.first + i - 1 /\ r.event = tx.events[i]
         /\ \A i \in 1..Len(tx.events) : \E r \in RowsOf(tx) :
              r.id = tx.first + i - 1 /\ r.event = tx.events[i]
         /\ \A q, r \in RowsOf(tx) : q.id = r.id => q = r
<1>1. /\ tx.first \in Nat /\ tx.first >= 1 /\ tx.events \in Seq(Events)
      /\ DOMAIN tx.events = 1..Len(tx.events) /\ Len(tx.events) \in Nat
  BY LenProperties DEF TypeOK
<1>2. \A i \in 1..Len(tx.events) : tx.events[i] \in Events
  BY <1>1, ElementOfSeq
<1>. DEFINE row(i) == [id |-> tx.first + i - 1, event |-> tx.events[i]]
<1>3. RowsOf(tx) = {row(i) : i \in 1..Len(tx.events)}
  BY <1>1 DEF RowsOf
<1>4. \A i \in 1..Len(tx.events) :
        /\ row(i) \in Row
        /\ row(i).id = tx.first + i - 1 /\ row(i).event = tx.events[i]
  <2>. SUFFICES ASSUME NEW i \in 1..Len(tx.events) PROVE row(i) \in Row
    OBVIOUS
  <2>1. tx.first + i - 1 \in Nat /\ tx.events[i] \in Events
    BY <1>1, <1>2
  <2>. QED BY <2>1 DEF Row
<1>. HIDE DEF row
<1>5. \A i, j \in 1..Len(tx.events) : row(i).id = row(j).id => row(i) = row(j)
  <2>. SUFFICES ASSUME NEW i \in 1..Len(tx.events), NEW j \in 1..Len(tx.events), row(i).id = row(j).id
                PROVE i = j
    OBVIOUS
  <2>1. tx.first + i - 1 = tx.first + j - 1
    BY <1>4
  <2>. QED BY <1>1, <2>1
<1>. QED BY <1>3, <1>4, <1>5

-----------------------------------------------------------------------------
(* Type correctness.                                                       *)

Request(n) == [no : 0..n, events : Seq(Events), waits : BOOLEAN]
Tx(n) == [first : 1..(n - 1), events : Seq(Events), waits : BOOLEAN]
Follower == [at : {"start", "following"}, cursor : Nat, floor : Nat]

(* An action that leaves some of the client's variables alone.             *)
LEMMA ClientUnchanged ==
  ASSUME TypeOK, BacklogInv, UNCHANGED <<produced, queue>>, UNCHANGED worker
  PROVE  ClientInv' /\ Sent' = Sent /\ Todo' = Todo
<1>1. ClientInv
  BY DEF ClientInv, TypeOK, Todo
<1>. QED BY <1>1 DEF ClientInv, BacklogInv, Consecutive, Sent, Todo

LEMMA SendClient ==
  ASSUME TypeOK, BacklogInv, Send
  PROVE  /\ ClientInv' /\ Sent' = Sent /\ Todo' = Todo /\ queue' = queue /\ produced' = produced
         /\ Chunk' = Chunk /\ Todo # <<>> /\ worker.at = "sending" /\ worker'.at = "waiting"
<1>1. /\ worker' = [worker EXCEPT !.at = "waiting"] /\ worker.at = "sending"
      /\ produced' = produced /\ queue' = queue
  BY DEF Send
<1>2. /\ worker' \in [at : {"rest", "sending", "waiting", "stopped"}, todo : Seq(Events), last : BOOLEAN]
      /\ worker'.at = "waiting" /\ Todo' = Todo /\ Todo # <<>>
  BY <1>1 DEF TypeOK, Todo
<1>3. Chunk' = Chunk /\ Sent' = Sent
  BY <1>1, <1>2 DEF Chunk, Sent, Todo
<1>4. BacklogInv'
  BY <1>1, <1>2, <1>3 DEF BacklogInv, Consecutive
<1>. QED BY <1>1, <1>2, <1>3, <1>4 DEF ClientInv, TypeOK

(* A failure concerns the client only while it waits.                      *)
LEMMA Failure ==
  ASSUME TypeOK, BacklogInv, NEW waits, FailsIf(waits)
  PROVE  /\ ClientInv' /\ Sent' = Sent /\ produced' = produced
         /\ faults' \in 0..MaxFaults /\ UNCHANGED <<registered, stopping, readerVars>>
         /\ \/ waits /\ PostFails /\ faults' = faults + 1 /\ worker'.at # "waiting"
            \/ ~waits /\ UNCHANGED <<clientVars, faults>> /\ Todo' = Todo
<1>1. CASE waits
  <2>1. PostFails
    BY <1>1 DEF FailsIf
  <2>. QED BY <1>1, <2>1, FailedPost DEF PostFails
<1>2. CASE ~waits
  <2>1. UNCHANGED <<clientVars, readerVars, faults>>
    BY <1>2 DEF FailsIf
  <2>. QED BY <1>2, <2>1, ClientUnchanged DEF TypeOK
<1>. QED BY <1>1, <1>2

LEMMA TypeParts ==
  ASSUME ClientInv', produced' \in 0..MaxEvents, faults' \in 0..MaxFaults,
         requests' \subseteq Request(faults'), overtaken' \in BOOLEAN,
         nextId' \in Nat, txs' \subseteq Tx(nextId'), rows' \subseteq Row,
         registered' \in BOOLEAN, stopping' \in BOOLEAN,
         follower' \in Follower, printed' \subseteq Events
  PROVE  TypeOK'
  BY DEF TypeOK, ClientInv, Todo, Request, Tx, Follower

LEMMA TxRemoved ==
  ASSUME TypeOK, NEW tx \in txs
  PROVE  txs \ {tx} \subseteq Tx(nextId) /\ rows \cup RowsOf(tx) \subseteq Row
  BY RowsOfTx DEF TypeOK, Tx

LEMMA RequestsKept ==
  ASSUME TypeOK, faults' = faults \/ faults' = faults + 1
  PROVE  requests \subseteq Request(faults')
<1>1. requests \subseteq Request(faults) /\ faults \in Nat
  BY DEF TypeOK, Request
<1>2. Request(faults) \subseteq Request(faults')
  <2>1. 0..faults \subseteq 0..faults'
    BY <1>1
  <2>. QED BY <2>1 DEF Request
<1>. QED BY <1>1, <1>2

(* A step after which the worker has given up on a batch, or the control   *)
(* plane has failed with it.                                               *)
LEMMA FailureTypes ==
  ASSUME IInv, NEW waits, FailsIf(waits), requests' \subseteq Request(faults'), overtaken' = overtaken,
         nextId' = nextId, txs' \subseteq Tx(nextId), rows' \subseteq Row
  PROVE  TypeOK'
<1>. USE DEF IInv
<1>1. /\ produced \in 0..MaxEvents /\ nextId \in Nat /\ overtaken \in BOOLEAN
      /\ registered \in BOOLEAN /\ stopping \in BOOLEAN /\ follower \in Follower /\ printed \subseteq Events
  BY DEF TypeOK, Follower
<1>2. /\ ClientInv' /\ produced' = produced /\ faults' \in 0..MaxFaults
      /\ UNCHANGED <<registered, stopping, readerVars>>
  BY Failure
<1>. QED BY <1>1, <1>2, TypeParts

LEMMA TypeStep ==
  ASSUME IInv, [Next]_vars
  PROVE  TypeOK'
<1>. USE DEF IInv
<1>0. /\ produced \in 0..MaxEvents /\ faults \in 0..MaxFaults /\ nextId \in Nat
      /\ requests \subseteq Request(faults) /\ overtaken \in BOOLEAN
      /\ txs \subseteq Tx(nextId) /\ rows \subseteq Row /\ registered \in BOOLEAN
      /\ stopping \in BOOLEAN /\ follower \in Follower /\ printed \subseteq Events
  BY DEF TypeOK, Request, Tx, Follower
<1>1. CASE Record
  BY <1>0, <1>1, RecordClient, TypeParts DEF Record
<1>2. CASE Tick
  BY <1>0, <1>2, TickClient, TypeParts DEF Tick
<1>3. CASE Unregister
  BY <1>0, <1>3, ClientUnchanged, TypeParts DEF Unregister
<1>4. CASE Stop
  BY <1>0, <1>4, ClientUnchanged, TypeParts DEF Stop
<1>5. CASE Send
  <2>. DEFINE new == [no |-> faults, events |-> Chunk, waits |-> TRUE]
  <2>1. Chunk \in Seq(Events) /\ faults \in 0..faults
    BY <1>0, <1>5, SendClient, ChunkRun
  <2>2. new \in Request(faults)
    BY <2>1 DEF Request
  <2>3. requests' = requests \cup {new}
    BY <1>5 DEF Send
  <2>4. requests' \subseteq Request(faults)
    BY <1>0, <2>2, <2>3
  <2>. QED BY <1>0, <1>5, <2>4, SendClient, TypeParts DEF Send
<1>6. ASSUME NEW r \in requests, LostOnTheWay(r) PROVE TypeOK'
  <2>1. /\ requests' = requests \ {r} /\ FailsIf(r.waits) /\ overtaken' = overtaken
        /\ txs' = txs /\ nextId' = nextId /\ rows' = rows
    BY <1>6 DEF LostOnTheWay
  <2>2. requests' \subseteq Request(faults')
    BY <2>1, Failure, RequestsKept
  <2>. QED BY <1>0, <2>1, <2>2, FailureTypes
<1>7. ASSUME NEW r \in requests, GiveUpRequest(r) PROVE TypeOK'
  <2>. DEFINE late == [r EXCEPT !.waits = FALSE]
  <2>1. /\ requests' = (requests \ {r}) \cup {late} /\ PostFails /\ r.waits /\ overtaken' = overtaken
        /\ txs' = txs /\ nextId' = nextId /\ rows' = rows
    BY <1>7 DEF GiveUpRequest
  <2>2. FailsIf(r.waits) /\ faults' = faults + 1
    BY <2>1, FailedPost DEF FailsIf
  <2>3. requests \subseteq Request(faults')
    BY <2>2, RequestsKept
  <2>4. late \in Request(faults')
    BY <2>3 DEF Request
  <2>5. requests' \subseteq Request(faults')
    BY <2>1, <2>3, <2>4
  <2>. QED BY <1>0, <2>1, <2>2, <2>5, FailureTypes
<1>8. ASSUME NEW r \in requests, Insert(r) PROVE TypeOK'
  <2>. DEFINE new == [first |-> nextId, events |-> r.events, waits |-> r.waits]
  <2>1. r.events \in Seq(Events) /\ Len(r.events) \in Nat /\ Len(r.events) >= 1 /\ r.waits \in BOOLEAN
    <3>1. r.events \in Seq(Events) /\ r.events # <<>> /\ r.waits \in BOOLEAN
      BY <1>0 DEF RequestInv, Shape, Request
    <3>. QED BY <3>1, LenProperties, EmptySeq
  <2>2. nextId >= 1 /\ nextId' = nextId + Len(r.events) /\ nextId' \in Nat
    BY <1>0, <1>8, <2>1 DEF Insert, IdInv
  <2>3. new \in Tx(nextId')
    BY <1>0, <2>1, <2>2 DEF Tx
  <2>4. Tx(nextId) \subseteq Tx(nextId')
    BY <1>0, <2>1, <2>2 DEF Tx
  <2>5. txs' = txs \cup {new}
    BY <1>8 DEF Insert
  <2>6. txs' \subseteq Tx(nextId')
    BY <1>0, <2>3, <2>4, <2>5
  <2>7. /\ requests' \subseteq Request(faults) /\ overtaken' \in BOOLEAN
        /\ UNCHANGED <<clientVars, rows, readerVars, faults>>
    BY <1>0, <1>8, <2>1 DEF Insert
  <2>. QED BY <1>0, <2>2, <2>6, <2>7, ClientUnchanged, TypeParts
<1>9. ASSUME NEW tx \in txs, Commit(tx) PROVE TypeOK'
  <2>1. /\ txs' \subseteq Tx(nextId) /\ rows' \subseteq Row /\ nextId' = nextId
        /\ requests' = requests /\ overtaken' = overtaken
    BY <1>9, TxRemoved DEF Commit
  <2>2. CASE FailsIf(tx.waits)
    <3>1. requests' \subseteq Request(faults')
      BY <2>1, <2>2, Failure, RequestsKept
    <3>. QED BY <2>1, <2>2, <3>1, FailureTypes
  <2>3. CASE tx.waits /\ Accepted
    <3>1. Awaited(tx)
      BY <2>3 DEF TxInv
    <3>2. Todo # <<>>
      BY <3>1 DEF Awaited, TypeOK, Todo
    <3>. QED BY <1>0, <2>1, <2>3, <3>2, AcceptedPost, TypeParts DEF Accepted
  <2>. QED BY <1>9, <2>2, <2>3 DEF Commit
<1>10. ASSUME NEW tx \in txs, Abort(tx) PROVE TypeOK'
  <2>1. /\ txs' \subseteq Tx(nextId) /\ nextId' = nextId /\ rows' = rows /\ FailsIf(tx.waits)
        /\ requests' = requests /\ overtaken' = overtaken
    BY <1>10, TxRemoved DEF Abort
  <2>2. requests' \subseteq Request(faults')
    BY <2>1, Failure, RequestsKept
  <2>. QED BY <1>0, <2>1, <2>2, FailureTypes
<1>11. ASSUME NEW tx \in txs, GiveUp(tx) PROVE TypeOK'
  <2>. DEFINE late == [tx EXCEPT !.waits = FALSE]
  <2>1. late \in Tx(nextId)
    BY <1>0 DEF Tx
  <2>2. /\ txs' = (txs \ {tx}) \cup {late} /\ nextId' = nextId /\ rows' = rows /\ PostFails
        /\ tx.waits /\ requests' = requests /\ overtaken' = overtaken
    BY <1>11 DEF GiveUp
  <2>3. txs' \subseteq Tx(nextId)
    BY <1>0, <2>1, <2>2
  <2>4. FailsIf(tx.waits) /\ requests' \subseteq Request(faults')
    BY <2>2, FailedPost, RequestsKept DEF FailsIf
  <2>. QED BY <1>0, <2>2, <2>3, <2>4, FailureTypes
<1>12. CASE FirstPage
  <2>. DEFINE page == Newest(HeadLimit)
  <2>1. page \subseteq rows
    BY DEF Newest
  <2>2. /\ printed' = printed \cup {r.event : r \in page}
        /\ follower' = [at |-> "following",
                         cursor |-> IF page = {} THEN 0 ELSE LargestId(page),
                         floor |-> IF page = {} THEN 0 ELSE SmallestId(page)]
    BY <1>12 DEF FirstPage, Prints
  <2>. HIDE DEF page
  <2>3. page # {} => LargestId(page) \in Nat /\ SmallestId(page) \in Nat
    BY <1>0, <2>1, PageIds DEF Row
  <2>4. follower' \in Follower /\ printed' \subseteq Events
    BY <1>0, <2>1, <2>2, <2>3 DEF Follower, Row
  <2>. QED BY <1>0, <1>12, <2>4, ClientUnchanged, TypeParts DEF FirstPage
<1>13. CASE Poll
  <2>. DEFINE page == After(follower.cursor, TailLimit)
  <2>1. page \subseteq rows
    BY DEF After
  <2>2. /\ printed' = printed \cup {r.event : r \in page} /\ page # {}
        /\ follower' = [follower EXCEPT !.cursor = LargestId(page)]
    BY <1>13 DEF Poll, Prints, CursorAfter
  <2>. HIDE DEF page
  <2>3. LargestId(page) \in Nat
    BY <1>0, <2>1, <2>2, PageIds DEF Row
  <2>4. follower' \in Follower /\ printed' \subseteq Events
    BY <1>0, <2>1, <2>2, <2>3 DEF Follower, Row
  <2>. QED BY <1>0, <1>13, <2>4, ClientUnchanged, TypeParts DEF Poll
<1>14. CASE UNCHANGED vars
  BY <1>0, <1>14, ClientUnchanged, TypeParts
<1>. QED
  BY <1>1, <1>2, <1>3, <1>4, <1>5, <1>6, <1>7, <1>8, <1>9, <1>10, <1>11, <1>12, <1>13, <1>14 DEF Next

-----------------------------------------------------------------------------
(* The client's part, and the transactions.                                *)

(* The ways a commit goes on in the client.                                *)
LEMMA CommitCases ==
  ASSUME IInv, NEW tx \in txs, Commit(tx)
  PROVE  /\ ClientInv' /\ produced' = produced /\ nextId' = nextId
         /\ requests' = requests /\ overtaken' = overtaken
         /\ txs' = txs \ {tx} /\ rows' = rows \cup RowsOf(tx)
         /\ tx.waits => Awaited(tx) /\ worker'.at # "waiting"
         /\ \/ ~tx.waits /\ UNCHANGED <<clientVars, readerVars, faults>> /\ Sent' = Sent /\ Todo' = Todo
            \/ tx.waits /\ Accepted /\ Sent' = Sent + Len(Chunk) /\ faults' = faults
            \/ tx.waits /\ PostFails /\ Sent' = Sent /\ faults' = faults + 1
<1>. USE DEF IInv
<1>1. /\ nextId' = nextId /\ requests' = requests /\ overtaken' = overtaken
      /\ txs' = txs \ {tx} /\ rows' = rows \cup RowsOf(tx)
  BY DEF Commit
<1>2. CASE FailsIf(tx.waits)
  <2>1. tx.waits => Awaited(tx)
    BY DEF TxInv
  <2>2. CASE tx.waits
    BY <1>1, <1>2, <2>1, <2>2, Failure
  <2>3. CASE ~tx.waits
    <3>1. UNCHANGED <<clientVars, readerVars, faults>>
      BY <1>2, <2>3 DEF FailsIf
    <3>. QED BY <1>1, <2>3, <3>1, ClientUnchanged
  <2>. QED BY <2>2, <2>3
<1>3. CASE tx.waits /\ Accepted
  <2>1. Awaited(tx)
    BY <1>3 DEF TxInv
  <2>2. worker.at = "waiting"
    BY <2>1 DEF Awaited
  <2>3. Todo # <<>>
    BY <2>2 DEF TypeOK, Todo
  <2>. QED BY <1>1, <1>3, <2>1, <2>3, AcceptedPost
<1>. QED BY <1>2, <1>3 DEF Commit

LEMMA ClientStep ==
  ASSUME IInv, [Next]_vars
  PROVE  ClientInv'
<1>. USE DEF IInv
<1>1. CASE UNCHANGED worker /\ UNCHANGED <<produced, queue>>
  BY <1>1, ClientUnchanged
<1>2. CASE PostFails
  BY <1>2, FailedPost
<1>3. ASSUME NEW waits, FailsIf(waits) PROVE ClientInv'
  BY <1>3, Failure
<1>4. ASSUME NEW tx \in txs, Commit(tx) PROVE ClientInv'
  BY <1>4, CommitCases
<1>. QED
  BY <1>1, <1>2, <1>3, <1>4, RecordClient, TickClient, SendClient
  DEF Next, Unregister, Stop, LostOnTheWay, GiveUpRequest, Insert, Abort, GiveUp, FirstPage, Poll

LEMMA BatchTypes ==
  ASSUME IInv, NEW batch \in requests \cup txs
  PROVE  /\ Shape(batch) /\ batch.waits \in BOOLEAN
         /\ batch.events \in Seq(Events) /\ Len(batch.events) \in Nat /\ Len(batch.events) >= 1
         /\ DOMAIN batch.events = 1..Len(batch.events)
         /\ batch.events[1] \in Nat /\ batch.events[1] >= 1
         /\ batch.events[1] <= Sent + 1 /\ batch.events[1] + Len(batch.events) <= produced + 1
         /\ \A i \in 1..Len(batch.events) :
              batch.events[i] = batch.events[1] + i - 1 /\ batch.events[i] \in Events
<1>. USE DEF IInv
<1>1. Shape(batch) /\ batch.events \in Seq(Events) /\ batch.waits \in BOOLEAN
  BY DEF RequestInv, TxInv, TypeOK
<1>2. Len(batch.events) \in Nat \ {0} /\ DOMAIN batch.events = 1..Len(batch.events)
  BY <1>1, LenProperties, EmptySeq DEF Shape
<1>3. \A i \in 1..Len(batch.events) : batch.events[i] \in Events
  BY <1>1, <1>2, ElementOfSeq
<1>4. 1 \in 1..Len(batch.events)
  BY <1>2
<1>5. batch.events[1] \in Nat /\ batch.events[1] >= 1
  BY <1>3, <1>4, LimitsAssumption DEF Events
<1>6. \A i \in 1..Len(batch.events) : batch.events[i] = batch.events[1] + i - 1
  BY <1>1 DEF Shape, Consecutive
<1>. QED BY <1>1, <1>2, <1>3, <1>5, <1>6 DEF Shape

LEMMA ShapeKept ==
  ASSUME IInv, NEW batch \in requests \cup txs,
         Sent' >= Sent, Sent' \in Nat, produced' >= produced, produced' \in Nat
  PROVE  Shape(batch)'
<1>1. Shape(batch) /\ Sent \in Nat /\ produced \in Nat
  BY ClientTypes, BatchTypes DEF IInv
<1>2. Len(batch.events) \in Nat /\ batch.events[1] \in Nat
  BY BatchTypes
<1>. QED BY <1>1, <1>2 DEF Shape

LEMMA EarlierIds ==
  ASSUME IInv, NEW tx \in txs, NEW u \in txs, tx.first < u.first, NEW r \in RowsOf(tx)
  PROVE  r.id < u.first
<1>0. TypeOK
  BY DEF IInv
<1>1. PICK i \in 1..Len(tx.events) : r.id = tx.first + i - 1
  <2>1. \A q \in RowsOf(tx) : \E i \in 1..Len(tx.events) :
          q.id = tx.first + i - 1 /\ q.event = tx.events[i]
    BY <1>0, RowsOfTx
  <2>. QED BY <2>1
<1>2. /\ u.first \in Nat /\ tx.first \in Nat
      /\ Len(tx.events) \in Nat /\ Len(u.events) \in Nat /\ Len(u.events) >= 1
  BY <1>0, BatchTypes DEF TypeOK
<1>3. IdsOf(tx) \cap IdsOf(u) = {} /\ u.first \in IdsOf(u)
  BY <1>2 DEF IInv, IdInv, IdsOf
<1>4. u.first \notin tx.first..(tx.first + Len(tx.events) - 1)
  BY <1>3 DEF IdsOf
<1>. QED BY <1>1, <1>2, <1>4

(* What waits goes on waiting, as long as the worker does.                 *)
LEMMA WaitingKept ==
  ASSUME UNCHANGED worker,
         \A r \in requests' : r.waits => r \in requests,
         \A tx \in txs' : tx.waits => tx \in txs
  PROVE  /\ \A r \in requests' : Asking(r) => Asking(r)'
         /\ \A tx \in txs' : Awaited(tx) /\ (overtaken' \/ (~overtaken /\ Latest(tx)')) => Awaited(tx)'
         /\ \A tx \in txs' : Awaited(tx) /\ UNCHANGED <<rows, overtaken>> /\ txs' \subseteq txs => Awaited(tx)'
<1>1. Chunk' = Chunk
  BY DEF Chunk
<1>. QED BY <1>1 DEF Asking, Awaited, Latest

(* The control plane fails with a batch, or the worker gives it up: then   *)
(* it waits no longer.                                                     *)
LEMMA BatchesAfterFailure ==
  ASSUME IInv, NEW waits \in BOOLEAN, FailsIf(waits), waits \/ UNCHANGED <<rows, overtaken>>,
         \A q \in requests' : \E r \in requests : q.events = r.events /\ (~q.waits \/ q = r),
         \A v \in txs' : \E tx \in txs : v.events = tx.events /\ (~v.waits \/ v = tx),
         IF waits THEN (\A q \in requests' : ~q.waits) /\ (\A v \in txs' : ~v.waits)
                  ELSE txs' \subseteq txs
  PROVE  RequestInv' /\ TxInv'
<1>. USE DEF IInv
<1>1. Sent' = Sent /\ produced' = produced /\ Sent \in Nat /\ produced \in Nat /\ Sent >= Sent /\ produced >= produced
  BY Failure, ClientTypes
<1>2. \A batch \in requests \cup txs : Shape(batch)'
  BY <1>1, ShapeKept
<1>3. \A batch \in requests' \cup txs' : Shape(batch)'
  BY <1>2 DEF Shape
<1>4. CASE waits
  BY <1>3, <1>4 DEF RequestInv, TxInv
<1>5. CASE ~waits
  <2>1. UNCHANGED worker
    BY <1>5 DEF FailsIf
  <2>2. /\ \A r \in requests' : r.waits => r \in requests
        /\ \A tx \in txs' : tx.waits => tx \in txs
    OBVIOUS
  <2>. QED BY <1>3, <1>5, <2>1, <2>2, WaitingKept DEF RequestInv, TxInv
<1>. QED BY <1>4, <1>5

LEMMA BatchStep ==
  ASSUME IInv, [Next]_vars
  PROVE  RequestInv' /\ TxInv'
<1>. USE DEF IInv
<1>0. /\ Sent \in Nat /\ produced \in Nat /\ produced + 1 \in Nat /\ Sent >= Sent
      /\ produced >= produced /\ produced + 1 >= produced
      /\ \A r \in requests : Shape(r) /\ (r.waits => Asking(r))
      /\ \A tx \in txs : Shape(tx) /\ (tx.waits => Awaited(tx))
  BY ClientTypes DEF RequestInv, TxInv
<1>1. CASE UNCHANGED <<worker, serverVars>> /\ Sent' = Sent /\ produced' \in {produced, produced + 1}
  <2>1. \A batch \in requests \cup txs : Shape(batch)'
    BY <1>0, <1>1, ShapeKept
  <2>. QED BY <1>0, <1>1, <2>1, WaitingKept DEF RequestInv, TxInv
<1>2. CASE Tick
  <2>1. \A batch \in requests \cup txs : Shape(batch)'
    BY <1>0, <1>2, TickClient, ShapeKept
  <2>2. \A batch \in requests \cup txs : ~batch.waits
    BY <1>0, <1>2, TickClient DEF Awaited, Asking
  <2>. QED BY <1>2, <2>1, <2>2 DEF RequestInv, TxInv, Tick
<1>3. CASE Send
  <2>0. PICK new : new = [no |-> faults, events |-> Chunk, waits |-> TRUE]
    OBVIOUS
  <2>1. requests' = requests \cup {new} /\ txs' = txs /\ new.events = Chunk
    BY <1>3, <2>0 DEF Send
  <2>2. \A batch \in requests \cup txs : ~batch.waits
    BY <1>0, <1>3, SendClient DEF Awaited, Asking
  <2>3. \A batch \in requests \cup txs : Shape(batch)'
    BY <1>0, <1>3, SendClient, ShapeKept
  <2>4. Shape(new)'
    <3>1. /\ Chunk # <<>> /\ Len(Chunk) <= BatchMax /\ Consecutive(Chunk, Chunk[1])
          /\ Chunk[1] <= Sent + 1 /\ Chunk[1] + Len(Chunk) <= produced + 1
      BY <1>0, <1>3, SendClient, ChunkRun
    <3>2. Sent' = Sent /\ produced' = produced
      BY <1>3, SendClient
    <3>. QED BY <2>1, <3>1, <3>2 DEF Shape
  <2>5. Asking(new)'
    <3>1. worker'.at = "waiting" /\ new.events = Chunk'
      BY <1>3, <2>1, SendClient
    <3>. QED BY <2>1, <2>2, <3>1 DEF Asking
  <2>6. \A r \in requests' : r = new \/ (r \in requests /\ ~r.waits)
    BY <2>1, <2>2
  <2>. QED BY <2>1, <2>2, <2>3, <2>4, <2>5, <2>6 DEF RequestInv, TxInv
<1>4. ASSUME NEW r \in requests, LostOnTheWay(r) PROVE RequestInv' /\ TxInv'
  <2>1. requests' = requests \ {r} /\ FailsIf(r.waits) /\ txs' = txs /\ UNCHANGED <<rows, overtaken>>
    BY <1>4 DEF LostOnTheWay
  <2>2. r.waits => (\A q \in requests' : ~q.waits) /\ (\A v \in txs' : ~v.waits)
    BY <1>0, <2>1 DEF Asking
  <2>3. r.waits \in BOOLEAN
    BY BatchTypes
  <2>. QED BY <2>1, <2>2, <2>3, BatchesAfterFailure
<1>5. ASSUME NEW r \in requests, GiveUpRequest(r) PROVE RequestInv' /\ TxInv'
  <2>. DEFINE late == [r EXCEPT !.waits = FALSE]
  <2>1. /\ requests' = (requests \ {r}) \cup {late} /\ r.waits /\ PostFails
        /\ txs' = txs /\ UNCHANGED <<rows, overtaken>>
    BY <1>5 DEF GiveUpRequest
  <2>2. ~late.waits /\ late.events = r.events
    BY DEF TypeOK
  <2>. HIDE DEF late
  <2>3. (\A q \in requests' : ~q.waits) /\ (\A v \in txs' : ~v.waits)
    BY <1>0, <2>1, <2>2 DEF Asking
  <2>4. FailsIf(TRUE)
    BY <2>1 DEF FailsIf
  <2>5. /\ \A q \in requests' : \E p \in requests : q.events = p.events /\ (~q.waits \/ q = p)
        /\ \A v \in txs' : \E tx \in txs : v.events = tx.events /\ (~v.waits \/ v = tx)
    BY <2>1, <2>2
  <2>. QED BY <2>3, <2>4, <2>5, BatchesAfterFailure
<1>6. ASSUME NEW r \in requests, Insert(r) PROVE RequestInv' /\ TxInv'
  <2>0. PICK new : new = [first |-> nextId, events |-> r.events, waits |-> r.waits]
    OBVIOUS
  <2>1. /\ requests' = requests \ {r} /\ txs' = txs \cup {new} /\ rows' = rows
        /\ new.first = nextId /\ new.events = r.events /\ new.waits = r.waits
        /\ UNCHANGED <<clientVars>>
    BY <1>6, <2>0 DEF Insert
  <2>2. overtaken' = (overtaken \/ ~r.waits) /\ r.waits \in BOOLEAN /\ overtaken \in BOOLEAN
    BY <1>6, BatchTypes DEF Insert, TypeOK
  <2>3. Sent' = Sent /\ produced' = produced /\ Chunk' = Chunk
    BY <2>1, ClientUnchanged DEF Chunk
  <2>4. \A batch \in requests \cup txs : Shape(batch)'
    BY <1>0, <2>3, ShapeKept
  <2>5. Shape(new)'
    BY <2>1, <2>4 DEF Shape
  <2>6. CASE r.waits
    <3>1. /\ worker.at = "waiting" /\ r.events = Chunk
          /\ \A q \in requests' : ~q.waits
          /\ \A u \in txs : ~u.waits
      BY <1>0, <2>1, <2>6 DEF Asking
    <3>2. (\A u \in txs : u.first < nextId) /\ (\A q \in rows : q.id < nextId)
      BY DEF TypeOK, IdInv
    <3>3. Latest(new)'
      BY <2>1, <3>2 DEF Latest
    <3>4. Awaited(new)'
      BY <2>1, <2>3, <3>1, <3>3 DEF Awaited
    <3>. QED BY <2>1, <2>4, <2>5, <3>1, <3>4 DEF RequestInv, TxInv
  <2>7. CASE ~r.waits
    <3>1. overtaken' /\ ~new.waits
      BY <2>1, <2>2, <2>7
    <3>2. /\ \A q \in requests' : q.waits => q \in requests
          /\ \A tx \in txs' : tx.waits => tx \in txs
      BY <2>1, <3>1
    <3>3. /\ \A q \in requests' : Asking(q) => Asking(q)'
          /\ \A tx \in txs' : Awaited(tx) => Awaited(tx)'
      BY <2>1, <3>1, <3>2, WaitingKept
    <3>. QED BY <1>0, <2>1, <2>4, <2>5, <3>1, <3>3 DEF RequestInv, TxInv
  <2>. QED BY <2>2, <2>6, <2>7
<1>7. ASSUME NEW tx \in txs, Commit(tx) PROVE RequestInv' /\ TxInv'
  <2>1. /\ txs' = txs \ {tx} /\ rows' = rows \cup RowsOf(tx) /\ requests' = requests
        /\ overtaken' = overtaken /\ Sent' \in Nat /\ Sent' >= Sent /\ produced' = produced
    <3>1. /\ Sent' \in Nat /\ produced' = produced /\ txs' = txs \ {tx} /\ rows' = rows \cup RowsOf(tx)
          /\ requests' = requests /\ overtaken' = overtaken
      BY <1>7, CommitCases DEF ClientInv, BacklogInv
    <3>2. tx.waits => Todo # <<>> /\ Len(Chunk) \in Nat
      BY <1>0, ChunkFacts, LimitsAssumption DEF Awaited, TypeOK, Todo
    <3>. QED BY <1>0, <1>7, <3>1, <3>2, CommitCases
  <2>2. \A batch \in requests' \cup txs' : Shape(batch)'
    BY <1>0, <2>1, ShapeKept
  <2>3. CASE tx.waits
    <3>1. \A batch \in requests' \cup txs' : ~batch.waits
      BY <1>0, <2>1, <2>3 DEF Awaited
    <3>. QED BY <2>2, <3>1 DEF RequestInv, TxInv
  <2>4. CASE ~tx.waits
    <3>1. worker' = worker
      BY <1>7, <2>4, CommitCases
    <3>2. ASSUME NEW u \in txs', u.waits PROVE Awaited(u) /\ (overtaken' \/ (~overtaken /\ Latest(u)'))
      <4>1. Awaited(u) /\ u \in txs /\ u # tx
        BY <1>0, <2>1, <3>2
      <4>2. CASE ~overtaken
        <5>1. Latest(u) /\ tx.first < u.first
          BY <4>1, <4>2 DEF Awaited, Latest
        <5>2. \A r \in RowsOf(tx) : r.id < u.first
          BY <4>1, <5>1, EarlierIds
        <5>3. Latest(u)'
          BY <2>1, <5>1, <5>2 DEF Latest
        <5>. QED BY <4>1, <4>2, <5>3
      <4>. QED BY <2>1, <4>1, <4>2
    <3>3. \A u \in txs' : u.waits => Awaited(u)'
      BY <2>1, <3>1, <3>2, WaitingKept
    <3>4. \A r \in requests' : r.waits => Asking(r)'
      BY <1>0, <2>1, <3>1, WaitingKept
    <3>. QED BY <2>2, <3>3, <3>4 DEF RequestInv, TxInv
  <2>5. tx.waits \in BOOLEAN
    BY BatchTypes
  <2>. QED BY <2>3, <2>4
<1>8. ASSUME NEW tx \in txs, Abort(tx) PROVE RequestInv' /\ TxInv'
  <2>1. txs' = txs \ {tx} /\ FailsIf(tx.waits) /\ requests' = requests /\ UNCHANGED <<rows, overtaken>>
    BY <1>8 DEF Abort
  <2>2. tx.waits => (\A q \in requests' : ~q.waits) /\ (\A v \in txs' : ~v.waits)
    BY <1>0, <2>1 DEF Awaited
  <2>3. tx.waits \in BOOLEAN
    BY BatchTypes
  <2>. QED BY <2>1, <2>2, <2>3, BatchesAfterFailure
<1>9. ASSUME NEW tx \in txs, GiveUp(tx) PROVE RequestInv' /\ TxInv'
  <2>. DEFINE late == [tx EXCEPT !.waits = FALSE]
  <2>1. /\ txs' = (txs \ {tx}) \cup {late} /\ tx.waits /\ PostFails
        /\ requests' = requests /\ UNCHANGED <<rows, overtaken>>
    BY <1>9 DEF GiveUp
  <2>2. ~late.waits /\ late.events = tx.events
    BY DEF TypeOK
  <2>. HIDE DEF late
  <2>3. (\A q \in requests' : ~q.waits) /\ (\A v \in txs' : ~v.waits)
    BY <1>0, <2>1, <2>2 DEF Awaited
  <2>4. FailsIf(TRUE)
    BY <2>1 DEF FailsIf
  <2>5. /\ \A q \in requests' : \E p \in requests : q.events = p.events /\ (~q.waits \/ q = p)
        /\ \A v \in txs' : \E u \in txs : v.events = u.events /\ (~v.waits \/ v = u)
    BY <2>1, <2>2
  <2>. QED BY <2>3, <2>4, <2>5, BatchesAfterFailure
<1>10. CASE Record
  BY <1>0, <1>1, <1>10, RecordClient DEF Record
<1>11. CASE Unregister \/ Stop \/ FirstPage \/ Poll \/ UNCHANGED vars
  <2>1. UNCHANGED <<worker, serverVars, produced, queue>>
    BY <1>11 DEF Unregister, Stop, FirstPage, Poll
  <2>. QED BY <1>0, <1>1, <2>1, ClientUnchanged
<1>. QED
  BY <1>2, <1>3, <1>4, <1>5, <1>6, <1>7, <1>8, <1>9, <1>10, <1>11 DEF Next

-----------------------------------------------------------------------------
(* What is stored.                                                         *)

LEMMA TxRun ==
  ASSUME IInv, NEW tx \in txs
  PROVE  /\ tx.first \in Nat /\ tx.first >= 1
         /\ Len(tx.events) \in Nat /\ Len(tx.events) >= 1 /\ tx.events[1] \in Nat /\ tx.events[1] >= 1
         /\ tx.events[1] <= Sent + 1 /\ tx.events[1] + Len(tx.events) <= produced + 1
         /\ \A i \in 1..Len(tx.events) : tx.events[i] = tx.events[1] + i - 1 /\ tx.events[i] \in Events
         /\ tx.waits => /\ tx.events = Chunk /\ tx.events[1] = Sent + 1
                        /\ Todo # <<>> /\ worker.at = "waiting"
<1>. USE DEF IInv
<1>1. tx.first \in Nat /\ tx.first >= 1
  BY DEF TypeOK
<1>2. ASSUME tx.waits
      PROVE  /\ tx.events = Chunk /\ tx.events[1] = Sent + 1
             /\ Todo # <<>> /\ worker.at = "waiting"
  <2>1. tx.events = Chunk /\ worker.at = "waiting"
    BY <1>2 DEF TxInv, Awaited
  <2>2. Todo # <<>>
    BY <2>1 DEF TypeOK, Todo
  <2>. QED BY <2>1, <2>2, ChunkRun
<1>. QED BY <1>1, <1>2, BatchTypes

LEMMA CommitStores ==
  ASSUME IInv, NEW tx \in txs, Commit(tx)
  PROVE  \E n, m \in 0..produced : Stored = 1..n /\ Stored' = 1..m /\ n <= m /\ Sent' <= m
<1>. USE DEF IInv
<1>1. PICK n \in 0..produced : Stored = 1..n /\ Sent <= n
  BY DEF StoredInv
<1>. DEFINE lo == tx.events[1]
            len == Len(tx.events)
            hi == lo + len - 1
            m == IF hi > n THEN hi ELSE n
<1>2. /\ lo \in Nat /\ lo >= 1 /\ lo <= Sent + 1 /\ len \in Nat /\ len >= 1
      /\ lo + len <= produced + 1 /\ produced \in Nat /\ Sent \in Nat
  BY TxRun, ClientTypes
<1>3. \A i \in 1..len : tx.events[i] = lo + i - 1
  BY TxRun
<1>4. tx.waits => len = Len(Chunk) /\ lo = Sent + 1
  BY TxRun
<1>5. /\ \A r \in RowsOf(tx) : \E i \in 1..len : r.event = lo + i - 1
      /\ \A i \in 1..len : \E r \in RowsOf(tx) : r.event = lo + i - 1
  <2>. HIDE DEF lo
  <2>. QED BY <1>3, RowsOfTx
<1>6. {r.event : r \in RowsOf(tx)} = lo..hi
  <2>. HIDE DEF lo, len
  <2>1. ASSUME NEW r \in RowsOf(tx) PROVE r.event \in lo..hi
    <3>1. PICK i \in 1..len : r.event = lo + i - 1
      BY <1>5
    <3>. QED BY <1>2, <3>1
  <2>2. ASSUME NEW e \in lo..hi PROVE \E r \in RowsOf(tx) : r.event = e
    <3>1. e - lo + 1 \in 1..len /\ lo + (e - lo + 1) - 1 = e
      BY <1>2
    <3>. QED BY <1>5, <3>1
  <2>. QED BY <2>1, <2>2
<1>7. Stored' = (1..n) \cup (lo..hi)
  <2>1. rows' = rows \cup RowsOf(tx)
    BY DEF Commit
  <2>2. Stored' = Stored \cup {r.event : r \in RowsOf(tx)}
    BY <2>1 DEF Stored
  <2>. QED BY <1>1, <1>6, <2>2
<1>8. Sent' <= m
  <2>1. Sent' = Sent \/ (tx.waits /\ Sent' = Sent + Len(Chunk))
    BY CommitCases
  <2>2. tx.waits => Sent + Len(Chunk) = hi
    <3>. HIDE DEF lo, len
    <3>. QED BY <1>2, <1>4
  <2>. HIDE DEF lo, len
  <2>. QED BY <1>1, <1>2, <2>1, <2>2
<1>. HIDE DEF lo, len
<1>9. (1..n) \cup (lo..hi) = 1..m /\ m \in 0..produced /\ n <= m
  BY <1>1, <1>2
<1>. HIDE DEF m, hi
<1>. QED BY <1>1, <1>7, <1>8, <1>9

(* Every step maps to a step of the log, or to none.                       *)
LEMMA LogStep ==
  ASSUME IInv, [Next]_vars
  PROVE  [Log!Next]_(<<produced, Stored>>)
<1>. USE DEF IInv
<1>1. CASE Record
  BY <1>1, RecordClient DEF Record, Stored, Log!Next, Log!Record
<1>2. ASSUME NEW tx \in txs, Commit(tx) PROVE [Log!Next]_(<<produced, Stored>>)
  <2>1. PICK n, m \in 0..produced : Stored = 1..n /\ Stored' = 1..m /\ n <= m
    BY <1>2, CommitStores
  <2>2. produced' = produced /\ produced \in Nat
    BY <1>2, CommitCases, ClientTypes
  <2>3. CASE m = n
    BY <2>1, <2>2, <2>3
  <2>4. CASE m # n
    <3>1. m \in 1..produced /\ m \notin Stored
      BY <2>1, <2>2, <2>4
    <3>. QED BY <2>1, <2>2, <3>1 DEF Log!Next, Log!Store
  <2>. QED BY <2>3, <2>4
<1>3. CASE UNCHANGED <<produced, rows>>
  BY <1>3 DEF Stored
<1>. QED
  BY <1>1, <1>2, <1>3
  DEF Next, Tick, Unregister, Stop, Send, LostOnTheWay, GiveUpRequest, FailsIf, PostFails, Insert,
      Abort, GiveUp, FirstPage, Poll

LEMMA StoredStep ==
  ASSUME IInv, [Next]_vars
  PROVE  StoredInv'
<1>. USE DEF IInv
<1>1. ASSUME NEW tx \in txs, Commit(tx) PROVE StoredInv'
  <2>1. produced' = produced
    BY <1>1, CommitCases
  <2>. QED BY <1>1, <2>1, CommitStores DEF StoredInv
<1>2. CASE rows' = rows /\ Sent' = Sent /\ produced' >= produced /\ produced' \in Nat
  <2>1. Stored' = Stored /\ produced \in Nat
    BY <1>2, ClientTypes DEF Stored
  <2>. QED BY <1>2, <2>1 DEF StoredInv
<1>3. produced \in Nat /\ produced >= produced
  BY ClientTypes
<1>4. ASSUME NEW waits, FailsIf(waits) \/ PostFails, rows' = rows PROVE StoredInv'
  BY <1>2, <1>3, <1>4, FailedPost, Failure
<1>5. CASE UNCHANGED <<worker, produced, queue, rows>>
  BY <1>2, <1>3, <1>5, ClientUnchanged
<1>6. CASE Record
  <2>1. produced + 1 >= produced /\ produced + 1 \in Nat
    BY <1>3
  <2>. QED BY <1>2, <1>6, <2>1, RecordClient DEF Record
<1>. QED
  BY <1>1, <1>2, <1>3, <1>4, <1>5, <1>6, TickClient, SendClient
  DEF Next, Tick, Unregister, Stop, Send, LostOnTheWay, GiveUpRequest, Insert, Abort, GiveUp, FirstPage, Poll

-----------------------------------------------------------------------------
(* Ids.                                                                    *)

LEMMA RowsOfFinite ==
  ASSUME TypeOK, NEW tx \in txs
  PROVE  IsFiniteSet(RowsOf(tx))
<1>. DEFINE n == Len(tx.events)
            f == [i \in 1..n |-> [id |-> tx.first + i - 1, event |-> tx.events[i]]]
<1>1. n \in Nat /\ DOMAIN tx.events = 1..n
  BY LenProperties DEF TypeOK
<1>2. RowsOf(tx) = {f[i] : i \in 1..n}
  BY <1>1 DEF RowsOf
<1>3. f \in [1..n -> RowsOf(tx)] /\ \A r \in RowsOf(tx) : \E i \in 1..n : f[i] = r
  <2>1. \A i \in 1..n : f[i] \in RowsOf(tx)
    BY <1>2
  <2>. QED BY <1>2, <2>1
<1>. HIDE DEF n, f
<1>4. ExistsSurjection(1..n, RowsOf(tx))
  BY <1>3 DEF ExistsSurjection, Surjection
<1>. QED BY <1>1, <1>4, FS_NatSurjection

LEMMA IdStep ==
  ASSUME IInv, [Next]_vars
  PROVE  IdInv'
<1>. USE DEF IInv
<1>0. /\ IsFiniteSet(rows) /\ nextId \in Nat /\ nextId >= 1
      /\ \A r \in rows : r.id \in Nat /\ r.id >= 1 /\ r.id < nextId
      /\ \A tx \in txs : tx.first \in Nat /\ tx.first >= 1 /\ Len(tx.events) \in Nat
      /\ \A tx \in txs : tx.first + Len(tx.events) <= nextId
  <2>1. nextId \in Nat /\ \A r \in rows : r.id \in 1..(nextId - 1)
    BY DEF IdInv, TypeOK
  <2>. QED BY <2>1, TxRun DEF IdInv
<1>1. CASE UNCHANGED <<rows, txs, nextId>>
  BY <1>1 DEF IdInv, IdsOf
<1>2. ASSUME NEW r \in requests, Insert(r) PROVE IdInv'
  <2>0. PICK new : new = [first |-> nextId, events |-> r.events, waits |-> r.waits]
    OBVIOUS
  <2>1. txs' = txs \cup {new} /\ rows' = rows /\ nextId' = nextId + Len(new.events)
        /\ new.first = nextId /\ new.events = r.events
    BY <1>2, <2>0 DEF Insert
  <2>2. Len(new.events) \in Nat
    BY <2>1, BatchTypes
  <2>3. nextId' >= nextId /\ nextId' \in Nat
    BY <1>0, <2>1, <2>2
  <2>4. \A q \in rows' : q.id \in 1..(nextId' - 1)
    BY <1>0, <2>1, <2>3
  <2>5. \A tx \in txs' : tx.first + Len(tx.events) <= nextId'
    BY <1>0, <2>1, <2>2, <2>3
  <2>6. \A q \in rows : q.id \notin IdsOf(new)
    BY <1>0, <2>1, <2>2 DEF IdsOf
  <2>7. \A tx \in txs : IdsOf(tx) \cap IdsOf(new) = {}
    <3>. SUFFICES ASSUME NEW tx \in txs, NEW i \in IdsOf(tx), i \in IdsOf(new) PROVE FALSE
      OBVIOUS
    <3>1. i \in Int /\ i <= tx.first + Len(tx.events) - 1 /\ i >= nextId
      BY <1>0, <2>1, <2>2 DEF IdsOf
    <3>. QED BY <1>0, <3>1
  <2>8. \A tx \in txs' : \A q \in rows' : q.id \notin IdsOf(tx)
    BY <2>1, <2>6 DEF IdInv
  <2>9. \A tx, u \in txs' : tx # u => IdsOf(tx) \cap IdsOf(u) = {}
    BY <2>1, <2>7 DEF IdInv
  <2>. QED BY <1>0, <2>1, <2>3, <2>4, <2>5, <2>8, <2>9 DEF IdInv, IdsOf
<1>3. ASSUME NEW tx \in txs, Commit(tx) PROVE IdInv'
  <2>1. nextId' = nextId /\ txs' = txs \ {tx} /\ rows' = rows \cup RowsOf(tx)
    BY <1>3 DEF Commit
  <2>2. \A r \in RowsOf(tx) : r.id \in IdsOf(tx) /\ r.id \in 1..(nextId - 1)
    <3>. SUFFICES ASSUME NEW r \in RowsOf(tx) PROVE r.id \in IdsOf(tx) /\ r.id \in 1..(nextId - 1)
      OBVIOUS
    <3>1. PICK i \in 1..Len(tx.events) : r.id = tx.first + i - 1
      BY RowsOfTx
    <3>. QED BY <1>0, <3>1 DEF IdsOf
  <2>3. IsFiniteSet(rows')
    BY <1>0, <2>1, RowsOfFinite, FS_Union
  <2>4. \A u \in txs' : \A r \in rows' : r.id \notin IdsOf(u)
    BY <2>1, <2>2 DEF IdInv
  <2>5. \A r \in rows' : r.id \in 1..(nextId' - 1)
    BY <2>1, <2>2 DEF IdInv
  <2>6. \A u \in txs' : u.first + Len(u.events) <= nextId'
    BY <1>0, <2>1
  <2>7. \A u, v \in txs' : u # v => IdsOf(u) \cap IdsOf(v) = {}
    BY <2>1 DEF IdInv
  <2>. QED BY <1>0, <2>1, <2>3, <2>4, <2>5, <2>6, <2>7 DEF IdInv, IdsOf
<1>4. ASSUME NEW tx \in txs, Abort(tx) PROVE IdInv'
  BY <1>4 DEF Abort, IdInv, IdsOf
<1>5. ASSUME NEW tx \in txs, GiveUp(tx) PROVE IdInv'
  <2>. DEFINE late == [tx EXCEPT !.waits = FALSE]
  <2>1. txs' = (txs \ {tx}) \cup {late} /\ rows' = rows /\ nextId' = nextId
    BY <1>5 DEF GiveUp
  <2>2. late.first = tx.first /\ late.events = tx.events
    BY DEF TypeOK
  <2>. HIDE DEF late
  <2>3. IdsOf(late) = IdsOf(tx)
    BY <2>2 DEF IdsOf
  <2>. QED BY <2>1, <2>2, <2>3 DEF IdInv, IdsOf
<1>6. CASE Record \/ Tick \/ Unregister \/ Stop \/ Send \/ FirstPage \/ Poll \/ UNCHANGED vars
  BY <1>1, <1>6 DEF Record, Tick, Unregister, Stop, Send, FirstPage, Poll
<1>7. ASSUME NEW r \in requests, LostOnTheWay(r) \/ GiveUpRequest(r) PROVE IdInv'
  BY <1>1, <1>7 DEF LostOnTheWay, GiveUpRequest
<1>. QED BY <1>2, <1>3, <1>4, <1>5, <1>6, <1>7 DEF Next

-----------------------------------------------------------------------------
(* Copies.                                                                 *)

LEMMA CopiesKept ==
  ASSUME IInv, NEW e \in Events, Inserted(e)' \subseteq Inserted(e), faults' \in Nat,
         IsFiniteSet(Asked(e)'), Cardinality(Asked(e)') <= Cardinality(Asked(e)),
         \/ faults' = faults + 1
         \/ faults' = faults /\ (e > Sent' /\ ~Underway(e)' => e > Sent /\ ~Underway(e))
  PROVE  CopiesOf(e)'
<1>. USE DEF IInv
<1>1. CopiesOf(e) /\ faults \in Nat
  BY DEF CopiesInv, TypeOK
<1>. DEFINE C == Cardinality(Inserted(e))
            D == Cardinality(Inserted(e)')
            A == Cardinality(Asked(e))
            B == Cardinality(Asked(e)')
<1>2. C \in Nat /\ IsFiniteSet(Inserted(e)') /\ D \in Nat /\ D <= C /\ A \in Nat /\ B \in Nat /\ B <= A
  BY <1>1, FS_CardinalityType, FS_Subset DEF CopiesOf
<1>. DEFINE slack == Unasked(e)
            left == Unasked(e)'
<1>3. C + A + slack <= faults + 1
  BY <1>1 DEF CopiesOf
<1>4. slack \in {0, 1} /\ left \in {0, 1} /\ (faults' = faults + 1 \/ (faults' = faults /\ left <= slack))
  BY DEF Unasked
<1>. HIDE DEF C, D, A, B, slack, left
<1>5. D + B + left <= faults' + 1
  <2>1. CASE faults' = faults + 1
    BY <1>1, <1>2, <1>3, <1>4, <2>1
  <2>2. CASE faults' = faults /\ left <= slack
    BY <1>1, <1>2, <1>3, <1>4, <2>2
  <2>. QED BY <1>4, <2>1, <2>2
<1>. QED BY <1>2, <1>5 DEF CopiesOf, D, B, left

LEMMA AskedLess ==
  ASSUME IInv, NEW e \in Events, requests' \subseteq requests
  PROVE  IsFiniteSet(Asked(e)') /\ Cardinality(Asked(e)') <= Cardinality(Asked(e))
<1>1. IsFiniteSet(Asked(e))
  BY DEF IInv, CopiesInv, CopiesOf
<1>2. Asked(e)' \subseteq Asked(e)
  BY DEF Asked, Carries
<1>. QED BY <1>1, <1>2, FS_Subset

(* A row that is not counted yet.                                          *)
LEMMA OneMore ==
  ASSUME NEW S, NEW T, NEW x, IsFiniteSet(S), T \subseteq S \cup {x}
  PROVE  /\ IsFiniteSet(T) /\ Cardinality(T) \in Nat /\ Cardinality(S) \in Nat
         /\ Cardinality(T) <= Cardinality(S) + 1
<1>1. /\ IsFiniteSet(S \cup {x}) /\ Cardinality(S) \in Nat
      /\ Cardinality(S \cup {x}) = IF x \in S THEN Cardinality(S) ELSE Cardinality(S) + 1
  BY FS_AddElement, FS_CardinalityType
<1>2. Cardinality(S \cup {x}) \in Nat /\ Cardinality(S \cup {x}) <= Cardinality(S) + 1
  BY <1>1
<1>3. IsFiniteSet(T) /\ Cardinality(T) <= Cardinality(S \cup {x}) /\ Cardinality(T) \in Nat
  BY <1>1, FS_Subset, FS_CardinalityType
<1>. QED BY <1>1, <1>2, <1>3

(* A request turns into a transaction with the same rows to come.          *)
LEMMA CopiesInsert ==
  ASSUME IInv, NEW e \in Events, NEW r \in requests, Insert(r)
  PROVE  CopiesOf(e)'
<1>. USE DEF IInv
<1>0. PICK new : new = [first |-> nextId, events |-> r.events, waits |-> r.waits]
  OBVIOUS
<1>1. /\ requests' = requests \ {r} /\ txs' = txs \cup {new} /\ rows' = rows
      /\ new.first = nextId /\ new.events = r.events /\ new.waits = r.waits
      /\ faults' = faults /\ UNCHANGED <<produced, queue, worker>>
  BY <1>0 DEF Insert
<1>2. Sent' = Sent /\ faults \in Nat /\ nextId \in Nat
  BY <1>1, ClientUnchanged DEF TypeOK
<1>3. /\ Len(r.events) \in Nat /\ DOMAIN r.events = 1..Len(r.events) /\ r.events[1] \in Nat
      /\ \A i \in 1..Len(r.events) : r.events[i] = r.events[1] + i - 1
  BY BatchTypes
<1>4. Inserted(e)' = Inserted(e) \cup {q \in RowsOf(new) : q.event = e}
  BY <1>1 DEF Inserted, RowsOf
<1>5. Underway(e)' <=> Underway(e)
  BY <1>1 DEF Underway, Carries
<1>6. CopiesOf(e)
  BY DEF CopiesInv
<1>7. CASE Carries(r, e)
  <2>1. PICK i \in 1..Len(r.events) : r.events[i] = e
    BY <1>7 DEF Carries
  <2>2. \A j \in 1..Len(r.events) : r.events[j] = e => j = i
    BY <1>3, <2>1
  <2>3. PICK row : row = [id |-> nextId + i - 1, event |-> e]
    OBVIOUS
  <2>4. {q \in RowsOf(new) : q.event = e} \subseteq {row}
    BY <1>1, <1>3, <2>1, <2>2, <2>3 DEF RowsOf
  <2>5. Inserted(e)' \subseteq Inserted(e) \cup {row}
    BY <1>4, <2>4
  <2>6. /\ IsFiniteSet(Inserted(e)') /\ Cardinality(Inserted(e)') \in Nat /\ Cardinality(Inserted(e)) \in Nat
        /\ Cardinality(Inserted(e)') <= Cardinality(Inserted(e)) + 1
    <3>1. IsFiniteSet(Inserted(e))
      BY <1>6 DEF CopiesOf
    <3>. QED BY <2>5, <3>1, OneMore
  <2>7. r \in Asked(e) /\ Asked(e)' = Asked(e) \ {r}
    BY <1>1, <1>7 DEF Asked, Carries
  <2>8. /\ IsFiniteSet(Asked(e)') /\ Cardinality(Asked(e)) \in Nat /\ Cardinality(Asked(e)') \in Nat
        /\ Cardinality(Asked(e)') = Cardinality(Asked(e)) - 1
    BY <1>6, <2>7, FS_RemoveElement, FS_CardinalityType DEF CopiesOf
  <2>9. Unasked(e)' = Unasked(e) /\ Unasked(e) \in {0, 1}
    BY <1>2, <1>5 DEF Unasked
  <2>10. Cardinality(Inserted(e)) + Cardinality(Asked(e)) + Unasked(e) <= faults + 1
    BY <1>6 DEF CopiesOf
  <2>11. Cardinality(Inserted(e)') + Cardinality(Asked(e)') + Unasked(e)' <= faults' + 1
    BY <1>1, <1>2, <2>6, <2>8, <2>9, <2>10
  <2>. QED BY <2>6, <2>8, <2>11 DEF CopiesOf
<1>8. CASE ~Carries(r, e)
  <2>1. {q \in RowsOf(new) : q.event = e} = {}
    BY <1>1, <1>3, <1>8 DEF RowsOf, Carries
  <2>2. Inserted(e)' \subseteq Inserted(e)
    BY <1>4, <2>1
  <2>. QED BY <1>1, <1>2, <1>5, <2>2, AskedLess, CopiesKept
<1>. QED BY <1>7, <1>8

(* A POST of what is not underway uses up what there is to ask.            *)
LEMMA CopiesSend ==
  ASSUME IInv, NEW e \in Events, Send
  PROVE  CopiesOf(e)'
<1>. USE DEF IInv
<1>0. PICK new : new = [no |-> faults, events |-> Chunk, waits |-> TRUE]
  OBVIOUS
<1>1. /\ requests' = requests \cup {new} /\ new.events = Chunk /\ new.waits
      /\ UNCHANGED <<txs, rows, faults>>
  BY <1>0 DEF Send
<1>2. Sent' = Sent /\ Todo # <<>> /\ worker.at = "sending" /\ faults \in Nat /\ Sent \in Nat
  BY SendClient, ClientTypes DEF TypeOK
<1>3. /\ Len(Chunk) \in Nat /\ \A i \in 1..Len(Chunk) : Chunk[i] = Sent + 1 + i - 1
  BY <1>2, ChunkRun DEF Consecutive
<1>4. Inserted(e)' = Inserted(e)
  BY <1>1 DEF Inserted
<1>5. ~Underway(e)
  BY <1>2 DEF Underway, RequestInv, TxInv, Asking, Awaited
<1>6. CopiesOf(e)
  BY DEF CopiesInv
<1>7. CASE Carries(new, e)
  <2>1. e > Sent /\ Underway(e)'
    BY <1>1, <1>2, <1>3, <1>7 DEF Carries, Underway
  <2>2. Unasked(e) = 1 /\ Unasked(e)' = 0
    BY <1>5, <2>1 DEF Unasked
  <2>3. Asked(e)' \subseteq Asked(e) \cup {new}
    BY <1>1 DEF Asked, Carries
  <2>4. /\ IsFiniteSet(Asked(e)') /\ Cardinality(Asked(e)') \in Nat /\ Cardinality(Asked(e)) \in Nat
        /\ Cardinality(Asked(e)') <= Cardinality(Asked(e)) + 1
    <3>1. IsFiniteSet(Asked(e))
      BY <1>6 DEF CopiesOf
    <3>. QED BY <2>3, <3>1, OneMore
  <2>5. /\ IsFiniteSet(Inserted(e)) /\ Cardinality(Inserted(e)) \in Nat
        /\ Cardinality(Inserted(e)) + Cardinality(Asked(e)) + 1 <= faults + 1
    BY <1>6, <2>2, FS_CardinalityType DEF CopiesOf
  <2>6. Cardinality(Inserted(e)) + Cardinality(Asked(e)') + 0 <= faults + 1
    BY <1>2, <2>4, <2>5
  <2>7. IsFiniteSet(Inserted(e)') /\ Cardinality(Inserted(e)') = Cardinality(Inserted(e)) /\ faults' = faults
    BY <1>1, <1>4, <2>5
  <2>. QED BY <2>2, <2>4, <2>6, <2>7 DEF CopiesOf
<1>8. CASE ~Carries(new, e)
  <2>1. Asked(e)' = Asked(e)
    BY <1>1, <1>8 DEF Asked, Carries
  <2>2. IsFiniteSet(Asked(e)) /\ Cardinality(Asked(e)) \in Nat
    BY <1>6, FS_CardinalityType DEF CopiesOf
  <2>3. Cardinality(Asked(e)) <= Cardinality(Asked(e))
    BY <2>2
  <2>. QED BY <1>1, <1>2, <1>4, <1>5, <2>1, <2>2, <2>3, CopiesKept
<1>. QED BY <1>7, <1>8

LEMMA CopiesStep ==
  ASSUME IInv, [Next]_vars
  PROVE  CopiesInv'
<1>. USE DEF IInv
<1>. SUFFICES ASSUME NEW e \in Events PROVE CopiesOf(e)'
  BY DEF CopiesInv
<1>0. faults \in Nat /\ Sent \in Nat
  BY ClientTypes DEF TypeOK
<1>1. CASE UNCHANGED <<requests, rows, txs, faults>> /\ Sent' = Sent
  <2>1. Inserted(e)' \subseteq Inserted(e) /\ (Underway(e)' <=> Underway(e)) /\ requests' \subseteq requests
    BY <1>1 DEF Inserted, Underway
  <2>. QED BY <1>0, <1>1, <2>1, AskedLess, CopiesKept
<1>2. ASSUME PostFails, Inserted(e)' \subseteq Inserted(e), requests' \subseteq requests
      PROVE  CopiesOf(e)'
  <2>1. faults' = faults + 1 /\ faults' \in Nat
    BY <1>0, <1>2, FailedPost
  <2>. QED BY <1>2, <2>1, AskedLess, CopiesKept
<1>3. ASSUME NEW tx \in txs, Commit(tx) PROVE CopiesOf(e)'
  <2>1. txs' = txs \ {tx} /\ rows' = rows \cup RowsOf(tx) /\ requests' = requests
    BY <1>3 DEF Commit
  <2>2. Inserted(e)' \subseteq Inserted(e)
    BY <2>1 DEF Inserted
  <2>3. CASE tx.waits /\ PostFails
    BY <1>2, <2>1, <2>2, <2>3
  <2>4. CASE ~tx.waits /\ UNCHANGED faults /\ Sent' = Sent
    <3>1. Underway(e)' <=> Underway(e)
      BY <2>1, <2>4 DEF Underway
    <3>. QED BY <1>0, <2>1, <2>2, <2>4, <3>1, AskedLess, CopiesKept
  <2>5. CASE tx.waits /\ Accepted
    <3>1. faults' = faults /\ Sent' = Sent + Len(Chunk) /\ Len(Chunk) \in Nat
      BY <2>5, TxRun, AcceptedPost, ChunkFacts, LimitsAssumption
    <3>2. (\A u \in txs : u.waits => u = tx) /\ (\A r \in requests : ~r.waits)
      BY <2>5 DEF TxInv, Awaited
    <3>3. \A i \in 1..Len(tx.events) : tx.events[i] = Sent + 1 + i - 1 /\ i <= Len(Chunk)
      BY <2>5, TxRun
    <3>4. Underway(e) => e <= Sent'
      BY <1>0, <3>1, <3>2, <3>3 DEF Underway, Carries
    <3>5. e \in Nat
      BY LimitsAssumption DEF Events
    <3>6. e > Sent' => e > Sent /\ ~Underway(e)
      BY <1>0, <3>1, <3>4, <3>5
    <3>. QED BY <1>0, <2>1, <2>2, <3>1, <3>6, AskedLess, CopiesKept
  <2>. QED BY <1>3, <2>3, <2>4, <2>5, CommitCases
<1>4. ASSUME NEW tx \in txs, Abort(tx) PROVE CopiesOf(e)'
  <2>1. txs' = txs \ {tx} /\ rows' = rows /\ requests' = requests /\ FailsIf(tx.waits)
    BY <1>4 DEF Abort
  <2>2. Inserted(e)' \subseteq Inserted(e)
    BY <2>1 DEF Inserted
  <2>3. CASE tx.waits
    BY <1>2, <2>1, <2>2, <2>3 DEF FailsIf
  <2>4. CASE ~tx.waits
    <3>1. (Underway(e)' <=> Underway(e)) /\ faults' = faults /\ Sent' = Sent
      BY <2>1, <2>4, Failure DEF Underway
    <3>. QED BY <1>0, <2>1, <2>2, <3>1, AskedLess, CopiesKept
  <2>. QED BY <2>3, <2>4
<1>5. ASSUME NEW tx \in txs, GiveUp(tx) PROVE CopiesOf(e)'
  <2>. DEFINE late == [tx EXCEPT !.waits = FALSE]
  <2>1. txs' = (txs \ {tx}) \cup {late} /\ rows' = rows /\ PostFails /\ requests' = requests
    BY <1>5 DEF GiveUp
  <2>2. late.first = tx.first /\ late.events = tx.events
    BY DEF TypeOK
  <2>. HIDE DEF late
  <2>3. RowsOf(late) = RowsOf(tx)
    BY <2>2 DEF RowsOf
  <2>. QED BY <1>2, <2>1, <2>3 DEF Inserted
<1>6. ASSUME NEW r \in requests, LostOnTheWay(r) PROVE CopiesOf(e)'
  <2>1. requests' = requests \ {r} /\ txs' = txs /\ rows' = rows /\ FailsIf(r.waits)
    BY <1>6 DEF LostOnTheWay
  <2>2. Inserted(e)' \subseteq Inserted(e)
    BY <2>1 DEF Inserted
  <2>3. CASE r.waits
    BY <1>2, <2>1, <2>2, <2>3 DEF FailsIf
  <2>4. CASE ~r.waits
    <3>1. (Underway(e)' <=> Underway(e)) /\ faults' = faults /\ Sent' = Sent
      BY <2>1, <2>4, Failure DEF Underway
    <3>. QED BY <1>0, <2>1, <2>2, <3>1, AskedLess, CopiesKept
  <2>. QED BY <2>3, <2>4
<1>7. ASSUME NEW r \in requests, GiveUpRequest(r) PROVE CopiesOf(e)'
  <2>. DEFINE late == [r EXCEPT !.waits = FALSE]
  <2>1. requests' = (requests \ {r}) \cup {late} /\ UNCHANGED <<rows, txs>> /\ PostFails
    BY <1>7 DEF GiveUpRequest
  <2>2. late.events = r.events
    BY DEF TypeOK
  <2>. HIDE DEF late
  <2>3. Inserted(e)' \subseteq Inserted(e)
    BY <2>1 DEF Inserted
  <2>4. IsFiniteSet(Asked(e)') /\ Cardinality(Asked(e)') <= Cardinality(Asked(e))
    <3>1. IsFiniteSet(Asked(e)) /\ Cardinality(Asked(e)) \in Nat
      BY FS_CardinalityType DEF CopiesInv, CopiesOf
    <3>2. CASE Carries(r, e)
      <4>1. r \in Asked(e) /\ Asked(e)' \subseteq (Asked(e) \ {r}) \cup {late}
        BY <2>1, <2>2, <3>2 DEF Asked, Carries
      <4>2. IsFiniteSet(Asked(e) \ {r}) /\ Cardinality(Asked(e) \ {r}) = Cardinality(Asked(e)) - 1
        BY <3>1, <4>1, FS_RemoveElement
      <4>3. IsFiniteSet(Asked(e)') /\ Cardinality(Asked(e)') <= Cardinality(Asked(e) \ {r}) + 1
        BY <4>1, <4>2, OneMore
      <4>. QED BY <3>1, <4>2, <4>3
    <3>3. CASE ~Carries(r, e)
      <4>1. Asked(e)' \subseteq Asked(e)
        BY <2>1, <2>2, <3>3 DEF Asked, Carries
      <4>. QED BY <3>1, <4>1, FS_Subset
    <3>. QED BY <3>2, <3>3
  <2>5. faults' = faults + 1 /\ faults' \in Nat
    BY <1>0, <2>1, FailedPost
  <2>. QED BY <2>3, <2>4, <2>5, CopiesKept
<1>8. CASE Record
  BY <1>1, <1>8, RecordClient DEF Record
<1>9. CASE Tick
  BY <1>1, <1>9, TickClient DEF Tick
<1>10. CASE Unregister \/ Stop \/ FirstPage \/ Poll \/ UNCHANGED vars
  <2>1. UNCHANGED <<worker, requests, txs, rows, produced, queue, faults>>
    BY <1>10 DEF Unregister, Stop, FirstPage, Poll
  <2>. QED BY <1>1, <2>1, ClientUnchanged
<1>. QED
  BY <1>3, <1>4, <1>5, <1>6, <1>7, <1>8, <1>9, <1>10, CopiesInsert, CopiesSend DEF Next

-----------------------------------------------------------------------------
(* Late transactions.                                                      *)

LEMMA RepeatedKept ==
  ASSUME NEW tx, Repeated(tx), rows \subseteq rows'
  PROVE  Repeated(tx)'
  BY DEF Repeated

LEMMA UpcomingGrows ==
  ASSUME IInv, PostFails \/ Record \/ Tick \/ (Todo' = Todo /\ queue' = queue)
  PROVE  Len(Upcoming') >= Len(Upcoming) /\ Len(Upcoming) \in Nat /\ Len(Upcoming') \in Nat
<1>. USE DEF IInv
<1>1. queue \in Seq(Events) /\ Todo \in Seq(Events) /\ Len(queue) \in Nat /\ Len(Todo) \in Nat
  BY ClientTypes
<1>2. (Todo = <<>> => Len(Todo) = 0) /\ Len(Upcoming) \in Nat
  BY <1>1, EmptySeq DEF Upcoming
<1>3. CASE PostFails
  <2>1. Upcoming' = queue' /\ Len(queue') = Len(Todo) + Len(queue)
    BY <1>3, FailedPost DEF Upcoming
  <2>2. Len(Todo) + Len(queue) >= Len(Upcoming) /\ Len(Todo) + Len(queue) \in Nat
    BY <1>1, <1>2 DEF Upcoming
  <2>. QED BY <1>2, <2>1, <2>2
<1>4. CASE Record
  <2>1. Todo' = Todo /\ Len(queue') = Len(queue) + 1
    BY <1>4, RecordClient
  <2>2. CASE Todo = <<>>
    BY <1>1, <1>2, <2>1, <2>2 DEF Upcoming
  <2>3. CASE Todo # <<>>
    BY <1>1, <1>2, <2>1, <2>3 DEF Upcoming
  <2>. QED BY <2>2, <2>3
<1>5. CASE Tick
  <2>1. Upcoming = queue /\ Upcoming' = queue
    BY <1>5, TickClient DEF Upcoming
  <2>. QED BY <1>1, <2>1
<1>6. CASE Todo' = Todo /\ queue' = queue
  BY <1>2, <1>6 DEF Upcoming
<1>. QED BY <1>3, <1>4, <1>5, <1>6

LEMMA ToRepeatKept ==
  ASSUME IInv, NEW tx \in txs, ToRepeat(tx), Sent' = Sent,
         PostFails \/ Record \/ Tick \/ (Todo' = Todo /\ queue' = queue),
         \A r \in rows' : r \in rows \/ r.id < tx.first,
         \A u \in txs' : u.first > tx.first =>
           \/ u.events[1] = Sent + 1 /\ Len(u.events) >= Len(tx.events)
           \/ \E v \in txs : u.events = v.events /\ u.first = v.first
  PROVE  ToRepeat(tx)'
<1>1. Len(tx.events) \in Nat
  BY TxRun
<1>2. Len(Upcoming') >= Len(Upcoming) /\ Len(Upcoming) \in Nat /\ Len(Upcoming') \in Nat
  BY UpcomingGrows
<1>3. tx.events[1] = Sent' + 1 /\ Len(tx.events) <= Len(Upcoming')
  BY <1>1, <1>2 DEF ToRepeat
<1>. QED BY <1>3 DEF ToRepeat

LEMMA Monotone ==
  ASSUME [Next]_vars
  PROVE  (overtaken => overtaken') /\ rows \subseteq rows'
<1>1. overtaken => overtaken'
  BY DEF Next, Record, Tick, Unregister, Stop, Send, LostOnTheWay, GiveUpRequest, Insert, Commit, Abort, GiveUp,
         FirstPage, Poll
<1>2. rows \subseteq rows'
  BY DEF Next, Record, Tick, Unregister, Stop, Send, LostOnTheWay, GiveUpRequest, Insert, Commit, Abort, GiveUp,
         FirstPage, Poll
<1>. QED BY <1>1, <1>2

LEMMA LateStep ==
  ASSUME IInv, [Next]_vars
  PROVE  LateInv'
<1>. USE DEF IInv
<1>. SUFFICES ASSUME ~overtaken' PROVE LateInv'
  BY DEF LateInv
<1>0. /\ ~overtaken /\ rows \subseteq rows'
      /\ \A tx \in txs : ~tx.waits => Repeated(tx) \/ ToRepeat(tx)
      /\ \A tx \in txs : tx.waits => Awaited(tx) /\ Latest(tx)
  <2>1. ~overtaken /\ rows \subseteq rows'
    BY Monotone
  <2>. QED BY <2>1 DEF LateInv, TxInv, Awaited
<1>1. CASE /\ PostFails \/ Record \/ Tick \/ (Todo' = Todo /\ queue' = queue)
           /\ Sent' = Sent /\ rows' = rows /\ txs' \subseteq txs
  BY <1>0, <1>1, RepeatedKept, ToRepeatKept DEF LateInv
<1>2. ASSUME NEW r \in requests, Insert(r) PROVE LateInv'
  <2>0. PICK new : new = [first |-> nextId, events |-> r.events, waits |-> r.waits]
    OBVIOUS
  <2>1. /\ txs' = txs \cup {new} /\ rows' = rows /\ new.events = r.events /\ new.waits = r.waits
        /\ UNCHANGED clientVars /\ r.waits
    BY <1>2, <2>0 DEF Insert
  <2>2. Sent' = Sent /\ Todo' = Todo /\ queue' = queue
    BY <2>1, ClientUnchanged
  <2>3. r.events = Chunk /\ Todo # <<>>
    BY <2>1 DEF RequestInv, Asking, TypeOK, Todo
  <2>. SUFFICES ASSUME NEW tx \in txs, ~tx.waits PROVE Repeated(tx)' \/ ToRepeat(tx)'
    BY <2>1 DEF LateInv
  <2>4. CASE Repeated(tx)
    BY <1>0, <2>4, RepeatedKept
  <2>5. CASE ToRepeat(tx)
    <3>1. Len(tx.events) <= BatchMax /\ Len(tx.events) <= Len(Todo)
      BY <2>3, <2>5 DEF TxInv, Shape, ToRepeat, Upcoming
    <3>2. Len(new.events) >= Len(tx.events) /\ new.events[1] = Sent + 1
      BY <2>1, <2>3, <3>1, TxRun, ChunkRun, ClientTypes, LimitsAssumption
    <3>3. \A u \in txs' : u.first > tx.first =>
            \/ u.events[1] = Sent + 1 /\ Len(u.events) >= Len(tx.events)
            \/ \E v \in txs : u.events = v.events /\ u.first = v.first
      BY <2>1, <3>2
    <3>. QED BY <2>1, <2>2, <2>5, <3>3, ToRepeatKept
  <2>. QED BY <1>0, <2>4, <2>5
<1>3. ASSUME NEW u \in txs, Commit(u) PROVE LateInv'
  <2>1. txs' = txs \ {u} /\ rows' = rows \cup RowsOf(u)
    BY <1>3 DEF Commit
  <2>. SUFFICES ASSUME NEW tx \in txs, tx # u, ~tx.waits PROVE Repeated(tx)' \/ ToRepeat(tx)'
    BY <2>1 DEF LateInv
  <2>2. CASE Repeated(tx)
    BY <1>0, <2>2, RepeatedKept
  <2>3. CASE ToRepeat(tx) /\ u.first > tx.first
    <3>1. u.events[1] = tx.events[1] /\ Len(u.events) >= Len(tx.events)
      BY <2>3 DEF ToRepeat
    <3>. SUFFICES ASSUME NEW i \in 1..Len(tx.events)
                  PROVE \E q \in rows' : q.event = tx.events[i] /\ q.id > tx.first + i - 1
      BY DEF Repeated
    <3>2. i \in 1..Len(u.events) /\ i \in Nat
      BY <3>1, TxRun
    <3>3. u.events[i] = tx.events[i]
      BY <3>1, <3>2, TxRun
    <3>4. PICK q \in RowsOf(u) : q.id = u.first + i - 1 /\ q.event = u.events[i]
      BY <3>2, RowsOfTx
    <3>5. u.first \in Nat /\ tx.first \in Nat
      BY TxRun
    <3>6. q.id > tx.first + i - 1
      BY <2>3, <3>2, <3>4, <3>5
    <3>. QED BY <2>1, <3>3, <3>4, <3>6
  <2>4. CASE ToRepeat(tx) /\ ~(u.first > tx.first)
    <3>1. u.first \in Nat /\ tx.first \in Nat /\ u.first # tx.first
      <4>1. u.first \in Nat /\ tx.first \in Nat /\ u.first \in IdsOf(u) /\ tx.first \in IdsOf(tx)
        BY TxRun DEF IdsOf
      <4>. QED BY <4>1 DEF IdInv
    <3>2. u.first < tx.first
      BY <2>4, <3>1
    <3>3. ~u.waits
      <4>. SUFFICES ASSUME u.waits PROVE FALSE
        OBVIOUS
      <4>1. Latest(u) /\ tx # u
        BY <1>0, <3>1
      <4>2. tx.first < u.first
        BY <4>1 DEF Latest
      <4>. QED BY <3>1, <3>2, <4>2
    <3>4. Todo' = Todo /\ queue' = queue /\ Sent' = Sent
      BY <1>3, <3>3, CommitCases
    <3>5. \A r \in rows' : r \in rows \/ r.id < tx.first
      BY <2>1, <3>2, EarlierIds
    <3>. QED BY <2>1, <2>4, <3>4, <3>5, ToRepeatKept
  <2>. QED BY <1>0, <2>2, <2>3, <2>4
<1>4. ASSUME NEW waits, FailsIf(waits), rows' = rows, txs' \subseteq txs PROVE LateInv'
  <2>1. Sent' = Sent /\ (PostFails \/ (Todo' = Todo /\ queue' = queue))
    BY <1>4, Failure
  <2>. QED BY <1>1, <1>4, <2>1
<1>5. ASSUME NEW u \in txs, GiveUp(u) PROVE LateInv'
  <2>. DEFINE late == [u EXCEPT !.waits = FALSE]
  <2>1. txs' = (txs \ {u}) \cup {late} /\ rows' = rows /\ PostFails /\ u.waits
    BY <1>5 DEF GiveUp
  <2>2. late.first = u.first /\ late.events = u.events
    BY DEF TypeOK
  <2>. HIDE DEF late
  <2>3. Sent' = Sent /\ Todo' = <<>> /\ Len(queue') = Len(Todo) + Len(queue)
    BY <2>1, FailedPost
  <2>4. ToRepeat(late)'
    <3>1. /\ late.events[1] = Sent' + 1 /\ u.events = Chunk /\ Todo # <<>> /\ Latest(u)
      BY <1>0, <2>1, <2>2, <2>3, TxRun
    <3>2. Len(late.events) <= Len(Upcoming')
      <4>1. Upcoming' = queue' /\ Len(late.events) = Len(Chunk) /\ Len(Chunk) <= Len(Todo) /\ Len(Chunk) \in Nat
        BY <2>2, <2>3, <3>1, ChunkFacts, LimitsAssumption DEF Upcoming
      <4>. QED BY <2>3, <4>1, ClientTypes
    <3>3. \A r \in rows' : r.id < late.first
      BY <2>1, <2>2, <3>1 DEF Latest
    <3>4. \A v \in txs' : ~(v.first > late.first)
      <4>1. \A v \in txs : v # u => v.first < u.first /\ v.first \in Nat /\ u.first \in Nat
        BY <3>1, TxRun DEF Latest
      <4>2. u.first \in Nat
        BY TxRun
      <4>. QED BY <2>1, <2>2, <4>1, <4>2
    <3>. QED BY <3>1, <3>2, <3>3, <3>4 DEF ToRepeat
  <2>5. ASSUME NEW tx \in txs, ~tx.waits PROVE Repeated(tx)' \/ ToRepeat(tx)'
    <3>1. \A v \in txs' : \E w \in txs : v.events = w.events /\ v.first = w.first
      BY <2>1, <2>2
    <3>. QED BY <1>0, <2>1, <2>3, <2>5, <3>1, RepeatedKept, ToRepeatKept
  <2>6. \A v \in txs' : v = late \/ (v \in txs /\ v # u)
    BY <2>1
  <2>. QED BY <2>1, <2>4, <2>5, <2>6 DEF LateInv
<1>6. CASE Send
  BY <1>1, <1>6, SendClient DEF Send
<1>7. CASE Record
  BY <1>1, <1>7, RecordClient DEF Record
<1>8. CASE Tick
  BY <1>1, <1>8, TickClient DEF Tick
<1>9. CASE Unregister \/ Stop \/ FirstPage \/ Poll \/ UNCHANGED vars
  <2>1. UNCHANGED <<worker, txs, rows, produced, queue>>
    BY <1>9 DEF Unregister, Stop, FirstPage, Poll
  <2>. QED BY <1>1, <2>1, ClientUnchanged
<1>10. ASSUME NEW r \in requests, LostOnTheWay(r) PROVE LateInv'
  BY <1>4, <1>10 DEF LostOnTheWay
<1>11. ASSUME NEW r \in requests, GiveUpRequest(r) PROVE LateInv'
  BY <1>1, <1>11, FailedPost DEF GiveUpRequest
<1>12. ASSUME NEW u \in txs, Abort(u) PROVE LateInv'
  BY <1>4, <1>12 DEF Abort
<1>. QED BY <1>2, <1>3, <1>5, <1>6, <1>7, <1>8, <1>9, <1>10, <1>11, <1>12 DEF Next

-----------------------------------------------------------------------------
(* The follower.                                                           *)

(* A page has no holes.                                                    *)
LEMMA AfterIsSolid ==
  ASSUME TypeOK, IdInv, NEW d \in After(follower.cursor, TailLimit), NEW r \in rows,
         r.id > follower.cursor, r.id <= d.id
  PROVE  r \in After(follower.cursor, TailLimit)
<1>. DEFINE Before(x) == {q \in rows : q.id > follower.cursor /\ q.id < x.id}
<1>1. d \in rows /\ Cardinality(Before(d)) < TailLimit /\ IsFiniteSet(rows)
  BY DEF After, IdInv
<1>2. Before(r) \subseteq Before(d) /\ Before(d) \subseteq rows
  BY <1>1 DEF TypeOK, Row
<1>. HIDE DEF Before
<1>3. IsFiniteSet(Before(d)) /\ IsFiniteSet(Before(r)) /\ Cardinality(Before(r)) <= Cardinality(Before(d))
  BY <1>1, <1>2, FS_Subset
<1>4. Cardinality(Before(r)) \in Nat /\ Cardinality(Before(d)) \in Nat
  BY <1>3, FS_CardinalityType
<1>5. Cardinality(Before(r)) < TailLimit
  BY <1>1, <1>3, <1>4, LimitsAssumption
<1>. QED BY <1>5 DEF After, Before

LEMMA NewestIsSolid ==
  ASSUME TypeOK, IdInv, NEW d \in Newest(HeadLimit), NEW r \in rows, d.id <= r.id
  PROVE  r \in Newest(HeadLimit)
<1>. DEFINE Behind(x) == {q \in rows : q.id > x.id}
<1>1. d \in rows /\ Cardinality(Behind(d)) < HeadLimit /\ IsFiniteSet(rows)
  BY DEF Newest, IdInv
<1>2. Behind(r) \subseteq Behind(d) /\ Behind(d) \subseteq rows
  BY <1>1 DEF TypeOK, Row
<1>. HIDE DEF Behind
<1>3. IsFiniteSet(Behind(d)) /\ IsFiniteSet(Behind(r)) /\ Cardinality(Behind(r)) <= Cardinality(Behind(d))
  BY <1>1, <1>2, FS_Subset
<1>4. Cardinality(Behind(r)) \in Nat /\ Cardinality(Behind(d)) \in Nat
  BY <1>3, FS_CardinalityType
<1>5. Cardinality(Behind(r)) < HeadLimit
  BY <1>1, <1>3, <1>4, LimitsAssumption
<1>. QED BY <1>5 DEF Newest, Behind

LEMMA FollowerStep ==
  ASSUME IInv, [Next]_vars
  PROVE  CursorInv' /\ MissedOnlyBehindLateInsert'
<1>. USE DEF IInv
<1>0. /\ follower.cursor \in Nat /\ follower.floor \in Nat
      /\ \A r \in rows : r.id \in Nat /\ r.id >= 1
  <2>1. nextId \in Nat /\ \A r \in rows : r.id \in 1..(nextId - 1)
    BY DEF TypeOK, IdInv
  <2>. QED BY <2>1 DEF TypeOK
<1>1. CASE UNCHANGED <<rows, follower, printed>>
  BY Monotone, <1>1 DEF CursorInv, MissedOnlyBehindLateInsert, FollowerMissesNothing
<1>2. ASSUME NEW tx \in txs, Commit(tx) PROVE CursorInv' /\ (~overtaken /\ FollowerMissesNothing => FollowerMissesNothing')
  <2>1. rows' = rows \cup RowsOf(tx) /\ follower' = follower /\ printed' = printed
    BY <1>2 DEF Commit, Accepted, FailsIf, PostFails
  <2>2. CursorInv'
    BY <2>1 DEF CursorInv
  <2>. SUFFICES ASSUME ~overtaken, FollowerMissesNothing,
                       follower.at = "following", NEW r \in rows', r.id \in follower.floor..follower.cursor
                PROVE  r.event \in printed \/ \E q \in rows' : q.event = r.event /\ q.id > follower.cursor
    BY <2>1, <2>2 DEF FollowerMissesNothing
  <2>3. CASE r \in rows
    BY <2>1, <2>3 DEF FollowerMissesNothing
  <2>4. CASE r \in RowsOf(tx)
    <3>1. PICK i \in 1..Len(tx.events) : r.id = tx.first + i - 1 /\ r.event = tx.events[i]
      BY <2>4, RowsOfTx
    <3>2. tx.first \in Nat /\ tx.first >= 1 /\ Len(tx.events) \in Nat /\ r.id \in Nat /\ r.id >= tx.first
      BY <3>1, TxRun
    <3>3. PICK d \in rows : d.id = follower.cursor
      BY <1>0, <3>2 DEF CursorInv
    <3>4. ~(d.id < tx.first)
      BY <1>0, <3>2, <3>3
    <3>5. Repeated(tx)
      BY <3>4 DEF TxInv, Awaited, Latest, LateInv, ToRepeat
    <3>6. PICK q \in rows : q.event = r.event /\ q.id > r.id
      BY <3>1, <3>5 DEF Repeated
    <3>7. CASE q.id > follower.cursor
      BY <2>1, <3>6, <3>7
    <3>8. CASE q.id <= follower.cursor
      <4>1. q.id \in follower.floor..follower.cursor
        BY <1>0, <3>2, <3>6, <3>8
      <4>. QED BY <2>1, <3>6, <4>1 DEF FollowerMissesNothing
    <3>. QED BY <1>0, <3>7, <3>8
  <2>. QED BY <2>1, <2>3, <2>4
<1>3. ASSUME FirstPage PROVE CursorInv' /\ FollowerMissesNothing'
  <2>. DEFINE page == Newest(HeadLimit)
  <2>1. page \subseteq rows /\ rows' = rows
    BY <1>3 DEF Newest, FirstPage
  <2>2. /\ printed' = printed \cup {r.event : r \in page}
        /\ follower' = [at |-> "following",
                         cursor |-> IF page = {} THEN 0 ELSE LargestId(page),
                         floor |-> IF page = {} THEN 0 ELSE SmallestId(page)]
    BY <1>3 DEF FirstPage, Prints
  <2>. HIDE DEF page
  <2>3. CASE page = {}
    <3>1. follower'.cursor = 0 /\ follower'.floor = 0
      BY <2>2, <2>3
    <3>2. \A r \in rows : r.id \notin follower'.floor..follower'.cursor
      BY <1>0, <3>1
    <3>. QED BY <2>1, <3>1, <3>2 DEF CursorInv, FollowerMissesNothing
  <2>4. CASE page # {}
    <3>1. follower'.cursor = LargestId(page) /\ follower'.floor = SmallestId(page)
      BY <2>2, <2>4
    <3>2. PICK d \in page : d.id = SmallestId(page)
      BY <2>1, <2>4, PageIds
    <3>3. \E r \in page : r.id = LargestId(page)
      BY <2>1, <2>4, PageIds
    <3>4. ASSUME NEW r \in rows, r.id \in follower'.floor..follower'.cursor PROVE r.event \in printed'
      <4>1. d.id <= r.id
        BY <3>1, <3>2, <3>4
      <4>2. r \in page
        BY <3>2, <4>1, NewestIsSolid DEF page
      <4>. QED BY <2>2, <4>2
    <3>. QED BY <2>1, <3>1, <3>3, <3>4 DEF CursorInv, FollowerMissesNothing
  <2>. QED BY <2>3, <2>4
<1>4. ASSUME Poll PROVE CursorInv' /\ (FollowerMissesNothing => FollowerMissesNothing')
  <2>. DEFINE page == After(follower.cursor, TailLimit)
  <2>1. page \subseteq rows /\ rows' = rows
    BY <1>4 DEF After, Poll
  <2>2. /\ printed' = printed \cup {r.event : r \in page} /\ page # {} /\ follower.at = "following"
        /\ follower' = [follower EXCEPT !.cursor = LargestId(page)]
    BY <1>4 DEF Poll, Prints, CursorAfter
  <2>. HIDE DEF page
  <2>3. follower'.cursor = LargestId(page) /\ follower'.floor = follower.floor
    BY <2>2 DEF TypeOK
  <2>4. PICK d \in page : d.id = LargestId(page)
    BY <2>1, <2>2, PageIds
  <2>5. ASSUME NEW r \in rows, r.id > follower.cursor, r.id <= follower'.cursor PROVE r.event \in printed'
    <3>1. r \in page
      BY <2>3, <2>4, <2>5, AfterIsSolid DEF page
    <3>. QED BY <2>2, <3>1
  <2>6. follower'.cursor \in Nat
    BY <1>0, <2>1, <2>3, <2>4
  <2>7. ASSUME FollowerMissesNothing, NEW r \in rows, r.id \in follower'.floor..follower'.cursor
        PROVE  r.event \in printed' \/ \E q \in rows : q.event = r.event /\ q.id > follower'.cursor
    <3>1. CASE r.id > follower.cursor
      BY <1>0, <2>5, <2>6, <2>7, <3>1
    <3>2. CASE r.id <= follower.cursor
      <4>1. r.id \in follower.floor..follower.cursor
        BY <1>0, <2>3, <2>7, <3>2
      <4>2. r.event \in printed \/ \E q \in rows : q.event = r.event /\ q.id > follower.cursor
        BY <2>2, <2>7, <4>1 DEF FollowerMissesNothing
      <4>3. CASE \E q \in rows : q.event = r.event /\ q.id > follower.cursor
        <5>1. PICK q \in rows : q.event = r.event /\ q.id > follower.cursor
          BY <4>3
        <5>2. q.id > follower'.cursor \/ q.id <= follower'.cursor
          BY <1>0, <2>6
        <5>. QED BY <2>5, <5>1, <5>2
      <4>. QED BY <2>2, <4>2, <4>3
    <3>. QED BY <1>0, <3>1, <3>2
  <2>8. CursorInv'
    BY <2>1, <2>3, <2>4 DEF CursorInv
  <2>. QED BY <2>1, <2>7, <2>8 DEF FollowerMissesNothing
<1>5. CASE Record \/ Tick \/ Unregister \/ Stop \/ Send \/ UNCHANGED vars
  BY <1>1, <1>5 DEF Record, Tick, Unregister, Stop, Send
<1>6. ASSUME NEW tx \in txs, Abort(tx) \/ GiveUp(tx) PROVE CursorInv' /\ MissedOnlyBehindLateInsert'
  BY <1>1, <1>6 DEF Abort, GiveUp, FailsIf, PostFails
<1>7. ASSUME NEW r \in requests, LostOnTheWay(r) \/ GiveUpRequest(r) \/ Insert(r)
      PROVE  CursorInv' /\ MissedOnlyBehindLateInsert'
  BY <1>1, <1>7 DEF LostOnTheWay, GiveUpRequest, Insert, FailsIf, PostFails
<1>8. CASE (\E tx \in txs : Commit(tx)) \/ FirstPage \/ Poll
  <2>1. CursorInv' /\ (~overtaken /\ FollowerMissesNothing => FollowerMissesNothing')
    BY <1>2, <1>3, <1>4, <1>8
  <2>. QED BY Monotone, <2>1 DEF MissedOnlyBehindLateInsert
<1>. QED BY <1>5, <1>6, <1>7, <1>8 DEF Next

-----------------------------------------------------------------------------
(* The theorems.                                                           *)

LEMMA Initially == Init => IInv
<1>. SUFFICES ASSUME Init PROVE IInv
  OBVIOUS
<1>1. /\ Todo = <<>> /\ Len(<<>>) = 0 /\ <<>> \in Seq(Events) /\ queue = <<>> /\ produced = 0
  BY EmptySeq DEF Init, Todo
<1>2. Sent = 0
  <2>1. Len(queue) = 0 /\ Len(Todo) = 0 /\ produced = 0
    BY <1>1
  <2>2. Sent = 0 - 0 - 0
    BY <2>1 DEF Sent
  <2>. QED BY <2>2
<1>3. TypeOK
  <2>1. worker \in [at : {"rest", "sending", "waiting", "stopped"}, todo : Seq(Events), last : BOOLEAN]
    BY <1>1 DEF Init
  <2>2. worker.at \in {"sending", "waiting"} <=> worker.todo # <<>>
    BY DEF Init
  <2>3. produced \in 0..MaxEvents /\ faults \in 0..MaxFaults /\ nextId \in Nat
    BY LimitsAssumption DEF Init
  <2>4. follower \in [at : {"start", "following"}, cursor : Nat, floor : Nat]
    BY DEF Init
  <2>. QED BY <1>1, <2>1, <2>2, <2>3, <2>4 DEF Init, TypeOK
<1>4. BacklogInv
  BY <1>1, <1>2 DEF BacklogInv, Consecutive
<1>5. RequestInv /\ TxInv /\ LateInv /\ CursorInv
  BY DEF Init, RequestInv, TxInv, LateInv, CursorInv
<1>6. StoredInv
  <2>1. Stored = {} /\ 1..0 = {} /\ 0 \in 0..produced
    BY <1>1 DEF Init, Stored
  <2>. QED BY <1>2, <2>1 DEF StoredInv
<1>7. IdInv
  BY FS_EmptySet DEF Init, IdInv
<1>8. CopiesInv
  <2>. SUFFICES ASSUME NEW e \in Events PROVE CopiesOf(e)
    BY DEF CopiesInv
  <2>1. Inserted(e) = {} /\ Asked(e) = {} /\ faults = 0
    BY DEF Init, Inserted, Asked
  <2>2. Unasked(e) \in {0, 1}
    BY DEF Unasked
  <2>. QED BY <2>1, <2>2, FS_EmptySet DEF CopiesOf
<1>9. MissedOnlyBehindLateInsert
  BY DEF Init, MissedOnlyBehindLateInsert, FollowerMissesNothing
<1>. QED BY <1>3, <1>4, <1>5, <1>6, <1>7, <1>8, <1>9 DEF IInv

LEMMA Inductive ==
  ASSUME IInv, [Next]_vars
  PROVE  IInv'
<1>1. BacklogInv'
  BY ClientStep DEF ClientInv
<1>. QED
  BY <1>1, TypeStep, BatchStep, StoredStep, IdStep, CopiesStep, LateStep, FollowerStep DEF IInv

(* The invariant holds in every reachable state, for any number of events, *)
(* any batch and page sizes, and whatever requests are lost, aborted or    *)
(* given up on, and inserted at whatever later time.                       *)
THEOREM Invariance == Spec => []IInv
BY Initially, Inductive, PTL DEF Spec

(* Queue, worker, transactions, rows and follower are well typed in every  *)
(* reachable state.                                                        *)
THEOREM TypeCorrect == Spec => []TypeOK
<1>1. IInv => TypeOK
  BY DEF IInv
<1>. QED BY <1>1, Invariance, PTL

(* No event is stored more often than POSTs have failed, plus once: what a *)
(* POST leaves behind is accounted for by its failure.                     *)
THEOREM CopiesAreBounded == Spec => []CopiesBounded
<1>1. IInv => CopiesBounded
  <2>. SUFFICES ASSUME IInv, NEW e \in Events
                PROVE  Cardinality({r \in rows : r.event = e}) <= faults + 1
    BY DEF CopiesBounded
  <2>. DEFINE R == {r \in rows : r.event = e}
  <2>1. R \subseteq Inserted(e)
    BY DEF Inserted
  <2>2. /\ IsFiniteSet(Inserted(e)) /\ faults \in Nat /\ Unasked(e) \in {0, 1} /\ Cardinality(Asked(e)) \in Nat
        /\ Cardinality(Inserted(e)) + Cardinality(Asked(e)) + Unasked(e) <= faults + 1
    BY FS_CardinalityType DEF IInv, CopiesInv, CopiesOf, Unasked, TypeOK
  <2>. HIDE DEF R
  <2>3. IsFiniteSet(R) /\ Cardinality(R) \in Nat /\ Cardinality(Inserted(e)) \in Nat
        /\ Cardinality(R) <= Cardinality(Inserted(e))
    BY <2>1, <2>2, FS_Subset, FS_CardinalityType
  <2>4. Cardinality(R) <= faults + 1
    BY <2>2, <2>3
  <2>. QED BY <2>4 DEF R
<1>. QED BY <1>1, Invariance, PTL

(* As long as no batch is inserted after its sender has given up on it,    *)
(* logs --follow misses no event: a row that is committed behind the       *)
(* cursor holds one that is printed, or still to come from a later row.    *)
(* Answers that are lost, requests that fail and commits that are late do  *)
(* not change that.                                                        *)
THEOREM OnlyLateInsertsHide == Spec => []MissedOnlyBehindLateInsert
<1>1. IInv => MissedOnlyBehindLateInsert
  BY DEF IInv
<1>. QED BY <1>1, Invariance, PTL

(* The pipeline implements the abstract log: what is stored grows by whole *)
(* runs of the oldest events that are missing, and never shrinks.          *)
THEOREM Refinement == Spec => ImplementsLog
<1>1. Init => Log!Init
  BY DEF Init, Log!Init, Stored
<1>2. IInv /\ [Next]_vars => [Log!Next]_(<<produced, Stored>>)
  BY LogStep
<1>. QED BY <1>1, <1>2, Invariance, PTL DEF Spec, ImplementsLog, Log!Spec

=============================================================================
