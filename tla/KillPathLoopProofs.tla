-------------------------- MODULE KillPathLoopProofs --------------------------
(***************************************************************************)
(* That the loop lines of KillPath hold for executions, whatever the       *)
(* number of threads, the thresholds and the size of the window.           *)
(*                                                                         *)
(* What has run in the window is counted by the property at any moment,    *)
(* what the check counts is the window at the moment of the check, and in  *)
(* between other threads append to it and push old entries out.  The       *)
(* argument looks at an entry with those before it only: nothing is ever   *)
(* put before an entry, so once its own thread has counted the whole       *)
(* window, the number of like entries up to it can but fall.               *)
(***************************************************************************)
EXTENDS KillPathProofs, FiniteSetTheorems

(* The entries like the one at j up to it.                                 *)
Upto(win, j) == {i \in 1..j : win[i] = win[j]}

(* The pre_tool_call a caller's mark in fate belongs to is under way.      *)
Open(c) ==
  /\ pc[c] \in {"recorded", "checked", "claimed", "stamped", "deciding", "cleared"}
  /\ call[c].hook = "pre"

(* It has been checked, and no verdict on a loop was found.                *)
Passed(c) == pc[c] # "recorded" /\ Loop \notin call[c].terminals /\ ~call[c].steer

(* One thread drives the session.                                          *)
Alone == \E c \in Callers : Callers = {c}

(* Every entry has its fate, and an undecided one its call; a thread's own *)
(* is the newest until it has been checked, if it is the only thread.      *)
FateInv ==
  /\ Len(fate) = Len(loopSignatures)
  /\ \A j \in DOMAIN fate : \A c \in Callers :
       fate[j] = c => Open(c) /\ (Alone /\ pc[c] = "recorded" => j = Len(fate))
  /\ \A c \in Callers : pc[c] = "cleared" => ~call[c].steer

(* What has run or will was below the line with all that was before it.    *)
Below(n) ==
  \A j \in DOMAIN loopSignatures :
    fate[j] = "ran" \/ (\E c \in Callers : fate[j] = c /\ Passed(c))
      => Cardinality(Upto(loopSignatures, j)) < n

LoopInv ==
  Loop \notin Grantable => Below(MaxRepeats) /\ (Alone => Below(SteerAt))

-----------------------------------------------------------------------------
(* Counting.                                                               *)

(* The newest of a set of entries.                                         *)
LEMMA Newest ==
  ASSUME NEW n \in Nat, NEW T \in SUBSET (1..n), T # {}
  PROVE  \E j \in T : \A i \in T : i <= j
<1>1. PICK A : A = [j \in T |-> {k \in T : k > j}]
  OBVIOUS
<1>2. PICK W : W = {A[j] : j \in T}
  OBVIOUS
<1>3. IsFiniteSet(T)
  <2>1. IsFiniteSet(1..n)
    BY FS_Interval
  <2>. QED BY <2>1, FS_Subset
<1>4. \A j \in T : A[j] \in SUBSET T /\ IsFiniteSet(A[j])
  <2>. TAKE j \in T
  <2>1. A[j] \in SUBSET T
    BY <1>1
  <2>. QED BY <1>3, <2>1, FS_Subset
<1>5. W \subseteq FiniteSubsetsOf(T) /\ W # {}
  BY <1>2, <1>4 DEF FiniteSubsetsOf
<1>6. IsWellFoundedOn(StrictSubsetOrdering(T), FiniteSubsetsOf(T))
  BY FS_StrictSubsetOrderingWellFounded
<1>7. PICK x \in W : \A y \in W : <<y, x>> \notin StrictSubsetOrdering(T)
  BY <1>5, <1>6, WFMin
<1>8. PICK j \in T : x = A[j]
  BY <1>2, <1>7
<1>9. ASSUME NEW i \in T, i > j PROVE FALSE
  <2>0. A[i] = {k \in T : k > i} /\ A[j] = {k \in T : k > j} /\ T \subseteq Nat
    BY <1>1
  <2>1. A[i] \in W /\ A[i] \in SUBSET A[j] /\ i \in A[j] /\ i \notin A[i]
    <3>1. A[i] \in W
      BY <1>2
    <3>2. A[i] \in SUBSET A[j]
      <4>1. ASSUME NEW k \in T, k > i PROVE k > j
        <5>1. k \in Nat /\ i \in Nat /\ j \in Nat
          BY <2>0
        <5>. QED BY <1>9, <4>1, <5>1
      <4>. QED BY <2>0, <4>1
    <3>3. i \in A[j] /\ i \notin A[i]
      BY <1>9, <2>0
    <3>. QED BY <3>1, <3>2, <3>3
  <2>2. <<A[i], x>> \in StrictSubsetOrdering(T)
    BY <1>4, <1>8, <2>1 DEF StrictSubsetOrdering
  <2>. QED BY <1>7, <2>1, <2>2
<1>. QED BY <1>9

LEMMA UptoFinite ==
  ASSUME NEW win, NEW j \in Nat
  PROVE  IsFiniteSet(Upto(win, j)) /\ Cardinality(Upto(win, j)) \in Nat
<1>1. Upto(win, j) \in SUBSET (1..j)
  BY DEF Upto
<1>2. IsFiniteSet(1..j)
  BY FS_Interval
<1>. QED BY <1>1, <1>2, FS_Subset, FS_CardinalityType

(* The check counts the whole window, and so no less.                      *)
LEMMA UptoRepeats ==
  ASSUME NEW win \in Seq(Sigs), NEW j \in 1..Len(win)
  PROVE  /\ Repeats(win, win[j]) \in Nat
         /\ Cardinality(Upto(win, j)) <= Repeats(win, win[j])
<1>1. PICK all : all = {i \in DOMAIN win : win[i] = win[j]}
  OBVIOUS
<1>2. DOMAIN win = 1..Len(win) /\ Len(win) \in Nat
  BY LenProperties
<1>3. IsFiniteSet(1..Len(win)) /\ all \in SUBSET (1..Len(win))
  BY <1>1, <1>2, FS_Interval
<1>4. IsFiniteSet(all) /\ Cardinality(all) \in Nat
  BY <1>3, FS_Subset, FS_CardinalityType
<1>5. Upto(win, j) \in SUBSET all
  BY <1>1, <1>2 DEF Upto
<1>6. Cardinality(Upto(win, j)) <= Cardinality(all)
  BY <1>4, <1>5, FS_Subset
<1>. QED BY <1>1, <1>4, <1>6 DEF Repeats

(* An entry of the window after a push: the new one, or an old one that    *)
(* has moved by as many places as were pushed out.                         *)
Dropped(win) == IF Len(win) < Window THEN 0 ELSE 1

LEMMA PushShape ==
  ASSUME NEW S, NEW win \in Seq(S), NEW x \in S
  PROVE  /\ Push(win, x) \in Seq(S) /\ Len(win) \in Nat
         /\ Len(Push(win, x)) = Len(win) + 1 - Dropped(win)
         /\ Push(win, x)[Len(Push(win, x))] = x
         /\ \A j \in 1..Len(Push(win, x)) : j # Len(Push(win, x)) =>
              /\ j + Dropped(win) \in 1..Len(win)
              /\ Push(win, x)[j] = win[j + Dropped(win)]
<1>0. Len(win) \in Nat
  BY LenProperties
<1>1. CASE Len(win) < Window
  <2>1. Push(win, x) = Append(win, x) /\ Dropped(win) = 0
    BY <1>1 DEF Push, Dropped
  <2>2. /\ Append(win, x) \in Seq(S) /\ Len(Append(win, x)) = Len(win) + 1
        /\ \A j \in 1..Len(win) : Append(win, x)[j] = win[j]
        /\ Append(win, x)[Len(win) + 1] = x
    BY AppendProperties
  <2>. QED BY <1>0, <2>1, <2>2
<1>2. CASE ~(Len(win) < Window)
  <2>1. Push(win, x) = Append(Tail(win), x) /\ Dropped(win) = 1
    BY <1>2 DEF Push, Dropped
  <2>2. win # <<>>
    BY <1>2, ThresholdAssumption
  <2>3. /\ Tail(win) \in Seq(S) /\ Len(Tail(win)) = Len(win) - 1
        /\ \A i \in 1..Len(Tail(win)) : Tail(win)[i] = win[i + 1]
    BY <2>2, HeadTailProperties
  <2>4. /\ Append(Tail(win), x) \in Seq(S) /\ Len(Append(Tail(win), x)) = Len(Tail(win)) + 1
        /\ \A j \in 1..Len(Tail(win)) : Append(Tail(win), x)[j] = Tail(win)[j]
        /\ Append(Tail(win), x)[Len(Tail(win)) + 1] = x
    BY <2>3, AppendProperties
  <2>5. Len(Tail(win)) \in Nat
    BY <2>3, LenProperties
  <2>. QED BY <1>0, <2>1, <2>3, <2>4, <2>5
<1>. QED BY <1>1, <1>2

(* A push adds nothing before an old entry.                                *)
LEMMA PushCounts ==
  ASSUME NEW win \in Seq(Sigs), NEW x \in Sigs,
         NEW j \in 1..Len(Push(win, x)), j # Len(Push(win, x))
  PROVE  Cardinality(Upto(Push(win, x), j)) <= Cardinality(Upto(win, j + Dropped(win)))
<1>1. PICK new, d : new = Push(win, x) /\ d = Dropped(win)
  OBVIOUS
<1>2. /\ d \in {0, 1} /\ Len(win) \in Nat /\ Len(new) \in Nat
      /\ \A i \in 1..Len(new) : i # Len(new) => i + d \in 1..Len(win) /\ new[i] = win[i + d]
  <2>1. d \in {0, 1}
    BY <1>1 DEF Dropped
  <2>2. new \in Seq(Sigs) /\ Len(win) \in Nat
        /\ \A i \in 1..Len(new) : i # Len(new) => i + d \in 1..Len(win) /\ new[i] = win[i + d]
    <3>1. /\ Push(win, x) \in Seq(Sigs) /\ Len(win) \in Nat
          /\ \A i \in 1..Len(Push(win, x)) : i # Len(Push(win, x)) =>
               /\ i + Dropped(win) \in 1..Len(win)
               /\ Push(win, x)[i] = win[i + Dropped(win)]
      BY PushShape
    <3>. QED BY <1>1, <3>1, Zenon
  <2>3. Len(new) \in Nat
    BY <2>2, LenProperties
  <2>. QED BY <2>1, <2>2, <2>3
<1>3. PICK f : f = [i \in Upto(new, j) |-> i + d]
  OBVIOUS
<1>4. \A i \in Upto(new, j) : i \in 1..j /\ i + d \in Upto(win, j + d)
  <2>. TAKE i \in Upto(new, j)
  <2>1. i \in 1..j /\ new[i] = new[j] /\ j \in Nat
    BY <1>1, <1>2 DEF Upto
  <2>2. i \in 1..Len(new) /\ i # Len(new)
    BY <1>1, <1>2, <2>1
  <2>3. new[i] = win[i + d] /\ new[j] = win[j + d]
    BY <1>1, <1>2, <2>2
  <2>4. i + d \in 1..(j + d)
    BY <1>2, <2>1
  <2>. QED BY <2>1, <2>3, <2>4 DEF Upto
<1>5. f \in Injection(Upto(new, j), Upto(win, j + d))
  <2>1. f \in [Upto(new, j) -> Upto(win, j + d)]
    BY <1>3, <1>4
  <2>2. \A i, k \in Upto(new, j) : f[i] = f[k] => i = k
    BY <1>2, <1>3, <1>4
  <2>. QED BY <1>3, <2>1, <2>2 DEF Injection, IsInjective
<1>6. IsFiniteSet(Upto(win, j + d))
  BY <1>1, <1>2, UptoFinite
<1>. QED BY <1>1, <1>5, <1>6, FS_Injection

-----------------------------------------------------------------------------
(* The steps, by what they do to the window and to the calls under way.    *)

(* A step leaves the verdict on d's call alone, and clears no call that is *)
(* to be steered.                                                          *)
Kept(d) ==
  /\ Open(d) => Open(d)' /\ call'[d] = call[d] /\ (pc'[d] = "recorded" <=> pc[d] = "recorded")
  /\ pc'[d] = "cleared" => call'[d] = call[d] /\ (pc[d] = "cleared" \/ ~call[d].steer)

LEMMA KeepsInv ==
  ASSUME TypeOK, FateInv, LoopInv, UNCHANGED <<loopSignatures, fate>>,
         \A d \in Callers : Kept(d)
  PROVE  FateInv' /\ LoopInv'
<1>1. \A d \in Callers : Open(d) /\ Passed(d)' => Passed(d)
  BY DEF Kept, Passed
<1>2. FateInv'
  BY DEF FateInv, Kept, Alone
<1>3. \A n : Below(n) => Below(n)'
  <2>. TAKE n
  <2>. SUFFICES ASSUME Below(n), NEW j \in DOMAIN loopSignatures,
                       fate[j] = "ran" \/ (\E c \in Callers : fate[j] = c /\ Passed(c)')
                PROVE  Cardinality(Upto(loopSignatures, j)) < n
    BY DEF Below, Upto
  <2>1. DOMAIN loopSignatures = DOMAIN fate
    BY LenProperties DEF TypeOK, FateInv
  <2>. QED BY <1>1, <2>1 DEF Below, FateInv
<1>. QED BY <1>2, <1>3 DEF LoopInv, Alone

LEMMA RecordInv ==
  ASSUME TypeOK, HookInv, FateInv, LoopInv, NEW c \in Callers, RecordToolCall(c)
  PROVE  FateInv' /\ LoopInv'
<1>1. PICK sig, d : sig = call[c].sig /\ d = Dropped(loopSignatures)
  OBVIOUS
<1>2. /\ sig \in Sigs /\ c \in Fates /\ c \notin {"ran", "refused"}
      /\ loopSignatures \in Seq(Sigs) /\ fate \in Seq(Fates) /\ Len(fate) = Len(loopSignatures)
      /\ Dropped(fate) = d
  BY <1>1, CallerAssumption DEF TypeOK, CallState, Fates, FateInv, Dropped
<1>3. /\ loopSignatures' = Push(loopSignatures, sig) /\ fate' = Push(fate, c)
      /\ pc[c] = "entered" /\ pc' = [pc EXCEPT ![c] = "recorded"] /\ call' = call
  BY <1>1 DEF RecordToolCall, Goto, hookVars
<1>4. call[c].hook = "pre"
  BY <1>3 DEF HookInv
<1>5. PICK n : n = Len(loopSignatures')
  OBVIOUS
<1>6. /\ n \in Nat /\ Len(fate') = n /\ DOMAIN loopSignatures' = 1..n /\ DOMAIN fate' = 1..n
      /\ fate'[n] = c
  <2>1. /\ loopSignatures' \in Seq(Sigs) /\ Len(loopSignatures) \in Nat
        /\ n = Len(loopSignatures) + 1 - d
    BY <1>1, <1>2, <1>3, <1>5, PushShape
  <2>2. /\ fate' \in Seq(Fates) /\ Len(fate') = Len(fate) + 1 - d /\ fate'[Len(fate')] = c
    BY <1>2, <1>3, PushShape
  <2>. QED BY <1>2, <1>5, <2>1, <2>2, LenProperties
<1>7. ASSUME NEW j \in 1..n, j # n
      PROVE  /\ j + d \in DOMAIN fate /\ j + d \in DOMAIN loopSignatures /\ fate'[j] = fate[j + d]
             /\ Cardinality(Upto(loopSignatures', j)) <= Cardinality(Upto(loopSignatures, j + d))
             /\ Cardinality(Upto(loopSignatures', j)) \in Nat
             /\ Cardinality(Upto(loopSignatures, j + d)) \in Nat
  <2>1. j + d \in 1..Len(fate) /\ fate'[j] = fate[j + d]
    <3>1. /\ Push(fate, c) \in Seq(Fates) /\ Len(fate) \in Nat
          /\ \A i \in 1..Len(Push(fate, c)) : i # Len(Push(fate, c)) =>
               /\ i + Dropped(fate) \in 1..Len(fate)
               /\ Push(fate, c)[i] = fate[i + Dropped(fate)]
      <4>1. c \in Fates /\ fate \in Seq(Fates)
        BY <1>2
      <4>. QED BY <4>1, PushShape
    <3>. QED BY <1>2, <1>3, <1>6, <1>7, <3>1, Zenon
  <2>2. Cardinality(Upto(loopSignatures', j)) <= Cardinality(Upto(loopSignatures, j + d))
    BY <1>1, <1>2, <1>3, <1>5, <1>7, PushCounts
  <2>3. j \in Nat /\ j + d \in Nat
    BY <2>1, <1>6, <1>2, LenProperties
  <2>. QED BY <1>2, <2>1, <2>2, <2>3, LenProperties, UptoFinite
<1>8. \A u \in Callers : pc'[u] = (IF u = c THEN "recorded" ELSE pc[u])
  BY <1>3 DEF TypeOK, Writers
<1>9. \A j \in DOMAIN fate : fate[j] # c
  BY <1>3 DEF FateInv, Open
<1>10. \A u \in Callers : u # c => (Open(u) => Open(u)') /\ (Passed(u)' => Passed(u))
  BY <1>3, <1>8 DEF Open, Passed
<1>11. FateInv'
  <2>1. ASSUME NEW j \in 1..n, NEW u \in Callers, fate'[j] = u
        PROVE  Open(u)' /\ (Alone /\ pc'[u] = "recorded" => j = n)
    <3>1. CASE j = n
      <4>1. u = c
        BY <1>6, <2>1, <3>1
      <4>. QED BY <1>3, <1>4, <1>8, <3>1, <4>1 DEF Open
    <3>2. CASE j # n
      <4>1. j + d \in DOMAIN fate /\ fate[j + d] = u /\ u # c
        BY <1>7, <1>9, <2>1, <3>2
      <4>. QED BY <1>10, <4>1 DEF FateInv, Alone
    <3>. QED BY <3>1, <3>2
  <2>2. \A u \in Callers : pc'[u] = "cleared" => ~call'[u].steer
    BY <1>3, <1>8 DEF FateInv
  <2>. QED BY <1>5, <1>6, <2>1, <2>2 DEF FateInv, Alone
<1>12. \A m \in Nat : Below(m) => Below(m)'
  <2>. TAKE m \in Nat
  <2>. HAVE Below(m)
  <2>1. ASSUME NEW j \in 1..n, NEW u, fate'[j] = u,
               u = "ran" \/ (u \in Callers /\ Passed(u)')
        PROVE  Cardinality(Upto(loopSignatures', j)) < m
    <3>1. j # n
      BY <1>2, <1>6, <1>8, <2>1 DEF Passed
    <3>2. j + d \in DOMAIN loopSignatures /\ fate[j + d] = u /\ (u = "ran" \/ (u \in Callers /\ Passed(u)))
      <4>1. j + d \in DOMAIN fate /\ j + d \in DOMAIN loopSignatures /\ fate[j + d] = u
        BY <1>7, <2>1, <3>1
      <4>. QED BY <1>9, <1>10, <2>1, <4>1
    <3>3. Cardinality(Upto(loopSignatures, j + d)) < m
      BY <3>2 DEF Below
    <3>. QED BY <1>7, <3>1, <3>3
  <2>2. \A j \in 1..n : fate'[j] = "ran" \/ (\E u \in Callers : fate'[j] = u /\ Passed(u)')
          => Cardinality(Upto(loopSignatures', j)) < m
    BY <2>1
  <2>. QED BY <1>6, <2>2 DEF Below, Upto
<1>. QED BY <1>11, <1>12, ThresholdAssumption DEF LoopInv, Alone

LEMMA CheckInv ==
  ASSUME TypeOK, GrantInv, HookInv, FateInv, LoopInv, NEW c \in Callers, PreToolChecks(c)
  PROVE  FateInv' /\ LoopInv'
<1>1. /\ pc[c] = "recorded" /\ pc' = [pc EXCEPT ![c] = "checked"]
      /\ UNCHANGED <<loopSignatures, fate>>
      /\ \A u \in Callers : pc'[u] = (IF u = c THEN "checked" ELSE pc[u])
      /\ \A u \in Callers : u # c => call'[u] = call[u]
      /\ call'[c].hook = call[c].hook
      /\ call'[c].steer = (LoopSteer(loopSignatures) /\ Loop \notin grants)
      /\ call'[c].terminals =
           ApplyGrants(ScopeTerminals(call[c].sig)
                         \cup StateTerminals(loopSignatures, cost, tokens, uptime), grants)
  BY DEF PreToolChecks, TypeOK, Writers, CallState, Goto, meterVars
<1>2. \A u \in Callers : (Open(u) => Open(u)') /\ (u # c /\ Passed(u)' => Passed(u))
  BY <1>1 DEF Open, Passed
<1>3. FateInv'
  BY <1>1, <1>2 DEF FateInv, Alone
<1>4. Loop \notin Grantable /\ Passed(c)' => ~LoopTerminal(loopSignatures) /\ ~LoopSteer(loopSignatures)
  BY <1>1 DEF GrantInv, Passed, ApplyGrants, StateTerminals
<1>5. /\ loopSignatures \in Seq(Sigs) /\ fate \in Seq(Fates)
      /\ DOMAIN loopSignatures = 1..Len(loopSignatures) /\ DOMAIN fate = DOMAIN loopSignatures
      /\ Len(fate) = Len(loopSignatures)
  BY LenProperties DEF TypeOK, FateInv
<1>6. ASSUME NEW j \in DOMAIN loopSignatures, Loop \notin Grantable, fate[j] = c, Passed(c)'
      PROVE  /\ Cardinality(Upto(loopSignatures, j)) < MaxRepeats
             /\ Alone => Cardinality(Upto(loopSignatures, j)) < SteerAt
  <2>1. /\ loopSignatures[j] \in Sigs /\ Repeats(loopSignatures, loopSignatures[j]) \in Nat
        /\ Cardinality(Upto(loopSignatures, j)) \in Nat
        /\ Cardinality(Upto(loopSignatures, j)) <= Repeats(loopSignatures, loopSignatures[j])
    BY <1>5, ElementOfSeq, UptoRepeats, UptoFinite
  <2>2. Repeats(loopSignatures, loopSignatures[j]) < MaxRepeats
    BY <1>4, <1>6, <2>1, ThresholdAssumption DEF LoopTerminal
  <2>3. ASSUME Alone PROVE Repeats(loopSignatures, loopSignatures[j]) < SteerAt
    <3>1. j = Len(loopSignatures) /\ loopSignatures # <<>>
      BY <1>1, <1>5, <1>6, <2>3 DEF FateInv
    <3>. QED BY <1>4, <1>6, <2>1, <2>2, <3>1, ThresholdAssumption DEF LoopSteer
  <2>. QED BY <2>1, <2>2, <2>3, ThresholdAssumption
<1>7. ASSUME NEW m, Loop \notin Grantable, Below(m), m = MaxRepeats \/ (m = SteerAt /\ Alone)
      PROVE  Below(m)'
  <2>. SUFFICES ASSUME NEW j \in DOMAIN loopSignatures, NEW u, fate[j] = u,
                       u = "ran" \/ (u \in Callers /\ Passed(u)')
                PROVE  Cardinality(Upto(loopSignatures, j)) < m
    BY <1>1 DEF Below, Upto
  <2>1. CASE u = c
    <3>1. Passed(c)'
      BY <2>1, CallerAssumption
    <3>. QED BY <1>6, <1>7, <2>1, <3>1
  <2>2. CASE u # c
    BY <1>2, <1>7, <2>2 DEF Below
  <2>. QED BY <2>1, <2>2
<1>. QED BY <1>3, <1>7 DEF LoopInv, Alone

(* The call is closed: as run only if it was cleared.                      *)
LEMMA SettleInv ==
  ASSUME TypeOK, HarmInv, FateInv, LoopInv, NEW c \in Callers, NEW outcome \in {"ran", "refused"},
         Settle(c, outcome), outcome = "ran" => pc[c] = "cleared",
         loopSignatures' = loopSignatures,
         \A u \in Callers : u # c => pc'[u] = pc[u] /\ call'[u] = call[u],
         pc'[c] # "cleared"
  PROVE  FateInv' /\ LoopInv'
<1>1. /\ DOMAIN fate' = DOMAIN fate
      /\ \A j \in DOMAIN fate : fate'[j] = IF fate[j] = c THEN outcome ELSE fate[j]
  BY DEF Settle
<1>2. Len(fate') = Len(fate)
  <2>1. fate \in Seq(Fates) /\ fate' \in Seq(Fates)
    BY SettleType DEF TypeOK
  <2>. QED BY <1>1, <2>1, LenProperties
<1>3. \A u \in Callers : u # c => (Open(u) => Open(u)') /\ (Passed(u)' => Passed(u))
  BY DEF Open, Passed
<1>4. outcome \notin Callers
  BY CallerAssumption
<1>5. outcome = "ran" => Passed(c)
  BY DEF FateInv, HarmInv, Passed
<1>6. FateInv'
  <2>1. ASSUME NEW j \in DOMAIN fate, NEW u \in Callers, fate'[j] = u
        PROVE  Open(u)' /\ (Alone /\ pc'[u] = "recorded" => j = Len(fate'))
    <3>1. fate[j] = u /\ u # c
      BY <1>1, <1>4, <2>1
    <3>. QED BY <1>2, <1>3, <3>1 DEF FateInv
  <2>2. \A u \in Callers : pc'[u] = "cleared" => ~call'[u].steer
    BY DEF FateInv
  <2>3. Len(fate') = Len(loopSignatures')
    BY <1>2 DEF FateInv
  <2>. QED BY <1>1, <2>1, <2>2, <2>3 DEF FateInv, Alone
<1>7. \A m : Below(m) => Below(m)'
  <2>. TAKE m
  <2>. HAVE Below(m)
  <2>1. ASSUME NEW j \in DOMAIN loopSignatures, NEW u, fate'[j] = u,
               u = "ran" \/ (u \in Callers /\ Passed(u)')
        PROVE  Cardinality(Upto(loopSignatures, j)) < m
    <3>1. j \in DOMAIN fate
      BY LenProperties DEF TypeOK, FateInv
    <3>2. fate[j] = "ran" \/ (\E v \in Callers : fate[j] = v /\ Passed(v))
      <4>1. CASE fate[j] = c
        BY <1>1, <1>4, <1>5, <2>1, <3>1, <4>1
      <4>2. CASE fate[j] # c
        BY <1>1, <1>3, <2>1, <3>1, <4>2
      <4>. QED BY <4>1, <4>2
    <3>. QED BY <3>2 DEF Below
  <2>. QED BY <2>1 DEF Below, Upto
<1>. QED BY <1>6, <1>7 DEF LoopInv, Alone

LEMMA LoopStep ==
  ASSUME Inv, FateInv, LoopInv, [Next]_vars
  PROVE  FateInv' /\ LoopInv'
<1>. USE DEF Inv
<1>1. ASSUME NEW c \in Callers, RecordToolCall(c) PROVE FateInv' /\ LoopInv'
  BY <1>1, RecordInv
<1>2. ASSUME NEW c \in Callers, PreToolChecks(c) PROVE FateInv' /\ LoopInv'
  BY <1>2, CheckInv
<1>3. ASSUME NEW c \in Callers, BlockKilled(c) \/ BlockSteered(c) PROVE FateInv' /\ LoopInv'
  <2>1. /\ Settle(c, "refused") /\ loopSignatures' = loopSignatures
        /\ \A u \in Callers : u # c => pc'[u] = pc[u] /\ call'[u] = call[u]
        /\ pc'[c] # "cleared"
    BY <1>3 DEF BlockKilled, BlockSteered, Refuse, Goto, TypeOK, Writers
  <2>. QED BY <2>1, SettleInv
<1>4. ASSUME NEW c \in Callers, ToolStart(c) PROVE FateInv' /\ LoopInv'
  <2>1. /\ Settle(c, "ran") /\ pc[c] = "cleared" /\ loopSignatures' = loopSignatures
        /\ \A u \in Callers : u # c => pc'[u] = pc[u] /\ call'[u] = call[u]
        /\ pc'[c] # "cleared"
    BY <1>4 DEF ToolStart, Goto, TypeOK, Writers
  <2>. QED BY <2>1, SettleInv
<1>. USE DEF Kept, Open, Goto, TypeOK, Writers, termVars, meterVars, remoteVars, lifeVars, hookVars
<1>5. ASSUME NEW c \in Callers, Terminate(c) PROVE FateInv' /\ LoopInv'
  <2>1. UNCHANGED <<loopSignatures, fate>> /\ \A d \in Callers : Kept(d)
    BY <1>5 DEF Terminate, Claim
  <2>. QED BY <2>1, KeepsInv DEF Terminate
<1>6. ASSUME NEW c \in Callers, NoTermination(c) PROVE FateInv' /\ LoopInv'
  <2>1. UNCHANGED <<loopSignatures, fate>> /\ \A d \in Callers : Kept(d)
    BY <1>6, CallerAssumption DEF NoTermination, Resume, Deciding
  <2>. QED BY <2>1, KeepsInv
<1>7. ASSUME NEW c \in Callers, Allow(c) PROVE FateInv' /\ LoopInv'
  <2>1. UNCHANGED <<loopSignatures, fate>> /\ \A d \in Callers : Kept(d)
    BY <1>7 DEF Allow
  <2>. QED BY <2>1, KeepsInv
<1>8. ASSUME NEW c \in Callers, PostChecks(c) PROVE FateInv' /\ LoopInv'
  <2>1. UNCHANGED <<loopSignatures, fate>> /\ \A d \in Callers : Kept(d)
    BY <1>8 DEF PostChecks, HookInv
  <2>. QED BY <2>1, KeepsInv
<1>9. ASSUME NEW c \in Callers, FinalCertificate(c) \/ UnregisterWatcher(c)
      PROVE  FateInv' /\ LoopInv'
  <2>1. UNCHANGED <<loopSignatures, fate>> /\ \A d \in Callers : Kept(d)
    BY <1>9 DEF FinalCertificate, UnregisterWatcher
  <2>. QED BY <2>1, KeepsInv
<1>10. ASSUME NEW w \in Writers, Stamp(w) PROVE FateInv' /\ LoopInv'
  <2>1. UNCHANGED <<loopSignatures, fate>> /\ \A d \in Callers : Kept(d)
    BY <1>10 DEF Stamp
  <2>. QED BY <2>1, KeepsInv
<1>11. ASSUME NEW w \in Writers, LogRequest(w) PROVE FateInv' /\ LoopInv'
  <2>1. UNCHANGED <<loopSignatures, fate>> /\ \A d \in Callers : Kept(d)
    BY <1>11, CallerAssumption DEF LogRequest, Resume, Deciding
  <2>. QED BY <2>1, KeepsInv
<1>12. ASSUME NEW c \in Callers, NEW sig \in Sigs, PreToolCall(c, sig) PROVE FateInv' /\ LoopInv'
  <2>1. UNCHANGED <<loopSignatures, fate>> /\ \A d \in Callers : Kept(d)
    BY <1>12 DEF PreToolCall
  <2>. QED BY <2>1, KeepsInv
<1>13. ASSUME NEW c \in Callers, PostToolCall(c) PROVE FateInv' /\ LoopInv'
  <2>1. UNCHANGED <<loopSignatures, fate>> /\ \A d \in Callers : Kept(d)
    BY <1>13 DEF PostToolCall
  <2>. QED BY <2>1, KeepsInv
<1>14. ASSUME NEW c \in Callers, NEW u \in Usage, PostApiRequest(c, u) PROVE FateInv' /\ LoopInv'
  <2>1. UNCHANGED <<loopSignatures, fate>> /\ \A d \in Callers : Kept(d)
    BY <1>14 DEF PostApiRequest
  <2>. QED BY <2>1, KeepsInv
<1>15. ASSUME NEW c \in Callers, SessionEnd(c) \/ SessionFinalize(c) PROVE FateInv' /\ LoopInv'
  <2>1. UNCHANGED <<loopSignatures, fate>> /\ \A d \in Callers : Kept(d)
    BY <1>15 DEF SessionEnd, SessionFinalize
  <2>. QED BY <2>1, KeepsInv
<1>16. ASSUME PollServed \/ PollLookup \/ PollTerminate \/ PollLost PROVE FateInv' /\ LoopInv'
  <2>1. UNCHANGED <<loopSignatures, fate, call>> /\ \A d \in Callers : pc'[d] = pc[d]
    BY <1>16, CallerAssumption DEF PollServed, PollLookup, PollTerminate, PollLost, Claim
  <2>2. \A d \in Callers : Kept(d)
    BY <2>1
  <2>. QED BY <2>1, <2>2, KeepsInv
<1>17. ASSUME \/ HeartbeatStep \/ Environment \/ UNCHANGED vars
       PROVE  FateInv' /\ LoopInv'
  <2>1. UNCHANGED <<loopSignatures, fate, call, pc>>
    BY <1>17 DEF HeartbeatStep, HeartbeatServed, HeartbeatArrives, HeartbeatFails,
      Environment, ChangeGrants, OperatorKill, Tick, vars
  <2>2. \A d \in Callers : Kept(d)
    BY <2>1
  <2>. QED BY <2>1, <2>2, KeepsInv
<1>. QED
  BY <1>1, <1>2, <1>3, <1>4, <1>5, <1>6, <1>7, <1>8, <1>9, <1>10, <1>11, <1>12, <1>13, <1>14,
     <1>15, <1>16, <1>17 DEF Next, HookStep, HermesStep, PollerStep

-----------------------------------------------------------------------------
(* The theorems.                                                           *)

(* The like entries that ran are the newest of them and some before it.    *)
LEMMA BelowTheLine ==
  ASSUME TypeOK, FateInv, NEW n \in Nat \ {0}, Below(n), NEW sig \in Sigs
  PROVE  Cardinality(RanInWindow(sig)) < n
<1>1. /\ loopSignatures \in Seq(Sigs) /\ Len(loopSignatures) \in Nat
      /\ DOMAIN loopSignatures = 1..Len(loopSignatures)
  BY LenProperties DEF TypeOK
<1>2. CASE RanInWindow(sig) = {}
  BY <1>2, FS_EmptySet
<1>3. CASE RanInWindow(sig) # {}
  <2>1. RanInWindow(sig) \in SUBSET (1..Len(loopSignatures))
    BY <1>1 DEF RanInWindow
  <2>2. PICK j \in RanInWindow(sig) : \A i \in RanInWindow(sig) : i <= j
    BY <1>1, <1>3, <2>1, Newest
  <2>3. j \in Nat /\ j \in DOMAIN loopSignatures /\ fate[j] = "ran" /\ loopSignatures[j] = sig
    BY <1>1 DEF RanInWindow
  <2>4. RanInWindow(sig) \in SUBSET Upto(loopSignatures, j)
    BY <2>1, <2>2, <2>3 DEF RanInWindow, Upto
  <2>5. Cardinality(Upto(loopSignatures, j)) < n
    BY <2>3 DEF Below
  <2>6. /\ IsFiniteSet(Upto(loopSignatures, j)) /\ Cardinality(Upto(loopSignatures, j)) \in Nat
    BY <2>3, UptoFinite
  <2>7. /\ IsFiniteSet(RanInWindow(sig))
        /\ Cardinality(RanInWindow(sig)) <= Cardinality(Upto(loopSignatures, j))
    BY <2>4, <2>6, FS_Subset
  <2>8. Cardinality(RanInWindow(sig)) \in Nat
    BY <2>7, FS_CardinalityType
  <2>. QED BY <2>5, <2>6, <2>7, <2>8
<1>. QED BY <1>2, <1>3

(* Every thread has judged what it was let run.                            *)
LEMMA LoopInvariance == Spec => [](Inv /\ FateInv /\ LoopInv)
<1>1. Init => FateInv /\ LoopInv
  BY DEF Init, FateInv, LoopInv, Below, Writers
<1>2. Inv /\ FateInv /\ LoopInv /\ [Next]_vars => FateInv' /\ LoopInv'
  BY LoopStep
<1>. QED BY <1>1, <1>2, Invariance, PTL DEF Spec

(* The kill line holds for executions: no signature runs max_loop_repeats  *)
(* times within a window, although the threads append, check and run at    *)
(* different times (checks.py, check_loop; plugin.py, pre_tool_call).      *)
THEOREM KillLineHolds == Spec => []RepeatsBelowKill
<1>1. Inv /\ FateInv /\ LoopInv => RepeatsBelowKill
  BY BelowTheLine, ThresholdAssumption DEF Inv, LoopInv, RepeatsBelowKill
<1>. QED BY <1>1, LoopInvariance, PTL

(* The steer line holds for executions of a session that one thread drives *)
(* (checks.py, check_loop: the newest entry is the current call's).  With  *)
(* two threads it does not.                                                *)
THEOREM SteerLineHolds == Spec => [](Alone => RepeatsBelowSteer)
<1>1. Inv /\ FateInv /\ LoopInv => (Alone => RepeatsBelowSteer)
  BY BelowTheLine, ThresholdAssumption DEF Inv, LoopInv, RepeatsBelowSteer
<1>. QED BY <1>1, LoopInvariance, PTL
=============================================================================
