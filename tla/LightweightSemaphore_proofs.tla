-------------------- MODULE LightweightSemaphore_proofs ---------------------
(***************************************************************************)
(* Proofs about LightweightSemaphore, for every number of threads, of      *)
(* permits that a wait asks for and of permits that a signal brings.  That *)
(* the counter, the kernel semaphore and the posts that are owed account   *)
(* for every sleeper is inductive; that no wakeup is lost, and that users  *)
(* see a counting semaphore, follows from it.                              *)
(***************************************************************************)
EXTENDS LightweightSemaphore, FiniteSetTheorems, TLAPS

\* What a wait has got on its way.
GotInv ==
    \A t \in Waiter :
        /\ pc[t] \in {"spin", "sleep", "load", "settle"} => got[t] = 0
        /\ pc[t] = "more" => got[t] = 1

Inv == TypeOK /\ PostsMatchSleepers /\ GotInv

\* The larger one of two numbers.
LEMMA MaxOfTwo ==
    ASSUME NEW a \in Int, NEW b \in Int
    PROVE  Max({a, b}) = IF a >= b THEN a ELSE b
<1> DEFINE m == IF a >= b THEN a ELSE b
<1>1. m \in {a, b} /\ \A y \in {a, b} : m >= y
  OBVIOUS
<1>2. \A x \in {a, b} : (\A y \in {a, b} : x >= y) => x = m
  OBVIOUS
<1> QED
  BY <1>1, <1>2 DEF Max

\* A signal posts one kernel signal for each sleeper that has none, and at most as many
\* as it brings permits.
LEMMA ToReleaseFacts ==
    ASSUME count \in Int, NEW n \in Nat
    PROVE  /\ ToRelease(n) \in Nat
           /\ ToRelease(n) + (IF count + n < 0 THEN -(count + n) ELSE 0)
                = IF count < 0 THEN -count ELSE 0
<1>1. Max({-count, 0}) = IF -count >= 0 THEN -count ELSE 0
  BY MaxOfTwo
<1> QED
  BY <1>1 DEF ToRelease

\* The sleepers are a finite set.
LEMMA SleepersFinite ==
    IsFiniteSet(Sleepers) /\ Cardinality(Sleepers) \in Nat
<1>1. Sleepers \subseteq Waiter
  BY DEF Sleepers
<1> QED
  BY <1>1, ConstantsAssumption, FS_Subset, FS_CardinalityType

\* A thread falls asleep ...
LEMMA OneMore ==
    ASSUME TypeOK, NEW t \in Waiter, t \notin Sleepers,
           NEW p \in {"sleep", "load", "settle"}, pc' = [pc EXCEPT ![t] = p]
    PROVE  Cardinality(Sleepers') = Cardinality(Sleepers) + 1
<1>1. Sleepers' = Sleepers \cup {t}
  BY DEF Sleepers, TypeOK
<1> QED
  BY <1>1, SleepersFinite, FS_AddElement

\* ... or is no longer one of the sleepers ...
LEMMA OneLess ==
    ASSUME TypeOK, NEW t \in Waiter, t \in Sleepers,
           NEW p \in {"idle", "spin", "more"}, pc' = [pc EXCEPT ![t] = p]
    PROVE  Cardinality(Sleepers') = Cardinality(Sleepers) - 1
<1>1. Sleepers' = Sleepers \ {t}
  BY DEF Sleepers, TypeOK
<1> QED
  BY <1>1, SleepersFinite, FS_RemoveElement

\* ... or stays what it was.
LEMMA SameSleepers ==
    ASSUME TypeOK, NEW t \in Waiter, NEW p, pc' = [pc EXCEPT ![t] = p],
           t \in Sleepers <=> p \in {"sleep", "load", "settle"}
    PROVE  Sleepers' = Sleepers
  BY DEF Sleepers, TypeOK

-----------------------------------------------------------------------------
(* The invariant and the abstract step, action by action. *)

\* What an action does to the permits that are left.
LEMMA AvailableFacts ==
    ASSUME Inv
    PROVE  /\ Available \in Nat
           /\ Available = (IF count > 0 THEN count ELSE 0) + sema + owed
  BY SleepersFinite DEF Inv, TypeOK, PostsMatchSleepers, Available

\* A wait begins.
LEMMA WaitStep ==
    ASSUME Inv, NEW t \in Waiter, Wait(t)
    PROVE  Inv' /\ Counting!Begin(t)
<1>1. Sleepers' = Sleepers
  BY SameSleepers DEF Inv, Wait, Sleepers
<1>2. TypeOK'
  <2>1. timed' \in [Waiter -> BOOLEAN]
    BY DEF Inv, TypeOK, Wait
  <2>2. max' \in [Waiter -> 1 .. MaxWant]
    BY DEF Inv, TypeOK, Wait
  <2> QED
    BY <2>1, <2>2, ConstantsAssumption DEF Inv, TypeOK, Wait
<1>3. GotInv'
  BY DEF Inv, TypeOK, GotInv, Wait
<1>4. PostsMatchSleepers' /\ Available' = Available
  BY <1>1 DEF Inv, PostsMatchSleepers, Available, Wait
<1> QED
  BY <1>2, <1>3, <1>4 DEF Inv, Wait, Counting!Begin

\* The counter is positive: the wait takes what it asks for, or all there is.
LEMMA SpinStep ==
    ASSUME Inv, NEW t \in Waiter, Spin(t)
    PROVE  Inv' /\ Counting!Acquire(t)
<1>1. count \in Int /\ max[t] \in 1 .. MaxWant /\ got[t] = 0 /\ MaxWant \in Nat
  BY ConstantsAssumption DEF Inv, TypeOK, GotInv, Spin
<1>2. Sleepers' = Sleepers
  BY SameSleepers DEF Inv, Spin, Sleepers
<1>3. count > 0 /\ count' \in Nat /\ count' < count /\ count - count' \in 1 .. max[t]
  BY <1>1 DEF Spin, Rest
<1>4. TypeOK' /\ GotInv'
  BY <1>1, <1>3 DEF Inv, TypeOK, GotInv, Spin
<1>5. PostsMatchSleepers'
  BY <1>1, <1>2, <1>3 DEF Inv, PostsMatchSleepers, Spin
<1>6. Available' = Available - (count - count')
  BY <1>1, <1>2, <1>3, SleepersFinite DEF Available
<1>7. Available' \in Nat /\ Available' < Available /\ Available - Available' = count - count'
  BY <1>1, <1>3, <1>6, AvailableFacts DEF Inv, TypeOK
<1>8. got' = [got EXCEPT ![t] = @ + (Available - Available')]
  <2>1. got' = [got EXCEPT ![t] = count - count']
    BY DEF Spin
  <2>2. got[t] + (Available - Available') = count - count'
    BY <1>1, <1>3, <1>7
  <2> QED
    BY <2>1, <2>2
<1> QED
  BY <1>4, <1>5, <1>7, <1>8 DEF Inv, Spin, Counting!Acquire

\* The thread takes a permit, or a place among the sleepers.
LEMMA FetchSubStep ==
    ASSUME Inv, NEW t \in Waiter, FetchSub(t)
    PROVE  Inv' /\ (Counting!Acquire(t) \/ UNCHANGED <<made, Available, got>>)
<1>1. count \in Int /\ got[t] = 0 /\ MaxWant \in Nat \ {0} /\ t \notin Sleepers
  BY ConstantsAssumption DEF Inv, TypeOK, GotInv, FetchSub, Sleepers
<1>2. CASE count > 0
  <2>1. Sleepers' = Sleepers
    BY <1>1, <1>2, SameSleepers DEF Inv, FetchSub
  <2>2. TypeOK' /\ GotInv'
    BY <1>1, <1>2 DEF Inv, TypeOK, GotInv, FetchSub
  <2>3. PostsMatchSleepers'
    BY <1>1, <1>2, <2>1 DEF Inv, PostsMatchSleepers, FetchSub
  <2>4. Available' = Available - 1 /\ Available' \in Nat /\ Available \in Nat
    BY <1>1, <1>2, <2>1, SleepersFinite, AvailableFacts DEF Inv, TypeOK, Available, FetchSub
  <2>5. got' = [got EXCEPT ![t] = @ + (Available - Available')]
    BY <1>1, <1>2, <2>4 DEF FetchSub
  <2> QED
    BY <2>2, <2>3, <2>4, <2>5 DEF Inv, FetchSub, Counting!Acquire
<1>3. CASE ~(count > 0)
  <2>1. Cardinality(Sleepers') = Cardinality(Sleepers) + 1
    BY <1>1, <1>3, OneMore DEF Inv, FetchSub
  <2>2. TypeOK' /\ GotInv'
    BY <1>1, <1>3 DEF Inv, TypeOK, GotInv, FetchSub
  <2>3. PostsMatchSleepers'
    BY <1>1, <1>3, <2>1 DEF Inv, TypeOK, PostsMatchSleepers, FetchSub
  <2>4. Available' = Available
    BY <1>1, <1>3, <2>1, SleepersFinite DEF Available, FetchSub
  <2> QED
    BY <1>3, <2>2, <2>3, <2>4 DEF Inv, FetchSub
<1> QED
  BY <1>2, <1>3

\* A sleeper takes a kernel signal, from its sleep or from the loop after a timeout.
LEMMA SignalTaken ==
    ASSUME Inv, NEW t \in Waiter, t \in Sleepers, sema > 0, sema' = sema - 1,
           got' = [got EXCEPT ![t] = 1], pc' = [pc EXCEPT ![t] = "more"],
           UNCHANGED <<count, max, timed, old, made, owed>>
    PROVE  Inv' /\ Counting!Acquire(t)
<1>1. count \in Int /\ sema \in Nat /\ got[t] = 0 /\ MaxWant \in Nat \ {0}
  BY ConstantsAssumption DEF Inv, TypeOK, GotInv, Sleepers
<1>2. Cardinality(Sleepers') = Cardinality(Sleepers) - 1
  BY OneLess DEF Inv
<1>3. TypeOK' /\ GotInv'
  BY <1>1 DEF Inv, TypeOK, GotInv
<1>4. PostsMatchSleepers'
  BY <1>1, <1>2, SleepersFinite DEF Inv, TypeOK, PostsMatchSleepers
<1>5. /\ Available' = Available - 1 /\ Available' < Available
      /\ Available' \in Nat /\ Available \in Nat
  BY <1>1, <1>2, SleepersFinite, AvailableFacts DEF Inv, TypeOK, Available
<1>6. got' = [got EXCEPT ![t] = @ + (Available - Available')]
  BY <1>1, <1>5
<1> QED
  BY <1>3, <1>4, <1>5, <1>6 DEF Inv, Counting!Acquire

\* The time is over, or the loop after it goes on.
LEMMA StillSleeping ==
    ASSUME Inv, NEW t \in Waiter, t \in Sleepers, NEW p \in {"load", "settle"},
           pc' = [pc EXCEPT ![t] = p], old' \in [Waiter -> Int],
           UNCHANGED <<count, sema, max, timed, got, made, owed>>
    PROVE  Inv' /\ UNCHANGED <<made, Available, got>>
<1>1. Sleepers' = Sleepers
  BY SameSleepers DEF Inv
<1>2. TypeOK' /\ GotInv'
  BY DEF Inv, TypeOK, GotInv, Sleepers
<1>3. PostsMatchSleepers' /\ Available' = Available
  BY <1>1 DEF Inv, PostsMatchSleepers, Available
<1> QED
  BY <1>2, <1>3 DEF Inv

\* After a timeout: the signal that was given meanwhile, the place back, or again.
LEMMA SettleStep ==
    ASSUME Inv, NEW t \in Waiter, Settle(t)
    PROVE  Inv' /\ (Counting!Acquire(t) \/ UNCHANGED <<made, Available, got>>)
<1>1. count \in Int /\ sema \in Nat /\ old[t] \in Int /\ t \in Sleepers
  BY DEF Inv, TypeOK, Settle, Sleepers
<1>2. CASE sema > 0 /\ sema' = sema - 1 /\ got' = [got EXCEPT ![t] = 1]
           /\ pc' = [pc EXCEPT ![t] = "more"] /\ UNCHANGED count
  BY <1>1, <1>2, SignalTaken DEF Settle
<1>3. CASE old[t] < 0 /\ count = old[t] /\ count' = old[t] + 1
           /\ pc' = [pc EXCEPT ![t] = "idle"] /\ UNCHANGED <<sema, got>>
  <2>1. Cardinality(Sleepers') = Cardinality(Sleepers) - 1
    BY <1>1, <1>3, OneLess DEF Inv
  <2>2. TypeOK' /\ GotInv'
    BY <1>1, <1>3 DEF Inv, TypeOK, GotInv, Settle
  <2>3. PostsMatchSleepers'
    BY <1>1, <1>3, <2>1, SleepersFinite DEF Inv, TypeOK, PostsMatchSleepers, Settle
  <2>4. Available' = Available
    BY <1>1, <1>3, <2>1, SleepersFinite DEF Available
  <2> QED
    BY <1>3, <2>2, <2>3, <2>4 DEF Inv, Settle
<1>4. CASE pc' = [pc EXCEPT ![t] = "load"] /\ UNCHANGED <<count, sema, got>>
  BY <1>1, <1>4, StillSleeping DEF Settle, Inv, TypeOK
<1> QED
  BY <1>2, <1>3, <1>4 DEF Settle

\* tryWaitMany(max - 1), for what else there is.
LEMMA MoreStep ==
    ASSUME Inv, NEW t \in Waiter, More(t)
    PROVE  Inv' /\ (Counting!Acquire(t) \/ UNCHANGED <<made, Available, got>>)
<1>1. count \in Int /\ max[t] \in 1 .. MaxWant /\ got[t] = 1 /\ MaxWant \in Nat
  BY ConstantsAssumption DEF Inv, TypeOK, GotInv, More
<1>2. Sleepers' = Sleepers
  BY SameSleepers DEF Inv, More, Sleepers
<1>3. CASE max[t] > 1 /\ count > 0
  <2>1. count' \in Nat /\ count' < count /\ count - count' \in 1 .. max[t] - 1
    BY <1>1, <1>3 DEF More, Rest
  <2>2. got' = [got EXCEPT ![t] = 1 + count - count'] /\ 1 + count - count' \in 1 .. MaxWant
    <3>1. got' = [got EXCEPT ![t] = 1 + count - count']
      BY <1>3 DEF More
    <3>2. 1 + count - count' \in 1 .. MaxWant
      BY <1>1, <2>1
    <3> QED
      BY <3>1, <3>2
  <2>3. TypeOK' /\ GotInv'
    BY <1>1, <1>3, <2>1, <2>2 DEF Inv, TypeOK, GotInv, More
  <2>4. PostsMatchSleepers'
    BY <1>1, <1>2, <1>3, <2>1 DEF Inv, PostsMatchSleepers, More
  <2>5. Available' = Available - (count - count')
    BY <1>1, <1>2, <2>1, SleepersFinite DEF Available
  <2>6. Available' \in Nat /\ Available' < Available /\ Available - Available' = count - count'
    BY <1>1, <1>3, <2>1, <2>5, AvailableFacts DEF Inv, TypeOK
  <2>7. got' = [got EXCEPT ![t] = @ + (Available - Available')]
    BY <1>1, <2>1, <2>2, <2>6
  <2> QED
    BY <2>3, <2>4, <2>6, <2>7 DEF Inv, More, Counting!Acquire
<1>4. CASE ~(max[t] > 1 /\ count > 0)
  <2>1. UNCHANGED <<count, sema, owed, got, made>>
    BY <1>4 DEF More
  <2>2. TypeOK' /\ GotInv'
    BY <2>1 DEF Inv, TypeOK, GotInv, More
  <2>3. PostsMatchSleepers' /\ Available' = Available
    BY <1>2, <2>1 DEF Inv, PostsMatchSleepers, Available
  <2> QED
    BY <2>1, <2>2, <2>3 DEF Inv
<1> QED
  BY <1>3, <1>4

\* A signal makes permits, and owes the sleepers their posts.
LEMMA SignalStep ==
    ASSUME Inv, NEW n \in 1 .. MaxSignal, Signal(n)
    PROVE  Inv' /\ Counting!Signal
<1>1. n \in Nat /\ n > 0 /\ count \in Int /\ owed \in Nat /\ made \in Nat
  BY ConstantsAssumption DEF Inv, TypeOK
<1>2. Sleepers' = Sleepers
  BY DEF Signal, Sleepers
<1>3. TypeOK' /\ GotInv'
  BY <1>1, ToReleaseFacts, ConstantsAssumption DEF Inv, TypeOK, GotInv, Signal
<1>4. PostsMatchSleepers'
  <2>1. /\ ToRelease(n) \in Nat
        /\ ToRelease(n) + (IF count + n < 0 THEN -(count + n) ELSE 0)
             = IF count < 0 THEN -count ELSE 0
    BY <1>1, ToReleaseFacts
  <2>2. count' = count + n /\ owed' = owed + ToRelease(n) /\ sema' = sema /\ sema \in Nat
    BY DEF Inv, TypeOK, Signal
  <2>3. Cardinality(Sleepers) = sema + owed + (IF count < 0 THEN -count ELSE 0)
    BY DEF Inv, PostsMatchSleepers
  <2> QED
    BY <1>1, <1>2, <2>1, <2>2, <2>3 DEF PostsMatchSleepers
<1>5. Available' = Available + (made' - made) /\ made' \in Nat /\ made' > made
  BY <1>1, <1>2, SleepersFinite DEF Available, Signal
<1> QED
  BY <1>3, <1>4, <1>5 DEF Inv, Signal, Counting!Signal

\* A post that is owed is made.
LEMMA PostStep ==
    ASSUME Inv, Post
    PROVE  Inv' /\ UNCHANGED <<made, Available, got>>
<1>1. Sleepers' = Sleepers
  BY DEF Post, Sleepers
<1>2. TypeOK' /\ GotInv'
  BY DEF Inv, TypeOK, GotInv, Post
<1>3. PostsMatchSleepers' /\ Available' = Available
  BY <1>1 DEF Inv, TypeOK, PostsMatchSleepers, Available, Post
<1> QED
  BY <1>2, <1>3 DEF Inv, Post

-----------------------------------------------------------------------------
(* The theorems. *)

\* The initial state satisfies the invariant, and nothing is signalled yet.
LEMMA InitInv == Init => Inv /\ Counting!Init
<1> SUFFICES ASSUME Init PROVE Inv /\ Counting!Init
  OBVIOUS
<1>1. Sleepers = {}
  BY DEF Init, Sleepers
<1>2. Cardinality(Sleepers) = 0
  BY <1>1, FS_EmptySet
<1>3. TypeOK /\ GotInv
  BY ConstantsAssumption DEF Init, TypeOK, GotInv
<1> QED
  BY <1>2, <1>3 DEF Init, Inv, PostsMatchSleepers, Available, Counting!Init

\* Every step keeps the invariant and is a step of the counting semaphore, or none.
LEMMA StepInv ==
    Inv /\ [Next]_vars => Inv' /\ [Counting!Next]_(Counting!vars)
<1> SUFFICES ASSUME Inv, [Next]_vars PROVE Inv' /\ [Counting!Next]_(Counting!vars)
  OBVIOUS
<1> USE DEF Counting!Next, Counting!vars
<1>1. CASE UNCHANGED vars
  <2>1. Sleepers' = Sleepers
    BY <1>1 DEF vars, Sleepers
  <2> QED
    BY <1>1, <2>1 DEF vars, Inv, TypeOK, PostsMatchSleepers, GotInv, Available
<1>2. ASSUME NEW t \in Waiter, Wait(t) PROVE Inv' /\ [Counting!Next]_(Counting!vars)
  BY <1>2, WaitStep
<1>3. ASSUME NEW t \in Waiter, Spin(t) PROVE Inv' /\ [Counting!Next]_(Counting!vars)
  BY <1>3, SpinStep
<1>4. ASSUME NEW t \in Waiter, FetchSub(t) PROVE Inv' /\ [Counting!Next]_(Counting!vars)
  BY <1>4, FetchSubStep
<1>5. ASSUME NEW t \in Waiter, Wake(t) PROVE Inv' /\ [Counting!Next]_(Counting!vars)
  BY <1>5, SignalTaken DEF Wake, Sleepers
<1>6. ASSUME NEW t \in Waiter, Timeout(t) PROVE Inv' /\ [Counting!Next]_(Counting!vars)
  BY <1>6, StillSleeping DEF Timeout, Sleepers, Inv, TypeOK
<1>7. ASSUME NEW t \in Waiter, Load(t) PROVE Inv' /\ [Counting!Next]_(Counting!vars)
  BY <1>7, StillSleeping DEF Load, Sleepers, Inv, TypeOK
<1>8. ASSUME NEW t \in Waiter, Settle(t) PROVE Inv' /\ [Counting!Next]_(Counting!vars)
  BY <1>8, SettleStep
<1>9. ASSUME NEW t \in Waiter, More(t) PROVE Inv' /\ [Counting!Next]_(Counting!vars)
  BY <1>9, MoreStep
<1>10. ASSUME NEW n \in 1 .. MaxSignal, Signal(n)
       PROVE  Inv' /\ [Counting!Next]_(Counting!vars)
  BY <1>10, SignalStep
<1>11. CASE Post
  BY <1>11, PostStep
<1> QED
  BY <1>1, <1>2, <1>3, <1>4, <1>5, <1>6, <1>7, <1>8, <1>9, <1>10, <1>11 DEF Next

\* The counter, the kernel semaphore and the posts that are owed account for every
\* sleeper.
THEOREM PostsTheorem == Spec => []PostsMatchSleepers
<1>1. Inv => PostsMatchSleepers
  BY DEF Inv
<1> QED
  BY <1>1, InitInv, StepInv, PTL DEF Spec

\* No wakeup is lost: sleepers without a kernel signal, given or owed, have no permit.
THEOREM NoLostWakeupTheorem == Spec => []NoLostWakeup
<1>1. ASSUME Inv PROVE NoLostWakeup
  <2> SUFFICES ASSUME sema = 0, owed = 0, Sleepers # {} PROVE Available = 0
    BY DEF NoLostWakeup
  <2>1. Cardinality(Sleepers) # 0
    BY SleepersFinite, FS_EmptySet
  <2> QED
    BY <1>1, <2>1, SleepersFinite DEF Inv, TypeOK, PostsMatchSleepers, Available
<1> QED
  BY <1>1, InitInv, StepInv, PTL DEF Spec

\* LightweightSemaphore, with its fast path, its timeouts and the posts that come later
\* than the counter, implements the counting semaphore.
THEOREM SemaphoreTheorem == Spec => IsSemaphore
<1> QED
  BY InitInv, StepInv, PTL DEF Spec, IsSemaphore, Counting!Spec
=============================================================================
