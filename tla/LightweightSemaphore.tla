----------------------- MODULE LightweightSemaphore -------------------------
(***************************************************************************)
(* The semaphore under every blocking queue of the program: an atomic      *)
(* counter that is tried first, and a kernel semaphore for the threads     *)
(* that have to sleep.  A negative counter counts the sleepers.  A wait    *)
(* with a timeout takes its place in the counter back, unless a signal has *)
(* already been posted for it.                                             *)
(*                                                                         *)
(* wait() is a wait for at most one permit; tryWait is the part of a wait  *)
(* before it sleeps, or a wait that gives up.  Any number of threads       *)
(* signal: once the counter is increased they only have to post, so the    *)
(* posts that all of them owe are counted together.                        *)
(***************************************************************************)
EXTENDS Integers, FiniteSets, FiniteSetsExt

CONSTANTS
    Waiter,     \* the threads that wait
    MaxWant,    \* bound: permits a wait asks for
    MaxSignal,  \* bound: permits of one signal
    MaxPermits  \* bound: permits signalled in all

ASSUME ConstantsAssumption ==
    IsFiniteSet(Waiter) /\ MaxWant \in Nat \ {0} /\ MaxSignal \in Nat /\ MaxPermits \in Nat

VARIABLES
    count,      \* m_count
    sema,       \* m_sema, the kernel semaphore
    pc,         \* where each waiter is
    max,        \* how many permits it asks for
    timed,      \* whether its wait has a timeout
    old,        \* oldCount of the loop after a timeout
    got,        \* what its last wait returned
    made,       \* permits signalled so far
    owed        \* toRelease: kernel signals that have still to be posted

vars == <<count, sema, pc, max, timed, old, got, made, owed>>

Init ==
    /\ count = 0
    /\ sema = 0
    /\ pc = [t \in Waiter |-> "idle"]
    /\ max = [t \in Waiter |-> 1]
    /\ timed = [t \in Waiter |-> FALSE]
    /\ old = [t \in Waiter |-> 0]
    /\ got = [t \in Waiter |-> 0]
    /\ made = 0
    /\ owed = 0
-----------------------------------------------------------------------------
(* The waits. *)

\* waitMany(max, timeout) or wait.
Wait(t) ==
    /\ pc[t] = "idle"
    /\ \E n \in 1 .. MaxWant, b \in BOOLEAN :
           /\ max' = [max EXCEPT ![t] = n]
           /\ timed' = [timed EXCEPT ![t] = b]
    /\ pc' = [pc EXCEPT ![t] = "spin"]
    /\ got' = [got EXCEPT ![t] = 0]
    /\ UNCHANGED <<count, sema, old, made, owed>>

\* What is left of the counter when up to n permits are taken.
Rest(n) == IF count > n THEN count - n ELSE 0

\* tryWait, tryWaitMany and the spinning: the counter is positive, and the
\* compare-and-exchange succeeds.
Spin(t) ==
    /\ pc[t] = "spin"
    /\ count > 0
    /\ count' = Rest(max[t])
    /\ got' = [got EXCEPT ![t] = count - count']
    /\ pc' = [pc EXCEPT ![t] = "idle"]
    /\ UNCHANGED <<sema, max, timed, old, made, owed>>

\* The spinning has ended without success (or has not begun): the thread takes a
\* permit, or a place among the sleepers.
FetchSub(t) ==
    /\ pc[t] = "spin"
    /\ count' = count - 1
    /\ IF count > 0
       THEN /\ pc' = [pc EXCEPT ![t] = "more"]
            /\ got' = [got EXCEPT ![t] = 1]
       ELSE /\ pc' = [pc EXCEPT ![t] = "sleep"]
            /\ UNCHANGED got
    /\ UNCHANGED <<sema, max, timed, old, made, owed>>

\* sem_wait, sem_timedwait: a kernel signal is there.
Wake(t) ==
    /\ pc[t] = "sleep"
    /\ sema > 0
    /\ sema' = sema - 1
    /\ got' = [got EXCEPT ![t] = 1]
    /\ pc' = [pc EXCEPT ![t] = "more"]
    /\ UNCHANGED <<count, max, timed, old, made, owed>>

\* sem_timedwait: the time is over.
Timeout(t) ==
    /\ pc[t] = "sleep"
    /\ timed[t]
    /\ pc' = [pc EXCEPT ![t] = "load"]
    /\ UNCHANGED <<count, sema, max, timed, old, got, made, owed>>

\* The loop after a timeout reads the counter ...
Load(t) ==
    /\ pc[t] = "load"
    /\ old' = [old EXCEPT ![t] = count]
    /\ pc' = [pc EXCEPT ![t] = "settle"]
    /\ UNCHANGED <<count, sema, max, timed, got, made, owed>>

\* Mutant of Settle: the place is taken back without a look at the counter.
SettleBlindly(t) ==
    /\ pc[t] = "settle"
    /\ count' = count + 1
    /\ pc' = [pc EXCEPT ![t] = "idle"]
    /\ UNCHANGED <<sema, max, timed, old, got, made, owed>>
\* ... and takes the kernel signal that has been given for this thread, or gives
\* back its place; if neither succeeds, the loop goes on.
Settle(t) ==
    /\ pc[t] = "settle"
    /\ \/ /\ old[t] >= 0 /\ sema > 0
          /\ sema' = sema - 1
          /\ got' = [got EXCEPT ![t] = 1]
          /\ pc' = [pc EXCEPT ![t] = "more"]
          /\ UNCHANGED count
       \/ /\ old[t] < 0 /\ count = old[t]
          /\ count' = old[t] + 1
          /\ pc' = [pc EXCEPT ![t] = "idle"]
          /\ UNCHANGED <<sema, got>>
       \/ /\ IF old[t] >= 0 THEN sema = 0 ELSE count # old[t]
          /\ pc' = [pc EXCEPT ![t] = "load"]
          /\ UNCHANGED <<count, sema, got>>
    /\ UNCHANGED <<max, timed, old, made, owed>>

\* The end of waitManyWithPartialSpinning: tryWaitMany(max - 1).
More(t) ==
    /\ pc[t] = "more"
    /\ IF max[t] > 1 /\ count > 0
       THEN /\ count' = Rest(max[t] - 1)
            /\ got' = [got EXCEPT ![t] = 1 + count - count']
       ELSE UNCHANGED <<count, got>>
    /\ pc' = [pc EXCEPT ![t] = "idle"]
    /\ UNCHANGED <<sema, max, timed, old, made, owed>>
-----------------------------------------------------------------------------
(* signal(n). *)

\* Mutant of ToRelease: a signal is posted only for the sleepers that are there
\* when the counter becomes positive.
ToReleaseLate(n) == IF count < 0 /\ count + n >= 0 THEN -count ELSE 0
\* Kernel signals to give: one for each sleeper, at most n.
ToRelease(n) == IF -count < n THEN Max({-count, 0}) ELSE n

\* The counter is increased first ...
Signal(n) ==
    /\ made + n <= MaxPermits
    /\ made' = made + n
    /\ count' = count + n
    /\ owed' = owed + ToRelease(n)
    /\ UNCHANGED <<sema, pc, max, timed, old, got>>

\* ... then the kernel semaphore is posted, once for each.
Post ==
    /\ owed > 0
    /\ sema' = sema + 1
    /\ owed' = owed - 1
    /\ UNCHANGED <<count, pc, max, timed, old, got, made>>
-----------------------------------------------------------------------------
Next ==
    \/ \E t \in Waiter :
           \/ Wait(t) \/ Spin(t) \/ FetchSub(t) \/ Wake(t) \/ Timeout(t)
           \/ Load(t) \/ Settle(t) \/ More(t)
    \/ \E n \in 1 .. MaxSignal : Signal(n)
    \/ Post

Spec == Init /\ [][Next]_vars

-----------------------------------------------------------------------------
\* The threads that have a place in the counter and no permit.
Sleepers == {t \in Waiter : pc[t] \in {"sleep", "load", "settle"}}

\* Permits that have been signalled and not taken.
Available == count + Cardinality(Sleepers)

\* Type invariant.
TypeOK ==
    /\ count \in Int /\ sema \in Nat /\ owed \in Nat
    /\ pc \in [Waiter -> {"idle", "spin", "sleep", "load", "settle", "more"}]
    /\ max \in [Waiter -> 1 .. MaxWant]
    /\ timed \in [Waiter -> BOOLEAN]
    /\ old \in [Waiter -> Int]
    /\ got \in [Waiter -> 0 .. MaxWant]
    /\ made \in 0 .. MaxPermits

\* A negative counter, the kernel semaphore and the posts that are owed make up for
\* the sleepers, one each: no post is lost or made twice, whatever the timeouts.
PostsMatchSleepers ==
    Cardinality(Sleepers) = sema + owed + (IF count < 0 THEN -count ELSE 0)

\* Nobody sleeps in LightweightSemaphore while there is a permit: when all posts are
\* made and no thread is about to take one, sleepers without a kernel signal have no
\* permit.
NoLostWakeup ==
    (sema = 0 /\ owed = 0 /\ Sleepers # {}) => Available = 0

\* What the semaphore is for its users.
Counting == INSTANCE CountingSemaphore WITH permits <- Available

\* LightweightSemaphore behaves as a counting semaphore: what a wait returns is what it
\* takes from the permits that were signalled, and a wait that gives up takes none.
IsSemaphore == Counting!Spec
=============================================================================
