----------------------- MODULE BlockingConcurrentQueue ----------------------
(***************************************************************************)
(* The queue on whose elements consumers wait: the concurrent queue and a  *)
(* semaphore.  A producer enqueues and then signals; a consumer takes      *)
(* permits first and then tries until it has dequeued as many elements.    *)
(* The semaphore is its count of permits: module LightweightSemaphore      *)
(* shows that the code's one is no more than that.                         *)
(***************************************************************************)
EXTENDS ConcurrentQueue

VARIABLES
    sema,       \* the permits there are
    owed        \* the elements each consumer has permits for and has not got

BInit ==
    /\ Init
    /\ sema = 0
    /\ owed = [c \in Consumer |-> 0]

\* Mutant: one permit for a call, whatever it enqueued.
SignalledOne(p) == 1

\* What a producer signals after its call: one permit for each element.
Signalled(p) == making[p].count

\* inner.enqueue or enqueue_bulk has returned; nothing is signalled if it failed.
Signal(p) ==
    /\ Enqueued(p)
    /\ sema' = sema + Signalled(p)
    /\ UNCHANGED owed

\* Mutant: it is taken to have got all n.
PermitsAll(n) == n

\* What a wait for up to n permits gets: waitMany and tryWaitMany take what there is.
Permits(n) == Lesser(sema, n)

\* The calls of a consumer begin by waiting for a permit, or with a timed or
\* a try call that gets one.  One that gets none changes nothing.
Wait(c, n) ==
    /\ At(c, "idle") /\ owed[c] = 0
    /\ sema > 0
    /\ owed' = [owed EXCEPT ![c] = Permits(n)]
    /\ sema' = sema - Permits(n)
    /\ UNCHANGED vars

\* The loop around inner.try_dequeue, and that around inner.try_dequeue_bulk.
\* Both end once the permits are used.
Retry(c) ==
    /\ owed[c] > 0
    /\ \/ owed[c] = 1 /\ TryDequeue(c)
       \/ TryDequeueBulk(c, owed[c])
    /\ UNCHANGED <<sema, owed>>

Served(c) ==
    /\ Dequeued(c)
    /\ owed' = [owed EXCEPT ![c] = @ - taking[c].have]
    /\ UNCHANGED sema

BEnqueue(p, n) == Enqueue(p, n) /\ UNCHANGED <<sema, owed>>

BEnqueueStep(p) == EnqueueStep(p) /\ UNCHANGED <<sema, owed>>

BDequeueStep(c) == DequeueStep(c) /\ UNCHANGED <<sema, owed>>

BNext ==
    \/ \E p \in Producer :
        \/ \E n \in 1 .. MaxBulk : BEnqueue(p, n)
        \/ BEnqueueStep(p)
        \/ Signal(p)
    \/ \E c \in Consumer :
        \/ \E n \in 1 .. MaxBulk : Wait(c, n)
        \/ Retry(c)
        \/ BDequeueStep(c)
        \/ Served(c)

-----------------------------------------------------------------------------
\* The elements nobody has claimed are those with a permit in the semaphore,
\* those some consumer has a permit for, and those whose producer has yet to
\* signal: a consumer with a permit never waits for an element in vain.
PermitsMatchElements ==
    LET unclaimed == MapThenSumSet(LAMBDA p : tailIndex[p] - headIndex[p], Producer)
        held == MapThenSumSet(LAMBDA c : owed[c] - taking[c].have, Consumer)
        unsignalled ==
            MapThenSumSet(LAMBDA p : IF Making(p, "done") THEN making[p].count ELSE 0, Producer)
    IN  unclaimed = sema + held + unsignalled

=============================================================================
