--------------------------- MODULE MCQueues ---------------------------------
(***************************************************************************)
(* The queues between the threads of a server, side by side: the counting  *)
(* semaphore with its fast path, the bounded blocking queue, the unbounded *)
(* concurrent queue (an index that is outgrown; one outgrown when its ring *)
(* has turned; calls for several elements; too few blocks; two producers   *)
(* that share the blocks), its blocking form, and the free list of its     *)
(* blocks (three blocks; one that three threads refer to). A behaviour is  *)
(* about one of them, and leaves LightweightSemaphore in its initial state *)
(* when it is not about that.                                              *)
(***************************************************************************)
EXTENDS LightweightSemaphore, Sequences, TLC

CONSTANTS
    Pair, Triple,   \* threads or blocks
    Null

Symmetry == Permutations(Pair) \cup Permutations(Triple)

VARIABLES
    part,   \* which of them the behaviour is about
    head, tail, turn, storage, permits, ppc, pticket, pushed, cpc, cticket, due,
    popped, taken, tailIndex, headIndex, dequeueOptimisticCount, dequeueOvercommit,
    headers, entries, tailBlock, making, cell, dequeued, free, taking, qGot, qSema,
    qOwed, freeListHead, freeListRefs, freeListNext, fPc, prevHead, refs, next, node,
    back

B == INSTANCE BlockingQueue WITH Producer <- {1, 2}, Consumer <- Pair, Capacity <- 2,
         MaxPush <- 3, MaxBulk <- 2
I == INSTANCE ConcurrentQueue WITH Producer <- {1}, Consumer <- Pair, Block <- Triple,
         BlockSize <- 2, IndexSize <- 1, MaxIndexSize <- 2, MaxItems <- 3, MaxBulk <- 1,
         MaxOvercommit <- 1, got <- qGot
R == INSTANCE ConcurrentQueue WITH Producer <- {1}, Consumer <- {1}, Block <- Triple,
         BlockSize <- 2, IndexSize <- 2, MaxIndexSize <- 4, MaxItems <- 9, MaxBulk <- 1,
         MaxOvercommit <- 1, got <- qGot
K == INSTANCE ConcurrentQueue WITH Producer <- {1}, Consumer <- Pair, Block <- Triple,
         BlockSize <- 2, IndexSize <- 2, MaxIndexSize <- 2, MaxItems <- 3, MaxBulk <- 2,
         MaxOvercommit <- 1, got <- qGot
C == INSTANCE ConcurrentQueue WITH Producer <- {1}, Consumer <- {1}, Block <- {1, 2},
         BlockSize <- 2, IndexSize <- 2, MaxIndexSize <- 2, MaxItems <- 5, MaxBulk <- 3,
         MaxOvercommit <- 1, got <- qGot
T == INSTANCE ConcurrentQueue WITH Producer <- Pair, Consumer <- {1}, Block <- {1, 2},
         BlockSize <- 2, IndexSize <- 2, MaxIndexSize <- 2, MaxItems <- 3, MaxBulk <- 1,
         MaxOvercommit <- 1, got <- qGot
Q == INSTANCE BlockingConcurrentQueue WITH Producer <- {1}, Consumer <- Pair, Block <- {1, 2},
         BlockSize <- 2, IndexSize <- 2, MaxIndexSize <- 2, MaxItems <- 4, MaxBulk <- 3,
         MaxOvercommit <- 9, got <- qGot, sema <- qSema, owed <- qOwed
F == INSTANCE FreeList WITH Thread <- Pair, Node <- Triple, pc <- fPc
H == INSTANCE FreeList WITH Thread <- Triple, Node <- {1}, pc <- fPc

\* What only BlockingQueue uses; what both it and FreeList use; what ConcurrentQueue
\* uses; what only BlockingConcurrentQueue and only FreeList use.
bounded == <<tail, turn, storage, permits, ppc, pticket, pushed, cpc, cticket, due, popped>>
shared == <<head, taken>>
unbounded ==
    <<tailIndex, headIndex, dequeueOptimisticCount, dequeueOvercommit, headers, entries,
      tailBlock, making, cell, dequeued, free, taking, qGot>>
blocking == <<qSema, qOwed>>
list ==
    <<freeListHead, freeListRefs, freeListNext, fPc, prevHead, refs, next, node, back>>

MCvars == <<part, vars, bounded, shared, unbounded, blocking, list>>

NoBounded ==
    /\ tail = 0 /\ turn = 0 /\ storage = 0 /\ permits = 0 /\ ppc = 0 /\ pticket = 0
    /\ pushed = 0 /\ cpc = 0 /\ cticket = 0 /\ due = 0 /\ popped = 0
NoShared == head = 0 /\ taken = 0
NoUnbounded ==
    /\ tailIndex = 0 /\ headIndex = 0 /\ dequeueOptimisticCount = 0
    /\ dequeueOvercommit = 0 /\ headers = 0 /\ entries = 0 /\ tailBlock = 0
    /\ making = 0 /\ cell = 0 /\ dequeued = 0 /\ free = 0 /\ taking = 0 /\ qGot = 0
NoBlocking == qSema = 0 /\ qOwed = 0
NoList ==
    /\ freeListHead = 0 /\ freeListRefs = 0 /\ freeListNext = 0 /\ fPc = 0
    /\ prevHead = 0 /\ refs = 0 /\ next = 0 /\ node = 0 /\ back = 0

MCInit ==
    /\ Init
    /\ \/ /\ part = "semaphore"
          /\ NoBounded /\ NoShared /\ NoUnbounded /\ NoBlocking /\ NoList
       \/ part = "bounded" /\ B!Init /\ NoUnbounded /\ NoBlocking /\ NoList
       \/ /\ \/ part = "index" /\ I!Init
             \/ part = "turned" /\ R!Init
             \/ part = "bulk" /\ K!Init
             \/ part = "scarce" /\ C!Init
             \/ part = "shared" /\ T!Init
          /\ NoBounded /\ NoShared /\ NoBlocking /\ NoList
       \/ part = "blocking" /\ Q!BInit /\ NoBounded /\ NoShared /\ NoList
       \/ /\ \/ part = "free" /\ F!Init
             \/ part = "held" /\ H!Init
          /\ NoBounded /\ NoUnbounded /\ NoBlocking

\* What stays as it is when the behaviour is about one of the queues.
notBounded == <<part, vars, unbounded, blocking, list>>
notUnbounded == <<part, vars, bounded, shared, blocking, list>>
notList == <<part, vars, bounded, unbounded, blocking>>

MCNext ==
    \/ /\ part = "semaphore" /\ Next
       /\ UNCHANGED <<part, bounded, shared, unbounded, blocking, list>>
    \/ part = "bounded" /\ B!Next /\ UNCHANGED notBounded
    \/ part = "index" /\ I!Next /\ UNCHANGED notUnbounded
    \/ part = "turned" /\ R!Next /\ UNCHANGED notUnbounded
    \/ part = "bulk" /\ K!Next /\ UNCHANGED notUnbounded
    \/ part = "scarce" /\ C!Next /\ UNCHANGED notUnbounded
    \/ part = "shared" /\ T!Next /\ UNCHANGED notUnbounded
    \/ part = "blocking" /\ Q!BNext /\ UNCHANGED <<part, vars, bounded, shared, list>>
    \/ part = "free" /\ F!Next /\ UNCHANGED notList
    \/ part = "held" /\ H!Next /\ UNCHANGED notList
    \/ part = "semaphore" /\ made = MaxPermits /\ UNCHANGED MCvars
    \/ part = "index" /\ tailIndex[1] = 3 /\ UNCHANGED MCvars
    \/ part = "turned" /\ tailIndex[1] = 9 /\ UNCHANGED MCvars
    \/ part = "bulk" /\ tailIndex[1] = 3 /\ UNCHANGED MCvars
    \/ part = "scarce" /\ tailIndex[1] > 2 /\ UNCHANGED MCvars
    \/ part = "shared" /\ (\A p \in Pair : tailIndex[p] > 0) /\ UNCHANGED MCvars
    \/ part = "blocking" /\ tailIndex[1] = 4 /\ UNCHANGED MCvars

MCSpec == MCInit /\ [][MCNext]_MCvars
-----------------------------------------------------------------------------
\* First in, first out: consumers pop the items of a producer from the bounded queue in
\* the order in which it has pushed them, each item once and never an empty or
\* overwritten slot.  No slot is constructed, moved from or destroyed by two threads at
\* a time, and nobody takes a ticket to pop for which nobody will push.
FirstInFirstOut ==
    part = "bounded" =>
        /\ B!TypeOK /\ B!FirstInFirstOut /\ B!PoppedOnce
        /\ B!SlotExclusive /\ B!NoTicketTooMany

\* Every element of the concurrent queue below the head has been moved out by one
\* consumer, once, or is claimed by one, and every element from the head to the tail by
\* none.  Consumers never claim more than has been enqueued, in whatever order they
\* count themselves in and give up (dequeueOptimisticCount, dequeueOvercommit), and get
\* the elements of a producer in order, also in bulk.  A lookup in the index finds the
\* block it is for although the producer may move on, reuse entries or replace the index
\* meanwhile (the assertion of get_block_index_index_for_index); a free block is in no
\* index and no block is in use twice, also after an enqueue_bulk that found no memory.
ExactlyOnce ==
    /\ part = "index" => I!TypeOK /\ I!ExactlyOnce /\ I!HeadBehindTail /\ I!LookupFinds
    /\ part = "bulk" => K!ExactlyOnce /\ K!HeadBehindTail /\ K!CountsSettle /\ K!InOrder
    /\ part = "shared" => T!ExactlyOnce /\ T!BlocksOwned
    /\ part = "scarce" => C!BlocksOwned /\ C!ConstructsInEmpty
    /\ part = "turned" => R!LookupFinds
    /\ part = "blocking" => Q!ExactlyOnce /\ Q!InOrder

\* The elements nobody has claimed are those with a permit in the semaphore, those some
\* consumer has a permit for, and those whose producer has yet to signal: a consumer
\* with a permit never waits for an element in vain.
PermitsMatchElements == part = "blocking" => Q!PermitsMatchElements

\* try_get gives a block of the free list to one thread at a time, though the head can
\* leave the list and return to it between the load and the compare-and-swap (its
\* assertion on the marked node included).  With no call in progress a block is in use or
\* on the list, which has no cycle: the last thread to refer to a block adds it where
\* another one could not.
TakenOnce ==
    /\ part = "free" =>
           F!TypeOK /\ F!TakenOnce /\ F!AssertUnmarked /\ F!NoneLost /\ F!ListEnds
    /\ part = "held" => H!TakenOnce /\ H!AssertUnmarked /\ H!NoneLost /\ H!ListEnds
=============================================================================
