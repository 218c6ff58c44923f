--------------------------- MODULE MCDeliveryLiveness -----------------------
(***************************************************************************)
(* What is delivered in the end, side by side: the messages of the         *)
(* consensus control block, the batches of the epoch service, the permits  *)
(* of the semaphore, the items of the bounded and of the concurrent queue, *)
(* and the transactions of a user, in instances small enough for temporal  *)
(* properties.                                                             *)
(***************************************************************************)
EXTENDS Integers, Sequences

CONSTANT Null

VARIABLES
    part,   \* which of them the behaviour is about
    txs, done, rpc, repoch, got, pending, resent, log, applied, latest, voters,
    firstInvalid, approve, passed, failed, current, seen, sent, snapshot, restarts,
    batches, asked, reply, queue, proxyEpoch, count, sema, pc, max, timed, old,
    made, owed, head, tail, turn, storage, permits, ppc, pticket, pushed, cpc,
    cticket, due, popped, taken, tailIndex, headIndex, dequeueOptimisticCount,
    dequeueOvercommit, headers, entries, tailBlock, making, cell, dequeued, free,
    taking, next, ticks, flying, blocks, finish, tip, height, txMap, committed,
    aborted, unknown

vars ==
    <<part, txs, done, rpc, repoch, got, pending, resent, log, applied, latest,
      voters, firstInvalid, approve, passed, failed, current, seen, sent, snapshot,
      restarts, batches, asked, reply, queue, proxyEpoch, count, sema, pc, max,
      timed, old, made, owed, head, tail, turn, storage, permits, ppc, pticket,
      pushed, cpc, cticket, due, popped, taken, tailIndex, headIndex,
      dequeueOptimisticCount, dequeueOvercommit, headers, entries, tailBlock,
      making, cell, dequeued, free, taking, next, ticks, flying, blocks, finish,
      tip, height, txMap, committed, aborted, unknown>>

V == INSTANCE ConsensusControlBlock WITH Server <- {1, 2}, Observer <- {1}, Busy <- {},
         LastEpoch <- 2, Pool <- 2, MaxResend <- 1, Suspect <- {}, Watcher <- {},
         Faulty <- {}
E == INSTANCE EpochService WITH Server <- {1, 2}, Used <- 2, Receiver <- {1, 2},
         MaxBatch <- 3, QueueSize <- 1, LastEpoch <- 2, Pool <- 1, MaxResend <- 0,
         MaxRestart <- 0, Snapshots <- {1, 2}
S == INSTANCE LightweightSemaphore WITH Waiter <- {1, 2}, MaxWant <- 2, MaxSignal <- 2, MaxPermits <- 2
B == INSTANCE BlockingQueue WITH Producer <- {1, 2}, Consumer <- {1, 2}, Capacity <- 2,
         MaxPush <- 2, MaxBulk <- 2
Q == INSTANCE BlockingConcurrentQueue WITH Producer <- {1, 2}, Consumer <- {1, 2}, Block <- {1, 2}, BlockSize <- 2,
         IndexSize <- 2, MaxIndexSize <- 2, MaxItems <- 1, MaxBulk <- 2, MaxOvercommit <- 9
U == INSTANCE UserClient WITH Clients <- {1}, TotalOp <- 2, Lossy <- FALSE

\* What ConsensusControlBlock does not use.
noConsensusControlBlock ==
    <<current, seen, sent, snapshot, restarts, batches, asked, reply, queue,
      proxyEpoch, count, sema, pc, max, timed, old, made, owed, head, tail, turn,
      storage, permits, ppc, pticket, pushed, cpc, cticket, due, popped, taken,
      tailIndex, headIndex, dequeueOptimisticCount, dequeueOvercommit, headers,
      entries, tailBlock, making, cell, dequeued, free, taking, next, ticks, flying,
      blocks, finish, tip, height, txMap, committed, aborted, unknown>>
\* What EpochService does not use.
noEpochService ==
    <<txs, done, repoch, got, voters, firstInvalid, approve, passed, count,
      sema, pc, max, timed, old, made, owed, head, tail, turn, storage, permits,
      ppc, pticket, pushed, cpc, cticket, due, popped, taken, tailIndex, headIndex,
      dequeueOptimisticCount, dequeueOvercommit, headers, entries, tailBlock,
      making, cell, dequeued, free, taking, next, ticks, flying, blocks, finish,
      tip, height, txMap, committed, aborted, unknown>>
\* What LightweightSemaphore does not use.
noLightweightSemaphore ==
    <<txs, done, rpc, repoch, pending, resent, log, applied, latest, voters,
      firstInvalid, approve, passed, failed, current, seen, sent, snapshot,
      restarts, batches, asked, reply, queue, proxyEpoch, head, tail, turn, storage,
      permits, ppc, pticket, pushed, cpc, cticket, due, popped, taken, tailIndex,
      headIndex, dequeueOptimisticCount, dequeueOvercommit, headers, entries,
      tailBlock, making, cell, dequeued, free, taking, next, ticks, flying, blocks,
      finish, tip, height, txMap, committed, aborted, unknown>>
\* What BlockingQueue does not use.
noBlockingQueue ==
    <<txs, done, rpc, repoch, got, pending, resent, log, applied, latest,
      voters, firstInvalid, approve, passed, failed, current, seen, sent, snapshot,
      restarts, batches, asked, reply, queue, proxyEpoch, count, sema, pc, max,
      timed, old, made, owed, tailIndex, headIndex, dequeueOptimisticCount,
      dequeueOvercommit, headers, entries, tailBlock, making, cell, dequeued, free,
      taking, next, ticks, flying, blocks, finish, tip, height, txMap, committed,
      aborted, unknown>>
\* What BlockingConcurrentQueue does not use.
noBlockingConcurrentQueue ==
    <<txs, done, rpc, repoch, pending, resent, log, applied, latest, voters,
      firstInvalid, approve, passed, failed, current, seen, sent, snapshot,
      restarts, batches, asked, reply, queue, proxyEpoch, count, pc, max, timed,
      old, made, head, tail, turn, storage, permits, ppc, pticket, pushed, cpc,
      cticket, due, popped, taken, next, ticks, flying, blocks, finish, tip, height,
      txMap, committed, aborted, unknown>>
\* What UserClient does not use.
noUserClient ==
    <<txs, done, rpc, repoch, got, resent, log, applied, latest, voters,
      firstInvalid, approve, passed, failed, current, seen, snapshot, restarts,
      batches, asked, reply, queue, proxyEpoch, count, sema, max, timed, old, made,
      owed, head, tail, turn, storage, ppc, pticket, pushed, cpc, cticket, due,
      popped, taken, tailIndex, headIndex, dequeueOptimisticCount,
      dequeueOvercommit, headers, entries, tailBlock, making, cell, dequeued, free,
      taking>>

Init ==
    \/ /\ part = "consensus" /\ V!Init
       /\ current = 0 /\ seen = 0 /\ sent = 0 /\ snapshot = 0 /\ restarts = 0
          /\ batches = 0 /\ asked = 0 /\ reply = 0 /\ queue = 0
          /\ proxyEpoch = 0 /\ count = 0 /\ sema = 0 /\ pc = 0 /\ max = 0
          /\ timed = 0 /\ old = 0 /\ made = 0 /\ owed = 0 /\ head = 0
          /\ tail = 0 /\ turn = 0 /\ storage = 0 /\ permits = 0 /\ ppc = 0
          /\ pticket = 0 /\ pushed = 0 /\ cpc = 0 /\ cticket = 0 /\ due = 0
          /\ popped = 0 /\ taken = 0 /\ tailIndex = 0 /\ headIndex = 0
          /\ dequeueOptimisticCount = 0 /\ dequeueOvercommit = 0 /\ headers = 0
          /\ entries = 0 /\ tailBlock = 0 /\ making = 0 /\ cell = 0
          /\ dequeued = 0 /\ free = 0 /\ taking = 0 /\ next = 0 /\ ticks = 0
          /\ flying = 0 /\ blocks = 0 /\ finish = 0 /\ tip = 0 /\ height = 0
          /\ txMap = 0 /\ committed = 0 /\ aborted = 0 /\ unknown = 0
    \/ /\ part = "service" /\ E!Init
       /\ txs = 0 /\ done = 0 /\ repoch = 0 /\ got = 0 /\ voters = 0
          /\ firstInvalid = 0 /\ approve = 0 /\ passed = 0 /\ count = 0
          /\ sema = 0 /\ pc = 0 /\ max = 0 /\ timed = 0 /\ old = 0 /\ made = 0
          /\ owed = 0 /\ head = 0 /\ tail = 0 /\ turn = 0 /\ storage = 0
          /\ permits = 0 /\ ppc = 0 /\ pticket = 0 /\ pushed = 0 /\ cpc = 0
          /\ cticket = 0 /\ due = 0 /\ popped = 0 /\ taken = 0 /\ tailIndex = 0
          /\ headIndex = 0 /\ dequeueOptimisticCount = 0
          /\ dequeueOvercommit = 0 /\ headers = 0 /\ entries = 0
          /\ tailBlock = 0 /\ making = 0 /\ cell = 0 /\ dequeued = 0 /\ free = 0
          /\ taking = 0 /\ next = 0 /\ ticks = 0 /\ flying = 0 /\ blocks = 0
          /\ finish = 0 /\ tip = 0 /\ height = 0 /\ txMap = 0 /\ committed = 0
          /\ aborted = 0 /\ unknown = 0
    \/ /\ part = "semaphore" /\ S!Init
       /\ txs = 0 /\ done = 0 /\ rpc = 0 /\ repoch = 0 /\ pending = 0
          /\ resent = 0 /\ log = 0 /\ applied = 0 /\ latest = 0 /\ voters = 0
          /\ firstInvalid = 0 /\ approve = 0 /\ passed = 0 /\ failed = 0
          /\ current = 0 /\ seen = 0 /\ sent = 0 /\ snapshot = 0 /\ restarts = 0
          /\ batches = 0 /\ asked = 0 /\ reply = 0 /\ queue = 0
          /\ proxyEpoch = 0 /\ head = 0 /\ tail = 0 /\ turn = 0 /\ storage = 0
          /\ permits = 0 /\ ppc = 0 /\ pticket = 0 /\ pushed = 0 /\ cpc = 0
          /\ cticket = 0 /\ due = 0 /\ popped = 0 /\ taken = 0 /\ tailIndex = 0
          /\ headIndex = 0 /\ dequeueOptimisticCount = 0
          /\ dequeueOvercommit = 0 /\ headers = 0 /\ entries = 0
          /\ tailBlock = 0 /\ making = 0 /\ cell = 0 /\ dequeued = 0 /\ free = 0
          /\ taking = 0 /\ next = 0 /\ ticks = 0 /\ flying = 0 /\ blocks = 0
          /\ finish = 0 /\ tip = 0 /\ height = 0 /\ txMap = 0 /\ committed = 0
          /\ aborted = 0 /\ unknown = 0
    \/ /\ part = "bounded" /\ B!Init
       /\ txs = 0 /\ done = 0 /\ rpc = 0 /\ repoch = 0 /\ got = 0
          /\ pending = 0 /\ resent = 0 /\ log = 0 /\ applied = 0 /\ latest = 0
          /\ voters = 0 /\ firstInvalid = 0 /\ approve = 0 /\ passed = 0
          /\ failed = 0 /\ current = 0 /\ seen = 0 /\ sent = 0 /\ snapshot = 0
          /\ restarts = 0 /\ batches = 0 /\ asked = 0 /\ reply = 0 /\ queue = 0
          /\ proxyEpoch = 0 /\ count = 0 /\ sema = 0 /\ pc = 0 /\ max = 0
          /\ timed = 0 /\ old = 0 /\ made = 0 /\ owed = 0 /\ tailIndex = 0
          /\ headIndex = 0 /\ dequeueOptimisticCount = 0
          /\ dequeueOvercommit = 0 /\ headers = 0 /\ entries = 0
          /\ tailBlock = 0 /\ making = 0 /\ cell = 0 /\ dequeued = 0 /\ free = 0
          /\ taking = 0 /\ next = 0 /\ ticks = 0 /\ flying = 0 /\ blocks = 0
          /\ finish = 0 /\ tip = 0 /\ height = 0 /\ txMap = 0 /\ committed = 0
          /\ aborted = 0 /\ unknown = 0
    \/ /\ part = "blocking" /\ Q!BInit
       /\ txs = 0 /\ done = 0 /\ rpc = 0 /\ repoch = 0 /\ pending = 0
          /\ resent = 0 /\ log = 0 /\ applied = 0 /\ latest = 0 /\ voters = 0
          /\ firstInvalid = 0 /\ approve = 0 /\ passed = 0 /\ failed = 0
          /\ current = 0 /\ seen = 0 /\ sent = 0 /\ snapshot = 0 /\ restarts = 0
          /\ batches = 0 /\ asked = 0 /\ reply = 0 /\ queue = 0
          /\ proxyEpoch = 0 /\ count = 0 /\ pc = 0 /\ max = 0 /\ timed = 0
          /\ old = 0 /\ made = 0 /\ head = 0 /\ tail = 0 /\ turn = 0
          /\ storage = 0 /\ permits = 0 /\ ppc = 0 /\ pticket = 0 /\ pushed = 0
          /\ cpc = 0 /\ cticket = 0 /\ due = 0 /\ popped = 0 /\ taken = 0
          /\ next = 0 /\ ticks = 0 /\ flying = 0 /\ blocks = 0 /\ finish = 0
          /\ tip = 0 /\ height = 0 /\ txMap = 0 /\ committed = 0 /\ aborted = 0
          /\ unknown = 0
    \/ /\ part = "user" /\ U!Init
       /\ txs = 0 /\ done = 0 /\ rpc = 0 /\ repoch = 0 /\ got = 0
          /\ resent = 0 /\ log = 0 /\ applied = 0 /\ latest = 0 /\ voters = 0
          /\ firstInvalid = 0 /\ approve = 0 /\ passed = 0 /\ failed = 0
          /\ current = 0 /\ seen = 0 /\ snapshot = 0 /\ restarts = 0
          /\ batches = 0 /\ asked = 0 /\ reply = 0 /\ queue = 0
          /\ proxyEpoch = 0 /\ count = 0 /\ sema = 0 /\ max = 0 /\ timed = 0
          /\ old = 0 /\ made = 0 /\ owed = 0 /\ head = 0 /\ tail = 0 /\ turn = 0
          /\ storage = 0 /\ ppc = 0 /\ pticket = 0 /\ pushed = 0 /\ cpc = 0
          /\ cticket = 0 /\ due = 0 /\ popped = 0 /\ taken = 0 /\ tailIndex = 0
          /\ headIndex = 0 /\ dequeueOptimisticCount = 0
          /\ dequeueOvercommit = 0 /\ headers = 0 /\ entries = 0
          /\ tailBlock = 0 /\ making = 0 /\ cell = 0 /\ dequeued = 0 /\ free = 0
          /\ taking = 0

Next ==
    \/ part = "consensus" /\ V!Next /\ UNCHANGED <<part, noConsensusControlBlock>>
    \/ part = "service" /\ E!Next /\ UNCHANGED <<part, noEpochService>>
    \/ part = "semaphore" /\ S!Next /\ UNCHANGED <<part, noLightweightSemaphore>>
    \/ part = "bounded" /\ B!Next /\ UNCHANGED <<part, noBlockingQueue>>
    \/ part = "blocking" /\ Q!BNext /\ UNCHANGED <<part, noBlockingConcurrentQueue>>
    \/ part = "user" /\ U!Next /\ UNCHANGED <<part, noUserClient>>

Spec == Init /\ [][Next]_vars
-----------------------------------------------------------------------------
(***************************************************************************)
(* Fairness: threads run, and messages between servers that are up arrive. *)
(* A behaviour is about one component, so that weak fairness of Runs(i) is *)
(* weak fairness of the i-th thread or channel of that component, and      *)
(* strong fairness of GetsItsTurn(i) that of the i-th thread that waits.   *)
(***************************************************************************)
Consensus(Act) == part = "consensus" /\ Act /\ UNCHANGED <<part, noConsensusControlBlock>>
Service(Act) == part = "service" /\ Act /\ UNCHANGED <<part, noEpochService>>
Semaphore(Act) == part = "semaphore" /\ Act /\ UNCHANGED <<part, noLightweightSemaphore>>
Bounded(Act) == part = "bounded" /\ Act /\ UNCHANGED <<part, noBlockingQueue>>
Blocking(Act) == part = "blocking" /\ Act /\ UNCHANGED <<part, noBlockingConcurrentQueue>>
User(Act) == part = "user" /\ Act /\ UNCHANGED <<part, noUserClient>>

Runs(i) ==
    \* the servers finish their epochs, raft makes progress and is applied
    \/ i \in 1 .. 2 /\ Consensus(V!FinishEpoch(i))
    \/ i \in 3 .. 4 /\ Consensus(V!CommitProposal(i - 2))
    \/ i \in 5 .. 6 /\ Consensus(V!Apply(1, i - 4))
    \/ i = 7 /\ Consensus(V!ReceiveBatch(1, 2) \/ V!ReceiveCon(1, 2))
    \/ i = 8 /\ Consensus(V!PassEpoch(1))
    \* the epoch servers answer and apply the log, and the collector's threads run
    \/ i \in 1 .. 2 /\ Service(E!ReceiveFromUser(i, 1))
    \/ i \in 3 .. 4 /\ Service(E!ReceiveFromUser(i - 2, 2))
    \/ i \in 5 .. 6 /\ Service(E!ReceiveFromRaft(i - 4))
    \/ i = 7 /\ Service(E!TakeBatch)
    \/ i = 8 /\ Service(\E r \in {1, 2} : E!HandOver(r))
    \* the threads of the semaphore and the poster; nobody has to signal
    \/ i \in 1 .. 2 /\ Semaphore(S!Spin(i) \/ S!FetchSub(i) \/ S!Load(i) \/ S!Settle(i) \/ S!More(i))
    \/ i = 3 /\ Semaphore(S!Post)
    \* producers finish a push they have begun; consumers, a pop
    \/ i \in 1 .. 2 /\ Bounded(B!Construct(i) \/ B!StoreOdd(i) \/ B!Signal(i))
    \/ i \in 3 .. 4 /\ Bounded(B!TakeTail(i - 2) \/ B!SpinEnds(i - 2) \/ B!LoadTail(i - 2)
                                   \/ B!TestSlot(i - 2) \/ B!CasTail(i - 2)
                                   \/ B!Move(i - 2) \/ B!StoreEven(i - 2))
    \* so they do here, and consumers come back for more
    \/ i \in 1 .. 2 /\ Blocking(Q!BEnqueueStep(i) \/ Q!Signal(i))
    \/ i \in 3 .. 4 /\ Blocking(Q!Retry(i - 2) \/ Q!BDequeueStep(i - 2) \/ Q!Served(i - 2))
    \/ i \in 5 .. 6 /\ Blocking(\E n \in {1, 2} : Q!Wait(i - 4, n))
    \* the threads of the user, and the server that answers
    \/ i = 1 /\ User(U!Tick(1))
    \/ i = 2 /\ User(U!Client(1))
    \/ i = 3 /\ User(U!Finish)
    \/ i = 4 /\ User(U!Monitor)
    \/ i = 5 /\ User(\E sub \in SUBSET flying : U!MakeBlock(sub))

\* The collector's mutex, the kernel's semaphore and the permits of the bounded queue
\* come to each of the threads that wait for them in turn.
GetsItsTurn(i) ==
    \/ Service(E!TakeReply(i))
    \/ Semaphore(S!Wake(i))
    \/ Bounded(B!Pop(i) \/ B!TryPop(i))

FairSpec ==
    /\ Spec
    /\ \A i \in 1 .. 8 : WF_vars(Runs(i))
    /\ \A i \in {1, 2} : SF_vars(GetsItsTurn(i))
-----------------------------------------------------------------------------
(* Where what is due stays due until it is done, and done for good, that   *)
(* everything due is done again and again says that each of it is done in  *)
(* the end.                                                                *)

\* Every epoch passes the consensus control block of a server, in whatever order the
\* channels and the raft groups deliver and though proposals are sent again, and the
\* collector hands every batch over to the client proxy, however often the answers of
\* the epoch servers are too old.
EpochsPass ==
    /\ []<>(part = "consensus" => passed[1] = 2)
    /\ \A r \in {1, 2} : []<>(part = "service" => rpc[r] = "idle")

\* A thread does not sleep in the semaphore for ever while permits are left over: it
\* gets one, or the others have taken all of them.
WaitsEnd ==
    \A t \in {1, 2} : []<>(part = "semaphore" => pc[t] # "sleep" \/ S!Available = 0)

\* Every item that is pushed into the bounded queue is popped, and every element of the
\* concurrent queue dequeued while consumers come back: the loops around try_dequeue and
\* try_dequeue_bulk end, and a consumer with permits gets its elements, however the
\* others get in its way.  The user's program, when no request is lost, sends all its
\* transactions, finds each in a block and ends.
Delivered ==
    /\ []<>(part = "bounded" =>
               \A p \in {1, 2} : \A k \in 1 .. pushed[p] : \E a \in taken : a[2] = <<p, k>>)
    /\ \A c \in {1, 2} : []<>(part = "blocking" => owed[c] = 0)
    /\ []<>(part = "blocking" =>
               \A p \in {1, 2} : \A i \in 0 .. tailIndex[p] - 1 : <<p, i>> \in Q!Taken)
    /\ []<>(part = "user" => pc = "done")
=============================================================================
