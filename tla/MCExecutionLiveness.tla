--------------------------- MODULE MCExecutionLiveness ----------------------
(***************************************************************************)
(* What must happen in the end in a server, side by side: the execution of *)
(* an epoch, the coordinator and its workers alone and with aggregation,   *)
(* an aggregation of two servers, the intake of transactions, and the      *)
(* block generator, in instances small enough for temporal properties.     *)
(***************************************************************************)
EXTENDS Integers, Sequences

VARIABLES
    part,   \* which of them the behaviour is about
    txn, table, phase, running, todo, loaded, kvRWSet, result, executed, decided,
    db, pushed, cacheEpoch, crashed, taken, epoch, pc, stage, visit, load, target,
    workers, wpc, wstate, gstate, work, committed, announced, stopped, input, kind,
    aggregationQueue, merged, isAggregate, reserved, listen, channel, receiver,
    waits, buffer, faults, received, rpc, tail, wepoch, global, finished, arrived,
    newest, epochOf, broadcast, processed, trWrapper, coordinator, executing,
    callback, processing, reuse, block, saved, cleaned, adding, recycler, freed,
    incarnation, failed, asked, task, partial, partialEpoch, blockBuffer, hpc,
    hepoch, previous, file, number, vpc, vepoch, tip, height, missed

vars ==
    <<part, txn, table, phase, running, todo, loaded, kvRWSet, result, executed,
      decided, db, pushed, cacheEpoch, crashed, taken, epoch, pc, stage, visit,
      load, target, workers, wpc, wstate, gstate, work, committed, announced,
      stopped, input, kind, aggregationQueue, merged, isAggregate, reserved, listen,
      channel, receiver, waits, buffer, faults, received, rpc, tail, wepoch, global,
      finished, arrived, newest, epochOf, broadcast, processed, trWrapper,
      coordinator, executing, callback, processing, reuse, block, saved, cleaned,
      adding, recycler, freed, incarnation, failed, asked, task, partial,
      partialEpoch, blockBuffer, hpc, hepoch, previous, file, number, vpc, vepoch,
      tip, height, missed>>

\* One transaction for each of two workers, one of which may fail.
TwoTransactions ==
    {b \in [{1, 2} -> [read : {{}, {1}}, write : SUBSET {1, 2}, ok : BOOLEAN,
                       worker : {1, 2}]] :
        b[1].worker = 1 /\ b[2].worker = 2 /\ (b[1].ok \/ b[2].ok)}


A == INSTANCE AriaExecution WITH Tid <- {1, 2}, Key <- {1, 2}, Worker <- {1, 2}, Batches <- TwoTransactions
C == INSTANCE AriaCoordinator WITH StartupEpoch <- 1, EpochGap <- 1, MaxTx <- 4
K == INSTANCE AggregationWorkers WITH Workers <- 3, Length <- 4, MaxSize <- 2
G == INSTANCE Aggregation WITH Servers <- {1, 2}, Tids <- {1, 2}, MaxEpoch <- 3, MaxFaults <- 0
P == INSTANCE ClientProxy WITH Server <- {1, 2, 3}, StartEpoch <- 1, LastEpoch <- 2, MaxTx <- 1,
         Eager <- FALSE, SpuriousWakeup <- FALSE
M == INSTANCE TransactionManager WITH StartEpoch <- 1, LastEpoch <- 4, MaxTx <- 5, MaxGap <- 1,
         MaxSize <- 2, Reusing <- TRUE, AsyncBlockGen <- FALSE
B == INSTANCE BlockGenerator WITH LastEpoch <- 2, PoolSize <- 2, Peer <- {1, 2}, MaxCrash <- 0,
         EarlyReturn <- FALSE, ResetEpoch <- TRUE, NumberMayTear <- FALSE, InMemory <- FALSE

\* What AriaExecution does not use.
noAriaExecution ==
    <<pushed, cacheEpoch, crashed, taken, epoch, pc, stage, visit, load, target,
      workers, wpc, wstate, gstate, work, committed, announced, stopped, input,
      kind, aggregationQueue, merged, isAggregate, reserved, listen, channel,
      receiver, waits, buffer, faults, received, rpc, tail, wepoch, global,
      finished, arrived, newest, epochOf, broadcast, processed, trWrapper,
      coordinator, executing, callback, processing, reuse, block, saved, cleaned,
      adding, recycler, freed, incarnation, failed, asked, task, partial,
      partialEpoch, blockBuffer, hpc, hepoch, previous, file, number, vpc, vepoch,
      tip, height, missed>>
\* What AriaCoordinator does not use.
noAriaCoordinator ==
    <<txn, table, phase, running, todo, loaded, kvRWSet, result, executed, decided,
      db, input, kind, aggregationQueue, merged, isAggregate, reserved, listen,
      channel, receiver, waits, buffer, faults, received, rpc, tail, wepoch, global,
      finished, arrived, newest, epochOf, broadcast, processed, trWrapper,
      coordinator, executing, callback, processing, reuse, block, saved, cleaned,
      adding, recycler, freed, incarnation, failed, asked, task, partial,
      partialEpoch, blockBuffer, hpc, hepoch, previous, file, number, vpc, vepoch,
      tip, height, missed>>
\* What AggregationWorkers does not use.
noAggregationWorkers ==
    <<txn, table, phase, running, todo, loaded, kvRWSet, result, executed, decided,
      db, pushed, cacheEpoch, crashed, target, workers, stopped, listen, channel,
      receiver, waits, buffer, faults, received, rpc, tail, wepoch, global,
      finished, arrived, newest, epochOf, broadcast, processed, trWrapper,
      coordinator, executing, callback, processing, reuse, block, saved, cleaned,
      adding, recycler, freed, incarnation, failed, asked, task, partial,
      partialEpoch, blockBuffer, hpc, hepoch, previous, file, number, vpc, vepoch,
      tip, height, missed>>
\* What Aggregation does not use.
noAggregation ==
    <<txn, table, running, todo, loaded, kvRWSet, executed, decided, db, pushed,
      cacheEpoch, crashed, taken, pc, stage, visit, load, target, workers, wpc,
      wstate, gstate, work, announced, stopped, input, kind, aggregationQueue,
      isAggregate, reserved, received, rpc, tail, wepoch, global, finished, arrived,
      newest, epochOf, broadcast, processed, trWrapper, coordinator, executing,
      callback, processing, reuse, block, saved, cleaned, adding, recycler, freed,
      incarnation, failed, asked, task, partial, partialEpoch, blockBuffer, hpc,
      hepoch, previous, file, number, vpc, vepoch, tip, height, missed>>
\* What ClientProxy does not use.
noClientProxy ==
    <<txn, table, phase, running, todo, loaded, kvRWSet, result, executed, decided,
      db, pushed, cacheEpoch, taken, pc, stage, visit, load, target, workers,
      wstate, gstate, work, committed, announced, stopped, input, kind,
      aggregationQueue, merged, isAggregate, reserved, listen, channel, receiver,
      faults, arrived, newest, epochOf, broadcast, processed, trWrapper,
      coordinator, executing, callback, processing, reuse, block, saved, cleaned,
      adding, recycler, freed, incarnation, failed, asked, task, partial,
      partialEpoch, blockBuffer, hpc, hepoch, previous, file, number, vpc, vepoch,
      tip, height, missed>>
\* What TransactionManager does not use.
noTransactionManager ==
    <<txn, table, phase, running, todo, loaded, kvRWSet, executed, decided, db,
      pushed, cacheEpoch, crashed, taken, stage, visit, load, target, workers, wpc,
      wstate, gstate, work, committed, announced, stopped, input, kind,
      aggregationQueue, merged, isAggregate, reserved, listen, channel, receiver,
      waits, faults, received, rpc, tail, wepoch, global, finished, incarnation,
      failed, asked, task, partial, partialEpoch, blockBuffer, hpc, hepoch,
      previous, file, number, vpc, vepoch, tip, height, missed>>
\* What BlockGenerator does not use.
noBlockGenerator ==
    <<txn, table, phase, running, todo, loaded, kvRWSet, result, executed, decided,
      db, pushed, cacheEpoch, crashed, taken, epoch, pc, stage, visit, load, target,
      workers, wpc, wstate, gstate, work, committed, announced, stopped, input,
      kind, aggregationQueue, merged, isAggregate, reserved, listen, channel,
      receiver, waits, buffer, faults, received, rpc, tail, wepoch, global,
      finished, arrived, newest, epochOf, broadcast, processed, trWrapper,
      coordinator, executing, callback, processing, reuse, cleaned, adding,
      recycler, freed>>

Init ==
    \/ /\ part = "aria" /\ A!Init
       /\ pushed = 0 /\ cacheEpoch = 0 /\ crashed = 0 /\ taken = 0 /\ epoch = 0
          /\ pc = 0 /\ stage = 0 /\ visit = 0 /\ load = 0 /\ target = 0
          /\ workers = 0 /\ wpc = 0 /\ wstate = 0 /\ gstate = 0 /\ work = 0
          /\ committed = 0 /\ announced = 0 /\ stopped = 0 /\ input = 0
          /\ kind = 0 /\ aggregationQueue = 0 /\ merged = 0 /\ isAggregate = 0
          /\ reserved = 0 /\ listen = 0 /\ channel = 0 /\ receiver = 0
          /\ waits = 0 /\ buffer = 0 /\ faults = 0 /\ received = 0 /\ rpc = 0
          /\ tail = 0 /\ wepoch = 0 /\ global = 0 /\ finished = 0 /\ arrived = 0
          /\ newest = 0 /\ epochOf = 0 /\ broadcast = 0 /\ processed = 0
          /\ trWrapper = 0 /\ coordinator = 0 /\ executing = 0 /\ callback = 0
          /\ processing = 0 /\ reuse = 0 /\ block = 0 /\ saved = 0
          /\ cleaned = 0 /\ adding = 0 /\ recycler = 0 /\ freed = 0
          /\ incarnation = 0 /\ failed = 0 /\ asked = 0 /\ task = 0
          /\ partial = 0 /\ partialEpoch = 0 /\ blockBuffer = 0 /\ hpc = 0
          /\ hepoch = 0 /\ previous = 0 /\ file = 0 /\ number = 0 /\ vpc = 0
          /\ vepoch = 0 /\ tip = 0 /\ height = 0 /\ missed = 0
    \/ /\ part = "coordinator" /\ C!Init
       /\ txn = 0 /\ table = 0 /\ phase = 0 /\ running = 0 /\ todo = 0 /\ loaded = 0
          /\ kvRWSet = 0 /\ result = 0 /\ executed = 0 /\ decided = 0 /\ db = 0
          /\ input = 0 /\ kind = 0 /\ aggregationQueue = 0 /\ merged = 0
          /\ isAggregate = 0 /\ reserved = 0 /\ listen = 0 /\ channel = 0
          /\ receiver = 0 /\ waits = 0 /\ buffer = 0 /\ faults = 0
          /\ received = 0 /\ rpc = 0 /\ tail = 0 /\ wepoch = 0 /\ global = 0
          /\ finished = 0 /\ arrived = 0 /\ newest = 0 /\ epochOf = 0
          /\ broadcast = 0 /\ processed = 0 /\ trWrapper = 0 /\ coordinator = 0
          /\ executing = 0 /\ callback = 0 /\ processing = 0 /\ reuse = 0
          /\ block = 0 /\ saved = 0 /\ cleaned = 0 /\ adding = 0 /\ recycler = 0
          /\ freed = 0 /\ incarnation = 0 /\ failed = 0 /\ asked = 0 /\ task = 0
          /\ partial = 0 /\ partialEpoch = 0 /\ blockBuffer = 0 /\ hpc = 0
          /\ hepoch = 0 /\ previous = 0 /\ file = 0 /\ number = 0 /\ vpc = 0
          /\ vepoch = 0 /\ tip = 0 /\ height = 0 /\ missed = 0
    \/ /\ part = "shared" /\ K!Init
       /\ txn = 0 /\ table = 0 /\ phase = 0 /\ running = 0 /\ todo = 0 /\ loaded = 0
          /\ kvRWSet = 0 /\ result = 0 /\ executed = 0 /\ decided = 0 /\ db = 0
          /\ pushed = 0 /\ cacheEpoch = 0 /\ crashed = 0 /\ target = 0
          /\ workers = 0 /\ stopped = 0 /\ listen = 0 /\ channel = 0
          /\ receiver = 0 /\ waits = 0 /\ buffer = 0 /\ faults = 0
          /\ received = 0 /\ rpc = 0 /\ tail = 0 /\ wepoch = 0 /\ global = 0
          /\ finished = 0 /\ arrived = 0 /\ newest = 0 /\ epochOf = 0
          /\ broadcast = 0 /\ processed = 0 /\ trWrapper = 0 /\ coordinator = 0
          /\ executing = 0 /\ callback = 0 /\ processing = 0 /\ reuse = 0
          /\ block = 0 /\ saved = 0 /\ cleaned = 0 /\ adding = 0 /\ recycler = 0
          /\ freed = 0 /\ incarnation = 0 /\ failed = 0 /\ asked = 0 /\ task = 0
          /\ partial = 0 /\ partialEpoch = 0 /\ blockBuffer = 0 /\ hpc = 0
          /\ hepoch = 0 /\ previous = 0 /\ file = 0 /\ number = 0 /\ vpc = 0
          /\ vepoch = 0 /\ tip = 0 /\ height = 0 /\ missed = 0
    \/ /\ part = "cluster" /\ G!Init
       /\ txn = 0 /\ table = 0 /\ running = 0 /\ todo = 0 /\ loaded = 0 /\ kvRWSet = 0
          /\ executed = 0 /\ decided = 0 /\ db = 0 /\ pushed = 0
          /\ cacheEpoch = 0 /\ crashed = 0 /\ taken = 0 /\ pc = 0 /\ stage = 0
          /\ visit = 0 /\ load = 0 /\ target = 0 /\ workers = 0 /\ wpc = 0
          /\ wstate = 0 /\ gstate = 0 /\ work = 0 /\ announced = 0
          /\ stopped = 0 /\ input = 0 /\ kind = 0 /\ aggregationQueue = 0
          /\ isAggregate = 0 /\ reserved = 0 /\ received = 0 /\ rpc = 0
          /\ tail = 0 /\ wepoch = 0 /\ global = 0 /\ finished = 0 /\ arrived = 0
          /\ newest = 0 /\ epochOf = 0 /\ broadcast = 0 /\ processed = 0
          /\ trWrapper = 0 /\ coordinator = 0 /\ executing = 0 /\ callback = 0
          /\ processing = 0 /\ reuse = 0 /\ block = 0 /\ saved = 0
          /\ cleaned = 0 /\ adding = 0 /\ recycler = 0 /\ freed = 0
          /\ incarnation = 0 /\ failed = 0 /\ asked = 0 /\ task = 0
          /\ partial = 0 /\ partialEpoch = 0 /\ blockBuffer = 0 /\ hpc = 0
          /\ hepoch = 0 /\ previous = 0 /\ file = 0 /\ number = 0 /\ vpc = 0
          /\ vepoch = 0 /\ tip = 0 /\ height = 0 /\ missed = 0
    \/ /\ part = "proxy" /\ P!Init
       /\ txn = 0 /\ table = 0 /\ phase = 0 /\ running = 0 /\ todo = 0 /\ loaded = 0
          /\ kvRWSet = 0 /\ result = 0 /\ executed = 0 /\ decided = 0 /\ db = 0
          /\ pushed = 0 /\ cacheEpoch = 0 /\ taken = 0 /\ pc = 0 /\ stage = 0
          /\ visit = 0 /\ load = 0 /\ target = 0 /\ workers = 0 /\ wstate = 0
          /\ gstate = 0 /\ work = 0 /\ committed = 0 /\ announced = 0
          /\ stopped = 0 /\ input = 0 /\ kind = 0 /\ aggregationQueue = 0
          /\ merged = 0 /\ isAggregate = 0 /\ reserved = 0 /\ listen = 0
          /\ channel = 0 /\ receiver = 0 /\ faults = 0 /\ arrived = 0
          /\ newest = 0 /\ epochOf = 0 /\ broadcast = 0 /\ processed = 0
          /\ trWrapper = 0 /\ coordinator = 0 /\ executing = 0 /\ callback = 0
          /\ processing = 0 /\ reuse = 0 /\ block = 0 /\ saved = 0
          /\ cleaned = 0 /\ adding = 0 /\ recycler = 0 /\ freed = 0
          /\ incarnation = 0 /\ failed = 0 /\ asked = 0 /\ task = 0
          /\ partial = 0 /\ partialEpoch = 0 /\ blockBuffer = 0 /\ hpc = 0
          /\ hepoch = 0 /\ previous = 0 /\ file = 0 /\ number = 0 /\ vpc = 0
          /\ vepoch = 0 /\ tip = 0 /\ height = 0 /\ missed = 0
    \/ /\ part = "manager" /\ M!Init
       /\ txn = 0 /\ table = 0 /\ phase = 0 /\ running = 0 /\ todo = 0 /\ loaded = 0
          /\ kvRWSet = 0 /\ executed = 0 /\ decided = 0 /\ db = 0 /\ pushed = 0
          /\ cacheEpoch = 0 /\ crashed = 0 /\ taken = 0 /\ stage = 0
          /\ visit = 0 /\ load = 0 /\ target = 0 /\ workers = 0 /\ wpc = 0
          /\ wstate = 0 /\ gstate = 0 /\ work = 0 /\ committed = 0
          /\ announced = 0 /\ stopped = 0 /\ input = 0 /\ kind = 0
          /\ aggregationQueue = 0 /\ merged = 0 /\ isAggregate = 0
          /\ reserved = 0 /\ listen = 0 /\ channel = 0 /\ receiver = 0
          /\ waits = 0 /\ faults = 0 /\ received = 0 /\ rpc = 0 /\ tail = 0
          /\ wepoch = 0 /\ global = 0 /\ finished = 0 /\ incarnation = 0
          /\ failed = 0 /\ asked = 0 /\ task = 0 /\ partial = 0
          /\ partialEpoch = 0 /\ blockBuffer = 0 /\ hpc = 0 /\ hepoch = 0
          /\ previous = 0 /\ file = 0 /\ number = 0 /\ vpc = 0 /\ vepoch = 0
          /\ tip = 0 /\ height = 0 /\ missed = 0
    \/ /\ part = "blocks" /\ B!Init
       /\ txn = 0 /\ table = 0 /\ phase = 0 /\ running = 0 /\ todo = 0 /\ loaded = 0
          /\ kvRWSet = 0 /\ result = 0 /\ executed = 0 /\ decided = 0 /\ db = 0
          /\ pushed = 0 /\ cacheEpoch = 0 /\ crashed = 0 /\ taken = 0
          /\ epoch = 0 /\ pc = 0 /\ stage = 0 /\ visit = 0 /\ load = 0
          /\ target = 0 /\ workers = 0 /\ wpc = 0 /\ wstate = 0 /\ gstate = 0
          /\ work = 0 /\ committed = 0 /\ announced = 0 /\ stopped = 0
          /\ input = 0 /\ kind = 0 /\ aggregationQueue = 0 /\ merged = 0
          /\ isAggregate = 0 /\ reserved = 0 /\ listen = 0 /\ channel = 0
          /\ receiver = 0 /\ waits = 0 /\ buffer = 0 /\ faults = 0
          /\ received = 0 /\ rpc = 0 /\ tail = 0 /\ wepoch = 0 /\ global = 0
          /\ finished = 0 /\ arrived = 0 /\ newest = 0 /\ epochOf = 0
          /\ broadcast = 0 /\ processed = 0 /\ trWrapper = 0 /\ coordinator = 0
          /\ executing = 0 /\ callback = 0 /\ processing = 0 /\ reuse = 0
          /\ cleaned = 0 /\ adding = 0 /\ recycler = 0 /\ freed = 0

Next ==
    \/ part = "aria" /\ A!Next /\ UNCHANGED <<part, noAriaExecution>>
    \/ part = "coordinator" /\ C!Next /\ UNCHANGED <<part, noAriaCoordinator>>
    \/ part = "shared" /\ K!Next /\ UNCHANGED <<part, noAggregationWorkers>>
    \/ part = "cluster" /\ G!Next /\ UNCHANGED <<part, noAggregation>>
    \/ part = "proxy" /\ P!Next /\ UNCHANGED <<part, noClientProxy>>
    \/ part = "manager" /\ M!Next /\ UNCHANGED <<part, noTransactionManager>>
    \/ part = "blocks" /\ B!Next /\ UNCHANGED <<part, noBlockGenerator>>

Spec == Init /\ [][Next]_vars
-----------------------------------------------------------------------------
(***************************************************************************)
(* Fairness: the operating system schedules the threads of every server.   *)
(* A behaviour is about one component, so that weak fairness of Runs(i) is *)
(* weak fairness of the i-th thread of that component.                     *)
(***************************************************************************)
Aria(Act) == part = "aria" /\ Act /\ UNCHANGED <<part, noAriaExecution>>
Coordinator(Act) == part = "coordinator" /\ Act /\ UNCHANGED <<part, noAriaCoordinator>>
Shared(Act) == part = "shared" /\ Act /\ UNCHANGED <<part, noAggregationWorkers>>
Cluster(Act) == part = "cluster" /\ Act /\ UNCHANGED <<part, noAggregation>>
Proxy(Act) == part = "proxy" /\ Act /\ UNCHANGED <<part, noClientProxy>>
Manager(Act) == part = "manager" /\ Act /\ UNCHANGED <<part, noTransactionManager>>
Blocks(Act) == part = "blocks" /\ Act /\ UNCHANGED <<part, noBlockGenerator>>

Runs(i) ==
    \* the workers, and the coordinator that starts the commit phase
    \/ i \in 1 .. 2 /\ Aria(A!ReadStep(i) \/ A!CommitStep(i))
    \/ i = 3 /\ Aria(A!StartCommit)
    \* nobody has to push a transaction or to stop the server
    \/ i \in 1 .. 4 /\ Coordinator(C!WorkerStep(i))
    \/ i = 5 /\ Coordinator(C!CoordinatorStep)
    \/ i \in 1 .. 3 /\ Shared(K!WorkerStep(i))
    \/ i = 4 /\ Shared(K!CoordinatorStep)
    \* the coordinator with its pool, and the receivers, of each server
    \/ i \in 1 .. 2 /\ Cluster(G!Coordinate(i) \/ G!Merge(i))
    \/ i \in 3 .. 7 /\ Cluster(\E p \in G!Pairs : 3 * p[1] + p[2] = i /\ G!Listen(p))
    \* nobody has to send a transaction
    \/ i \in 1 .. 3 /\ Proxy(P!WorkerStep(i))
    \/ i = 1 /\ Manager(M!ManagerStep)
    \/ i = 2 /\ Manager(M!CoordinatorStep)
    \/ i = 3 /\ Manager(M!SaveBlock)
    \* the tasks of the pool, the header thread, the verifiers; nobody has to ask
    \/ i \in 1 .. 2 /\ Blocks(B!StartTask(i) \/ B!BuildPartial(i) \/ B!BuildBody(i)
                                  \/ B!NotifyHeader(i))
    \/ i = 3 /\ Blocks(B!HeaderStep)
    \/ i \in 4 .. 5 /\ Blocks(B!VerifierStep(i - 3))

FairSpec == Spec /\ \A i \in 1 .. 7 : WF_vars(Runs(i))
-----------------------------------------------------------------------------
(* Where what is due stays due until it is done, and done for good, that   *)
(* everything due is done again and again says that each of it is done in  *)
(* the end.                                                                *)

\* Epochs come to their end.  The retry loops of reserveRWSet end and every transaction
\* is decided; the coordinator commits a transaction once one of a later epoch has been
\* pushed, unless stopServer comes first; with aggregation every epoch that a later
\* transaction ends is announced, and every server commits every epoch if no exchange is
\* lost: the tasks of the pool, the receivers and the barriers never wait for one another
\* in a circle.  When every server has finished an epoch, its transactions reach the
\* queue and every worker of the client proxy gets to the next one; and the manager that
\* waits for the coordinator never blocks a coordinator that waits for the manager.
EpochsEnd ==
    /\ []<>(part = "aria" => decided = {1, 2})
    /\ []<>(part = "coordinator" =>
               \A i \in DOMAIN pushed : pushed[i] < C!LastEpoch => i \in committed \/ stopped)
    /\ []<>(part = "shared" =>
               \A t \in 1 .. 3 : input[t].epoch < input[4].epoch => input[t].epoch \in announced)
    /\ []<>(part = "cluster" => \A s \in {1, 2} : phase[s] = "end")
    /\ []<>(part = "proxy" =>
               \A e \in {1, 2} : (\A p \in 1 .. 3 : epoch[p] > e) =>
                   (\A p \in 1 .. 3 : wepoch[p] > e /\ buffer[p][e] = 0))
    /\ []<>(part = "manager" => processing >= newest - 1)

\* stopServer ends the coordinator and its workers, provided a transaction of a later
\* epoch arrives: a stop is noticed only after an epoch.
StopEnds ==
    (part = "coordinator" /\ stopped /\ C!LastEpoch > epoch)
        ~> (part = "coordinator" /\ pc = "done")

\* A block that was asked for is saved, and the signature of a peer for a block we have
\* is verified: no body, and no wakeup of the header thread or of a verifier, is lost.
EveryBlockSaved ==
    /\ []<>(part = "blocks" => saved >= asked)
    /\ []<>(part = "blocks" => \A p \in {1, 2} : vepoch[p] > saved)
=============================================================================
