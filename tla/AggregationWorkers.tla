-------------------------- MODULE AggregationWorkers ------------------------
(***************************************************************************)
(* The coordinator of a server that shares execution with others, and its  *)
(* workers (AggregationCoordinator, AggregationWorker).  A transaction of  *)
(* the local residue class is executed by a worker as soon as it is        *)
(* assigned.  One of another server waits in aggregationQueue; its worker  *)
(* only reserves it, once the results of the other servers are merged.     *)
(* Worker threads exist from the start; how they are created, and how the  *)
(* server stops, is part of AriaCoordinator.                               *)
(***************************************************************************)
EXTENDS Integers, Sequences, FiniteSets

CONSTANTS
    Workers,    \* number of workers
    Length,     \* number of transactions
    MaxSize     \* getMaxTxPerWorkload

WorkerId == 1 .. Workers
Transactions == 1 .. Length

VARIABLES
    input,      \* epoch of each transaction and whether it is local, in queue order
    taken,      \* number of transactions popped from the queue
    epoch,      \* currentEpoch
    pc,         \* step of the coordinator
    stage,      \* phase it synchronises
    visit,      \* worker it visits next
    load,       \* workload under construction
    kind,       \* its aggregationWorkload
    aggregationQueue,   \* transactions of other servers, not yet assigned
    merged,     \* epochs whose results aggregateTransaction has merged
    announced,  \* epochs announced by epochTransactionFinishSignal
    wpc, wstate, gstate,    \* step, workerState and ariaGlobalState of each worker
    work, isAggregate,      \* its workload
    reserved, committed     \* what was executed or reserved, and committed, with
                            \* the epoch in which it happened

vars == <<input, taken, epoch, pc, stage, visit, load, kind, aggregationQueue, merged,
          announced, wpc, wstate, gstate, work, isAggregate, reserved, committed>>
worker == <<wpc, wstate, gstate, work, isAggregate, reserved, committed>>

\* The queue has consecutive epochs, each with at least one transaction; the
\* last transaction ends the epoch before it.
Inputs ==
    {q \in [Transactions -> [epoch : 1 .. Length, local : BOOLEAN]] :
        /\ q[1].epoch = 1
        /\ \A i \in 1 .. Length - 1 : q[i + 1].epoch \in {q[i].epoch, q[i].epoch + 1}}

Init ==
    /\ input \in Inputs
    /\ taken = 0 /\ epoch = 1
    /\ pc = "create" /\ stage = "read" /\ visit = 1
    /\ load = {} /\ kind = "normal"
    /\ aggregationQueue = <<>>
    /\ merged = {} /\ announced = {}
    /\ wpc = [w \in WorkerId |-> "waitRead"]
    /\ wstate = [w \in WorkerId |-> "READY"]
    /\ gstate = [w \in WorkerId |-> "START"]
    /\ work = [w \in WorkerId |-> {}]
    /\ isAggregate = [w \in WorkerId |-> FALSE]
    /\ reserved = [t \in Transactions |-> 0]
    /\ committed = [t \in Transactions |-> 0]

-----------------------------------------------------------------------------
(* assignWorkloadPhase *)

Front == taken < Length
InEpoch == Front /\ input[taken + 1].epoch <= epoch

\* createWorkload takes the transaction in front: into the workload when it is
\* local, otherwise into aggregationQueue.
TakeTransaction ==
    /\ pc \in {"create", "collect"} /\ InEpoch
    /\ Cardinality(load) < MaxSize
    /\ IF input[taken + 1].local
       THEN load' = load \cup {taken + 1} /\ UNCHANGED aggregationQueue
       ELSE aggregationQueue' = Append(aggregationQueue, taken + 1) /\ UNCHANGED load
    /\ taken' = taken + 1
    /\ pc' = "collect"
    /\ UNCHANGED <<input, epoch, stage, visit, kind, merged, announced, worker>>

\* createWorkload has waited for the next transaction and ends the loop; a
\* workload without local transactions gives way to an aggregation workload.
CloseWorkload ==
    /\ pc = "collect" /\ Front
    /\ IF load # {} THEN pc' = "deploy" /\ kind' = "normal"
                    ELSE pc' = "aggregation" /\ UNCHANGED kind
    /\ UNCHANGED <<input, taken, epoch, stage, visit, load, aggregationQueue, merged,
                   announced, worker>>

\* The front transaction is of a later epoch.
EpochTaken ==
    /\ pc = "create" /\ Front /\ ~InEpoch
    /\ pc' = "aggregation"
    /\ UNCHANGED <<input, taken, epoch, stage, visit, load, kind, aggregationQueue, merged,
                   announced, worker>>

\* createAggregationWorkload: up to MaxSize transactions, or null, which ends
\* assignWorkloadPhase.
CreateAggregationWorkload ==
    /\ pc = "aggregation"
    /\ LET n == IF Len(aggregationQueue) < MaxSize THEN Len(aggregationQueue) ELSE MaxSize
       IN IF n = 0
          THEN /\ pc' = "broadcast" /\ stage' = "read"
               /\ UNCHANGED <<load, kind, aggregationQueue>>
          ELSE /\ pc' = "deploy" /\ kind' = "aggregation"
               /\ load' = {aggregationQueue[i] : i \in 1 .. n}
               /\ aggregationQueue' = SubSeq(aggregationQueue, n + 1, Len(aggregationQueue))
               /\ UNCHANGED stage
    /\ UNCHANGED <<input, taken, epoch, visit, merged, announced, worker>>

Ready == {w \in WorkerId : wstate[w] = "READY"}

\* deployWorkload hands the workload to the first READY worker.
DeployWorkload(w) ==
    /\ pc = "deploy"
    /\ w \in Ready /\ \A v \in Ready : w <= v
    /\ wstate' = [wstate EXCEPT ![w] = "ASSIGNED"]
    /\ work' = [work EXCEPT ![w] = load]
    /\ isAggregate' = [isAggregate EXCEPT ![w] = kind = "aggregation"]
    /\ load' = {}
    /\ visit' = w
    /\ pc' = "start"
    /\ UNCHANGED <<input, taken, epoch, stage, kind, aggregationQueue, merged, announced, wpc,
                   gstate, reserved, committed>>

\* The worker may start at once.
StartWorker ==
    /\ pc = "start"
    /\ gstate' = [gstate EXCEPT ![visit] = "Aria_READ"]
    /\ visit' = 1
    /\ pc' = "create"
    /\ UNCHANGED <<input, taken, epoch, stage, load, kind, aggregationQueue, merged, announced,
                   wpc, wstate, work, isAggregate, reserved, committed>>

-----------------------------------------------------------------------------
(* readPhase, aggregatePhase, commitPhase *)

Signal == [read |-> "Aria_READ", aggregate |-> "Aggregate", commit |-> "Aria_COMMIT"]

\* The states in which a phase leaves the workers.
Awaited ==
    [read |-> {"FINISH_READ", "FINISH_AGGREGATE"},
     aggregate |-> {"FINISH_AGGREGATE"}, commit |-> {"READY"}]

\* broadcastToAllWorkers, one worker.
Broadcast ==
    /\ pc = "broadcast" /\ visit <= Workers
    /\ gstate' = IF wstate[visit] = "READY" THEN gstate
                 ELSE [gstate EXCEPT ![visit] = Signal[stage]]
    /\ visit' = visit + 1
    /\ UNCHANGED <<input, taken, epoch, pc, stage, load, kind, aggregationQueue, merged,
                   announced, wpc, wstate, work, isAggregate, reserved, committed>>

FinishBroadcast ==
    /\ pc = "broadcast" /\ visit > Workers
    /\ visit' = 1 /\ pc' = "sync"
    /\ UNCHANGED <<input, taken, epoch, stage, load, kind, aggregationQueue, merged, announced,
                   worker>>

\* syncAllWorker, one worker.
Sync ==
    /\ pc = "sync" /\ visit <= Workers
    /\ wstate[visit] \in {"READY"} \cup Awaited[stage]
    /\ visit' = visit + 1
    /\ UNCHANGED <<input, taken, epoch, pc, stage, load, kind, aggregationQueue, merged,
                   announced, worker>>

\* readPhase returns, the epoch is approved, and aggregateTransaction returns
\* when the results of the other servers are there.
FinishRead ==
    /\ pc = "sync" /\ stage = "read" /\ visit > Workers
    /\ merged' = merged \cup {epoch}
    /\ visit' = 1 /\ pc' = "broadcast" /\ stage' = "aggregate"
    /\ UNCHANGED <<input, taken, epoch, load, kind, aggregationQueue, announced, worker>>

FinishAggregate ==
    /\ pc = "sync" /\ stage = "aggregate" /\ visit > Workers
    /\ visit' = 1 /\ pc' = "broadcast" /\ stage' = "commit"
    /\ UNCHANGED <<input, taken, epoch, load, kind, aggregationQueue, merged, announced, worker>>

\* commitPhase returns and the epoch is announced.
FinishEpoch ==
    /\ pc = "sync" /\ stage = "commit" /\ visit > Workers
    /\ announced' = announced \cup {epoch}
    /\ epoch' = epoch + 1
    /\ visit' = 1 /\ pc' = "create"
    /\ UNCHANGED <<input, taken, stage, load, kind, aggregationQueue, merged, worker>>

-----------------------------------------------------------------------------
(* AggregationWorker::run *)

\* workerWait(Aria_READ) returns.
StartRead(w) ==
    /\ wpc[w] = "waitRead" /\ gstate[w] = "Aria_READ"
    /\ IF isAggregate[w]
       THEN /\ wstate' = [wstate EXCEPT ![w] = "FINISH_READ"]
            /\ wpc' = [wpc EXCEPT ![w] = "waitAggregate"]
       ELSE wpc' = [wpc EXCEPT ![w] = "execute"] /\ UNCHANGED wstate
    /\ UNCHANGED <<input, taken, epoch, pc, stage, visit, load, kind, aggregationQueue, merged,
                   announced, gstate, work, isAggregate, reserved, committed>>

\* workerWait(Aggregate) returns.
StartAggregate(w) ==
    /\ wpc[w] = "waitAggregate" /\ gstate[w] = "Aggregate"
    /\ wpc' = [wpc EXCEPT ![w] = "execute"]
    /\ UNCHANGED <<input, taken, epoch, pc, stage, visit, load, kind, aggregationQueue, merged,
                   announced, wstate, gstate, work, isAggregate, reserved, committed>>

\* executeList: the transactions are executed, or only reserved.
Execute(w) ==
    /\ wpc[w] = "execute"
    /\ reserved' = [t \in Transactions |-> IF t \in work[w] THEN epoch ELSE reserved[t]]
    /\ wstate' = [wstate EXCEPT ![w] = "FINISH_AGGREGATE"]
    /\ wpc' = [wpc EXCEPT ![w] = "waitCommit"]
    /\ UNCHANGED <<input, taken, epoch, pc, stage, visit, load, kind, aggregationQueue, merged,
                   announced, gstate, work, isAggregate, committed>>

\* workerWait(Aria_COMMIT) returns.
StartCommit(w) ==
    /\ wpc[w] = "waitCommit" /\ gstate[w] = "Aria_COMMIT"
    /\ wpc' = [wpc EXCEPT ![w] = "commit"]
    /\ UNCHANGED <<input, taken, epoch, pc, stage, visit, load, kind, aggregationQueue, merged,
                   announced, wstate, gstate, work, isAggregate, reserved, committed>>

\* commitList; the worker is READY for the next epoch.
Commit(w) ==
    /\ wpc[w] = "commit"
    /\ committed' = [t \in Transactions |-> IF t \in work[w] THEN epoch ELSE committed[t]]
    /\ wstate' = [wstate EXCEPT ![w] = "READY"]
    /\ wpc' = [wpc EXCEPT ![w] = "waitRead"]
    /\ UNCHANGED <<input, taken, epoch, pc, stage, visit, load, kind, aggregationQueue, merged,
                   announced, gstate, work, isAggregate, reserved>>

-----------------------------------------------------------------------------
CoordinatorStep ==
    \/ TakeTransaction \/ CloseWorkload \/ EpochTaken \/ CreateAggregationWorkload
    \/ \E w \in WorkerId : DeployWorkload(w)
    \/ StartWorker \/ Broadcast \/ FinishBroadcast \/ Sync
    \/ FinishRead \/ FinishAggregate \/ FinishEpoch

WorkerStep(w) ==
    StartRead(w) \/ StartAggregate(w) \/ Execute(w) \/ StartCommit(w) \/ Commit(w)

Next == CoordinatorStep \/ \E w \in WorkerId : WorkerStep(w)

Spec == Init /\ [][Next]_vars

-----------------------------------------------------------------------------
\* Types of the variables of AggregationCoordinator and its workers.
TypeOK ==
    /\ input \in Inputs
    /\ taken \in 0 .. Length /\ epoch \in 1 .. Length + 1
    /\ visit \in 1 .. Workers + 1
    /\ load \subseteq Transactions
    /\ wstate \in [WorkerId -> {"READY", "ASSIGNED", "FINISH_READ", "FINISH_AGGREGATE"}]
    /\ gstate \in [WorkerId -> {"START", "Aria_READ", "Aggregate", "Aria_COMMIT"}]
    /\ work \in [WorkerId -> SUBSET Transactions]

\* A transaction of another server is reserved from the merged results: no
\* worker touches it before aggregateTransaction has returned for its epoch,
\* although the worker was started eagerly with Aria_READ.
ReservedWhenMerged ==
    \A t \in Transactions : reserved[t] # 0 /\ ~input[t].local => reserved[t] \in merged

\* Nothing is committed while anything of the epoch may still be reserved: a
\* decision of the commit phase sees the reservations of all transactions,
\* those of the other servers included.
AllReservedFirst ==
    \A t, u \in Transactions :
        committed[t] # 0 /\ input[u].epoch = input[t].epoch => reserved[u] # 0

\* When an epoch is announced each of its transactions, local or not, has been
\* reserved and committed in that epoch: none is left in aggregationQueue.
AnnouncedComplete ==
    \A t \in Transactions :
        input[t].epoch \in announced =>
            reserved[t] = input[t].epoch /\ committed[t] = input[t].epoch

=============================================================================
