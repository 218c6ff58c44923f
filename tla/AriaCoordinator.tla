-------------------------- MODULE AriaCoordinator --------------------------
(***************************************************************************)
(* The coordinator thread of a block server (AriaCoordinator) and its      *)
(* worker threads (AriaWorker, WorkerInstance).  The transaction manager   *)
(* pushes transactions in epoch order; the coordinator cuts them into      *)
(* workloads, hands these to workers that start reading at once, and takes *)
(* all workers of an epoch through the read and the commit phase.  What a  *)
(* worker does inside a phase is the subject of AriaExecution.             *)
(*                                                                         *)
(* A transaction is its position in the order of arrival.                  *)
(***************************************************************************)
EXTENDS Naturals, Sequences, FiniteSets

CONSTANTS
    StartupEpoch,   \* the epoch the server starts with
    EpochGap,       \* the next transaction is at most so many epochs later
    MaxTx           \* bound on the transactions pushed

ASSUME ConstantsAssumption == StartupEpoch \in Nat /\ EpochGap \in Nat /\ MaxTx \in Nat

Tx == 1 .. MaxTx
\* Worker ids: a workload is never empty, so more workers are never created.
WorkerId == 1 .. MaxTx

VARIABLES
    pushed,     \* the epochs of the transactions put into queueWrapper
    cacheEpoch, \* WorkloadSizeAdapter: the epoch of the last batch
    crashed,    \* a CHECK has failed
    taken,      \* how many transactions the coordinator has popped
    epoch,      \* currentEpoch
    pc,         \* where the coordinator thread is
    stage,      \* the phase it broadcasts or waits for
    visit,      \* the next worker of that loop
    load,       \* the workload it is building
    target,     \* the worker it is deploying to
    workers,    \* number of workers created (workerIDNonce - 1)
    wpc,        \* where each worker thread is
    wstate,     \* its workerState
    gstate,     \* its ariaGlobalState
    work,       \* its workload
    committed,  \* transactions whose commitList has returned
    announced,  \* epochs for which epochTransactionFinishSignal was called
    stopped     \* finishSignal

vars == <<pushed, cacheEpoch, crashed, taken, epoch, pc, stage, visit, load,
          target, workers, wpc, wstate, gstate, work, committed, announced, stopped>>

producer == <<pushed, cacheEpoch, crashed>>
thread == <<taken, epoch, pc, stage, visit, load, target, workers, announced>>
worker == <<wpc, wstate, gstate, work, committed>>

Init ==
    /\ pushed = <<>>
    /\ cacheEpoch = 1
    /\ crashed = FALSE
    /\ taken = 0
    /\ epoch = StartupEpoch
    /\ pc = "create"
    /\ stage = "read"
    /\ visit = 1
    /\ load = {}
    /\ target = 0
    /\ workers = 0
    /\ wpc = [w \in WorkerId |-> "none"]
    /\ wstate = [w \in WorkerId |-> "READY"]
    /\ gstate = [w \in WorkerId |-> "START"]
    /\ work = [w \in WorkerId |-> {}]
    /\ committed = {}
    /\ announced = {}
    /\ stopped = FALSE
-----------------------------------------------------------------------------
(* The transaction manager's thread. *)

LastEpoch == IF pushed = <<>> THEN StartupEpoch ELSE pushed[Len(pushed)]

\* addTransaction, for one transaction of the batch: setLastEpochTxCount, with
\* its CHECK, then the push.
AddTransaction(e) ==
    /\ ~crashed
    /\ Len(pushed) < MaxTx
    /\ IF e \in {cacheEpoch, cacheEpoch + 1}
       THEN /\ cacheEpoch' = e
            /\ pushed' = Append(pushed, e)
            /\ UNCHANGED crashed
       ELSE /\ crashed' = TRUE
            /\ UNCHANGED <<cacheEpoch, pushed>>
    /\ UNCHANGED <<thread, worker, stopped>>

\* stopServer, from the main thread.
Stop ==
    /\ ~crashed
    /\ ~stopped
    /\ stopped' = TRUE
    /\ UNCHANGED <<producer, thread, worker>>
-----------------------------------------------------------------------------
(* The coordinator: assignWorkloadPhase. *)

At(label) == ~crashed /\ pc = label

\* queueWrapper.front() returns: it blocks while there is no transaction.
Front == taken < Len(pushed)
FrontEpoch == pushed[taken + 1]

\* Mutant of EpochAssigned: an empty queue ends the epoch.
EpochAssignedOrEmpty == Front => FrontEpoch > epoch
\* The front transaction belongs to a later epoch: createWorkload returns null.
EpochAssigned == Front /\ FrontEpoch > epoch

FinishAssign ==
    /\ At("create")
    /\ EpochAssigned
    /\ pc' = "broadcast"
    /\ stage' = "read"
    /\ visit' = 1
    /\ UNCHANGED <<producer, taken, epoch, load, target, workers, announced,
                   worker, stopped>>

\* Mutant of Pop: the transaction stays in the queue.
Peek == taken
\* queueWrapper.pop()
Pop == taken + 1

\* createWorkload puts the front transaction into the workload and pops it.
TakeTransaction ==
    /\ At("create") \/ At("collect")
    /\ Front /\ FrontEpoch <= epoch
    /\ load' = load \cup {taken + 1}
    /\ taken' = Pop
    /\ pc' = "collect"
    /\ UNCHANGED <<producer, epoch, stage, visit, target, workers, announced,
                   worker, stopped>>

\* createWorkload returns the workload: the next transaction, for which it has
\* waited, is of a later epoch, or the workload has the size the adapter allows
\* (which may be any).
CloseWorkload ==
    /\ At("collect")
    /\ Front
    /\ pc' = "deploy"
    /\ UNCHANGED <<producer, taken, epoch, stage, visit, load, target, workers,
                   announced, worker, stopped>>

Ready == {w \in 1 .. workers : wstate[w] = "READY"}

\* deployWorkload finds a READY worker: the first of the map.
DeployWorkload(w) ==
    /\ At("deploy")
    /\ w \in Ready /\ \A v \in Ready : w <= v
    /\ wstate' = [wstate EXCEPT ![w] = "ASSIGNED"]
    /\ work' = [work EXCEPT ![w] = load]
    /\ load' = {}
    /\ target' = w
    /\ pc' = "start"
    /\ UNCHANGED <<producer, taken, epoch, stage, visit, workers, announced,
                   wpc, gstate, committed, stopped>>

\* deployWorkloadWithNewWorker, up to its wait.
NewWorker ==
    /\ At("deploy")
    /\ Ready = {}
    /\ workers' = workers + 1
    /\ target' = workers + 1
    /\ wpc' = [wpc EXCEPT ![workers + 1] = "run"]
    /\ work' = [work EXCEPT ![workers + 1] = load]
    /\ load' = {}
    /\ pc' = "assigned"
    /\ UNCHANGED <<producer, taken, epoch, stage, visit, announced, wstate,
                   gstate, committed, stopped>>

\* coordinatorWait({ASSIGNED}) returns.
WorkerAssigned ==
    /\ At("assigned")
    /\ wstate[target] = "ASSIGNED"
    /\ pc' = "start"
    /\ UNCHANGED <<producer, taken, epoch, stage, visit, load, target, workers,
                   announced, worker, stopped>>

\* The eager read: the worker starts before the epoch is complete.
StartWorker ==
    /\ At("start")
    /\ gstate' = [gstate EXCEPT ![target] = "Aria_READ"]
    /\ pc' = "create"
    /\ UNCHANGED <<producer, taken, epoch, stage, visit, load, target, workers,
                   announced, wpc, wstate, work, committed, stopped>>
-----------------------------------------------------------------------------
(* The coordinator: the phases. *)

Signal == [read |-> "Aria_READ", commit |-> "Aria_COMMIT", exit |-> "EXIT"]
Awaited == [read |-> "FINISH_READ", commit |-> "READY", exit |-> "EXITED"]

\* onlyAssigned: the worker has no workload and is left out.
Skipped(w) == stage # "exit" /\ wstate[w] = "READY"

\* broadcastToAllWorkers, one worker.
Broadcast ==
    /\ At("broadcast")
    /\ visit <= workers
    /\ gstate' = IF Skipped(visit) THEN gstate
                 ELSE [gstate EXCEPT ![visit] = Signal[stage]]
    /\ visit' = visit + 1
    /\ UNCHANGED <<producer, taken, epoch, pc, stage, load, target, workers,
                   announced, wpc, wstate, work, committed, stopped>>

FinishBroadcast ==
    /\ At("broadcast")
    /\ visit > workers
    /\ visit' = 1
    /\ pc' = "sync"
    /\ UNCHANGED <<producer, taken, epoch, stage, load, target, workers,
                   announced, worker, stopped>>

\* Mutant of Arrived: the coordinator does not wait.
NotAwaited(w) == TRUE
\* coordinatorWait returns for the worker, or is not called.
Arrived(w) == Skipped(w) \/ wstate[w] = Awaited[stage]

\* syncAllWorker, one worker.
Sync ==
    /\ At("sync")
    /\ visit <= workers
    /\ Arrived(visit)
    /\ visit' = visit + 1
    /\ UNCHANGED <<producer, taken, epoch, pc, stage, load, target, workers,
                   announced, worker, stopped>>

\* readPhase returns.
FinishRead ==
    /\ At("sync") /\ stage = "read"
    /\ visit > workers
    /\ pc' = "approve"
    /\ UNCHANGED <<producer, taken, epoch, stage, visit, load, target, workers,
                   announced, worker, stopped>>

\* waitUntilCurrentEpochFinish returns: the epoch is approved.
EpochApproved ==
    /\ At("approve")
    /\ pc' = "broadcast"
    /\ stage' = "commit"
    /\ visit' = 1
    /\ UNCHANGED <<producer, taken, epoch, load, target, workers, announced,
                   worker, stopped>>

\* Mutant of LoopAgain: finishSignal is not looked at.
LoopForever == TRUE
\* The condition of the coordinator's loop.
LoopAgain == ~stopped

\* commitPhase returns; the callback; the next turn of the loop or, after stop,
\* the destructor.
FinishEpoch ==
    /\ At("sync") /\ stage = "commit"
    /\ visit > workers
    /\ announced' = announced \cup {epoch}
    /\ epoch' = epoch + 1
    /\ visit' = 1
    /\ IF LoopAgain
       THEN pc' = "create" /\ UNCHANGED stage
       ELSE pc' = "broadcast" /\ stage' = "exit"
    /\ UNCHANGED <<producer, taken, load, target, workers, worker, stopped>>

\* destroyUnusedWorkers has joined the workers.
Exit ==
    /\ At("sync") /\ stage = "exit"
    /\ visit > workers
    /\ pc' = "done"
    /\ UNCHANGED <<producer, taken, epoch, stage, visit, load, target, workers,
                   announced, worker, stopped>>
-----------------------------------------------------------------------------
(* The worker threads: AriaWorker::run. *)

\* A new worker reports ASSIGNED.
Run(w) ==
    /\ ~crashed
    /\ wpc[w] = "run"
    /\ wstate' = [wstate EXCEPT ![w] = "ASSIGNED"]
    /\ wpc' = [wpc EXCEPT ![w] = "waitRead"]
    /\ UNCHANGED <<producer, thread, gstate, work, committed, stopped>>

\* workerWait(Aria_READ) returns true and executeList starts.
StartRead(w) ==
    /\ ~crashed
    /\ wpc[w] = "waitRead"
    /\ gstate[w] = "Aria_READ"
    /\ wpc' = [wpc EXCEPT ![w] = "read"]
    /\ UNCHANGED <<producer, thread, wstate, gstate, work, committed, stopped>>

\* executeList returns.
EndRead(w) ==
    /\ ~crashed
    /\ wpc[w] = "read"
    /\ wstate' = [wstate EXCEPT ![w] = "FINISH_READ"]
    /\ wpc' = [wpc EXCEPT ![w] = "waitCommit"]
    /\ UNCHANGED <<producer, thread, gstate, work, committed, stopped>>

\* workerWait(Aria_COMMIT) returns true and commitList starts.
StartCommit(w) ==
    /\ ~crashed
    /\ wpc[w] = "waitCommit"
    /\ gstate[w] = "Aria_COMMIT"
    /\ wpc' = [wpc EXCEPT ![w] = "commit"]
    /\ UNCHANGED <<producer, thread, wstate, gstate, work, committed, stopped>>

\* commitList returns; the workload stays with the worker until the next one.
EndCommit(w) ==
    /\ ~crashed
    /\ wpc[w] = "commit"
    /\ committed' = committed \cup work[w]
    /\ wstate' = [wstate EXCEPT ![w] = "READY"]
    /\ wpc' = [wpc EXCEPT ![w] = "waitRead"]
    /\ UNCHANGED <<producer, thread, gstate, work, stopped>>

\* workerWait returns false.
WorkerExit(w) ==
    /\ ~crashed
    /\ wpc[w] \in {"waitRead", "waitCommit"}
    /\ gstate[w] = "EXIT"
    /\ wstate' = [wstate EXCEPT ![w] = "EXITED"]
    /\ wpc' = [wpc EXCEPT ![w] = "exited"]
    /\ UNCHANGED <<producer, thread, gstate, work, committed, stopped>>
-----------------------------------------------------------------------------
CoordinatorStep ==
    \/ FinishAssign \/ TakeTransaction \/ CloseWorkload
    \/ \E w \in WorkerId : DeployWorkload(w)
    \/ NewWorker \/ WorkerAssigned \/ StartWorker
    \/ Broadcast \/ FinishBroadcast \/ Sync
    \/ FinishRead \/ EpochApproved \/ FinishEpoch \/ Exit

WorkerStep(w) ==
    \/ Run(w) \/ StartRead(w) \/ EndRead(w) \/ StartCommit(w) \/ EndCommit(w)
    \/ WorkerExit(w)

Blocked == pc \in {"create", "collect"} /\ ~Front

\* The server stands still: the process has ended, or the coordinator waits in
\* front() for a transaction after the last one of the model.
Rest ==
    /\ crashed \/ pc = "done" \/ (Blocked /\ Len(pushed) = MaxTx)
    /\ UNCHANGED vars

Next ==
    \/ \E e \in LastEpoch .. LastEpoch + EpochGap : AddTransaction(e)
    \/ Stop
    \/ CoordinatorStep
    \/ \E w \in WorkerId : WorkerStep(w)
    \/ Rest

Spec == Init /\ [][Next]_vars

-----------------------------------------------------------------------------
(* Properties. *)

\* Type correctness of the coordinator's and the workers' state.
TypeOK ==
    /\ pushed \in Seq(Nat) /\ Len(pushed) <= MaxTx
    /\ cacheEpoch \in Nat
    /\ crashed \in BOOLEAN
    /\ taken \in 0 .. Len(pushed)
    /\ epoch \in Nat
    /\ pc \in {"create", "collect", "deploy", "assigned", "start", "broadcast",
               "sync", "approve", "done"}
    /\ stage \in DOMAIN Signal
    /\ visit \in 1 .. MaxTx + 1
    /\ load \subseteq Tx
    /\ target \in WorkerId \cup {0}
    /\ workers \in 0 .. MaxTx
    /\ wpc \in [WorkerId -> {"none", "run", "waitRead", "read", "waitCommit",
                             "commit", "exited"}]
    /\ wstate \in [WorkerId -> {"READY", "ASSIGNED", "FINISH_READ", "EXITED"}]
    /\ gstate \in [WorkerId -> {"START", "Aria_READ", "Aria_COMMIT", "EXIT"}]
    /\ work \in [WorkerId -> SUBSET Tx]
    /\ committed \subseteq Tx
    /\ announced \subseteq Nat
    /\ stopped \in BOOLEAN

\* No worker commits while another one reads: what DatabaseImpl relies on when
\* it clears its buffers, and AriaExecution when it lets chaincode read the
\* database of the previous epoch.
PhasesExclude ==
    \A w, v \in WorkerId : wpc[w] = "commit" => wpc[v] # "read"

Busy == {w \in WorkerId : wpc[w] \in {"read", "waitCommit", "commit"}}

\* A worker that reads or commits does so for transactions of the current epoch
\* that nobody else has and that have not been committed before.
WorkOnce ==
    \A w \in Busy :
        /\ \A i \in work[w] : pushed[i] = epoch
        /\ work[w] # {} /\ work[w] \cap committed = {}
        /\ \A v \in Busy \ {w} : work[w] \cap work[v] = {}

\* When the coordinator announces an epoch, all of its transactions have been
\* committed, and none of them is still to come.
AnnouncedComplete ==
    \A i \in 1 .. Len(pushed) : pushed[i] \in announced => i \in committed

\* createWorkload never meets a transaction of an epoch that is over
\* (its DCHECK on the epoch of the workload).
NoLateTransaction == Front => FrontEpoch >= epoch

\* The workers are gone when the destructor returns.
ExitJoinsAll == pc = "done" => \A w \in 1 .. workers : wpc[w] = "exited"

\* No CHECK fails: an epoch without transactions, and a start at the epoch after
\* the last one saved, are both legal.
NoCheckFails == ~crashed
=============================================================================
