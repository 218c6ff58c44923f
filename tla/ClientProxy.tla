---------------------------- MODULE ClientProxy ----------------------------
(***************************************************************************)
(* How the client proxies of a block server merge the transactions of all  *)
(* servers into one queue, epoch by epoch.  There is a proxy for every     *)
(* block server (the local one included): a receiver thread that gets the  *)
(* server's transactions in epoch order, and an EpochTransactionBuffer     *)
(* with a worker thread of its own.  The workers meet at a CyclicBarrier   *)
(* (EpochTxnQueueManager) before they let an epoch's transactions into the *)
(* queue the transaction manager reads.                                    *)
(*                                                                         *)
(* Transactions of one proxy and epoch are not told apart: a buffer is the *)
(* number of its transactions, and the queue the epoch of its last one.    *)
(***************************************************************************)
EXTENDS Naturals, FiniteSets

CONSTANTS
    Server,         \* the block servers
    StartEpoch,     \* startWithEpoch
    LastEpoch,      \* bound: the last epoch the servers finish
    MaxTx,          \* bound: transactions of a server in an epoch
    Eager,          \* early_execution
    SpuriousWakeup  \* whether cv.wait may return without a notification

ASSUME ConstantsAssumption ==
    /\ IsFiniteSet(Server)
    /\ StartEpoch \in Nat /\ LastEpoch \in Nat /\ StartEpoch <= LastEpoch + 1
    /\ MaxTx \in Nat
    /\ Eager \in BOOLEAN /\ SpuriousWakeup \in BOOLEAN

VARIABLES
    epoch,      \* the epoch each receiver is in
    received,   \* how many transactions it has got in this epoch
    rpc,        \* where it is in pushTransactionToBuffer
    buffer,     \* buffer[p][e]: transactions held back
    tail,       \* epoch of the last transaction in the queue (0: none yet)
    wpc,        \* where each worker is
    wepoch,     \* the epoch of its current task; later ones up to epoch[p] - 1 wait
    waits,      \* CyclicBarrier: current_waits
    global,     \* globalProcessingEpoch
    finished,   \* currentEpochPushedToQueueCnt
    crashed     \* the CHECK of isAllCPPushedToQueue has failed

vars == <<epoch, received, rpc, buffer, tail, wpc, wepoch, waits, global,
          finished, crashed>>

receivers == <<epoch, received, rpc>>
workers == <<wpc, wepoch>>
manager == <<waits, global, finished>>

Epoch == StartEpoch .. LastEpoch
Parties == Cardinality(Server)

Init ==
    /\ epoch = [p \in Server |-> StartEpoch]
    /\ received = [p \in Server |-> 0]
    /\ rpc = [p \in Server |-> "receive"]
    /\ buffer = [p \in Server |-> [e \in Epoch |-> 0]]
    /\ tail = 0
    /\ wpc = [p \in Server |-> "idle"]
    /\ wepoch = [p \in Server |-> StartEpoch]
    /\ waits = 0
    /\ global = StartEpoch
    /\ finished = Parties
    /\ crashed = FALSE
-----------------------------------------------------------------------------
(* The receivers: receiveFromLocalServer, receiveFromOtherServer. *)

Receives(p) ==
    /\ ~crashed
    /\ rpc[p] = "receive"
    /\ epoch[p] <= LastEpoch
    /\ received[p] < MaxTx

Hold(p) == buffer' = [buffer EXCEPT ![p][epoch[p]] = @ + 1]

\* pushTransactionToBuffer, not eager.
BufferTransaction(p) ==
    /\ ~Eager
    /\ Receives(p)
    /\ received' = [received EXCEPT ![p] = @ + 1]
    /\ Hold(p)
    /\ UNCHANGED <<epoch, rpc, tail, workers, manager, crashed>>

\* isAllCPPushedToQueue: the epoch before e is not complete.
TooEarly(e) == e > global

\* pushTransactionToBuffer, eager: the first load of isAllCPPushedToQueue.
LoadGlobal(p) ==
    /\ Eager
    /\ Receives(p)
    /\ received' = [received EXCEPT ![p] = @ + 1]
    /\ \/ /\ TooEarly(epoch[p])
          /\ Hold(p)
          /\ UNCHANGED <<rpc, crashed>>
       \/ /\ ~TooEarly(epoch[p])
          /\ crashed' = (epoch[p] < global)
          /\ rpc' = [rpc EXCEPT ![p] = "loaded"]
          /\ UNCHANGED buffer
    /\ UNCHANGED <<epoch, tail, workers, manager>>

\* The second load: the workers are done with the epoch before.
LoadCount(p) ==
    /\ ~crashed
    /\ rpc[p] = "loaded"
    /\ \/ /\ finished < Parties
          /\ Hold(p)
          /\ rpc' = [rpc EXCEPT ![p] = "receive"]
       \/ /\ finished >= Parties
          /\ rpc' = [rpc EXCEPT ![p] = "send"]
          /\ UNCHANGED buffer
    /\ UNCHANGED <<epoch, received, tail, workers, manager, crashed>>

\* syncEmptyBuffer, called by the receiver: the front of the buffer.
SendHeld(p) ==
    /\ ~crashed
    /\ rpc[p] = "send"
    /\ buffer[p][epoch[p]] > 0
    /\ buffer' = [buffer EXCEPT ![p][epoch[p]] = @ - 1]
    /\ tail' = epoch[p]
    /\ UNCHANGED <<receivers, workers, manager, crashed>>

\* The transaction itself.
SendTransaction(p) ==
    /\ ~crashed
    /\ rpc[p] = "send"
    /\ buffer[p][epoch[p]] = 0
    /\ tail' = epoch[p]
    /\ rpc' = [rpc EXCEPT ![p] = "receive"]
    /\ UNCHANGED <<epoch, received, buffer, workers, manager, crashed>>

\* The server has finished the epoch (a CON message; for the local server, a
\* response with a later epoch; after an exception, the loop at the end):
\* asyncEmptyBuffer(epoch++).
FinishEpoch(p) ==
    /\ ~crashed
    /\ rpc[p] = "receive"
    /\ epoch[p] <= LastEpoch
    /\ epoch' = [epoch EXCEPT ![p] = @ + 1]
    /\ received' = [received EXCEPT ![p] = 0]
    /\ UNCHANGED <<rpc, buffer, tail, workers, manager, crashed>>
-----------------------------------------------------------------------------
(* The workers of the buffers: the tasks asyncEmptyBuffer enqueues. *)

\* The barrier's mutex is free: nobody is in its callback.
MutexFree == \A p \in Server : wpc[p] \notin {"callback", "advance"}

\* Mutant of AllArrived: the barrier is one too small.
AllButOneArrived(n) == n + 1 >= Parties
\* await: the last one.
AllArrived(n) == n >= Parties

\* The worker takes its next task and calls await.
Await(p) ==
    /\ ~crashed
    /\ wpc[p] = "idle"
    /\ wepoch[p] < epoch[p]
    /\ MutexFree
    /\ waits' = waits + 1
    /\ wpc' = [wpc EXCEPT ![p] = IF AllArrived(waits + 1) THEN "callback" ELSE "wait"]
    /\ UNCHANGED <<receivers, buffer, tail, wepoch, global, finished, crashed>>

\* What the callback stores in currentEpochPushedToQueueCnt.
NewCount == 0

ResetCount(p) ==
    /\ wpc[p] = "callback"
    /\ finished' = NewCount
    /\ wpc' = [wpc EXCEPT ![p] = "advance"]
    /\ UNCHANGED <<receivers, buffer, tail, wepoch, waits, global, crashed>>

\* Mutant of Woken: notify_one.
WokenOne(p) == p = CHOOSE q \in Server : wpc[q] = "wait"
\* notify_all.
Woken(p) == wpc[p] = "wait"

\* The end of the callback and of the last one's await.
AdvanceGlobal(p) ==
    /\ wpc[p] = "advance"
    /\ global' = global + 1
    /\ waits' = 0
    /\ wpc' = [q \in Server |-> IF q = p \/ Woken(q) THEN "empty" ELSE wpc[q]]
    /\ UNCHANGED <<receivers, buffer, tail, wepoch, finished, crashed>>

\* cv.wait returns although nobody has notified it: it has no predicate.
WakeUp(p) ==
    /\ SpuriousWakeup
    /\ ~crashed
    /\ wpc[p] = "wait"
    /\ MutexFree
    /\ wpc' = [wpc EXCEPT ![p] = "empty"]
    /\ UNCHANGED <<receivers, buffer, tail, wepoch, manager, crashed>>

\* syncEmptyBuffer, called by the worker: the front of the buffer.
EmptyBuffer(p) ==
    /\ ~crashed
    /\ ~Eager
    /\ wpc[p] = "empty"
    /\ buffer[p][wepoch[p]] > 0
    /\ buffer' = [buffer EXCEPT ![p][wepoch[p]] = @ - 1]
    /\ tail' = wepoch[p]
    /\ UNCHANGED <<receivers, workers, manager, crashed>>

\* Mutant of Emptied: the worker does not empty the buffer.
NotEmptied(p) == TRUE
\* The worker has nothing to do, or has done it.
Emptied(p) == Eager \/ buffer[p][wepoch[p]] = 0

\* signalFinishedPushToQueue; the task is done.
SignalFinished(p) ==
    /\ ~crashed
    /\ wpc[p] = "empty"
    /\ Emptied(p)
    /\ finished' = finished + 1
    /\ wpc' = [wpc EXCEPT ![p] = "idle"]
    /\ wepoch' = [wepoch EXCEPT ![p] = @ + 1]
    /\ UNCHANGED <<receivers, buffer, tail, waits, global, crashed>>
-----------------------------------------------------------------------------
ReceiverStep(p) ==
    \/ BufferTransaction(p) \/ LoadGlobal(p) \/ LoadCount(p)
    \/ SendHeld(p) \/ SendTransaction(p) \/ FinishEpoch(p)

WorkerStep(p) ==
    \/ Await(p) \/ ResetCount(p) \/ AdvanceGlobal(p) \/ WakeUp(p)
    \/ EmptyBuffer(p) \/ SignalFinished(p)

\* The bound is reached, or the process has ended.
Rest ==
    /\ crashed \/ \A p \in Server : wepoch[p] > LastEpoch
    /\ UNCHANGED vars

Next == (\E p \in Server : ReceiverStep(p) \/ WorkerStep(p)) \/ Rest

Spec == Init /\ [][Next]_vars

-----------------------------------------------------------------------------
\* Type invariant of the proxies, their buffers' workers and the queue manager.
TypeOK ==
    /\ epoch \in [Server -> StartEpoch .. LastEpoch + 1]
    /\ received \in [Server -> 0 .. MaxTx]
    /\ rpc \in [Server -> {"receive", "loaded", "send"}]
    /\ buffer \in [Server -> [Epoch -> 0 .. MaxTx]]
    /\ tail \in {0} \cup Epoch
    /\ wpc \in [Server -> {"idle", "wait", "callback", "advance", "empty"}]
    /\ wepoch \in [Server -> StartEpoch .. LastEpoch + 1]
    /\ waits \in 0 .. Parties
    /\ global \in StartEpoch .. LastEpoch + 1
    /\ finished \in 0 .. Parties
    /\ crashed \in BOOLEAN

\* The transactions enter the queue in the order of their epochs, whatever the
\* proxies' threads do: CommController::transferTransaction and the coordinator's
\* queue CHECK it, and a block is closed at the first transaction of a later one.
EpochsInOrder == [][tail' >= tail]_vars

\* Once a transaction of a later epoch is in the queue, every proxy has finished
\* the earlier epoch and none of its transactions is left in a buffer: closing the
\* block there (createWorkload, CommController) loses nothing.
ClosedEpochComplete ==
    \A p \in Server, e \in Epoch :
        e < tail => epoch[p] > e /\ buffer[p][e] = 0

\* The CHECK in isAllCPPushedToQueue: a receiver never pushes a transaction of an
\* epoch the barrier has already closed.
NeverBehindBarrier == ~crashed

\* asyncEmptyBuffer's comment: once an epoch is finished, the worker empties the
\* buffer.  When its task for the epoch is over no transaction is held any more.
FinishedEpochEmptied ==
    \A p \in Server, e \in Epoch : e < wepoch[p] => buffer[p][e] = 0

=============================================================================
