------------------------- MODULE TransactionManager -------------------------
(***************************************************************************)
(* The transaction manager's thread pulls the transactions out of the      *)
(* client proxies' queue (CommController), epoch by epoch, remembers them  *)
(* in epochTxBuffer and hands them to the coordinator.  When an epoch is   *)
(* executed, the coordinator's thread calls epochFinishedCallback: it puts *)
(* the epoch's transactions in the next block or, in reusing mode, sends   *)
(* the aborted ones to the next epoch, and frees the transactions of the   *)
(* blocks that are saved (TransactionRecycler).                            *)
(*                                                                         *)
(* The coordinator (module AriaCoordinator) and the block generator        *)
(* (module BlockGenerator) appear by what they do here: an epoch is        *)
(* executed when a later transaction is seen, a block is saved some time   *)
(* after it was asked for.                                                 *)
(***************************************************************************)
EXTENDS Naturals, Sequences, FiniteSets

CONSTANTS
    StartEpoch,     \* getLatestSavedEpoch() + 1
    LastEpoch,      \* bound: the last epoch a transaction may have
    MaxTx,          \* bound: transactions that arrive
    MaxGap,         \* 1: every epoch has a transaction; 2: one may have none
    MaxSize,        \* TR_MGR_GET_BATCH_MAX_SIZE
    Reusing,        \* reusingAbortTransaction
    AsyncBlockGen   \* enableAsyncBlockGen

VARIABLES
    arrived,     \* how many transactions the proxies have queued
    newest,      \* the epoch of the last one
    epochOf,     \* getEpoch() of each of them
    broadcast,   \* CommController: broadcastTransactions
    processed,   \* CommController: processedTransaction
    pc,          \* where the manager's thread is
    epoch,       \* currentEpoch of its loop
    trWrapper,   \* the batch getTransaction returns
    buffer,      \* epochTxBuffer
    coordinator, \* the transactions the coordinator has not executed
    executing,   \* the epoch the coordinator is in
    result,      \* getTransactionResult()
    callback,    \* whether epochFinishedCallback is running, and where
    processing,  \* processingEpoch
    reuse,       \* reuseTxWrapper
    block,       \* the transactions of each block asked for
    saved,       \* getLatestSavedEpoch()
    cleaned,     \* cleanedEpoch
    adding,      \* TransactionRecycler: addingTxQueue
    recycler,    \* transactionMap: the epoch a transaction is filed under, or 0
    freed        \* the deleted ones

vars == <<arrived, newest, epochOf, broadcast, processed, pc, epoch, trWrapper, buffer,
          coordinator, executing, result, callback, processing, reuse, block,
          saved, cleaned, adding, recycler, freed>>

comm == <<broadcast, processed>>
blocks == <<block, saved>>
recycled == <<cleaned, adding, recycler, freed>>
backend == <<executing, result, callback, processing, blocks>>

Tx == 1 .. MaxTx
Epoch == StartEpoch .. LastEpoch + MaxTx
MinSize == 1
Result == {"PENDING", "COMMIT", "ABORT", "ABORT_NO_RETRY"}
Nothing == <<>>     \* reuse: a null pointer, or an empty wrapper

Init ==
    /\ arrived = 0
    /\ newest = StartEpoch - 1
    /\ epochOf = [t \in Tx |-> 0]
    /\ broadcast = <<>>
    /\ processed = <<>>
    /\ pc = "get"
    /\ epoch = StartEpoch
    /\ trWrapper = <<>>
    /\ buffer = [e \in Epoch |-> <<>>]
    /\ coordinator = <<>>
    /\ executing = StartEpoch
    /\ result = [t \in Tx |-> "PENDING"]
    /\ callback = "none"
    /\ processing = StartEpoch
    /\ reuse = Nothing
    /\ block = [e \in Epoch |-> {}]
    /\ saved = StartEpoch - 1
    /\ cleaned = StartEpoch - 1
    /\ adding = {}
    /\ recycler = [t \in Tx |-> 0]
    /\ freed = {}

Elements(s) == {s[i] : i \in DOMAIN s}
-----------------------------------------------------------------------------
(* The client proxies: the epochs of their queue never go down. *)

\* epochBroadcastTransactionsHandle.  The first epoch is never empty.
Arrive(e) ==
    /\ arrived < MaxTx
    /\ e \in newest .. newest + MaxGap
    /\ e <= LastEpoch
    /\ arrived = 0 => e = StartEpoch
    /\ arrived' = arrived + 1
    /\ newest' = e
    /\ epochOf' = [epochOf EXCEPT ![arrived + 1] = e]
    /\ broadcast' = Append(broadcast, arrived + 1)
    /\ UNCHANGED <<processed, pc, epoch, trWrapper, buffer, coordinator, reuse,
                   backend, recycled>>
-----------------------------------------------------------------------------
(* The manager's thread: TransactionManagerImpl::run, getTransaction. *)

\* transferTransaction: waits for a transaction, then takes all there are.
TransferTransaction ==
    /\ pc = "get"
    /\ processed = <<>>
    /\ broadcast # <<>>
    /\ processed' = broadcast
    /\ broadcast' = <<>>
    /\ UNCHANGED <<arrived, newest, epochOf, pc, epoch, trWrapper, buffer,
                   coordinator, reuse, backend, recycled>>

FrontEpoch == epochOf[Head(processed)]

\* getTransaction returns null: there is nothing more in this epoch.
EpochTransferred ==
    /\ pc = "get"
    /\ trWrapper = <<>>
    /\ processed # <<>>
    /\ FrontEpoch # epoch
    /\ epoch' = epoch + 1
    /\ pc' = IF Reusing THEN "wait" ELSE "get"
    /\ UNCHANGED <<arrived, newest, epochOf, comm, trWrapper, buffer,
                   coordinator, reuse, backend, recycled>>

\* The batch is full, or the queue is empty and the batch is large enough.
BatchEnds(batch, rest) ==
    \/ Len(batch) >= MaxSize
    \/ rest = <<>> /\ Len(batch) > MinSize

\* One turn of the loop of getTransaction.
GetTransaction ==
    /\ pc = "get"
    /\ processed # <<>>
    /\ FrontEpoch = epoch
    /\ processed' = Tail(processed)
    /\ trWrapper' = Append(trWrapper, Head(processed))
    /\ adding' = adding \cup {Head(processed)}
    /\ pc' = IF BatchEnds(trWrapper', processed') THEN "send" ELSE "get"
    /\ UNCHANGED <<arrived, newest, epochOf, broadcast, epoch, buffer,
                   coordinator, reuse, backend, cleaned, recycler, freed>>

\* The loop of getTransaction meets a later epoch.
EndBatch ==
    /\ pc = "get"
    /\ trWrapper # <<>>
    /\ processed # <<>>
    /\ FrontEpoch # epoch
    /\ pc' = "send"
    /\ UNCHANGED <<arrived, newest, epochOf, comm, epoch, trWrapper, buffer,
                   coordinator, reuse, backend, recycled>>

\* The batch goes into epochTxBuffer, then to sendTransactionHandle.
SendTransaction ==
    /\ pc = "send"
    /\ buffer' = [buffer EXCEPT ![epoch] = @ \o trWrapper]
    /\ coordinator' = coordinator \o trWrapper
    /\ trWrapper' = <<>>
    /\ pc' = "get"
    /\ UNCHANGED <<arrived, newest, epochOf, comm, epoch, reuse, backend, recycled>>

\* Reusing mode: the epoch before the one just transferred is finished.
MayGoOn == processing + 1 >= epoch

SendReused ==
    /\ pc = "wait"
    /\ MayGoOn
    /\ coordinator' = coordinator \o reuse
    /\ reuse' = Nothing
    /\ pc' = "get"
    /\ UNCHANGED <<arrived, newest, epochOf, comm, epoch, trWrapper, buffer,
                   backend, recycled>>
-----------------------------------------------------------------------------
(* The coordinator's thread. *)

OfEpoch(s, e) == SelectSeq(s, LAMBDA t : epochOf[t] = e)

\* A transaction of a later epoch is in the coordinator's queue.
Closed == \E t \in Elements(coordinator) : epochOf[t] > executing

\* The coordinator executes an epoch once it is closed.
Execute ==
    LET batch == Elements(OfEpoch(coordinator, executing)) IN
    /\ callback = "none"
    /\ batch # {}
    /\ Closed
    /\ \E r \in [batch -> {"COMMIT", "ABORT", "ABORT_NO_RETRY"}] :
           result' = [t \in Tx |-> IF t \in batch THEN r[t] ELSE result[t]]
    /\ coordinator' = SelectSeq(coordinator, LAMBDA t : t \notin batch)
    /\ callback' = "categorize"
    /\ UNCHANGED <<arrived, newest, epochOf, comm, pc, epoch, trWrapper, buffer,
                   executing, processing, reuse, blocks, recycled>>

\* categorizeEpoch: the transaction is to be executed again.
Retried(t) == Reusing /\ result[t] = "ABORT"

\* Mutant of Kept: the retried ones are not filed under the next epoch.
KeptNowhere(s) == <<>>
\* categorizeEpoch: nextEpochTxQueue.
Kept(s) == s

\* categorizeEpoch, nonCategorizeEpoch and generateBlock.
Categorize ==
    LET retried == SelectSeq(buffer[executing], Retried) IN
    /\ callback = "categorize"
    /\ reuse' = IF Reusing THEN retried ELSE reuse
    /\ epochOf' = [t \in Tx |-> IF t \in Elements(retried) THEN executing + 1
                                                           ELSE epochOf[t]]
    /\ result' = [t \in Tx |-> IF t \in Elements(retried) THEN "PENDING" ELSE result[t]]
    /\ block' = [block EXCEPT ![executing] =
                    Elements(buffer[executing]) \ Elements(retried)]
    /\ buffer' = [buffer EXCEPT ![executing] = <<>>,
                                ![executing + 1] = @ \o Kept(retried)]
    /\ callback' = "clean"
    /\ UNCHANGED <<arrived, newest, comm, pc, epoch, trWrapper, coordinator,
                   executing, processing, saved, recycled>>

\* The rest of epochFinishedCallback waits for the block unless block generation
\* is asynchronous.
BlockReady == AsyncBlockGen \/ saved = executing

\* clearTransactionForEpoch: the transaction was not retried.
Expired(t, e) == epochOf[t] = e

\* epochFinishedCallback: a saved block whose transactions are not freed.
Unclean == cleaned < saved

\* clearTransactionForEpoch: the queued transactions are filed under their epoch;
\* of those under the saved one, the retried are filed again, the others deleted.
ClearTransactionForEpoch ==
    LET e == cleaned + 1
        filed == [t \in Tx |-> IF t \in adding THEN epochOf[t] ELSE recycler[t]]
        done == {t \in Tx : filed[t] = e /\ Expired(t, e)}
    IN
    /\ callback = "clean"
    /\ BlockReady
    /\ Unclean
    /\ cleaned' = e
    /\ adding' = {}
    /\ freed' = freed \cup done
    /\ recycler' = [t \in Tx |-> IF t \in done THEN 0
                                 ELSE IF filed[t] = e THEN epochOf[t] ELSE filed[t]]
    /\ UNCHANGED <<arrived, newest, epochOf, comm, pc, epoch, trWrapper, buffer,
                   coordinator, reuse, backend>>

\* The end of epochFinishedCallback: epochTxBuffer.remove, processingEpoch, and
\* the manager's thread is notified.
FinishCallback ==
    /\ callback = "clean"
    /\ BlockReady
    /\ ~Unclean
    /\ buffer' = [buffer EXCEPT ![executing] = <<>>]
    /\ processing' = executing + 1
    /\ executing' = executing + 1
    /\ callback' = "none"
    /\ UNCHANGED <<arrived, newest, epochOf, comm, pc, epoch, trWrapper,
                   coordinator, result, reuse, blocks, recycled>>

\* The block generator saves the next block that was asked for.
SaveBlock ==
    /\ saved + 1 < executing \/ (saved + 1 = executing /\ callback = "clean")
    /\ saved' = saved + 1
    /\ UNCHANGED <<arrived, newest, epochOf, comm, pc, epoch, trWrapper, buffer,
                   coordinator, executing, result, callback, processing, reuse,
                   block, recycled>>
-----------------------------------------------------------------------------
ManagerStep ==
    \/ TransferTransaction \/ EpochTransferred \/ GetTransaction
    \/ EndBatch \/ SendTransaction \/ SendReused

CoordinatorStep ==
    Execute \/ Categorize \/ ClearTransactionForEpoch \/ FinishCallback

\* The bound is reached; what the last epochs wait for does not come.
Rest == arrived = MaxTx /\ UNCHANGED vars

Next ==
    \/ \E e \in StartEpoch .. LastEpoch : Arrive(e)
    \/ ManagerStep
    \/ CoordinatorStep
    \/ SaveBlock
    \/ Rest

Spec == Init /\ [][Next]_vars

-----------------------------------------------------------------------------
\* Type invariant of the manager, the queues, the block and recycler bookkeeping.
TypeOK ==
    /\ arrived \in 0 .. MaxTx
    /\ newest \in StartEpoch - 1 .. LastEpoch
    /\ epochOf \in [Tx -> {0} \cup Epoch]
    /\ broadcast \in Seq(Tx) /\ processed \in Seq(Tx) /\ trWrapper \in Seq(Tx)
    /\ pc \in {"get", "send", "wait"}
    /\ epoch \in StartEpoch .. LastEpoch
    /\ buffer \in [Epoch -> Seq(Tx)]
    /\ coordinator \in Seq(Tx) /\ reuse \in Seq(Tx)
    /\ executing \in Epoch /\ processing \in Epoch
    /\ result \in [Tx -> Result]
    /\ callback \in {"none", "categorize", "clean"}
    /\ block \in [Epoch -> SUBSET Tx]
    /\ saved \in StartEpoch - 1 .. LastEpoch
    /\ cleaned \in StartEpoch - 1 .. saved
    /\ adding \subseteq Tx /\ freed \subseteq Tx
    /\ recycler \in [Tx -> {0} \cup Epoch]
    /\ Len(trWrapper) <= MaxSize

\* The coordinator gets the epochs in order, the retried transactions of an epoch
\* before any of the next, and none for an epoch it has finished: createWorkload
\* closes an epoch at the first transaction of a later one.
CoordinatorInOrder ==
    /\ \A i, j \in DOMAIN coordinator :
           i < j => epochOf[coordinator[i]] <= epochOf[coordinator[j]]
    /\ \A t \in Elements(coordinator) :
           epochOf[t] >= executing + (IF callback = "none" THEN 0 ELSE 1)

\* Once an epoch is finished, each transaction of it is in its block, and in no
\* other block: none is lost or doubled between the two threads, and a transaction
\* in a block has its final result.
ExactlyOneBlock ==
    \A t \in Tx :
        /\ \A e \in Epoch : t \in block[e] => e = epochOf[t] /\ result[t] # "PENDING"
        /\ epochOf[t] # 0 /\ epochOf[t] < processing => t \in block[epochOf[t]]

\* TransactionRecycler deletes a transaction only when it is in a saved block: not
\* while the manager, the coordinator or the block generator still has it.
FreedIsSaved ==
    \A t \in freed :
        /\ t \notin Elements(coordinator) \cup Elements(reuse) \cup Elements(trWrapper)
        /\ \E e \in Epoch : e <= saved /\ t \in block[e]

=============================================================================
