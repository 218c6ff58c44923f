--------------------------- MODULE MCIntake ---------------------------------
(***************************************************************************)
(* How transactions come into a block server, side by side: the client     *)
(* proxies with their barrier ("barrier"; with early_execution in "eager", *)
(* with a spurious wakeup in "spurious"), and the transaction manager      *)
(* (executing aborted transactions again in "reusing").  What a behaviour  *)
(* is not about keeps its initial value.                                   *)
(***************************************************************************)
EXTENDS ClientProxy, Sequences

VARIABLES
    part,   \* which of them the behaviour is about
    \* the client proxies of "eager" and "spurious"
    aEpoch, aReceived, aRpc, aBuffer, aTail, aWpc, aWepoch, aWaits, aGlobal,
    aFinished, aCrashed,
    \* the transaction manager
    arrived, newest, epochOf, broadcast, processed, pc, mEpoch, trWrapper, mBuffer,
    coordinator, executing, result, callback, processing, reuse, block, saved,
    cleaned, adding, recycler, freed

proxies ==
    <<aEpoch, aReceived, aRpc, aBuffer, aTail, aWpc, aWepoch, aWaits, aGlobal,
      aFinished, aCrashed>>
transactions ==
    <<arrived, newest, epochOf, broadcast, processed, pc, mEpoch, trWrapper, mBuffer,
      coordinator, executing, result, callback, processing, reuse, block, saved,
      cleaned, adding, recycler, freed>>
MCvars == <<part, vars, proxies, transactions>>

E == INSTANCE ClientProxy WITH Server <- 1 .. 2, StartEpoch <- 1, LastEpoch <- 3,
         MaxTx <- 2, Eager <- TRUE, SpuriousWakeup <- FALSE,
         epoch <- aEpoch, received <- aReceived, rpc <- aRpc, buffer <- aBuffer,
         tail <- aTail, wpc <- aWpc, wepoch <- aWepoch, waits <- aWaits,
         global <- aGlobal, finished <- aFinished, crashed <- aCrashed
S == INSTANCE ClientProxy WITH Server <- 1 .. 2, StartEpoch <- 1, LastEpoch <- 3,
         MaxTx <- 1, Eager <- FALSE, SpuriousWakeup <- TRUE,
         epoch <- aEpoch, received <- aReceived, rpc <- aRpc, buffer <- aBuffer,
         tail <- aTail, wpc <- aWpc, wepoch <- aWepoch, waits <- aWaits,
         global <- aGlobal, finished <- aFinished, crashed <- aCrashed
M == INSTANCE TransactionManager WITH StartEpoch <- 1, LastEpoch <- 4, MaxTx <- 6,
         MaxGap <- 1, MaxSize <- 2, Reusing <- FALSE, AsyncBlockGen <- TRUE,
         epoch <- mEpoch, buffer <- mBuffer
R == INSTANCE TransactionManager WITH StartEpoch <- 1, LastEpoch <- 4, MaxTx <- 6,
         MaxGap <- 1, MaxSize <- 2, Reusing <- TRUE, AsyncBlockGen <- TRUE,
         epoch <- mEpoch, buffer <- mBuffer

MCInit ==
    /\ Init
    /\ \/ part = "barrier" /\ E!Init /\ M!Init
       \/ part = "eager" /\ E!Init /\ M!Init
       \/ part = "spurious" /\ S!Init /\ M!Init
       \/ part = "manager" /\ E!Init /\ M!Init
       \/ part = "reusing" /\ E!Init /\ R!Init

MCNext ==
    \/ part = "barrier" /\ Next /\ UNCHANGED <<part, proxies, transactions>>
    \/ part = "eager" /\ E!Next /\ UNCHANGED <<part, vars, transactions>>
    \/ part = "spurious" /\ S!Next /\ UNCHANGED <<part, vars, transactions>>
    \/ part = "manager" /\ M!Next /\ UNCHANGED <<part, vars, proxies>>
    \/ part = "reusing" /\ R!Next /\ UNCHANGED <<part, vars, proxies>>

MCSpec == MCInit /\ [][MCNext]_MCvars
-----------------------------------------------------------------------------
\* The other settings of the proxies.  With early_execution the transactions enter the
\* queue in the order of their epochs, too, and no receiver pushes one of an epoch that
\* the barrier has closed (the CHECK in isAllCPPushedToQueue).  When CyclicBarrier lets a
\* worker through too early, the task of asyncEmptyBuffer still leaves nothing of its
\* epoch in the buffer.
EagerInOrder ==
    [][/\ part = "eager" => aTail' >= aTail /\ (E!TypeOK /\ E!NeverBehindBarrier)'
       /\ part = "spurious" => S!FinishedEpochEmptied']_MCvars

\* Once an epoch is finished, each transaction of it is in its block, with its final
\* result, and in no other block: epochFinishedCallback, in the coordinator's thread,
\* and the manager's loop lose and double none, those executed again included.  The
\* coordinator gets the epochs in order, and what is executed again before any of the
\* next epoch; TransactionRecycler deletes a transaction only when its block is saved.
ExactlyOneBlock ==
    /\ part = "manager" =>
           M!TypeOK /\ M!ExactlyOneBlock /\ M!CoordinatorInOrder /\ M!FreedIsSaved
    /\ part = "reusing" =>
           R!TypeOK /\ R!ExactlyOneBlock /\ R!CoordinatorInOrder /\ R!FreedIsSaved
=============================================================================
