--------------------------- MODULE MCCoordinators ---------------------------
(***************************************************************************)
(* The coordinators of a block server side by side: AriaCoordinator, which *)
(* executes every transaction itself, and the two views of a server that   *)
(* shares execution with others. A behaviour is about one of them and      *)
(* leaves AriaCoordinator in its initial state when it is not about that;  *)
(* "faulty" is a cluster with one lost exchange or spurious wakeup.        *)
(***************************************************************************)
EXTENDS AriaCoordinator, Integers

VARIABLES
    part,   \* which of them the behaviour is about
    aTaken, aEpoch, aPc, aStage, aVisit, aLoad, aAnnounced, aWpc, aWstate, aGstate,
    aWork, aCommitted, input, kind, aggregationQueue, merged, isAggregate, reserved,
    phase, result, listen, channel, receiver, waits, buffer, faults

W == INSTANCE AggregationWorkers WITH Workers <- 3, Length <- 4, MaxSize <- 2,
         taken <- aTaken, epoch <- aEpoch, pc <- aPc, stage <- aStage, visit <- aVisit,
         load <- aLoad, announced <- aAnnounced, wpc <- aWpc, wstate <- aWstate,
         gstate <- aGstate, work <- aWork, committed <- aCommitted
G == INSTANCE Aggregation WITH Servers <- {1, 2, 3}, Tids <- {1, 2, 3},
         MaxEpoch <- 3, MaxFaults <- 0, epoch <- aEpoch, committed <- aCommitted
F == INSTANCE Aggregation WITH Servers <- {1, 2, 3}, Tids <- {1, 2, 3},
         MaxEpoch <- 2, MaxFaults <- 1, epoch <- aEpoch, committed <- aCommitted

\* What only AggregationWorkers uses, what only Aggregation uses, and what both use.
onlyWorkers ==
    <<aTaken, aPc, aStage, aVisit, aLoad, aAnnounced, aWpc, aWstate, aGstate, aWork,
      input, kind, aggregationQueue, isAggregate, reserved>>
onlyCluster == <<phase, result, listen, channel, receiver, waits, buffer, faults>>
both == <<aEpoch, aCommitted, merged>>

MCvars == <<part, vars, onlyWorkers, onlyCluster, both>>

NoWorkers ==
    /\ aTaken = 0 /\ aPc = 0 /\ aStage = 0 /\ aVisit = 0 /\ aLoad = 0
    /\ aAnnounced = 0 /\ aWpc = 0 /\ aWstate = 0 /\ aGstate = 0 /\ aWork = 0
    /\ input = 0 /\ kind = 0 /\ aggregationQueue = 0 /\ isAggregate = 0
    /\ reserved = 0
NoCluster ==
    /\ phase = 0 /\ result = 0 /\ listen = 0 /\ channel = 0 /\ receiver = 0
    /\ waits = 0 /\ buffer = 0 /\ faults = 0

MCInit ==
    /\ Init
    /\ \/ /\ part = "aria" /\ NoWorkers /\ NoCluster
          /\ aEpoch = 0 /\ aCommitted = 0 /\ merged = 0
       \/ part = "shared" /\ W!Init /\ NoCluster
       \/ part = "cluster" /\ G!Init /\ NoWorkers
       \/ part = "faulty" /\ F!Init /\ NoWorkers

MCNext ==
    \/ part = "aria" /\ Next /\ UNCHANGED <<part, onlyWorkers, onlyCluster, both>>
    \/ part = "shared" /\ W!Next /\ UNCHANGED <<part, vars, onlyCluster>>
    \/ part = "cluster" /\ G!Next /\ UNCHANGED <<part, vars, onlyWorkers>>
    \/ part = "faulty" /\ F!Next /\ UNCHANGED <<part, vars, onlyWorkers>>
    \/ part = "shared" /\ aTaken = 4 /\ UNCHANGED MCvars
    \/ part = "cluster" /\ (\A s \in {1, 2, 3} : phase[s] = "end") /\ UNCHANGED MCvars
    \/ /\ part = "faulty"
       /\ faults = 1 \/ \E s \in {1, 2, 3} : phase[s] \in {"failed", "end"}
       /\ UNCHANGED MCvars

MCSpec == MCInit /\ [][MCNext]_MCvars
-----------------------------------------------------------------------------
\* The coordinator and the workers of a server that shares execution: a worker reserves
\* a transaction of another server only from merged results (not before
\* aggregateTransaction has returned, although Aria_READ started it), nothing is
\* committed while anything of the epoch may still be reserved, and when
\* epochTransactionFinishSignal announces the epoch each of its transactions has been
\* committed once, those that wait in aggregationQueue included.
\* Between the servers, every server commits every transaction of an epoch with the
\* result that its one executing server computed in this very epoch:
\* aggregateTransaction returns when "all transaction has finished execution, not local
\* server only".  The exchange is also a barrier between the servers, so that the CHECKs
\* of the tasks that merge hold and remoteRecvBuffer never gets a third epoch.  With a
\* lost exchange or a spurious wakeup a server may stop or wait, but never commits
\* something else.
CommitsMerged ==
    /\ part = "shared" =>
           W!TypeOK /\ W!ReservedWhenMerged /\ W!AllReservedFirst /\ W!AnnouncedComplete
    /\ part = "cluster" =>
           G!TypeOK /\ G!CommitsMerged /\ G!NoCheckFails /\ G!InLockstep /\ G!BufferFits
    /\ part = "faulty" => F!CommitsMerged
=============================================================================
