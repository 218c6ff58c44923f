------------------------- MODULE WorkloadSizeAdapter ------------------------
(***************************************************************************)
(* The size of the workloads that the coordinator gives to its workers,    *)
(* adapted to the numbers of transactions of the last epochs.  The         *)
(* arithmetic on doubles is done here on exact fractions; the conversion   *)
(* to size_t cuts off.                                                     *)
(***************************************************************************)
EXTENDS Integers, FiniteSetsExt

CONSTANTS
    Counts,                 \* numbers of transactions added by one call
    aggregateServerCount,   \* servers that share the epoch
    coreCount,
    recommendMinTx, recommendMaxTx, minTxThreadHold,
    initialCount,           \* what the cache holds at first
    cacheSize,
    MaxEpoch,               \* bound on the epochs
    MaxCount                \* bound on the transactions of an epoch

VARIABLES
    cacheEpoch,         \* epoch being counted
    cacheCountList,     \* counts of the last epochs
    minTxCount, maxTxCount

vars == <<cacheEpoch, cacheCountList, minTxCount, maxTxCount>>

Slots == 0 .. cacheSize - 1

Init ==
    /\ cacheEpoch = 1
    /\ cacheCountList = [i \in Slots |-> initialCount]
    /\ minTxCount = recommendMinTx
    /\ maxTxCount = recommendMaxTx

\* The slots that the average is taken over.
Nonzero == {i \in Slots : cacheCountList[i] # 0}

Total == MapThenSumSet(LAMBDA i : cacheCountList[i], Slots)

\* Mutant of PerWorker: no factor.
PerCore(limit) == Total \div (Cardinality(Nonzero) * coreCount)
\* average / (coreCount * factor), where
\* factor = average / (aggregateServerCount * coreCount * limit) + 1 and
\* average = Total / n: both factors brought over one denominator.
PerWorker(limit) ==
    LET n == Cardinality(Nonzero)
    IN  (Total * aggregateServerCount * limit)
            \div (Total + n * aggregateServerCount * coreCount * limit)

LargerOf(a, b) == IF a < b THEN b ELSE a

\* calculateBestWorkloadSize
NewMinTx == LargerOf(minTxThreadHold, PerWorker(recommendMinTx))

\* calculateBestWorkloadSize
NewMaxTx == LargerOf(NewMinTx, PerWorker(recommendMaxTx))

slot(epoch) == epoch % cacheSize

\* setLastEpochTxCount for the epoch being counted.
AddToEpoch(count) ==
    /\ cacheCountList[slot(cacheEpoch)] + count <= MaxCount
    /\ cacheCountList' = [cacheCountList EXCEPT ![slot(cacheEpoch)] = @ + count]
    /\ UNCHANGED <<cacheEpoch, minTxCount, maxTxCount>>

\* setLastEpochTxCount for the next epoch: the sizes are computed from the
\* epochs before it.
NextEpoch(count) ==
    /\ cacheEpoch < MaxEpoch
    /\ minTxCount' = NewMinTx
    /\ maxTxCount' = NewMaxTx
    /\ cacheEpoch' = cacheEpoch + 1
    /\ cacheCountList' = [cacheCountList EXCEPT ![slot(cacheEpoch')] = count]

Next == \E count \in Counts : AddToEpoch(count) \/ NextEpoch(count)

Spec == Init /\ [][Next]_vars

-----------------------------------------------------------------------------
\* Types of the variables of WorkloadSizeAdapter.
TypeOK ==
    /\ cacheEpoch \in 1 .. MaxEpoch
    /\ cacheCountList \in [Slots -> 0 .. MaxCount]
    /\ minTxCount \in Nat /\ maxTxCount \in Nat

\* The sizes that createWorkload uses never cross and never fall below the
\* threshold, whatever the load: a workload always gets a transaction, and the
\* loop that collects it can reach its minimum.
SizesOrdered == minTxThreadHold <= minTxCount /\ minTxCount <= maxTxCount

\* "the max trs assigned to a worker": however many transactions an epoch has,
\* a workload is not larger than recommendMaxTx.
WithinMaximum == maxTxCount <= LargerOf(recommendMaxTx, minTxThreadHold)
=============================================================================
