--------------------------- MODULE ChaincodeEpoch ---------------------------
(***************************************************************************)
(* Epochs of chaincode calls.  A call is executed on the database that the *)
(* epoch before has left, through the ORM, which records what it reads and *)
(* writes; at the end of the epoch the calls are decided by their read and *)
(* write sets.                                                             *)
(*                                                                         *)
(* Every call is executed in one step, and its reservations are taken from *)
(* the read and write sets themselves: TableTheorem of                     *)
(* AriaExecution_proofs says that the reserve table holds the smallest     *)
(* transaction of every key, whatever the interleaving.                    *)
(*                                                                         *)
(* The transactions that MockComm hands out in its first two epochs, a     *)
(* worked example of the protocol, are calls of the test chaincode here.   *)
(***************************************************************************)
EXTENDS ORM, FiniteSets

CONSTANTS
    Call,           \* chaincode calls with their arguments
    Key,            \* the keys of the chaincode's table
    Tids,           \* transaction ids of an epoch, positive numbers
    MaxEpoch,       \* bound: epochs
    Invoke(_, _, _) \* InvokeChaincode: what a transaction's call does on a database state

VARIABLES
    db,     \* the database
    start,  \* the database as the epoch found it
    batch,  \* the calls of the epoch
    rwset,  \* what each call has returned, read and written
    result, \* TransactionResult
    epoch

vars == <<db, start, batch, rwset, result, epoch>>

Init ==
    /\ db = [k \in Key |-> Empty]
    /\ start = db
    /\ batch \in [Tids -> Call]
    /\ rwset = [t \in Tids |-> Nothing]
    /\ result = [t \in Tids |-> "NEW"]
    /\ epoch = 1

\* executeList: the call runs; when it fails it is aborted and reserves nothing.
Execute(t) ==
    /\ result[t] = "NEW"
    /\ rwset' = [rwset EXCEPT ![t] = Invoke(t, batch[t], db)]
    /\ result' = [result EXCEPT ![t] = IF rwset'[t].ok THEN "PENDING" ELSE "ABORT_NO_RETRY"]
    /\ UNCHANGED <<db, start, batch, epoch>>

Reads == [t \in Tids |-> rwset[t].reads]
Writes == [t \in Tids |-> WriteKeys(rwset[t])]

\* A smaller transaction that has not failed reserved one of the keys.
ReservedBySmaller(keys, sets, t) ==
    \E u \in Tids : u < t /\ rwset[u].ok /\ keys \cap sets[u] # {}

\* Mutant of MustAbort: writes over writes are not looked at.
MustAbortCycle(t) ==
    ReservedBySmaller(Writes[t], Reads, t) /\ ReservedBySmaller(Reads[t], Writes, t)
\* dependencyAnalysis and the verdict of commitList.
MustAbort(t) ==
    \/ ReservedBySmaller(Writes[t], Writes, t)
    \/ ReservedBySmaller(Writes[t], Reads, t) /\ ReservedBySmaller(Reads[t], Writes, t)

\* commitList, once all calls have been executed.
Decide(t) ==
    /\ \A u \in Tids : result[u] # "NEW"
    /\ result[t] = "PENDING"
    /\ IF MustAbort(t)
       THEN /\ result' = [result EXCEPT ![t] = "ABORT"]
            /\ UNCHANGED db
       ELSE /\ result' = [result EXCEPT ![t] = "COMMIT"]
            /\ db' = Apply(db, rwset[t])
    /\ UNCHANGED <<start, batch, rwset, epoch>>

Decided == \A t \in Tids : result[t] \notin {"NEW", "PENDING"}

\* The next epoch.
NextEpoch ==
    /\ Decided
    /\ epoch < MaxEpoch
    /\ epoch' = epoch + 1
    /\ start' = db
    /\ batch' \in [Tids -> Call]
    /\ rwset' = [t \in Tids |-> Nothing]
    /\ result' = [t \in Tids |-> "NEW"]
    /\ UNCHANGED db

\* The bound on the epochs is reached.
Rest ==
    /\ Decided
    /\ epoch = MaxEpoch
    /\ UNCHANGED vars

Next == (\E t \in Tids : Execute(t) \/ Decide(t)) \/ NextEpoch \/ Rest

Spec == Init /\ [][Next]_vars
-----------------------------------------------------------------------------
(* MockComm.  The transactions of an epoch are numbered by position; the ones  *)
(* aborted in the first epoch come first in the second, as they keep their     *)
(* smaller ids (TransactionManager).                                           *)

mixedCall(reads, writes) == [cc |-> "mixed", reads |-> reads, update |-> writes]

\* The transactions 1 .. 6 of the first epoch.
firstInEpoch1 ==
    <<mixedCall({0, 1}, {2}), mixedCall({3, 4, 5}, {0}), mixedCall({6, 7}, {3, 9}),
      mixedCall({2, 8}, {1, 4}), mixedCall({9}, {5, 6, 8}), mixedCall({}, {7})>>

\* The transactions 7 .. 10 of the second epoch.
firstInEpoch2 ==
    <<mixedCall({0, 1}, {2}), mixedCall({3, 4, 5}, {0}), mixedCall({6, 7}, {3, 9}),
      mixedCall({}, {7})>>

\* The aborted transactions of the epoch, in order, and then the new ones.
Retried == SelectSeq(<<1, 2, 3, 4, 5, 6>>, LAMBDA t : result[t] = "ABORT")
SecondBatch == [i \in DOMAIN Retried |-> batch[Retried[i]]] \o firstInEpoch2

MockInit == batch = firstInEpoch1 /\ Init

MockNext ==
    \/ \E t \in Tids : Execute(t) \/ Decide(t)
    \/ batch' = SecondBatch /\ NextEpoch
    \/ Rest

-----------------------------------------------------------------------------
Committed == {t \in Tids : result[t] = "COMMIT"}

\* Type invariant.
TypeOK ==
    /\ DOMAIN db = Key /\ DOMAIN start = Key
    /\ batch \in [Tids -> Call]
    /\ \A t \in Tids : rwset[t].reads \subseteq Key /\ WriteKeys(rwset[t]) \subseteq Key
    /\ result \in [Tids -> {"NEW", "PENDING", "COMMIT", "ABORT", "ABORT_NO_RETRY"}]
    /\ epoch \in 1 .. MaxEpoch

\* The ORM's CHECK holds: no chaincode inserts the same key twice.
NoDuplicateInsert == \A t \in Tids : rwset[t].check

\* What an epoch leaves is what its committed calls leave when they run one after
\* the other in some order, where each finds the values it has read and succeeds: the
\* read and write sets that the ORM records are all that the decision needs.
SerialCalls ==
    Decided =>
        \E order \in SetToSeqs(Committed) :
            LET Run(acc, t) ==
                    LET rw == Invoke(t, batch[t], acc.state)
                    IN  [state |-> Apply(acc.state, rw),
                         same |-> /\ acc.same
                                  /\ rw.ok
                                  /\ \A k \in rw.reads : acc.state[k] = start[k]]
            IN  FoldLeft(Run, [state |-> start, same |-> TRUE], order)
                    = [state |-> db, same |-> TRUE]

\* The outcome that the comments beside the transactions give: "abort: 4, 5",
\* "commit: 1, 2, 3, 6" in the first epoch, and "abort: 7, 8, 9",
\* "commit: 4, 5, 10" in the second, in which 4 and 5 are the first two.
ExampleResults ==
    Decided => Committed = IF epoch = 1 THEN {1, 2, 3, 6} ELSE {1, 2, 6}
=============================================================================
