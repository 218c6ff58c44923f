---------------------------- MODULE Transactions ----------------------------
(***************************************************************************)
(* The transactions of one epoch as the executor sees them, and what their *)
(* chaincode does to a database state.                                     *)
(***************************************************************************)
EXTENDS Naturals

CONSTANTS
    Tid,        \* the ids of the epoch's transactions
    Key,        \* database keys (a table name and a key in the code)
    Worker,     \* worker threads
    Batches     \* the epochs considered: functions from Tid to Transaction

Kinds == {"read", "write"}

\* What is fixed of a transaction before it runs: the keys its chaincode reads
\* and writes, whether the chaincode succeeds, the worker it is assigned to.
Transaction == [read : SUBSET Key, write : SUBSET Key,
                ok : BOOLEAN, worker : Worker]

\* transaction.h:21: "tid start from 1, not equal 0".
ASSUME TidAssumption == Tid \subseteq Nat \ {0}

\* An epoch has finitely many transactions: none beyond some largest id.
ASSUME EpochAssumption == \E n \in Tid \cup {0} : \A t \in Tid : t <= n

ASSUME BatchAssumption == Batches \subseteq [Tid -> Transaction]

\* The value of a key that no transaction of the epoch has written.
Unwritten == [by |-> 0, from |-> <<>>]

\* The database as the previous epoch left it.
Snapshot == [k \in Key |-> Unwritten]

\* What the chaincode of transaction t, described by d, writes when it runs on
\* a database state: each value records its writer and all the writer has read.
Writes(t, d, state) ==
    [k \in d.write |-> [by |-> t, from |-> [j \in d.read |-> state[j]]]]

\* A database state after a write set has been stored in it.
Store(state, writes) ==
    [k \in Key |-> IF k \in DOMAIN writes THEN writes[k] ELSE state[k]]
=============================================================================
