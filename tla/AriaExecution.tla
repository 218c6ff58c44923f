--------------------------- MODULE AriaExecution ---------------------------
(***************************************************************************)
(* One epoch of a block server: the worker threads execute the epoch's     *)
(* transactions on the database left by the previous epoch, reserve their  *)
(* read and write sets in the shared reserve table (MockReserveTable), and,*)
(* once all of them have finished reading, decide and apply them           *)
(* (TransactionExecutorImpl::executeList, TransactionExecutor::commitList).*)
(*                                                                         *)
(* A reservation register is a std::atomic that holds the smallest         *)
(* transaction id that reserved the key, 0 meaning "nobody".  Every load   *)
(* and every compare_exchange on it is a step of its own.                  *)
(***************************************************************************)
EXTENDS Transactions

VARIABLES
    txn,        \* the epoch's batch
    table,      \* readTableList and writeTableList
    phase,      \* the phase the coordinator has started
    running,    \* per worker, the transaction inside reserveRWSet, 0 if none
    todo,       \* per worker, the keys the running transaction has yet to reserve
    loaded,     \* per worker, the register it is on and its old_rts or old_wts
    kvRWSet,    \* per transaction, the values its chaincode wants written
    result,     \* per transaction, its TransactionResult
    executed,   \* the transactions executeList is done with
    decided,    \* the transactions commitList is done with
    db          \* the committed value of each key

vars == <<txn, table, phase, running, todo, loaded, kvRWSet, result,
          executed, decided, db>>

NoRegister == [kind |-> "none", key |-> 0, old |-> 0]
NoKeys == [kind \in Kinds |-> {}]

Init ==
    /\ txn \in Batches
    /\ table = [kind \in Kinds |-> [k \in Key |-> 0]]
    /\ phase = "Aria_READ"
    /\ running = [w \in Worker |-> 0]
    /\ todo = [w \in Worker |-> NoKeys]
    /\ loaded = [w \in Worker |-> NoRegister]
    /\ kvRWSet = [t \in Tid |-> <<>>]
    /\ result = [t \in Tid |-> "PENDING"]
    /\ executed = {}
    /\ decided = {}
    /\ db = Snapshot
-----------------------------------------------------------------------------
(* The read phase. *)

\* Worker w turns to transaction t of its workload.
Pick(w, t) ==
    /\ running[w] = 0
    /\ txn[t].worker = w
    /\ t \notin executed

\* The chaincode fails: the transaction is aborted and reserves nothing.
InvokeChaincodeFails(w, t) ==
    /\ Pick(w, t)
    /\ ~txn[t].ok
    /\ result' = [result EXCEPT ![t] = "ABORT_NO_RETRY"]
    /\ executed' = executed \cup {t}
    /\ UNCHANGED <<txn, table, phase, running, todo, loaded, kvRWSet, decided, db>>

\* The chaincode succeeds: its reads are answered from the database, its
\* writes go to the transaction's write set, and reserveRWSet is entered.
InvokeChaincode(w, t) ==
    /\ Pick(w, t)
    /\ txn[t].ok
    /\ kvRWSet' = [kvRWSet EXCEPT ![t] = Writes(t, txn[t], db)]
    /\ running' = [running EXCEPT ![w] = t]
    /\ todo' = [todo EXCEPT ![w] = [kind \in Kinds |-> txn[t][kind]]]
    /\ UNCHANGED <<txn, table, phase, loaded, result, executed, decided, db>>

\* reg.load() of the next key: the read set first, then the write set.
LoadRegister(w, kind, k) ==
    /\ running[w] # 0
    /\ running[w] \notin executed
    /\ loaded[w].kind = "none"
    /\ k \in todo[w][kind]
    /\ kind = "write" => todo[w]["read"] = {}
    /\ loaded' = [loaded EXCEPT ![w] = [kind |-> kind, key |-> k,
                                        old |-> table[kind][k]]]
    /\ UNCHANGED <<txn, table, phase, running, todo, kvRWSet, result,
                   executed, decided, db>>

\* Mutant of HeldBySmaller: any reservation counts.
HeldByAnyone(old, t) == old # 0
\* The value seen belongs to this or to a smaller transaction.
HeldBySmaller(old, t) == old <= t /\ old # 0

\* The register's value is the one the worker has seen.
Expected(r) == table[r.kind][r.key] = r.old

\* The worker is done with the register it is on.
NextRegister(w) ==
    /\ todo' = [todo EXCEPT ![w][loaded[w].kind] = @ \ {loaded[w].key}]
    /\ loaded' = [loaded EXCEPT ![w] = NoRegister]

\* break: the key is held by a smaller transaction and is left alone.
KeepRegister(w) ==
    /\ loaded[w].kind # "none"
    /\ HeldBySmaller(loaded[w].old, running[w])
    /\ NextRegister(w)
    /\ UNCHANGED <<txn, table, phase, running, kvRWSet, result,
                   executed, decided, db>>

\* compare_exchange_weak succeeds: the key now belongs to this transaction.
ExchangeRegister(w) ==
    LET r == loaded[w] IN
    /\ r.kind # "none"
    /\ ~HeldBySmaller(r.old, running[w])
    /\ Expected(r)
    /\ table' = [table EXCEPT ![r.kind][r.key] = running[w]]
    /\ NextRegister(w)
    /\ UNCHANGED <<txn, phase, running, kvRWSet, result, executed, decided, db>>

\* The value a failed exchange leaves in old_rts or old_wts.
Reload(r) == [kind |-> r.kind, key |-> r.key, old |-> table[r.kind][r.key]]

\* compare_exchange_weak fails because the register has changed.  (A spurious
\* failure reloads the value the worker has: it is a stuttering step.)
RetryRegister(w) ==
    LET r == loaded[w] IN
    /\ r.kind # "none"
    /\ ~HeldBySmaller(r.old, running[w])
    /\ ~Expected(r)
    /\ loaded' = [loaded EXCEPT ![w] = Reload(r)]
    /\ UNCHANGED <<txn, table, phase, running, todo, kvRWSet, result,
                   executed, decided, db>>

\* reserveRWSet returns.
FinishReserve(w) ==
    /\ running[w] # 0
    /\ running[w] \notin executed
    /\ todo[w] = NoKeys
    /\ executed' = executed \cup {running[w]}
    /\ running' = [running EXCEPT ![w] = 0]
    /\ UNCHANGED <<txn, table, phase, todo, loaded, kvRWSet, result, decided, db>>
-----------------------------------------------------------------------------
(* The commit phase. *)

\* Worker w is through its workload and has reported FINISH_READ.
FinishedRead(w) == \A t \in Tid : txn[t].worker = w => t \in executed

\* Mutant of SyncAllWorker: the coordinator goes on after the first report.
SyncOneWorker == \E w \in Worker : FinishedRead(w)
\* syncAllWorker: every worker has reported.
SyncAllWorker == \A w \in Worker : FinishedRead(w)

\* The coordinator leaves readPhase and broadcasts Aria_COMMIT.
StartCommit ==
    /\ phase = "Aria_READ"
    /\ SyncAllWorker
    /\ phase' = "Aria_COMMIT"
    /\ UNCHANGED <<txn, table, running, todo, loaded, kvRWSet, result,
                   executed, decided, db>>

\* Mutant of ReservedBySmaller: the transaction's own reservation counts.
ReservedBySelf(keys, kind, t) ==
    \E k \in keys : table[kind][k] <= t /\ table[kind][k] # 0
\* Some key of the set is reserved by a smaller transaction.
ReservedBySmaller(keys, kind, t) ==
    \E k \in keys : table[kind][k] < t /\ table[kind][k] # 0

\* dependencyAnalysis: the write-after-write, write-after-read and
\* read-after-write dependencies of t on smaller transactions.
dependencyAnalysis(t) ==
    [waw |-> ReservedBySmaller(txn[t].write, "write", t),
     war |-> ReservedBySmaller(txn[t].write, "read", t),
     raw |-> ReservedBySmaller(txn[t].read, "write", t)]

\* Mutants of MustAbort: one of the two tests is dropped.
IgnoreWaw(dep) == dep.war /\ dep.raw
IgnoreWarRaw(dep) == dep.waw
\* commitList's verdict on a dependency.
MustAbort(dep) == dep.waw \/ (dep.war /\ dep.raw)

\* Worker w's commitList reaches transaction t.
Reach(w, t) ==
    /\ phase = "Aria_COMMIT"
    /\ FinishedRead(w)
    /\ running[w] = 0
    /\ txn[t].worker = w
    /\ t \notin decided

\* The chaincode failed: the reserve table is not consulted.
AbortFailed(w, t) ==
    /\ Reach(w, t)
    /\ result[t] = "ABORT_NO_RETRY"
    /\ decided' = decided \cup {t}
    /\ UNCHANGED <<txn, table, phase, running, todo, loaded, kvRWSet, result,
                   executed, db>>

AbortTransaction(w, t) ==
    /\ Reach(w, t)
    /\ result[t] # "ABORT_NO_RETRY"
    /\ MustAbort(dependencyAnalysis(t))
    /\ result' = [result EXCEPT ![t] = "ABORT"]
    /\ decided' = decided \cup {t}
    /\ UNCHANGED <<txn, table, phase, running, todo, loaded, kvRWSet, executed, db>>

\* The transaction passes and commitUpdate is entered.
CommitUpdate(w, t) ==
    /\ Reach(w, t)
    /\ result[t] # "ABORT_NO_RETRY"
    /\ ~MustAbort(dependencyAnalysis(t))
    /\ running' = [running EXCEPT ![w] = t]
    /\ todo' = [todo EXCEPT ![w]["write"] = txn[t].write]
    /\ UNCHANGED <<txn, table, phase, loaded, kvRWSet, result, executed,
                   decided, db>>

\* updateWriteSet stores the next value of the write set.
UpdateWriteSet(w, k) ==
    /\ running[w] \in executed
    /\ k \in todo[w]["write"]
    /\ db' = [db EXCEPT ![k] = kvRWSet[running[w]][k]]
    /\ todo' = [todo EXCEPT ![w]["write"] = @ \ {k}]
    /\ UNCHANGED <<txn, table, phase, running, loaded, kvRWSet, result,
                   executed, decided>>

\* commitUpdate returns (always true).
FinishCommit(w) ==
    /\ running[w] \in executed
    /\ todo[w] = NoKeys
    /\ result' = [result EXCEPT ![running[w]] = "COMMIT"]
    /\ decided' = decided \cup {running[w]}
    /\ running' = [running EXCEPT ![w] = 0]
    /\ UNCHANGED <<txn, table, phase, todo, loaded, kvRWSet, executed, db>>

\* The epoch is over; the next one starts from a new reserve table.
EpochOver ==
    /\ decided = Tid
    /\ UNCHANGED vars
-----------------------------------------------------------------------------
ReadStep(w) ==
    \/ \E t \in Tid : InvokeChaincodeFails(w, t) \/ InvokeChaincode(w, t)
    \/ \E kind \in Kinds : \E k \in Key : LoadRegister(w, kind, k)
    \/ KeepRegister(w)
    \/ ExchangeRegister(w)
    \/ RetryRegister(w)
    \/ FinishReserve(w)

CommitStep(w) ==
    \/ \E t \in Tid :
          AbortFailed(w, t) \/ AbortTransaction(w, t) \/ CommitUpdate(w, t)
    \/ \E k \in Key : UpdateWriteSet(w, k)
    \/ FinishCommit(w)

Next ==
    \/ \E w \in Worker : ReadStep(w) \/ CommitStep(w)
    \/ StartCommit
    \/ EpochOver

Spec == Init /\ [][Next]_vars

-----------------------------------------------------------------------------
(* Properties. *)

Register == [kind : Kinds, key : Key, old : Tid \cup {0}]

\* Type correctness of the executor's state.
TypeOK ==
    /\ txn \in [Tid -> Transaction]
    /\ table \in [Kinds -> [Key -> Tid \cup {0}]]
    /\ phase \in {"Aria_READ", "Aria_COMMIT"}
    /\ running \in [Worker -> Tid \cup {0}]
    /\ todo \in [Worker -> [Kinds -> SUBSET Key]]
    /\ loaded \in [Worker -> Register \cup {NoRegister}]
    /\ result \in [Tid -> {"PENDING", "COMMIT", "ABORT", "ABORT_NO_RETRY"}]
    /\ executed \in SUBSET Tid
    /\ decided \in SUBSET Tid

\* When committing starts, every register holds exactly the smallest successful
\* transaction that reserved the key (0 if there is none), whatever the
\* interleaving of the compare_exchange loops in reserveRWSet was.
TableIsMinimum ==
    phase = "Aria_COMMIT" =>
        \A kind \in Kinds, k \in Key :
            LET holders == {t \in Tid : txn[t].ok /\ k \in txn[t][kind]} IN
            /\ holders = {} => table[kind][k] = 0
            /\ holders # {} => /\ table[kind][k] \in holders
                               /\ \A t \in holders : table[kind][k] <= t

\* A register never goes back to a larger transaction, nor to "nobody":
\* a reservation made by reserveRWSet is only ever lost to a smaller one.
ReservationsOnlyShrink ==
    [][\A kind \in Kinds, k \in Key :
         table[kind][k] # 0 => table'[kind][k] \in 1 .. table[kind][k]]_vars

\* The dependencies of t by the batch alone, without the reserve table.
Conflicts(t, keys, kind) ==
    \E u \in Tid : u < t /\ txn[u].ok /\ txn[u][kind] \cap keys # {}

WAW(t) == Conflicts(t, txn[t].write, "write")
WAR(t) == Conflicts(t, txn[t].write, "read")
RAW(t) == Conflicts(t, txn[t].read, "write")

Decision(t) ==
    IF ~txn[t].ok THEN "ABORT_NO_RETRY"
    ELSE IF WAW(t) \/ (WAR(t) /\ RAW(t)) THEN "ABORT" ELSE "COMMIT"

\* commitList is done with every transaction of the epoch.
Done == phase = "Aria_COMMIT" /\ decided = Tid

\* The database that the batch alone determines.
Outcome ==
    [k \in Key |->
        LET writers == {t \in Tid : k \in txn[t].write /\ Decision(t) = "COMMIT"}
            writer == CHOOSE t \in writers : TRUE
        IN  IF writers = {} THEN Snapshot[k] ELSE Writes(writer, txn[writer], Snapshot)[k]]

\* The result of a transaction, and the database an epoch leaves, are functions of
\* the batch: two servers that execute the same epoch with other workers, workloads
\* and interleavings commit the same transactions (the block they agree on in
\* signatureValidate) and start the next epoch from the same state.
DeterministicResult ==
    /\ \A t \in decided : result[t] = Decision(t)
    /\ Done => db = Outcome

Committed == {t \in decided : result[t] = "COMMIT"}

\* The serial order of the committed transactions: first those that read a key
\* a smaller transaction reserved for writing, the largest first; then the
\* others, the smallest first.
Before(t, u) ==
    \/ RAW(t) /\ ~RAW(u)
    \/ RAW(t) /\ RAW(u) /\ u < t
    \/ ~RAW(t) /\ ~RAW(u) /\ t < u

\* The transactions commitList lets through are serializable: no two of them
\* write the same key, and each one that has read a key (from the snapshot)
\* comes before the one that overwrites it.
Serializable ==
    \A t, u \in Committed :
        t # u => /\ txn[t].write \cap txn[u].write = {}
                 /\ txn[t].read \cap txn[u].write # {} => Before(t, u)

\* The database holds, for every committed transaction, the values its chaincode
\* computes from the previous epoch's state: no concurrent commit overwrites
\* them and no chaincode reads a value of its own epoch.
CommittedWritesSurvive ==
    \A t \in Committed : \A k \in txn[t].write :
        db[k] = Writes(t, txn[t], Snapshot)[k]

\* The smallest transaction whose chaincode succeeds is never aborted, so an
\* epoch that retries its aborted transactions gets closer to its end.
SmallestCommits ==
    \A t \in decided :
        (txn[t].ok /\ \A u \in Tid : txn[u].ok => t <= u) => result[t] = "COMMIT"

-----------------------------------------------------------------------------
(* What executing an epoch promises (module SerialEpoch). *)

Serial == INSTANCE SerialEpoch WITH
    batch <- txn,
    state <- IF Done THEN db ELSE Snapshot,
    committed <- IF Done THEN Committed ELSE {},
    over <- Done

\* Executing the epoch implements running the committed transactions one after
\* the other: the abstract state changes when commitList is done with the last one.
SerialSpec == Serial!Spec

-----------------------------------------------------------------------------
(* The inductive invariant behind the safety properties. *)

Reserves(t, kind, k) == txn[t].ok /\ k \in txn[t][kind]

\* The register holds t or a smaller transaction.
HeldUpTo(kind, k, t) == table[kind][k] # 0 /\ table[kind][k] <= t

Executing(w) == running[w] # 0 /\ running[w] \notin executed
Storing(w) == running[w] \in executed

\* What a worker still has to do belongs to its transaction.
KeysInv ==
    \A w \in Worker :
        /\ running[w] = 0 => \A kind \in Kinds : todo[w][kind] = {}
        /\ running[w] # 0 =>
              /\ txn[running[w]].ok
              /\ txn[running[w]].worker = w
              /\ \A kind \in Kinds : todo[w][kind] \subseteq txn[running[w]][kind]

\* A transaction is stored only in the commit phase and only if it may commit,
\* and the keys it is done with have its values.
StoreInv ==
    \A w \in Worker :
        /\ Executing(w) => phase = "Aria_READ"
        /\ Storing(w) =>
              /\ phase = "Aria_COMMIT"
              /\ running[w] \notin decided
              /\ Decision(running[w]) = "COMMIT"
              /\ \A k \in txn[running[w]].write \ todo[w]["write"] :
                    db[k] = Writes(running[w], txn[running[w]], Snapshot)[k]

\* The value a worker has loaded is an upper bound of the register.
LoadInv ==
    \A w \in Worker :
        loaded[w].kind # "none" =>
            /\ Executing(w)
            /\ loaded[w].key \in todo[w][loaded[w].kind]
            /\ loaded[w].old # 0 =>
                  HeldUpTo(loaded[w].kind, loaded[w].key, loaded[w].old)

\* A register holds a transaction that reserves the key, and none larger than
\* any transaction that is done with the key.
TableInv ==
    \A kind \in Kinds, k \in Key :
        /\ table[kind][k] # 0 => Reserves(table[kind][k], kind, k)
        /\ \A t \in executed : Reserves(t, kind, k) => HeldUpTo(kind, k, t)
        /\ \A w \in Worker :
              (Executing(w) /\ Reserves(running[w], kind, k) /\ k \notin todo[w][kind])
                  => HeldUpTo(kind, k, running[w])

\* How the phase, the results, the write sets and the database belong together.
ResultInv ==
    /\ decided \subseteq executed
    /\ phase = "Aria_COMMIT" => executed = Tid
    /\ phase = "Aria_READ" => decided = {} /\ db = Snapshot
    /\ \A t \in Tid \ decided :
          result[t] = IF t \in executed /\ ~txn[t].ok THEN "ABORT_NO_RETRY" ELSE "PENDING"
    /\ kvRWSet = [t \in Tid |-> kvRWSet[t]]
    /\ db = [k \in Key |-> db[k]]
    /\ \A t \in Tid : (txn[t].ok /\ (t \in executed \/ \E w \in Worker : running[w] = t))
          => kvRWSet[t] = Writes(t, txn[t], Snapshot)

\* commitList decides as the batch determines.
DecisionInv == \A t \in decided : result[t] = Decision(t)

\* A key that no transaction may write still has the previous epoch's value.
UntouchedInv ==
    \A k \in Key :
        db[k] # Snapshot[k] =>
            \E t \in Tid : k \in txn[t].write /\ Decision(t) = "COMMIT"

\* The inductive invariant: every step of executeList, reserveRWSet, commitList
\* and commitUpdate preserves it, and it implies the safety properties above.
IInv ==
    /\ TypeOK
    /\ KeysInv
    /\ StoreInv
    /\ LoadInv
    /\ TableInv
    /\ ResultInv
    /\ DecisionInv
    /\ CommittedWritesSurvive
    /\ UntouchedInv
=============================================================================
