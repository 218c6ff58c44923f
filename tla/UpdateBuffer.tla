---------------------------- MODULE UpdateBuffer ----------------------------
(***************************************************************************)
(* The update buffer of the database (DatabaseImpl): the workers buffer    *)
(* the read-write sets of an epoch, commit or abort them after the         *)
(* coordinator's barrier, and the first worker to buffer in the next epoch *)
(* empties the two maps.  The maps (HashMap) are split into N buckets with *)
(* a lock each; operator[] returns a reference that is written after the   *)
(* lock is released.  An entry is the epoch that wrote it.                 *)
(***************************************************************************)
EXTENDS Integers, FiniteSetsExt

CONSTANTS
    Tids,       \* transaction numbers
    Workers,    \* worker threads
    N,          \* buckets of a map
    MaxEpoch    \* bound on the epochs

ASSUME ConstantsAssumption ==
    Tids \subseteq Nat /\ Tids # {} /\ N \in Nat \ {0} /\ MaxEpoch \in Nat \ {0}

Absent == -1    \* no entry
Empty == 0      \* the entry that operator[] makes
Entries == {Absent, Empty} \cup (1 .. MaxEpoch)
Maps == {"rwSet", "tableList"}

VARIABLES
    epoch,          \* current epoch
    phase,          \* "read" or "commit", switched by the coordinator's barriers
    todo,           \* transactions that no worker has taken in this phase
    failed,         \* transactions whose chaincode failed in this epoch
    outcome,        \* what the reservation table decides in the commit phase
    pc, tx,         \* step and transaction of each worker
    commitPhase,    \* the flag of the database
    buffer,         \* rwSetBuffer and tableListBuffer
    mutex,          \* the workers that hold the lock of clearBufferThreadSafe
    clearing,       \* map and bucket to be cleared next by the holder
    dangling        \* a reference was written after its entry was cleared

vars == <<epoch, phase, todo, failed, outcome, pc, tx, commitPhase, buffer, mutex,
          clearing, dangling>>

coordinated == <<epoch, phase, failed, outcome>>
shared == <<commitPhase, buffer, mutex, clearing, dangling>>

Init ==
    /\ epoch = 1
    /\ phase = "read"
    /\ todo \in (SUBSET Tids) \ {{}}
    /\ failed = {}
    /\ outcome = [t \in {} |-> "COMMIT"]
    /\ pc = [w \in Workers |-> "idle"]
    /\ tx = [w \in Workers |-> CHOOSE t \in Tids : TRUE]
    /\ commitPhase = FALSE
    /\ buffer = [m \in Maps |-> [t \in Tids |-> Absent]]
    /\ mutex = {}
    /\ clearing = <<"rwSet", 0>>
    /\ dangling = FALSE

GoTo(w, label) == pc' = [pc EXCEPT ![w] = label]

bucket(t) == t % N

-----------------------------------------------------------------------------
\* executeList: the worker takes its next transaction; chaincode that fails
\* buffers nothing.
Execute(w, t) ==
    /\ phase = "read" /\ pc[w] = "idle" /\ t \in todo
    /\ todo' = todo \ {t}
    /\ tx' = [tx EXCEPT ![w] = t]
    /\ \/ GoTo(w, "flag") /\ outcome' = [u \in DOMAIN outcome \cup {t} |-> "COMMIT"]
          /\ UNCHANGED failed
       \/ failed' = failed \cup {t} /\ UNCHANGED <<pc, outcome>>
    /\ UNCHANGED <<epoch, phase, shared>>

\* bufferUpdates: the flag is read here and again on entering
\* clearBufferThreadSafe, both times without the lock.
TestFlag(w) ==
    /\ pc[w] \in {"flag", "flag2"}
    /\ GoTo(w, IF ~commitPhase THEN "rwSet"
               ELSE IF pc[w] = "flag" THEN "flag2" ELSE "lock")
    /\ UNCHANGED <<coordinated, todo, tx, shared>>

\* The lock is taken, and the flag tested a last time under it.
Lock(w) ==
    /\ pc[w] = "lock" /\ mutex = {}
    /\ IF commitPhase THEN mutex' = {w} /\ GoTo(w, "clear")
                      ELSE GoTo(w, "rwSet") /\ UNCHANGED mutex
    /\ UNCHANGED <<coordinated, todo, tx, commitPhase, buffer, clearing, dangling>>

Cleared(m, b) ==
    [buffer EXCEPT ![m] = [t \in Tids |-> IF bucket(t) = b THEN Absent ELSE @[t]]]

\* Mutant of NextToClear: the last bucket is left out.
NextToClearFewer ==
    IF clearing[2] < N - 2 THEN <<clearing[1], clearing[2] + 1>>
    ELSE <<IF clearing[1] = "rwSet" THEN "tableList" ELSE "rwSet", 0>>
\* The buckets of rwSetBuffer, then those of tableListBuffer.
NextToClear ==
    IF clearing[2] < N - 1 THEN <<clearing[1], clearing[2] + 1>>
    ELSE <<IF clearing[1] = "rwSet" THEN "tableList" ELSE "rwSet", 0>>

\* HashMap::clear, one bucket at a time, for the one map and then the other;
\* the flag goes down, and the lock is released, after the last bucket.
Clear(w) ==
    /\ pc[w] = "clear"
    /\ buffer' = Cleared(clearing[1], clearing[2])
    /\ clearing' = NextToClear
    /\ IF NextToClear = <<"rwSet", 0>>
       THEN commitPhase' = FALSE /\ mutex' = {} /\ GoTo(w, "rwSet")
       ELSE UNCHANGED <<commitPhase, mutex, pc>>
    /\ UNCHANGED <<coordinated, todo, tx, dangling>>

\* operator[]: the entry is found or made under the lock of its bucket.
Reference(w) ==
    /\ pc[w] \in Maps
    /\ buffer' = [buffer EXCEPT ![pc[w]][tx[w]] = IF @ = Absent THEN Empty ELSE @]
    /\ GoTo(w, IF pc[w] = "rwSet" THEN "setRWSet" ELSE "setTableList")
    /\ UNCHANGED <<coordinated, todo, tx, commitPhase, mutex, clearing, dangling>>

Written(w) == IF pc[w] = "setRWSet" THEN "rwSet" ELSE "tableList"

\* The assignment through the reference, with no lock held.
Assign(w) ==
    /\ pc[w] \in {"setRWSet", "setTableList"}
    /\ IF buffer[Written(w)][tx[w]] = Absent
       THEN dangling' = TRUE /\ UNCHANGED buffer
       ELSE buffer' = [buffer EXCEPT ![Written(w)][tx[w]] = epoch] /\ UNCHANGED dangling
    /\ GoTo(w, IF pc[w] = "setRWSet" THEN "tableList" ELSE "idle")
    /\ UNCHANGED <<coordinated, todo, tx, commitPhase, mutex, clearing>>

-----------------------------------------------------------------------------
PhaseDone == todo = {} /\ \A w \in Workers : pc[w] = "idle"

\* The smallest transaction that reserved never meets a conflict.
Decisions ==
    {d \in [DOMAIN outcome -> {"COMMIT", "ABORT", "WAW"}] :
        DOMAIN outcome # {} => d[Min(DOMAIN outcome)] = "COMMIT"}

\* All workers have executed: the coordinator starts the commit phase.
StartCommit ==
    /\ phase = "read" /\ PhaseDone
    /\ phase' = "commit"
    /\ todo' = DOMAIN outcome \cup failed
    /\ outcome' \in Decisions
    /\ UNCHANGED <<epoch, failed, pc, tx, shared>>

\* commitList for one transaction.  commitUpdate and abortUpdate raise the
\* flag; a transaction with a write-after-write conflict calls neither.
Commit(t) ==
    /\ phase = "commit" /\ t \in todo
    /\ todo' = todo \ {t}
    /\ commitPhase' = (commitPhase \/ t \in failed \/ outcome[t] # "WAW")
    /\ UNCHANGED <<coordinated, pc, tx, buffer, mutex, clearing, dangling>>

\* The epoch is finished and the next one has its own transactions.
NextEpoch ==
    /\ phase = "commit" /\ PhaseDone /\ epoch < MaxEpoch
    /\ epoch' = epoch + 1
    /\ phase' = "read"
    /\ todo' \in (SUBSET Tids) \ {{}}
    /\ failed' = {}
    /\ outcome' = [t \in {} |-> "COMMIT"]
    /\ UNCHANGED <<pc, tx, shared>>

Finished == phase = "commit" /\ PhaseDone /\ epoch = MaxEpoch /\ UNCHANGED vars

Next ==
    \/ \E w \in Workers :
        \/ \E t \in Tids : Execute(w, t)
        \/ TestFlag(w) \/ Lock(w) \/ Clear(w) \/ Reference(w) \/ Assign(w)
    \/ \E t \in Tids : Commit(t)
    \/ StartCommit \/ NextEpoch \/ Finished

Spec == Init /\ [][Next]_vars

-----------------------------------------------------------------------------
\* Types of the variables of DatabaseImpl and of its callers.
TypeOK ==
    /\ epoch \in 1 .. MaxEpoch
    /\ phase \in {"read", "commit"}
    /\ todo \subseteq Tids /\ failed \subseteq Tids
    /\ DOMAIN outcome \subseteq Tids
    /\ pc \in [Workers -> {"idle", "flag", "flag2", "lock", "clear", "setRWSet",
                           "setTableList"} \cup Maps]
    /\ tx \in [Workers -> Tids]
    /\ commitPhase \in BOOLEAN /\ dangling \in BOOLEAN
    /\ buffer \in [Maps -> [Tids -> Entries]]
    /\ mutex \subseteq Workers
    /\ clearing \in Maps \X (0 .. N - 1)

\* What commitUpdate asserts when it looks its transaction up: both maps hold the
\* entry that this epoch's execution wrote, however the workers that emptied the maps
\* (clearBufferThreadSafe) and the ones that filled them (bufferUpdates) interleaved.
\* Emptying the maps is complete: once an epoch has buffered anything, no entry of an
\* earlier epoch is left to be committed, or to keep a pointer to a read-write set that
\* is freed with its transaction.  And the entry is still there when bufferUpdates
\* writes through the reference that operator[] returned, after the lock of the bucket
\* is released.
BufferedUntilCommit ==
    /\ phase = "commit" => \A t \in DOMAIN outcome, m \in Maps : buffer[m][t] = epoch
    /\ phase = "commit" /\ DOMAIN outcome # {} =>
           \A t \in Tids, m \in Maps : buffer[m][t] \in {Absent, epoch}
    /\ ~dangling
=============================================================================
