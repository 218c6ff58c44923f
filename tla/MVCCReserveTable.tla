-------------------------- MODULE MVCCReserveTable --------------------------
(***************************************************************************)
(* The reserve table on top of the multi-version hash map                  *)
(* (MockMVCCReserveTable, built with USING_MVCC_RESERVE_TABLE).  The cell  *)
(* of a key is looked up under the lock of its bucket and, when there is   *)
(* none, inserted under the lock again; two transactions may do so at the  *)
(* same time and then the key has two cells, of which a later look-up      *)
(* finds the one inserted last.                                            *)
(*                                                                         *)
(* The list of a key is kept with its newest cell last, so a reference to  *)
(* a cell is its index.  One table of the database stands for all.         *)
(***************************************************************************)
EXTENDS Integers, Sequences, SequencesExt, FiniteSetsExt

CONSTANTS
    Tids,       \* transactions of the epoch
    Keys,       \* keys
    OneThread   \* whether a single worker makes the reservations, one after the other

VARIABLES
    reads,      \* transaction -> the keys it reads
    writes,     \* transaction -> the keys it writes
    cells,      \* the cells of every key in readTable and writeTable
    todo,       \* transaction -> reservations still to make
    ref,        \* transaction -> the cell it has found, 0 for none
    pc,         \* transaction -> its place
    dep         \* transaction -> the dependencies found

vars == <<reads, writes, cells, todo, ref, pc, dep>>

NoDependency == [waw |-> FALSE, war |-> FALSE, raw |-> FALSE]

Init ==
    /\ reads \in [Tids -> SUBSET Keys]
    /\ writes \in [Tids -> SUBSET Keys]
    /\ cells = [table \in {"readTable", "writeTable"} |-> [k \in Keys |-> <<>>]]
    /\ todo = [t \in Tids |-> [i \in 1 .. Cardinality(reads[t]) |->
                                    <<"readTable", SetToSeq(reads[t])[i]>>]
                           \o [i \in 1 .. Cardinality(writes[t]) |->
                                    <<"writeTable", SetToSeq(writes[t])[i]>>]]
    /\ ref = [t \in Tids |-> 0]
    /\ pc = [t \in Tids |-> "find"]
    /\ dep = [t \in Tids |-> NoDependency]

\* get_key_version: the newest cell, 0 for nullptr.
Newest(table, k) == Len(cells[table][k])

\* Another transaction is being reserved.
Busy(t) == OneThread /\ \E u \in Tids \ {t} : pc[u] \in {"insert", "reserve"}

\* Mutant of Find: a cell is inserted for every reservation.
FindNone(t) ==
    /\ pc[t] = "find"
    /\ todo[t] # <<>>
    /\ ~Busy(t)
    /\ ref' = [ref EXCEPT ![t] = 0]
    /\ pc' = [pc EXCEPT ![t] = "insert"]
    /\ UNCHANGED <<reads, writes, cells, todo, dep>>
\* reserveRWSet: look up the cell of the next key.
Find(t) ==
    /\ pc[t] = "find"
    /\ todo[t] # <<>>
    /\ ~Busy(t)
    /\ LET cell == Newest(Head(todo[t])[1], Head(todo[t])[2])
       IN  /\ ref' = [ref EXCEPT ![t] = cell]
           /\ pc' = [pc EXCEPT ![t] = IF cell = 0 THEN "insert" ELSE "reserve"]
    /\ UNCHANGED <<reads, writes, cells, todo, dep>>

\* insert_key_version_holder: a new cell in front, without a second look.
Insert(t) ==
    /\ pc[t] = "insert"
    /\ LET table == Head(todo[t])[1]
           k == Head(todo[t])[2]
       IN  /\ cells' = [cells EXCEPT ![table][k] = Append(@, 0)]
           /\ ref' = [ref EXCEPT ![t] = Newest(table, k) + 1]
    /\ pc' = [pc EXCEPT ![t] = "reserve"]
    /\ UNCHANGED <<reads, writes, todo, dep>>

\* The loop of compare_exchange_weak, as a whole: the smallest transaction stays.
Smaller(old, t) == IF old <= t /\ old # 0 THEN old ELSE t

Reserve(t) ==
    /\ pc[t] = "reserve"
    /\ cells' = [cells EXCEPT ![Head(todo[t])[1]][Head(todo[t])[2]][ref[t]] = Smaller(@, t)]
    /\ todo' = [todo EXCEPT ![t] = Tail(@)]
    /\ pc' = [pc EXCEPT ![t] = "find"]
    /\ UNCHANGED <<reads, writes, ref, dep>>

Reserved == \A t \in Tids : todo[t] = <<>>

\* The reservation that a look-up finds is older than the transaction.
Before(table, k, t) ==
    LET old == cells[table][k][Newest(table, k)] IN old < t /\ old # 0

\* One loop of dependencyAnalysis over keys: it stops at the first older reservation,
\* and before that it follows the pointer it gets, also the null pointer of a key
\* that no transaction has reserved in this table.
FollowsNull(table, keys, t) ==
    LET s == SetToSeq(keys)
    IN  \E i \in DOMAIN s : /\ Newest(table, s[i]) = 0
                            /\ \A j \in 1 .. i - 1 : ~Before(table, s[j], t)

Finds(table, keys, t) == \E k \in keys : Newest(table, k) > 0 /\ Before(table, k, t)

\* dependencyAnalysis, after all reservations; undefined after a null pointer.
Analyse(t) ==
    /\ Reserved
    /\ pc[t] = "find"
    /\ dep' = [dep EXCEPT ![t] = [waw |-> Finds("writeTable", writes[t], t),
                                  war |-> Finds("readTable", writes[t], t),
                                  raw |-> Finds("writeTable", reads[t], t)]]
    /\ pc' = [pc EXCEPT ![t] = IF FollowsNull("readTable", writes[t], t)
                                  \/ FollowsNull("writeTable", reads[t], t)
                               THEN "undefined" ELSE "analysed"]
    /\ UNCHANGED <<reads, writes, cells, todo, ref>>

\* The epoch is over.
Over ==
    /\ \A t \in Tids : pc[t] \in {"analysed", "undefined"}
    /\ UNCHANGED vars

Next == (\E t \in Tids : Find(t) \/ Insert(t) \/ Reserve(t) \/ Analyse(t)) \/ Over

Spec == Init /\ [][Next]_vars
-----------------------------------------------------------------------------
\* Type invariant.
TypeOK ==
    /\ reads \in [Tids -> SUBSET Keys] /\ writes \in [Tids -> SUBSET Keys]
    /\ \A table \in DOMAIN cells : \A k \in Keys : Range(cells[table][k]) \subseteq Tids \cup {0}
    /\ ref \in [Tids -> 0 .. Cardinality(Tids)]
    /\ pc \in [Tids -> {"find", "insert", "reserve", "analysed", "undefined"}]
    /\ dep \in [Tids -> [waw : BOOLEAN, war : BOOLEAN, raw : BOOLEAN]]

\* What the analysis finds is what the read and write sets say, in whatever order the
\* transactions were reserved (the tests expect the same for one and many threads).
DependenciesExact ==
    \A t \in Tids : pc[t] = "analysed" =>
        LET BySmaller(keys, set) == \E u \in Tids : u < t /\ keys \cap set[u] # {}
        IN  dep[t] = [waw |-> BySmaller(writes[t], writes),
                      war |-> BySmaller(writes[t], reads),
                      raw |-> BySmaller(reads[t], writes)]

\* Every transaction's reservation is in some cell of the key, or a smaller one is:
\* also with two cells for a key no reservation is undone, only looked up wrongly.
ReservedSomewhere ==
    Reserved => \A t \in Tids :
        /\ \A k \in reads[t] : \E i \in DOMAIN cells["readTable"][k] :
                cells["readTable"][k][i] \in 1 .. t
        /\ \A k \in writes[t] : \E i \in DOMAIN cells["writeTable"][k] :
                cells["writeTable"][k][i] \in 1 .. t
=============================================================================
