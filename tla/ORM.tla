--------------------------------- MODULE ORM --------------------------------
(***************************************************************************)
(* The ORM a chaincode works through (CCORMHelper, QueryImpl, InsertImpl,  *)
(* LevelDBResultsIterator): a query reads the database and records the key *)
(* in the read set, an insert records a key and its value in the write     *)
(* set.  A chaincode does not see its own inserts.                         *)
(***************************************************************************)
EXTENDS Integers, Sequences, SequencesExt

CONSTANT Empty  \* the value of a key that is not there: the empty string

\* The read and write set of a chaincode that starts: the keys read, the inserts in
\* order, what the chaincode returns, and whether all CHECKs have held.
Nothing == [reads |-> {}, writes |-> <<>>, ok |-> TRUE, check |-> TRUE]

\* A query: the iterator always has one row and records the key, also of a row that
\* is not there.
Query(rw, state, k) == [rw EXCEPT !.reads = @ \cup {k}]

\* An insert: a key that the chaincode has written already fails a CHECK.
Insert(rw, k, v) ==
    IF \E i \in DOMAIN rw.writes : rw.writes[i][1] = k
    THEN [rw EXCEPT !.check = FALSE]
    ELSE [rw EXCEPT !.writes = Append(@, <<k, v>>)]

\* The chaincode returns false.
Fail(rw) == [rw EXCEPT !.ok = FALSE]

\* The keys that the inserts write.
WriteKeys(rw) == {rw.writes[i][1] : i \in DOMAIN rw.writes}

\* A database state after the inserts.
Apply(state, rw) ==
    FoldLeft(LAMBDA s, w : [s EXCEPT ![w[1]] = w[2]], state, rw.writes)
=============================================================================
