--------------------------- MODULE MockTransaction --------------------------
(***************************************************************************)
(* A transaction object and its two wire forms: the whole transaction, as  *)
(* it is stored in a block, and its result.  A byte is a number below      *)
(* 2 * Base; an integer is written as a varint, lowest digit first, where  *)
(* all but the last digit are marked by adding Base.  The payload and the  *)
(* read-write set are protocol buffers, here sequences of bytes; the       *)
(* payload's digest is a field of its own.                                 *)
(***************************************************************************)
EXTENDS Integers, Sequences, SequencesExt

CONSTANTS
    Base,           \* 128 in the code
    HashSize,       \* SHA256HashSize
    Tids, Epochs, Digests, Calls, RWSets    \* values of the fields

Results == [COMMIT |-> 0, PENDING |-> 1, ABORT |-> 2, ABORT_NO_RETRY |-> 3]
ResultName(n) == CHOOSE r \in DOMAIN Results : Results[r] = n

VARIABLE tx

NoPayload == [digest |-> <<>>, call |-> <<>>]

\* A new object.
New ==
    [tid |-> 0, epoch |-> 0, readOnly |-> TRUE, payload |-> NoPayload, rwSet |-> <<>>,
     result |-> "PENDING"]

Init == tx = New

-----------------------------------------------------------------------------
(* The setters *)

setTransactionID(t) == tx' = [tx EXCEPT !.tid = t]
setEpoch(e) == tx' = [tx EXCEPT !.epoch = e]
readOnly(flag) == tx' = [tx EXCEPT !.readOnly = flag]
setPayload(d, c) == tx' = [tx EXCEPT !.payload = [digest |-> d, call |-> c]]
setRWSet(rw) == tx' = [tx EXCEPT !.rwSet = rw]
setTransactionResult(r) == tx' = [tx EXCEPT !.result = r]

\* Before a retry: the id and the payload stay.
resetTransaction == tx' = [tx EXCEPT !.epoch = 0, !.rwSet = <<>>, !.result = "PENDING"]
resetRWSet == tx' = [tx EXCEPT !.rwSet = <<>>]
resetTransactionPayload == tx' = [tx EXCEPT !.payload = NoPayload]

Next ==
    \/ \E t \in Tids : setTransactionID(t)
    \/ \E e \in Epochs : setEpoch(e)
    \/ \E flag \in BOOLEAN : readOnly(flag)
    \/ \E d \in Digests, c \in Calls : setPayload(d, c)
    \/ \E rw \in RWSets : setRWSet(rw)
    \/ \E r \in DOMAIN Results : setTransactionResult(r)
    \/ resetTransaction \/ resetRWSet \/ resetTransactionPayload

Spec == Init /\ [][Next]_tx

-----------------------------------------------------------------------------
(* The streams *)

RECURSIVE WriteVarint(_)
WriteVarint(n) ==
    IF n < Base THEN <<n>> ELSE <<(n % Base) + Base>> \o WriteVarint(n \div Base)

WriteString(s) == WriteVarint(Len(s)) \o s

\* What a read leaves: whether it succeeded, the value, the rest of the stream.
Fail == [ok |-> FALSE, value |-> 0, rest |-> <<>>]

RECURSIVE ReadVarint(_)
ReadVarint(s) ==
    IF s = <<>> THEN Fail
    ELSE IF Head(s) < Base THEN [ok |-> TRUE, value |-> Head(s), rest |-> Tail(s)]
    ELSE LET r == ReadVarint(Tail(s))
         IN  [r EXCEPT !.value = Head(s) - Base + Base * @]

ReadBytes(s, n) ==
    IF Len(s) < n THEN Fail
    ELSE [ok |-> TRUE, value |-> SubSeq(s, 1, n), rest |-> SubSeq(s, n + 1, Len(s))]

\* A size and a string of that size.
ReadString(s) ==
    LET n == ReadVarint(s) IN IF n.ok THEN ReadBytes(n.rest, n.value) ELSE Fail

\* The payload as a protocol buffer, and back.
SerializePayload(p) == WriteString(p.digest) \o p.call
ParsePayload(s) ==
    LET d == ReadString(s)
    IN  IF d.ok THEN [ok |-> TRUE, value |-> [digest |-> d.value, call |-> d.rest], rest |-> <<>>]
        ELSE Fail

hash(s) == [i \in 1 .. HashSize |-> (Len(s) + i) % Base]

-----------------------------------------------------------------------------
(* The two forms *)

Body(t) ==
    WriteVarint(t.tid) \o WriteVarint(t.epoch) \o WriteVarint(IF t.readOnly THEN 1 ELSE 0)
    \o WriteString(SerializePayload(t.payload)) \o WriteString(t.rwSet)
    \o WriteVarint(Results[t.result])

serializeToString(t) == Body(t) \o hash(Body(t))

serializeResultToString(t) ==
    WriteVarint(t.tid) \o WriteVarint(t.epoch) \o WriteString(t.payload.digest)
    \o WriteVarint(Results[t.result])

\* One read of a deserialisation: Read applied to the stream, and the object
\* with what was read in it.  A failure stops all that follows.
Then(state, Read(_), Set(_, _)) ==
    IF ~state.ok THEN state
    ELSE LET r == Read(state.rest)
         IN  IF r.ok THEN [ok |-> TRUE, rest |-> r.rest, tx |-> Set(state.tx, r.value),
                           check |-> state.check]
             ELSE [state EXCEPT !.ok = FALSE]

SetTid(t, v) == [t EXCEPT !.tid = v]
SetEpoch(t, v) == [t EXCEPT !.epoch = v]
SetReadOnly(t, v) == [t EXCEPT !.readOnly = v # 0]
SetRWSet(t, v) == [t EXCEPT !.rwSet = v]
SetDigest(t, v) == [t EXCEPT !.payload.digest = v]
SetResult(t, v) == [t EXCEPT !.result = ResultName(v)]
SetPayload(t, v) == [t EXCEPT !.payload = v]

Start(raw, old) == [ok |-> TRUE, rest |-> raw, tx |-> old, check |-> TRUE]

ReadHash(s) == ReadBytes(s, HashSize)

\* The payload's bytes are read and then parsed, which is CHECKed.
ThenPayload(state) ==
    IF ~state.ok THEN state
    ELSE LET r == ReadString(state.rest)
         IN  IF ~r.ok THEN [state EXCEPT !.ok = FALSE]
             ELSE IF ~ParsePayload(r.value).ok THEN [state EXCEPT !.ok = FALSE, !.check = FALSE]
             ELSE [state EXCEPT !.rest = r.rest,
                                !.tx = SetPayload(@, ParsePayload(r.value).value)]

\* deserializeFromString into the object old.
deserializeFromString(raw, old) ==
    LET s1 == Then(Start(raw, old), ReadVarint, SetTid)
        s2 == Then(s1, ReadVarint, SetEpoch)
        s3 == Then(s2, ReadVarint, SetReadOnly)
        s4 == Then(ThenPayload(s3), ReadString, SetRWSet)
        s5 == Then(s4, ReadVarint, SetResult)
    IN  Then(s5, ReadHash, LAMBDA t, v : t)

\* deserializeResultFromString into the object old.
deserializeResultFromString(raw, old) ==
    LET s1 == Then(Start(raw, old), ReadVarint, SetTid)
        s2 == Then(s1, ReadVarint, SetEpoch)
        s3 == Then(s2, ReadString, SetDigest)
    IN  Then(s3, ReadVarint, SetResult)

-----------------------------------------------------------------------------
\* An object that was used for something else before.
Used ==
    [tid |-> 9, epoch |-> 9, readOnly |-> FALSE, payload |-> [digest |-> <<1>>, call |-> <<1>>],
     rwSet |-> <<1>>, result |-> "ABORT"]

\* A transaction read back from a block is the one that was written, whatever
\* the object held into which it is read: a block that is loaded, or received
\* from another server, has the transactions of the block that was saved.
RoundTrip ==
    \A old \in {New, Used} :
        LET d == deserializeFromString(serializeToString(tx), old)
        IN  d.ok /\ d.tx = tx

\* The result form carries the id, the epoch, the digest and the result; the
\* rest of the object is left as it was.
ResultRoundTrip ==
    LET d == deserializeResultFromString(serializeResultToString(tx), Used)
    IN  /\ d.ok
        /\ d.tx = [Used EXCEPT !.tid = tx.tid, !.epoch = tx.epoch, !.result = tx.result,
                               !.payload.digest = tx.payload.digest]

\* A form that was cut short is refused, and refused by the return value: the
\* CHECK on the payload is reached only with all of the payload's bytes.
CutShortRefused ==
    LET raw == serializeToString(tx)
        res == serializeResultToString(tx)
    IN  /\ \A n \in 0 .. Len(raw) - 1 :
               LET d == deserializeFromString(SubSeq(raw, 1, n), New) IN ~d.ok /\ d.check
        /\ \A n \in 0 .. Len(res) - 1 :
               ~deserializeResultFromString(SubSeq(res, 1, n), New).ok
=============================================================================
