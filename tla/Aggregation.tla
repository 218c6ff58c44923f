---------------------------- MODULE Aggregation -----------------------------
(***************************************************************************)
(* The block servers of one organisation that share the execution of an    *)
(* epoch (AggregationCoordinator, AggregationBroadcaster).  Each server    *)
(* executes the transactions of its own residue class, publishes their     *)
(* results, and merges the results of the others before it commits.  One   *)
(* thread per remote server receives the exchanges; a cyclic barrier lets  *)
(* none of them run ahead; a pool takes the exchanges from one queue.  A   *)
(* result is the epoch that computed it.                                   *)
(***************************************************************************)
EXTENDS Integers, Sequences, FiniteSets

CONSTANTS
    Servers,    \* the servers, numbered in the order of their addresses
    Tids,       \* transaction numbers of every epoch
    MaxEpoch,   \* bound on the epochs
    MaxFaults   \* bound on the exchanges that the network loses and the waits on a
                \* condition variable that end by themselves

totalServerCount == Cardinality(Servers)
remoteCount == totalServerCount - 1
Pairs == {p \in Servers \X Servers : p[1] # p[2]}    \* <<receiver, sender>>

\* Size of the receive buffer: "duplicate size just in case".
Capacity == remoteCount * 2

VARIABLES
    epoch,      \* currentEpoch of each server
    phase,      \* "read", "aggregate" (the exchange is sent), "failed" or "end"
    result,     \* result of each transaction at each server, 0 while pending
    listen,     \* listenTransaction of the current epoch
    merged,     \* exchanges that the pool has merged in this epoch
    channel,    \* exchanges under way from the one server to the other
    receiver,   \* step of the thread that receives from the other server
    waits,      \* current_waits of the barrier of each server
    buffer,     \* remoteRecvBuffer of each server
    committed,  \* what each server committed in each epoch
    faults      \* number of exchanges lost and waits ended

vars == <<epoch, phase, result, listen, merged, channel, receiver, waits, buffer,
          committed, faults>>

\* The rank of the local address in the cluster.
localID(s) == Cardinality({ip \in Servers : ip < s})

isLocalTransaction(s, t) == t % totalServerCount = localID(s)

Init ==
    /\ epoch = [s \in Servers |-> 1]
    /\ phase = [s \in Servers |-> "read"]
    /\ result = [s \in Servers |-> [t \in Tids |-> 0]]
    /\ listen = [s \in Servers |-> {}]
    /\ merged = [s \in Servers |-> 0]
    /\ channel = [p \in Pairs |-> <<>>]
    /\ receiver = [p \in Pairs |-> "receive"]
    /\ waits = [s \in Servers |-> 0]
    /\ buffer = [s \in Servers |-> <<>>]
    /\ committed = [s \in Servers |-> [e \in 1 .. MaxEpoch |-> {}]]
    /\ faults = 0

Executed(s) == [t \in Tids |-> IF isLocalTransaction(s, t) THEN epoch[s] ELSE 0]

Exchange(s, results) ==
    [epoch |-> epoch[s],
     node |-> {<<t, results[t]>> : t \in {u \in Tids : isLocalTransaction(s, u)}}]

-----------------------------------------------------------------------------
\* Mutant of Publish: the exchange is made before the transactions are executed.
PublishFirst(s) ==
    /\ phase[s] = "read"
    /\ result' = [result EXCEPT ![s] = Executed(s)]
    /\ channel' = [p \in Pairs |->
           IF p[2] = s THEN Append(channel[p], Exchange(s, result[s])) ELSE channel[p]]
    /\ listen' = [listen EXCEPT ![s] = {t \in Tids : ~isLocalTransaction(s, t)}]
    /\ phase' = [phase EXCEPT ![s] = "aggregate"]
    /\ UNCHANGED <<epoch, merged, receiver, waits, buffer, committed, faults>>
\* run up to aggregateTransaction: the local transactions are executed, the
\* others noted in listenTransaction, and the results are published.
Publish(s) ==
    /\ phase[s] = "read"
    /\ result' = [result EXCEPT ![s] = Executed(s)]
    /\ channel' = [p \in Pairs |->
           IF p[2] = s THEN Append(channel[p], Exchange(s, Executed(s))) ELSE channel[p]]
    /\ listen' = [listen EXCEPT ![s] = {t \in Tids : ~isLocalTransaction(s, t)}]
    /\ phase' = [phase EXCEPT ![s] = "aggregate"]
    /\ UNCHANGED <<epoch, merged, receiver, waits, buffer, committed, faults>>

\* A published message that a subscriber does not get.
Lose(p) ==
    /\ faults < MaxFaults /\ channel[p] # <<>>
    /\ channel' = [channel EXCEPT ![p] = Tail(@)]
    /\ faults' = faults + 1
    /\ UNCHANGED <<epoch, phase, result, listen, merged, receiver, waits, buffer, committed>>

\* localClientRecv: an exchange is received and pushed, if there is room.
Receive(p) ==
    /\ phase[p[1]] # "failed"
    /\ receiver[p] = "receive" /\ channel[p] # <<>>
    /\ Len(buffer[p[1]]) < Capacity
    /\ buffer' = [buffer EXCEPT ![p[1]] = Append(@, Head(channel[p]))]
    /\ channel' = [channel EXCEPT ![p] = Tail(@)]
    /\ receiver' = [receiver EXCEPT ![p] = "await"]
    /\ UNCHANGED <<epoch, phase, result, listen, merged, waits, committed, faults>>

\* CyclicBarrier::await: the last of the receivers wakes all the others.
Await(p) ==
    /\ phase[p[1]] # "failed"
    /\ receiver[p] = "await"
    /\ IF waits[p[1]] + 1 < remoteCount
       THEN /\ waits' = [waits EXCEPT ![p[1]] = @ + 1]
            /\ receiver' = [receiver EXCEPT ![p] = "waiting"]
       ELSE /\ waits' = [waits EXCEPT ![p[1]] = 0]
            /\ receiver' = [q \in Pairs |->
                   IF q = p \/ (q[1] = p[1] /\ receiver[q] = "waiting") THEN "receive"
                                                                       ELSE receiver[q]]
    /\ UNCHANGED <<epoch, phase, result, listen, merged, channel, buffer, committed, faults>>

\* await does not test a condition when wait returns: it takes a wake-up
\* without a notification for the end of the round, and stays counted.
WakeUp(p) ==
    /\ faults < MaxFaults /\ receiver[p] = "waiting"
    /\ receiver' = [receiver EXCEPT ![p] = "receive"]
    /\ faults' = faults + 1
    /\ UNCHANGED <<epoch, phase, result, listen, merged, channel, waits, buffer, committed>>

-----------------------------------------------------------------------------
Known(s, m) == m.epoch = epoch[s] /\ \A n \in m.node : n[1] \in listen[s]

Updated(results, node) ==
    [t \in Tids |-> IF \E n \in node : n[1] = t
                    THEN (CHOOSE n \in node : n[1] = t)[2] ELSE results[t]]

\* A task of the pool: it takes an exchange and merges it, or stops the server
\* when the exchange is not of this epoch or has an unknown transaction.
Merge(s) ==
    /\ phase[s] = "aggregate" /\ merged[s] < remoteCount /\ buffer[s] # <<>>
    /\ buffer' = [buffer EXCEPT ![s] = Tail(@)]
    /\ IF Known(s, Head(buffer[s]))
       THEN /\ result' = [result EXCEPT ![s] = Updated(@, Head(buffer[s]).node)]
            /\ merged' = [merged EXCEPT ![s] = @ + 1]
            /\ UNCHANGED phase
       ELSE phase' = [phase EXCEPT ![s] = "failed"] /\ UNCHANGED <<result, merged>>
    /\ UNCHANGED <<epoch, listen, channel, receiver, waits, committed, faults>>

\* The coordinator waits for the signals of all tasks.
AllMerged(s) == merged[s] = remoteCount

\* aggregateTransaction returns: the merged transactions are reserved, the
\* epoch is committed and announced, and the next one begins.
CommitEpoch(s) ==
    /\ phase[s] = "aggregate" /\ AllMerged(s)
    /\ committed' = [committed EXCEPT ![s][epoch[s]] = {<<t, result[s][t]>> : t \in Tids}]
    /\ listen' = [listen EXCEPT ![s] = {}]
    /\ merged' = [merged EXCEPT ![s] = 0]
    /\ IF epoch[s] < MaxEpoch
       THEN epoch' = [epoch EXCEPT ![s] = @ + 1] /\ phase' = [phase EXCEPT ![s] = "read"]
       ELSE phase' = [phase EXCEPT ![s] = "end"] /\ UNCHANGED epoch
    /\ UNCHANGED <<result, channel, receiver, waits, buffer, faults>>

Coordinate(s) == Publish(s) \/ CommitEpoch(s)

Listen(p) == Receive(p) \/ Await(p)

Next ==
    \/ \E s \in Servers : Coordinate(s) \/ Merge(s)
    \/ \E p \in Pairs : Listen(p) \/ Lose(p) \/ WakeUp(p)

Spec == Init /\ [][Next]_vars

-----------------------------------------------------------------------------
\* Types of the variables of AggregationCoordinator and AggregationBroadcaster.
TypeOK ==
    /\ epoch \in [Servers -> 1 .. MaxEpoch]
    /\ phase \in [Servers -> {"read", "aggregate", "failed", "end"}]
    /\ result \in [Servers -> [Tids -> 0 .. MaxEpoch]]
    /\ listen \in [Servers -> SUBSET Tids]
    /\ merged \in [Servers -> 0 .. remoteCount]
    /\ receiver \in [Pairs -> {"receive", "await", "waiting"}]
    /\ waits \in [Servers -> 0 .. remoteCount - 1]
    /\ \A s \in Servers : Len(buffer[s]) <= Capacity
    /\ faults \in 0 .. MaxFaults

\* What aggregateTransaction promises when it returns: "all transaction has
\* finished execution, not local server only".  Every server commits every
\* transaction of the epoch with the result that its one executing server
\* computed in this very epoch; so all servers commit the same.  This holds
\* even when an exchange is lost or a wait ends by itself: a server then stops, or
\* waits, but does not commit something else.
CommitsMerged ==
    \A s \in Servers, e \in 1 .. MaxEpoch :
        committed[s][e] \in {{}, {<<t, e>> : t \in Tids}}

\* The tasks of the pool assert that an exchange is of the current epoch and
\* names only transactions that this server waits for.
NoCheckFails == \A s \in Servers : phase[s] # "failed"

\* The exchange is also a barrier between the servers: none commits an epoch
\* that another has not executed and published.
InLockstep ==
    \A s, r \in Servers : phase[r] = "read" => committed[s][epoch[r]] = {}

\* A server that is slow to aggregate has the exchanges of two epochs waiting,
\* never of three: the doubled buffer is large enough for a receiver never to
\* find it full.
BufferFits ==
    \A p \in Pairs :
        receiver[p] = "receive" /\ channel[p] # <<>> => Len(buffer[p[1]]) < Capacity

=============================================================================
