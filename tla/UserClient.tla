----------------------------- MODULE UserClient -----------------------------
(***************************************************************************)
(* The benchmark client: client threads that send transactions at a given  *)
(* rate, and a monitor that follows the chain and counts their results.    *)
(* A client thread notes a transaction as pending before it sends it; the  *)
(* monitor asks for the latest block number, takes over what is pending,   *)
(* and then looks up the transactions of every block up to that number.    *)
(*                                                                         *)
(* The block server is external: it puts transactions that arrive into     *)
(* blocks, each with its result, and answers with its latest block number. *)
(***************************************************************************)
EXTENDS Integers, Sequences

CONSTANTS
    Clients,    \* client threads
    TotalOp,    \* transactions that each of them sends
    Lossy       \* whether requests may get lost (publish sockets)

VARIABLES
    sent,       \* client -> transactions that it has sent
    next,       \* client -> "work", "send", "wait" or "done"
    permits,    \* client -> permits of the semaphore of its rate generator
    ticks,      \* client -> signals that its rate generator has given
    pending,    \* queue: transactions noted, not yet taken over by the monitor
    flying,     \* requests on their way
    blocks,     \* the chain: each block a function from transactions to results
    finish,     \* finishSignal
    pc,         \* place of the monitor
    tip,        \* the latest block number that the monitor knows
    height,     \* curBlockHeight
    txMap,      \* pending transactions that the monitor knows
    committed,  \* transactions counted as committed (or aborted without retry)
    aborted,    \* transactions counted as aborted
    unknown     \* transactions of the blocks that were not in the map

clientVars == <<sent, next, permits, ticks>>
monitorVars == <<pc, tip, height, txMap, committed, aborted, unknown>>
vars == <<clientVars, pending, flying, blocks, finish, monitorVars>>

Result == {"COMMIT", "ABORT", "ABORT_NO_RETRY"}
\* A transaction, named by its client and its number (the digest of its payload).
Txs == Clients \X (1 .. TotalOp)

Init ==
    /\ sent = [c \in Clients |-> 0]
    /\ next = [c \in Clients |-> "work"]
    /\ permits = [c \in Clients |-> 0]
    /\ ticks = [c \in Clients |-> 0]
    /\ pending = {}
    /\ flying = {}
    /\ blocks = <<>>
    /\ finish = FALSE
    /\ pc = "start"
    /\ tip = 0
    /\ height = 1
    /\ txMap = {}
    /\ committed = {} /\ aborted = {} /\ unknown = {}

\* The thread of the rate generator signals once per interval, TotalOp times.
Tick(c) ==
    /\ ticks[c] < TotalOp
    /\ ticks' = [ticks EXCEPT ![c] = @ + 1]
    /\ permits' = [permits EXCEPT ![c] = @ + 1]
    /\ UNCHANGED <<sent, next, pending, flying, blocks, finish, monitorVars>>

\* sendInvokeRequest, first part: the transaction is noted.
NotePending(c) ==
    /\ next[c] = "work"
    /\ next' = [next EXCEPT ![c] = "send"]
    /\ pending' = pending \cup {<<c, sent[c] + 1>>}
    /\ UNCHANGED <<sent, permits, ticks, flying, blocks, finish, monitorVars>>

\* sendInvokeRequest, second part: the request is sent.
SendRequest(c) ==
    /\ next[c] = "send"
    /\ sent' = [sent EXCEPT ![c] = @ + 1]
    /\ next' = [next EXCEPT ![c] = "wait"]
    /\ flying' = flying \cup {<<c, sent'[c]>>}
    /\ UNCHANGED <<permits, ticks, pending, blocks, finish, monitorVars>>

\* The client waits for the next interval; after the last one it ends.
Pace(c) ==
    /\ next[c] = "wait"
    /\ permits[c] > 0
    /\ permits' = [permits EXCEPT ![c] = @ - 1]
    /\ next' = [next EXCEPT ![c] = IF sent[c] = TotalOp THEN "done" ELSE "work"]
    /\ UNCHANGED <<sent, ticks, pending, flying, blocks, finish, monitorVars>>

\* The main thread has joined all client threads.
Finish ==
    /\ \A c \in Clients : next[c] = "done" /\ ticks[c] = TotalOp
    /\ ~finish
    /\ finish' = TRUE
    /\ UNCHANGED <<clientVars, pending, flying, blocks, monitorVars>>
-----------------------------------------------------------------------------
\* External: the server makes a block of some of the requests that have arrived.
MakeBlock(txs) ==
    /\ txs # {}
    /\ txs \subseteq flying
    /\ flying' = flying \ txs
    /\ \E b \in [txs -> Result] : blocks' = Append(blocks, b)
    /\ UNCHANGED <<clientVars, pending, finish, monitorVars>>

\* External: a request is lost.
Lose(tx) ==
    /\ Lossy
    /\ tx \in flying
    /\ flying' = flying \ {tx}
    /\ UNCHANGED <<clientVars, pending, blocks, finish, monitorVars>>
-----------------------------------------------------------------------------
\* The monitor waits for the first block.
AwaitServer ==
    /\ pc = "start"
    /\ Len(blocks) > 0
    /\ pc' = "loop"
    /\ UNCHANGED <<clientVars, pending, flying, blocks, finish, tip, height, txMap,
                   committed, aborted, unknown>>

\* The head of the loop: the end, or a new tip; without a new block it tries again.
AskTip ==
    /\ pc = "loop"
    /\ IF finish
       THEN pc' = "done" /\ UNCHANGED tip
       ELSE /\ tip' = Len(blocks)
            /\ pc' = IF height > tip' THEN "loop" ELSE "drain"
    /\ UNCHANGED <<clientVars, pending, flying, blocks, finish, height, txMap,
                   committed, aborted, unknown>>

\* updateTransactionMap, one transaction; and its end.
TakeOver ==
    /\ pc = "drain"
    /\ \E tx \in pending :
        /\ pending' = pending \ {tx}
        /\ txMap' = txMap \cup {tx}
    /\ UNCHANGED <<clientVars, flying, blocks, finish, pc, tip, height, committed, aborted, unknown>>

TakenOver ==
    /\ pc = "drain"
    /\ pending = {}
    /\ pc' = "poll"
    /\ UNCHANGED <<clientVars, pending, flying, blocks, finish, tip, height, txMap,
                   committed, aborted, unknown>>

\* Mutant of Poll: a transaction without retry counts as aborted.
PollNoRetry ==
    /\ pc = "poll"
    /\ LET block == blocks[height]
           mine == DOMAIN block \cap txMap
       IN  /\ aborted' = aborted \cup {tx \in mine : block[tx] # "COMMIT"}
           /\ committed' = committed \cup {tx \in mine : block[tx] # "ABORT"}
           /\ unknown' = unknown \cup (DOMAIN block \ txMap)
           /\ txMap' = txMap \ mine
    /\ height' = height + 1
    /\ pc' = IF height' <= tip THEN "poll" ELSE "loop"
    /\ UNCHANGED <<clientVars, pending, flying, blocks, finish, tip>>
\* pollTx and the counting of a block's transactions.
Poll ==
    /\ pc = "poll"
    /\ LET block == blocks[height]
           mine == DOMAIN block \cap txMap
       IN  /\ aborted' = aborted \cup {tx \in mine : block[tx] = "ABORT"}
           /\ committed' = committed \cup {tx \in mine : block[tx] # "ABORT"}
           /\ unknown' = unknown \cup (DOMAIN block \ txMap)
           /\ txMap' = txMap \ mine
    /\ height' = height + 1
    /\ pc' = IF height' <= tip THEN "poll" ELSE "loop"
    /\ UNCHANGED <<clientVars, pending, flying, blocks, finish, tip>>

Monitor == AwaitServer \/ AskTip \/ TakeOver \/ TakenOver \/ Poll

Client(c) == NotePending(c) \/ SendRequest(c) \/ Pace(c)

Next ==
    \/ \E c \in Clients : Tick(c) \/ Client(c)
    \/ Finish
    \/ \E txs \in SUBSET flying : MakeBlock(txs)
    \/ \E tx \in flying : Lose(tx)
    \/ Monitor

Spec == Init /\ [][Next]_vars

-----------------------------------------------------------------------------
\* Type invariant.
TypeOK ==
    /\ sent \in [Clients -> 0 .. TotalOp]
    /\ next \in [Clients -> {"work", "send", "wait", "done"}]
    /\ permits \in [Clients -> 0 .. TotalOp]
    /\ ticks \in [Clients -> 0 .. TotalOp]
    /\ pending \subseteq Txs /\ flying \subseteq Txs /\ txMap \subseteq Txs
    /\ committed \subseteq Txs /\ aborted \subseteq Txs /\ unknown \subseteq Txs
    /\ pc \in {"start", "loop", "drain", "poll", "done"}
    /\ tip \in 0 .. Len(blocks)
    /\ height \in 1 .. Len(blocks) + 1

\* The monitor knows every transaction of this client that it meets in a block:
\* there is no "missing tx in tx map" when all transactions come from one client.
NoMissing == unknown = {}

\* Every transaction is counted once and by its result: what the monitor has counted
\* is what the blocks below its height hold, and the rest is pending or in the map.
CountedByResult ==
    LET polled == 1 .. height - 1
    IN  /\ aborted = UNION {{tx \in DOMAIN blocks[h] : blocks[h][tx] = "ABORT"} : h \in polled}
        /\ committed = UNION {{tx \in DOMAIN blocks[h] : blocks[h][tx] # "ABORT"} : h \in polled}
        /\ (committed \cup aborted) \cap (txMap \cup pending) = {}

\* A client is at most one transaction ahead of its rate.
RateKept == \A c \in Clients : sent[c] <= ticks[c] + 1
-----------------------------------------------------------------------------
(* The inductive invariant of these properties. *)

\* What the client threads have sent, and what they have noted.
Sent == {tx \in Txs : tx[2] <= sent[tx[1]]}
Noted == {tx \in Txs : tx[2] <= sent[tx[1]] + (IF next[tx[1]] = "send" THEN 1 ELSE 0)}

\* The semaphore of a client holds the signals that it has not waited for.
PaceInv ==
    \A c \in Clients :
        /\ permits[c] + sent[c] = ticks[c] + (IF next[c] = "wait" THEN 1 ELSE 0)
        /\ next[c] \in {"work", "send"} => sent[c] < TotalOp
        /\ next[c] = "wait" => sent[c] > 0

\* A noted transaction is in one place: pending, in the map or counted.
NotedInv ==
    /\ pending \cup txMap \cup committed \cup aborted = Noted
    /\ pending \cap txMap = {}
    /\ (committed \cup aborted) \cap (txMap \cup pending) = {}

\* What is on its way or in a block was sent, and is in one place.
ChainInv ==
    /\ blocks \in Seq(UNION {[txs -> Result] : txs \in SUBSET Txs})
    /\ flying \subseteq Sent
    /\ \A h \in 1 .. Len(blocks) :
        /\ DOMAIN blocks[h] \subseteq Sent
        /\ DOMAIN blocks[h] \cap flying = {}
        /\ \A i \in 1 .. Len(blocks) : i # h => DOMAIN blocks[h] \cap DOMAIN blocks[i] = {}

\* The transactions of the blocks that are still to be polled are not counted yet; the
\* monitor knows those of the blocks up to its tip once it has taken the notes over.
KnownInv ==
    /\ \A h \in height .. Len(blocks) : DOMAIN blocks[h] \subseteq txMap \cup pending
    /\ pc \in {"drain", "poll"} => height <= tip
    /\ pc = "poll" => \A h \in height .. tip : DOMAIN blocks[h] \subseteq txMap

IInv == TypeOK /\ PaceInv /\ NotedInv /\ ChainInv /\ KnownInv /\ CountedByResult /\ NoMissing

=============================================================================
