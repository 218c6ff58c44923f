---------------------------- MODULE EpochService ----------------------------
(***************************************************************************)
(* How the batches of a block server get their epochs.  The epoch servers  *)
(* agree through raft on when to go on to the next epoch: a server asks    *)
(* for it when a request comes and its timer has run out.  The threads of  *)
(* the UserCollector ask several epoch servers for every batch, use the    *)
(* answer of the last one, ask again when it is older than one already     *)
(* used, and hand the batch to the client proxy (receiveFromLocalServer).  *)
(*                                                                         *)
(* Time is left out: a timer may have run out at any request but the first *)
(* of an epoch.                                                            *)
(***************************************************************************)
EXTENDS Naturals, FiniteSets, Sequences, SequencesExt, FiniteSetsExt

CONSTANTS
    Server,     \* the epoch servers
    Used,       \* the one whose answers the collector uses
    Receiver,   \* threads of the collector
    MaxBatch,   \* bound: batches
    QueueSize,  \* capacity of pendingTransactions
    LastEpoch,  \* bound: epochs
    Pool,       \* proposals a server has on their way to raft at a time
    MaxResend,  \* bound: proposals sent again after a timeout, for each server
    MaxRestart, \* bound: restarts of epoch servers
    Snapshots   \* the servers that run for long enough to make snapshots

VARIABLES
    current,    \* current_epoch of each server
    seen,       \* the epochs in its epochSizeMap
    sent,       \* sent_increase_message
    pending,    \* its proposals, in the order of their creation
    resent,     \* how often it has sent a proposal again
    log,        \* what the raft group has agreed on: expected epochs
    applied,    \* how much of it each server has applied
    snapshot,   \* how much of it the last snapshot of each server stands for
    restarts,   \* restarts so far
    batches,    \* batches so far
    rpc,        \* where each receiver thread is
    asked,      \* the servers that have not answered it yet
    reply,      \* the epoch of the answer it uses
    latest,     \* latestEpoch
    queue,      \* pendingTransactions: the epochs of the batches
    proxyEpoch, \* the epoch of receiveFromLocalServer
    failed      \* its CHECK has failed

vars == <<current, seen, sent, pending, resent, log, applied, snapshot, restarts,
          batches, rpc, asked, reply, latest, queue, proxyEpoch, failed>>

servers == <<current, seen, sent>>
raft == <<pending, resent, log, applied, snapshot, restarts>>
collector == <<batches, rpc, asked, reply, latest>>
proxy == <<queue, proxyEpoch, failed>>

Init ==
    /\ current = [v \in Server |-> 1]
    /\ seen = [v \in Server |-> {}]
    /\ sent = [v \in Server |-> FALSE]
    /\ pending = [v \in Server |-> <<>>]
    /\ resent = [v \in Server |-> 0]
    /\ log = <<>>
    /\ applied = [v \in Server |-> 0]
    /\ snapshot = [v \in Server |-> 0]
    /\ restarts = 0
    /\ batches = 0
    /\ rpc = [r \in Receiver |-> "idle"]
    /\ asked = [r \in Receiver |-> {}]
    /\ reply = [r \in Receiver |-> 0]
    /\ latest = 1
    /\ queue = <<>>
    /\ proxyEpoch = 1
    /\ failed = FALSE
-----------------------------------------------------------------------------
(* An epoch server: EVConsensusManager. *)

\* The keys of epochSizeMap after a request; the log line about the epoch before
\* makes one for it, too.
Seen(v) ==
    seen[v] \cup {current[v]}
            \cup (IF current[v] # 1 /\ current[v] \notin seen[v] THEN {current[v] - 1} ELSE {})

\* receiver_from_user: a request of a receiver is answered; the first one of an
\* epoch starts the timer, a later one may find that it has run out.
ReceiveFromUser(v, r) ==
    /\ v \in asked[r]
    /\ seen' = [seen EXCEPT ![v] = Seen(v)]
    /\ LET first == current[v] \notin seen[v]
       IN  \/ /\ ~first
              /\ ~sent[v]
              /\ current[v] < LastEpoch
              /\ pending' = [pending EXCEPT ![v] = Append(@, current[v] + 1)]
              /\ sent' = [sent EXCEPT ![v] = TRUE]
           \/ /\ sent' = [sent EXCEPT ![v] = ~first /\ @]
              /\ UNCHANGED pending
    /\ asked' = [asked EXCEPT ![r] = @ \ {v}]
    /\ reply' = [reply EXCEPT ![r] = IF v = Used THEN current[v] ELSE @]
    /\ UNCHANGED <<current, resent, log, applied, snapshot, restarts, batches, rpc,
                   latest, proxy>>

\* send_to_raft: one of the proposals on their way gets into the log.  When the
\* answer does not come in time, the proposal is sent again.
CommitProposal(v) ==
    /\ \E i \in 1 .. Len(pending[v]) :
           /\ i <= Pool
           /\ log' = Append(log, pending[v][i])
           /\ \/ /\ pending' = [pending EXCEPT ![v] = RemoveAt(@, i)]
                 /\ UNCHANGED resent
              \/ /\ resent[v] < MaxResend
                 /\ resent' = [resent EXCEPT ![v] = @ + 1]
                 /\ UNCHANGED pending
    /\ UNCHANGED <<servers, applied, snapshot, restarts, collector, proxy>>

\* Mutant of NewEpoch: every agreed proposal starts an epoch.
NewEpochAlways(c, e) == c + 1
\* receiver_from_raft: proposals of an epoch that is not new are ignored.
NewEpoch(c, e) == IF e > c THEN e ELSE c

\* on_apply, receiver_from_raft.
ReceiveFromRaft(v) ==
    /\ applied[v] < Len(log)
    /\ applied' = [applied EXCEPT ![v] = @ + 1]
    /\ current' = [current EXCEPT ![v] = NewEpoch(@, log[applied[v] + 1])]
    /\ UNCHANGED <<seen, sent, pending, resent, log, snapshot, restarts, collector, proxy>>

\* on_snapshot_save: the log up to here is dropped, nothing is saved instead.
SaveSnapshot(v) ==
    /\ v \in Snapshots
    /\ snapshot[v] < applied[v]
    /\ snapshot' = [snapshot EXCEPT ![v] = applied[v]]
    /\ UNCHANGED <<servers, pending, resent, log, applied, restarts, collector, proxy>>

\* Mutant of Restart: raft takes the log for applied.
RestartAtEnd(v) ==
    /\ restarts < MaxRestart
    /\ restarts' = restarts + 1
    /\ current' = [current EXCEPT ![v] = 1]
    /\ seen' = [seen EXCEPT ![v] = {}]
    /\ sent' = [sent EXCEPT ![v] = FALSE]
    /\ pending' = [pending EXCEPT ![v] = <<>>]
    /\ UNCHANGED <<applied, resent, log, snapshot, collector, proxy>>
\* The server restarts; on_snapshot_load restores nothing, the rest of the log is
\* applied again.  Its answer to a request may never come (there is no fairness for
\* it in the runs with restarts).
Restart(v) ==
    /\ restarts < MaxRestart
    /\ restarts' = restarts + 1
    /\ current' = [current EXCEPT ![v] = 1]
    /\ seen' = [seen EXCEPT ![v] = {}]
    /\ sent' = [sent EXCEPT ![v] = FALSE]
    /\ pending' = [pending EXCEPT ![v] = <<>>]
    /\ applied' = [applied EXCEPT ![v] = snapshot[v]]
    /\ UNCHANGED <<resent, log, snapshot, collector, proxy>>
-----------------------------------------------------------------------------
(* The threads of UserCollector::processRequest. *)

\* A batch is given to a free thread, which asks the servers.
SendRequest(r) ==
    /\ rpc[r] = "idle"
    /\ batches < MaxBatch
    /\ batches' = batches + 1
    /\ rpc' = [rpc EXCEPT ![r] = "wait"]
    /\ asked' = [asked EXCEPT ![r] = Server]
    /\ UNCHANGED <<servers, raft, reply, latest, proxy>>

\* Mutant of LockFree: pipelineLock is given back before the batch is handed over.
LockFreeEarly == TRUE
\* Nobody holds pipelineLock.
LockFree == \A r \in Receiver : rpc[r] # "locked"

\* Another thread has already used a later epoch.
TooOld(e) == e < latest

\* All answers are there: under pipelineLock, the batch gets its epoch, or the
\* servers are asked again.
TakeReply(r) ==
    /\ rpc[r] = "wait"
    /\ asked[r] = {}
    /\ LockFree
    /\ \/ /\ TooOld(reply[r])
          /\ asked' = [asked EXCEPT ![r] = Server]
          /\ UNCHANGED <<rpc, latest>>
       \/ /\ ~TooOld(reply[r])
          /\ latest' = reply[r]
          /\ rpc' = [rpc EXCEPT ![r] = "locked"]
          /\ UNCHANGED asked
    /\ UNCHANGED <<servers, raft, batches, reply, proxy>>

\* newTransactionHandle: the batch goes into pendingTransactions, which may be full.
HandOver(r) ==
    /\ rpc[r] = "locked"
    /\ Len(queue) < QueueSize
    /\ queue' = Append(queue, reply[r])
    /\ rpc' = [rpc EXCEPT ![r] = "idle"]
    /\ UNCHANGED <<servers, raft, batches, asked, reply, latest, proxyEpoch, failed>>

\* receiveFromLocalServer: the epochs before that of the batch are finished.
TakeBatch ==
    /\ ~failed
    /\ queue # <<>>
    /\ queue' = Tail(queue)
    /\ proxyEpoch' = Max({proxyEpoch, Head(queue)})
    /\ failed' = (proxyEpoch' # Head(queue))
    /\ UNCHANGED <<servers, raft, collector>>
-----------------------------------------------------------------------------
\* No batch is on its way.
Rest ==
    /\ failed \/ (batches = MaxBatch /\ queue = <<>> /\ \A r \in Receiver : rpc[r] = "idle")
    /\ UNCHANGED vars

Next ==
    \/ \E v \in Server, r \in Receiver : ReceiveFromUser(v, r)
    \/ \E v \in Server :
           CommitProposal(v) \/ ReceiveFromRaft(v) \/ SaveSnapshot(v) \/ Restart(v)
    \/ \E r \in Receiver : SendRequest(r) \/ TakeReply(r) \/ HandOver(r)
    \/ TakeBatch
    \/ Rest

Spec == Init /\ [][Next]_vars

-----------------------------------------------------------------------------

\* Batches reach the client proxy in the order of their epochs, though several
\* threads get the answers: the CHECK of receiveFromLocalServer holds.
ProxyInOrder == ~failed

\* An epoch begins only when a server has asked for it while in the epoch before:
\* proposals that are sent by several servers, sent again or overtaken start no
\* second epoch, and none is left out.
EpochsAreAskedFor ==
    \A v \in Server : \A e \in 2 .. current[v] : e \in Range(log)

\* Epoch servers never differ on the order: what one has applied of the log, it has
\* in common with the others, and it is in the last epoch of that part.  Not so a
\* server that restarts from a snapshot: it saves the place in the log and no epoch.
EpochOfLog ==
    \A v \in Server \ Snapshots :
        current[v] = Max({1} \cup Range(SubSeq(log, 1, applied[v])))

=============================================================================
