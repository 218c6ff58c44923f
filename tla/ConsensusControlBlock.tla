----------------------- MODULE ConsensusControlBlock -----------------------
(***************************************************************************)
(* How the block servers agree that an epoch is complete, and on leaving   *)
(* out a server that is silent or wrong.  Every server publishes its       *)
(* transactions, and a CON message at the end of each epoch, to the        *)
(* receivers of the other servers (zmq).  The CON message also goes        *)
(* through the raft group that the server leads, and so do the votes       *)
(* against other servers: there are as many groups as servers, each with   *)
(* an order of its own.  A coordinator commits an epoch when every server  *)
(* has approved it and every receiver has reached its end.                 *)
(*                                                                         *)
(* A server has at most one batch of transactions in an epoch.  Time is    *)
(* left out: a server in Suspect may at any moment have been silent for    *)
(* too long.  A server that crashes takes no more steps; nothing here is   *)
(* bound to take one.                                                      *)
(***************************************************************************)
EXTENDS Naturals, FiniteSets, Sequences, SequencesExt

CONSTANTS
    Server,     \* the block servers
    Observer,   \* those whose receivers and control block are followed; of the
                \* others only the messages are, and what they know is arbitrary
    Busy,       \* the servers that have transactions
    LastEpoch,  \* bound: epochs
    Pool,       \* proposals a server has on their way to raft at a time
    MaxResend,  \* bound: proposals sent again after a timeout, for each server
    Suspect,    \* servers whose heartbeat may be late
    Watcher,    \* servers that may notice it
    Faulty      \* servers whose batches may fail the verification

ASSUME ServersAssumption ==
    Observer \subseteq Server /\ Watcher \subseteq Server /\ Suspect \subseteq Server

VARIABLES
    txs,          \* txs[p]: the epochs in which p has published a batch
    done,         \* done[p]: the epochs p has finished
    rpc,          \* rpc[s][p]: where the receiver of s for p is
    repoch,       \* repoch[s][p]: its epoch
    got,          \* got[s][p]: the epochs of the batches it has accepted
    pending,      \* pending[p]: the proposals of p, in the order of their creation
    resent,       \* resent[p]: how often p has sent a proposal again
    log,          \* log[p]: what the raft group of p has agreed on
    applied,      \* applied[s][p]: how much of log[p] server s has applied
    latest,       \* latest[s][p]: latestEpoch of a ProxyBlock
    voters,       \* voters[s]: epochVoters, as triples <<target, epoch, observer>>
    firstInvalid, \* firstInvalid[s][p]: firstInvalidEpoch, 0 while isValid
    approve,      \* approve[s][e]: epochApproveMap
    passed,       \* passed[s]: the epochs the coordinator has committed
    failed        \* the callback of the client proxy was entered again

vars == <<txs, done, rpc, repoch, got, pending, resent, log, applied, latest,
          voters, firstInvalid, approve, passed, failed>>

publishers == <<txs, done>>
receivers == <<rpc, repoch, got>>
raft == <<pending, resent, log>>
ccb == <<applied, latest, voters, firstInvalid, approve, failed>>

Epoch == 1 .. LastEpoch
Con(e) == [type |-> "CON", epoch |-> e]
Malicious(p, e) == [type |-> "MALICIOUS", target |-> p, epoch |-> e]

Init ==
    /\ txs = [p \in Server |-> {}]
    /\ done = [p \in Server |-> 0]
    /\ rpc = [s \in Server |-> [p \in Server |-> "receive"]]
    /\ repoch = [s \in Server |-> [p \in Server |-> 1]]
    /\ got = [s \in Server |-> [p \in Server |-> {}]]
    /\ pending = [p \in Server |-> <<>>]
    /\ resent = [p \in Server |-> 0]
    /\ log = [p \in Server |-> <<>>]
    /\ applied = [s \in Server |-> [p \in Server |-> 0]]
    /\ latest = [s \in Server |-> [p \in Server |-> 0]]
    /\ voters = [s \in Server |-> {}]
    /\ firstInvalid = [s \in Server |-> [p \in Server |-> 0]]
    /\ approve = [s \in Server |-> [e \in Epoch |-> {}]]
    /\ passed = [s \in Server |-> 0]
    /\ failed = FALSE
-----------------------------------------------------------------------------
(* A server and its own transactions: receiveFromLocalServer. *)

\* A batch of the current epoch is published.
PublishBatch(p) ==
    /\ p \in Busy
    /\ done[p] < LastEpoch
    /\ done[p] + 1 \notin txs[p]
    /\ txs' = [txs EXCEPT ![p] = @ \cup {done[p] + 1}]
    /\ got' = [got EXCEPT ![p][p] = @ \cup {done[p] + 1}]
    /\ UNCHANGED <<done, rpc, repoch, raft, ccb, passed>>

\* sendEpochFinishSignal: the CON message goes to the raft group that p leads.
SendEpochFinishSignal(p, e) == pending' = [pending EXCEPT ![p] = Append(@, Con(e))]

\* A response has a later epoch: CON to the receivers, CON to raft, and
\* asyncEmptyBuffer(epoch++).
FinishEpoch(p) ==
   
    /\ done[p] < LastEpoch
    /\ done' = [done EXCEPT ![p] = @ + 1]
    /\ SendEpochFinishSignal(p, done[p] + 1)
    /\ repoch' = [repoch EXCEPT ![p][p] = @ + 1]
    /\ UNCHANGED <<txs, rpc, got, resent, log, ccb, passed>>
-----------------------------------------------------------------------------
(* A receiver: receiveFromOtherServer. *)

Listens(s, p) == s # p /\ rpc[s][p] = "receive"

HasBatch(s, p) == repoch[s][p] \in txs[p] \ got[s][p]

\* A batch is verified and its transactions go into the buffer.
ReceiveBatch(s, p) ==
    /\ Listens(s, p)
    /\ HasBatch(s, p)
    /\ got' = [got EXCEPT ![s][p] = @ \cup {repoch[s][p]}]
    /\ UNCHANGED <<publishers, rpc, repoch, raft, ccb, passed>>

\* Mutant of Complete: the CON message overtakes the batch.
CompleteAnyway(s, p) == repoch[s][p] <= done[p]
\* The CON message comes after the batches of its epoch.
Complete(s, p) == repoch[s][p] <= done[p] /\ ~HasBatch(s, p)

\* CON: the receiver goes on to the next epoch.
ReceiveCon(s, p) ==
    /\ Listens(s, p)
    /\ Complete(s, p)
    /\ repoch' = [repoch EXCEPT ![s][p] = @ + 1]
    /\ UNCHANGED <<publishers, rpc, got, raft, ccb, passed>>

\* sendViewChangeVote: a proposal is made unless it has been: the same vote again changes nothing.
Propose(s, m) ==
    pending' = [pending EXCEPT ![s] = IF Contains(log[s] \o @, m) THEN @ ELSE Append(@, m)]

\* verifyBatchHash, with the signatures of the payloads: size, hash or signature of a
\* batch may be wrong.
MayFailVerification(p) == p \in Faulty

\* MaliciousClientProxyException: a vote against the server.
RejectBatch(s, p) ==
    /\ Listens(s, p)
    /\ MayFailVerification(p)
    /\ HasBatch(s, p)
    /\ Propose(s, Malicious(p, repoch[s][p]))
    /\ rpc' = [rpc EXCEPT ![s][p] = "skip"]
    /\ UNCHANGED <<publishers, repoch, got, resent, log, ccb, passed>>

\* InvalidClientProxyException: nothing came for 100 ms and the server is invalid.
StopReceiver(s, p) ==
    /\ Listens(s, p)
    /\ firstInvalid[s][p] # 0
    /\ firstInvalid[s][p] <= repoch[s][p]
    /\ rpc' = [rpc EXCEPT ![s][p] = "skip"]
    /\ UNCHANGED <<publishers, repoch, got, raft, ccb, passed>>

\* The loop after the exception.
SkipEpoch(s, p) ==
   
    /\ rpc[s][p] = "skip"
    /\ repoch[s][p] <= LastEpoch
    /\ repoch' = [repoch EXCEPT ![s][p] = @ + 1]
    /\ UNCHANGED <<publishers, rpc, got, raft, ccb, passed>>
-----------------------------------------------------------------------------
(* A raft group and the thread that sends proposals to it: send_to_raft. *)

\* One of the proposals on their way gets into the log.  When the answer does not
\* come in time, the proposal is sent again.
CommitProposal(p) ==
   
    /\ \E i \in 1 .. Len(pending[p]) :
           /\ i <= Pool
           /\ log' = [log EXCEPT ![p] = Append(@, pending[p][i])]
           /\ \/ /\ pending' = [pending EXCEPT ![p] = RemoveAt(@, i)]
                 /\ UNCHANGED resent
              \/ /\ resent[p] < MaxResend
                 /\ resent' = [resent EXCEPT ![p] = @ + 1]
                 /\ UNCHANGED pending
    /\ UNCHANGED <<publishers, receivers, ccb, passed>>
-----------------------------------------------------------------------------
(* The control block of a server. *)

Valid(s, p) == firstInvalid[s][p] = 0

\* Mutant of Enough: the voters of all epochs are counted.
EnoughOfAny(V, p, e) ==
    Cardinality({v \in V : v[1] = p}) >= (Cardinality(Server) - 1) \div 3 + 1
\* Mutant of Enough: f voters do.
EnoughFewer(V, p, e) ==
    Cardinality({v \in V : v[1] = p /\ v[2] = e}) >= (Cardinality(Server) - 1) \div 3
\* f + 1 voters for the same epoch, of 3f + 1 servers.
Enough(V, p, e) ==
    Cardinality({v \in V : v[1] = p /\ v[2] = e}) >= (Cardinality(Server) - 1) \div 3 + 1

\* confirmedClientProxy.
ConfirmedClientProxy(s, p, e) == approve' = [approve EXCEPT ![s][e] = @ \cup {p}]

\* recvProofSet of a CON message.
Confirm(s, p, e) ==
    /\ latest' = [latest EXCEPT ![s][p] = e]
    /\ ConfirmedClientProxy(s, p, e)
    /\ UNCHANGED <<voters, firstInvalid, failed>>

\* maliciousTarget: the epochs the invalid server approves.
ApprovesFrom(e) == {d \in Epoch : d >= e}

\* The callback of the client proxy sets its invalid bit, once ("no re-enter").
MaliciousCallback(s, p) == failed' = (failed \/ ~Valid(s, p))

\* maliciousTarget.
MaliciousTarget(s, p, e) ==
    /\ firstInvalid' = [firstInvalid EXCEPT ![s][p] = e]
    /\ MaliciousCallback(s, p)
    /\ approve' = [approve EXCEPT ![s] =
                       [d \in Epoch |-> IF d \in ApprovesFrom(e) THEN @[d] \cup {p} ELSE @[d]]]

\* obtainMalicious returns early when the target is invalid.
Considers(s, p) == Valid(s, p)

\* obtainMalicious.
ObtainMalicious(s, observer, p, e) ==
    /\ voters' = [voters EXCEPT ![s] = IF Considers(s, p) THEN @ \cup {<<p, e, observer>>}
                                                          ELSE @]
    /\ IF Considers(s, p) /\ Enough(voters'[s], p, e)
       THEN MaliciousTarget(s, p, e)
       ELSE UNCHANGED <<firstInvalid, approve, failed>>
    /\ UNCHANGED latest

\* Mutant of Accepts: the messages of a server are expected in the order of epochs.
AcceptsInOrder(s, p, m) == Valid(s, p) /\ (m.type = "CON" => m.epoch = latest[s][p] + 1)
\* recvProofSet ignores invalid servers.
Accepts(s, p, m) == Valid(s, p)

\* receiver_from_multi_raft_instance: the next message of a group.
Received(s, p) == log[p][applied[s][p] + 1]

\* recvProofSet.
Apply(s, p) ==
    /\ applied[s][p] < Len(log[p])
    /\ applied' = [applied EXCEPT ![s][p] = @ + 1]
    /\ LET m == Received(s, p)
       IN  \/ /\ ~Accepts(s, p, m)
              /\ UNCHANGED <<latest, voters, firstInvalid, approve, failed>>
           \/ /\ Accepts(s, p, m)
              /\ m.type = "CON"
              /\ Confirm(s, p, m.epoch)
           \/ /\ Accepts(s, p, m)
              /\ m.type = "MALICIOUS"
              /\ ObtainMalicious(s, p, m.target, m.epoch)
    /\ UNCHANGED <<publishers, receivers, raft, passed>>

\* What server s may take for the last epoch p has finished.
LatestEpochs(s, p) == IF s \in Observer THEN {latest[s][p]} ELSE 0 .. done[p]

\* spinCheckTimeout: no heartbeat of p for three seconds.
SpinCheckTimeout(s, p) ==
    /\ Valid(s, p)
    /\ \E e \in LatestEpochs(s, p) : Propose(s, Malicious(p, e + 1))
    /\ UNCHANGED <<publishers, receivers, resent, log, ccb, passed>>

\* The predicate of waitForEpochFinish.
Approved(s, e) == Cardinality(approve[s][e]) = Cardinality(Server)

\* The coordinator: every receiver is past the epoch, and waitForEpochFinish returns.
PassEpoch(s) ==
    /\ passed[s] < LastEpoch
    /\ \A p \in Server : repoch[s][p] > passed[s] + 1
    /\ Approved(s, passed[s] + 1)
    /\ passed' = [passed EXCEPT ![s] = @ + 1]
    /\ UNCHANGED <<publishers, receivers, raft, ccb>>
-----------------------------------------------------------------------------
ReceiverStep(s, p) ==
    \/ ReceiveBatch(s, p) \/ ReceiveCon(s, p) \/ RejectBatch(s, p)
    \/ StopReceiver(s, p) \/ SkipEpoch(s, p)

\* Everything has been passed on and committed, and nothing is left to do.
Rest == (\A s \in Observer : passed[s] = LastEpoch) /\ UNCHANGED vars

Next ==
    \/ \E p \in Server : PublishBatch(p) \/ FinishEpoch(p) \/ CommitProposal(p)
    \/ \E s \in Observer, p \in Server : ReceiverStep(s, p) \/ Apply(s, p)
    \/ \E s \in Watcher, p \in Suspect : SpinCheckTimeout(s, p)
    \/ \E s \in Observer : PassEpoch(s)
    \/ Rest

Spec == Init /\ [][Next]_vars

-----------------------------------------------------------------------------

\* In an epoch that it goes past, a server executes of every server that it has not
\* left out exactly the transactions that this one has published in the epoch
\* (receiveFromOtherServer), whatever order the messages of the channels and of the
\* raft groups come in.
SameTransactions ==
    \A s, p \in Server : \A e \in 1 .. passed[s] :
        rpc[s][p] = "receive" => (e \in got[s][p] <=> e \in txs[p])

\* Those who voted against p from epoch e on, by what raft has agreed on.
Against(p, e) == {q \in Server : Contains(log[q], Malicious(p, e))}

\* waitForEpochFinish lets a coordinator past an epoch only when raft has the CON message
\* of every server, or f + 1 votes that leave the server out from one epoch, this one or an
\* earlier one: what a server commits, the others learn even if it then crashes.
PassedIsApproved ==
    \A s, p \in Server : \A e \in 1 .. passed[s] :
        \/ Contains(log[p], Con(e))
        \/ \E d \in 1 .. e : Cardinality(Against(p, d)) >= (Cardinality(Server) - 1) \div 3 + 1

\* A server is left out from epoch e on by f + 1 votes for this very epoch
\* (obtainMalicious), and once: the callback of the client proxy ("no re-enter") is not
\* called again, however many votes come in after the decision.
InvalidByQuorum ==
    /\ \A s, p \in Server : firstInvalid[s][p] # 0 =>
           Cardinality(Against(p, firstInvalid[s][p])) >= (Cardinality(Server) - 1) \div 3 + 1
    /\ ~failed
=============================================================================
