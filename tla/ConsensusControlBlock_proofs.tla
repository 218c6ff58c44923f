-------------------- MODULE ConsensusControlBlock_proofs --------------------
(***************************************************************************)
(* What the consensus control block guarantees for any number of servers,  *)
(* epochs, resent proposals and late heartbeats.                           *)
(***************************************************************************)
EXTENDS ConsensusControlBlock, FiniteSetTheorems, TLAPS

\* What a raft group agrees on.
Message ==
    {Con(e) : e \in Epoch} \cup {Malicious(p, e) : p \in Server, e \in Nat \ {0}}

\* Types, as far as the arguments below need them.
TypeInv ==
    /\ txs \in [Server -> SUBSET Nat]
    /\ done \in [Server -> 0 .. LastEpoch]
    /\ rpc \in [Server -> [Server -> {"receive", "skip"}]]
    /\ got \in [Server -> [Server -> SUBSET Nat]]
    /\ repoch \in [Server -> [Server -> Nat \ {0}]]
    /\ pending \in [Server -> Seq(Message)]
    /\ log \in [Server -> Seq(Message)]
    /\ applied \in [Server -> [Server -> Nat]]
    /\ latest \in [Server -> [Server -> Nat]]
    /\ voters \in [Server -> SUBSET (Server \X Nat \X Server)]
    /\ firstInvalid \in [Server -> [Server -> Nat]]
    /\ approve \in [Server -> [Epoch -> SUBSET Server]]
    /\ passed \in [Server -> 0 .. LastEpoch]

\* A vote that a server has counted is in the log of its observer.
VotesInv ==
    \A s \in Server : \A v \in voters[s] : Contains(log[v[3]], Malicious(v[1], v[2]))

\* A server approves an epoch by its CON message, or because it is left out.
ApproveInv ==
    \A s, p \in Server : \A e \in Epoch :
        p \in approve[s][e] => Contains(log[p], Con(e)) \/ firstInvalid[s][p] \in 1 .. e

\* A coordinator has gone past an epoch that all servers have approved.
PassedInv == \A s \in Server : \A e \in 1 .. passed[s] : approve[s][e] = Server

\* A receiver that has not left p out is at most one epoch ahead of the last CON message
\* of p, and has all batches of the epochs before; it is past what was committed.
ChannelInv ==
    \A p \in Server :
        /\ txs[p] \subseteq 1 .. done[p] + 1
        /\ rpc[p][p] = "receive" /\ got[p][p] = txs[p]
        /\ \A s \in Server : passed[s] < repoch[s][p]
        /\ \A s \in Server \ {p} : rpc[s][p] = "receive" =>
               /\ got[s][p] \subseteq txs[p]
               /\ repoch[s][p] <= done[p] + 1
               /\ \A e \in txs[p] : e < repoch[s][p] => e \in got[s][p]

ApprovalInv == VotesInv /\ InvalidByQuorum /\ ApproveInv /\ PassedInv
-----------------------------------------------------------------------------
(* Types. *)

\* What is left of a sequence when one element is removed.
LEMMA RemoveAtType ==
    ASSUME NEW S, NEW q \in Seq(S), NEW i \in 1 .. Len(q)
    PROVE  RemoveAt(q, i) \in Seq(S)
<1>1. SubSeq(q, 1, i - 1) \in Seq(S) /\ SubSeq(q, i + 1, Len(q)) \in Seq(S)
  OBVIOUS
<1> QED
  BY <1>1 DEF RemoveAt

\* The logs, approvals and epochs are empty at the start.
LEMMA TypeInit ==
    ASSUME LastEpoch \in Nat, Init
    PROVE  TypeInv
  BY DEF Init, TypeInv, Epoch

\* A vote is proposed at most once, everything else as it is.
LEMMA ProposeType ==
    ASSUME TypeInv, NEW s \in Server, NEW p \in Server, NEW e \in Nat \ {0},
           Propose(s, Malicious(p, e))
    PROVE  pending' \in [Server -> Seq(Message)]
<1>1. Malicious(p, e) \in Message
  BY DEF Message
<1>2. Append(pending[s], Malicious(p, e)) \in Seq(Message) /\ pending[s] \in Seq(Message)
  BY <1>1 DEF TypeInv
<1>3. PICK q \in Seq(Message) : pending' = [pending EXCEPT ![s] = q]
  BY <1>2, Zenon DEF Propose
<1> QED
  BY <1>3 DEF TypeInv

\* A message is of one of two kinds, and its fields say which one it is.
LEMMA MessageForm ==
    ASSUME NEW m \in Message
    PROVE  \/ m.type = "CON" /\ m.epoch \in Epoch /\ m = Con(m.epoch)
           \/ /\ m.type = "MALICIOUS" /\ m.target \in Server /\ m.epoch \in Nat \ {0}
              /\ m = Malicious(m.target, m.epoch)
<1>1. CASE \E e \in Epoch : m = Con(e)
  BY <1>1 DEF Con
<1>2. CASE \E p \in Server, e \in Nat \ {0} : m = Malicious(p, e)
  BY <1>2 DEF Malicious
<1> QED
  BY <1>1, <1>2 DEF Message

\* The next message of a group is one that its log contains.
LEMMA NextMessage ==
    ASSUME TypeInv, NEW s \in Server, NEW p \in Server, applied[s][p] < Len(log[p])
    PROVE  /\ log[p][applied[s][p] + 1] \in Message
           /\ Contains(log[p], log[p][applied[s][p] + 1])
<1> DEFINE q == log[p]
           a == applied[s][p]
<1>1. q \in Seq(Message) /\ a \in Nat /\ a < Len(q)
  BY DEF TypeInv
<1> HIDE DEF q, a
<1>2. a + 1 \in 1 .. Len(q) /\ q[a + 1] \in Message
  BY <1>1
<1> QED
  BY <1>2 DEF Contains, q, a

\* A vote that counts: what maliciousTarget changes.
LEMMA MaliciousTargetChanges ==
    ASSUME TypeInv, NEW s \in Server, NEW p \in Server, NEW e \in Nat, MaliciousTarget(s, p, e)
    PROVE  /\ firstInvalid' \in [Server -> [Server -> Nat]]
           /\ approve' \in [Server -> [Epoch -> SUBSET Server]]
           /\ firstInvalid'[s][p] = e
           /\ \A u, q \in Server : u # s \/ q # p => firstInvalid'[u][q] = firstInvalid[u][q]
           /\ \A u \in Server, d \in Epoch :
                  /\ approve[u][d] \subseteq approve'[u][d]
                  /\ \A q \in approve'[u][d] : 
                         q \in approve[u][d] \/ (u = s /\ q = p /\ d >= e)
<1>1. firstInvalid' = [firstInvalid EXCEPT ![s][p] = e]
  BY DEF MaliciousTarget
<1>2. approve' = [approve EXCEPT ![s] =
                      [d \in Epoch |-> IF d \in ApprovesFrom(e) THEN @[d] \cup {p} ELSE @[d]]]
  BY DEF MaliciousTarget
<1>3. /\ firstInvalid' \in [Server -> [Server -> Nat]]
      /\ firstInvalid'[s][p] = e
      /\ \A u, q \in Server : u # s \/ q # p => firstInvalid'[u][q] = firstInvalid[u][q]
  BY <1>1, Zenon DEF TypeInv
<1>4. approve' \in [Server -> [Epoch -> SUBSET Server]]
  <2> DEFINE g == [d \in Epoch |-> IF d \in ApprovesFrom(e) THEN approve[s][d] \cup {p}
                                                            ELSE approve[s][d]]
  <2>1. approve \in [Server -> [Epoch -> SUBSET Server]]
    BY DEF TypeInv
  <2>2. g \in [Epoch -> SUBSET Server]
    BY <2>1
  <2>3. approve' = [approve EXCEPT ![s] = g]
    BY <1>2
  <2> HIDE DEF g
  <2> QED
    BY <2>1, <2>2, <2>3
<1>5. /\ \A u \in Server \ {s} : approve'[u] = approve[u]
      /\ \A d \in Epoch :
             approve'[s][d] = IF d \in ApprovesFrom(e) THEN approve[s][d] \cup {p}
                                                       ELSE approve[s][d]
  BY <1>2 DEF TypeInv
<1>6. \A d \in ApprovesFrom(e) : d >= e
  BY DEF ApprovesFrom
<1> QED
  BY <1>3, <1>4, <1>5, <1>6, ZenonT(30)

\* What Apply changes: the message is ignored, confirmed, or counted as a vote.
LEMMA ApplyType ==
    ASSUME TypeInv, NEW s \in Server, NEW p \in Server, Apply(s, p)
    PROVE  TypeInv'
<1> DEFINE m == log[p][applied[s][p] + 1]
<1>1. m \in Message
  BY NextMessage DEF Apply, Received
<1> HIDE DEF m
<1>2. UNCHANGED <<txs, done, rpc, repoch, got, pending, log, passed>>
  BY DEF Apply, publishers, receivers, raft
<1>3. applied' \in [Server -> [Server -> Nat]]
  <2>1. applied' = [applied EXCEPT ![s][p] = @ + 1]
    BY DEF Apply
  <2>2. applied \in [Server -> [Server -> Nat]]
    BY DEF TypeInv
  <2> QED
    BY <2>1, <2>2
<1>4. CASE UNCHANGED <<latest, voters, firstInvalid, approve>>
  BY <1>2, <1>3, <1>4, ZenonT(30) DEF TypeInv
<1>5. CASE m.type = "CON" /\ Confirm(s, p, m.epoch)
  <2>1. m.epoch \in Epoch /\ m.epoch \in Nat
    BY <1>1, <1>5, MessageForm DEF Epoch
  <2>2. latest' \in [Server -> [Server -> Nat]]
    BY <1>5, <2>1, Zenon DEF Confirm, ConfirmedClientProxy, TypeInv
  <2>3. approve' \in [Server -> [Epoch -> SUBSET Server]]
    <3>1. approve' = [approve EXCEPT ![s][m.epoch] = @ \cup {p}]
      BY <1>5 DEF Confirm, ConfirmedClientProxy
    <3>2. approve \in [Server -> [Epoch -> SUBSET Server]]
      BY DEF TypeInv
    <3>3. approve[s][m.epoch] \cup {p} \in SUBSET Server
      BY <2>1, <3>2
    <3>4. PICK A \in SUBSET Server : approve' = [approve EXCEPT ![s][m.epoch] = A]
      BY <3>1, <3>3, ZenonT(30)
    <3> QED
      BY <2>1, <3>2, <3>4
  <2>4. UNCHANGED <<voters, firstInvalid>>
    BY <1>5 DEF Confirm, ConfirmedClientProxy
  <2> QED
    BY <1>2, <1>3, <2>2, <2>3, <2>4, ZenonT(30) DEF TypeInv
<1>6. CASE m.type = "MALICIOUS" /\ ObtainMalicious(s, p, m.target, m.epoch)
  <2>1. m.target \in Server /\ m.epoch \in Nat
    BY <1>1, <1>6, MessageForm
  <2>2. latest' = latest
    BY <1>6 DEF ObtainMalicious
  <2>3. voters' \in [Server -> SUBSET (Server \X Nat \X Server)]
    <3>1. PICK A \in SUBSET (Server \X Nat \X Server) : voters' = [voters EXCEPT ![s] = A]
      <4>1. voters[s] \in SUBSET (Server \X Nat \X Server)
        BY DEF TypeInv
      <4>2. <<m.target, m.epoch, p>> \in Server \X Nat \X Server
        BY <2>1
      <4>3. voters' = [voters EXCEPT ![s] = voters[s] \cup {<<m.target, m.epoch, p>>}]
            \/ voters' = [voters EXCEPT ![s] = voters[s]]
        BY <1>6, Zenon DEF ObtainMalicious
      <4> QED
        BY <4>1, <4>2, <4>3
    <3> QED
      BY <3>1, Zenon DEF TypeInv
  <2>4. /\ firstInvalid' \in [Server -> [Server -> Nat]]
        /\ approve' \in [Server -> [Epoch -> SUBSET Server]]
    <3>1. CASE UNCHANGED <<firstInvalid, approve>>
      BY <3>1, Zenon DEF TypeInv
    <3>2. CASE MaliciousTarget(s, m.target, m.epoch)
      BY <2>1, <3>2, MaliciousTargetChanges
    <3> QED
      BY <1>6, <3>1, <3>2 DEF ObtainMalicious
  <2> QED
    BY <1>2, <1>3, <2>2, <2>3, <2>4, ZenonT(30) DEF TypeInv
<1> QED
  BY <1>4, <1>5, <1>6 DEF Apply, Received, m

\* The epoch of a receiver goes up by one.
LEMMA RepochType ==
    ASSUME TypeInv, NEW s \in Server, NEW p \in Server,
           repoch' = [repoch EXCEPT ![s][p] = @ + 1]
    PROVE  repoch' \in [Server -> [Server -> Nat \ {0}]]
<1>1. repoch \in [Server -> [Server -> Nat \ {0}]]
  BY DEF TypeInv
<1>2. repoch[s][p] + 1 \in Nat \ {0}
  BY <1>1
<1>3. PICK n \in Nat \ {0} : repoch' = [repoch EXCEPT ![s][p] = n]
  BY <1>2, Zenon
<1> QED
  BY <1>1, <1>3

\* Which steps change the logs, what is known about the votes, and the committed epochs.
LEMMA Changes ==
    ASSUME [Next]_vars
    PROVE  /\ log' = log \/ \E p \in Server : CommitProposal(p)
           /\ \/ UNCHANGED <<voters, firstInvalid, approve, failed>>
              \/ \E s, p \in Server : Apply(s, p)
           /\ passed' = passed \/ \E s \in Server : PassEpoch(s)
<1> DEFINE G == /\ log' = log \/ \E p \in Server : CommitProposal(p)
                /\ \/ UNCHANGED <<voters, firstInvalid, approve, failed>>
                   \/ \E s, p \in Server : Apply(s, p)
                /\ passed' = passed \/ \E s \in Server : PassEpoch(s)
<1> SUFFICES G
  OBVIOUS
<1>1. ASSUME NEW p \in Server, PublishBatch(p) \/ FinishEpoch(p) PROVE G
  BY <1>1 DEF PublishBatch, FinishEpoch, SendEpochFinishSignal, raft, ccb
<1>2. ASSUME NEW p \in Server, CommitProposal(p) PROVE G
  <2>1. UNCHANGED <<ccb, passed>>
    BY <1>2 DEF CommitProposal
  <2> QED
    BY <1>2, <2>1 DEF ccb
<1>4. ASSUME NEW s \in Server, NEW p \in Server, ReceiverStep(s, p) PROVE G
  <2>1. UNCHANGED <<log, ccb, passed>>
    BY <1>4 DEF ReceiverStep, ReceiveBatch, ReceiveCon, RejectBatch, StopReceiver, SkipEpoch,
                raft
  <2> QED
    BY <2>1 DEF ccb
<1>5. ASSUME NEW s \in Server, NEW p \in Server, Apply(s, p) PROVE G
  <2>1. UNCHANGED <<log, passed>>
    BY <1>5 DEF Apply, raft
  <2> QED
    BY <1>5, <2>1
<1>6. ASSUME NEW s \in Server, NEW p \in Server, SpinCheckTimeout(s, p) PROVE G
  BY <1>6 DEF SpinCheckTimeout, ccb
<1>7. ASSUME NEW s \in Server, PassEpoch(s) PROVE G
  <2>1. UNCHANGED <<log, ccb>>
    BY <1>7 DEF PassEpoch, raft
  <2> QED
    BY <1>7, <2>1 DEF ccb
<1>8. CASE UNCHANGED vars
  BY <1>8 DEF vars
<1> HIDE DEF G
<1>9. CASE \E p \in Server : PublishBatch(p) \/ FinishEpoch(p) \/ CommitProposal(p)
  BY <1>1, <1>2, <1>9
<1>10. CASE \E s \in Observer, p \in Server : ReceiverStep(s, p) \/ Apply(s, p)
  BY <1>4, <1>5, <1>10, ServersAssumption
<1>11. CASE \E s \in Watcher, p \in Suspect : SpinCheckTimeout(s, p)
  BY <1>6, <1>11, ServersAssumption
<1>12. CASE \E s \in Observer : PassEpoch(s)
  BY <1>7, <1>12, ServersAssumption
<1> QED
  BY <1>8, <1>9, <1>10, <1>11, <1>12 DEF Next, Rest

\* Every step keeps the types.
LEMMA TypeStep ==
    ASSUME LastEpoch \in Nat, TypeInv, [Next]_vars
    PROVE  TypeInv'
<1>1. ASSUME NEW p \in Server, PublishBatch(p) PROVE TypeInv'
  <2>1. /\ txs' = [txs EXCEPT ![p] = @ \cup {done[p] + 1}]
        /\ got' = [got EXCEPT ![p][p] = @ \cup {done[p] + 1}]
        /\ UNCHANGED <<done, rpc, repoch, pending, log, applied, latest, voters,
                       firstInvalid, approve, passed>>
    BY <1>1 DEF PublishBatch, raft, ccb
  <2>2. done[p] + 1 \in Nat
    BY DEF TypeInv
  <2>3. txs \in [Server -> SUBSET Nat] /\ got \in [Server -> [Server -> SUBSET Nat]]
    BY DEF TypeInv
  <2>4. txs' \in [Server -> SUBSET Nat]
    BY <2>1, <2>2, <2>3
  <2>5. got' \in [Server -> [Server -> SUBSET Nat]]
    <3>1. got[p][p] \cup {done[p] + 1} \in SUBSET Nat
      BY <2>2, <2>3
    <3>2. PICK A \in SUBSET Nat : got' = [got EXCEPT ![p][p] = A]
      BY <2>1, <3>1, ZenonT(30)
    <3> QED
      BY <2>3, <3>2
  <2> QED
    BY <2>1, <2>4, <2>5, ZenonT(30) DEF TypeInv
<1>2. ASSUME NEW p \in Server, FinishEpoch(p) PROVE TypeInv'
  <2>1. /\ done[p] < LastEpoch
        /\ done' = [done EXCEPT ![p] = @ + 1]
        /\ pending' = [pending EXCEPT ![p] = Append(@, Con(done[p] + 1))]
        /\ repoch' = [repoch EXCEPT ![p][p] = @ + 1]
        /\ UNCHANGED <<txs, rpc, got, log, applied, latest, voters, firstInvalid, approve,
                       passed>>
    BY <1>2 DEF FinishEpoch, SendEpochFinishSignal, ccb
  <2>2. done[p] + 1 \in Epoch /\ done[p] + 1 \in 0 .. LastEpoch
    BY <2>1 DEF TypeInv, Epoch
  <2>3. done' \in [Server -> 0 .. LastEpoch]
    BY <2>1, <2>2 DEF TypeInv
  <2>4. Append(pending[p], Con(done[p] + 1)) \in Seq(Message)
    <3>1. Con(done[p] + 1) \in Message
      BY <2>2 DEF Message
    <3>2. pending[p] \in Seq(Message)
      BY DEF TypeInv
    <3> QED
      BY <3>1, <3>2
  <2>5. pending' \in [Server -> Seq(Message)]
    BY <2>1, <2>4 DEF TypeInv
  <2>6. repoch' \in [Server -> [Server -> Nat \ {0}]]
    BY <2>1, RepochType, ZenonT(30)
  <2> QED
    BY <2>1, <2>3, <2>5, <2>6, ZenonT(30) DEF TypeInv
<1>4. ASSUME NEW p \in Server, CommitProposal(p) PROVE TypeInv'
  <2>1. PICK i \in 1 .. Len(pending[p]) :
            /\ log' = [log EXCEPT ![p] = Append(@, pending[p][i])]
            /\ pending' = [pending EXCEPT ![p] = RemoveAt(@, i)] \/ pending' = pending
    BY <1>4, Zenon DEF CommitProposal
  <2>2. UNCHANGED <<txs, done, rpc, repoch, got, applied, latest, voters, firstInvalid,
                    approve, passed>>
    BY <1>4 DEF CommitProposal, publishers, receivers, ccb
  <2>3. pending[p] \in Seq(Message) /\ pending[p][i] \in Message
    BY DEF TypeInv
  <2>4. RemoveAt(pending[p], i) \in Seq(Message)
    BY <2>3, RemoveAtType
  <2>5. pending' \in [Server -> Seq(Message)]
    BY <2>1, <2>4, ZenonT(30) DEF TypeInv
  <2>6. log' \in [Server -> Seq(Message)]
    BY <2>1, <2>3 DEF TypeInv
  <2> QED
    BY <2>2, <2>5, <2>6, ZenonT(30) DEF TypeInv
<1>5. ASSUME NEW s \in Server, NEW p \in Server, ReceiveBatch(s, p) PROVE TypeInv'
  <2>1. /\ got' = [got EXCEPT ![s][p] = @ \cup {repoch[s][p]}]
        /\ UNCHANGED <<txs, done, rpc, repoch, pending, log, applied, latest, voters,
                       firstInvalid, approve, passed>>
    BY <1>5 DEF ReceiveBatch, publishers, raft, ccb
  <2>2. repoch[s][p] \in Nat
    BY DEF TypeInv
  <2>3. got \in [Server -> [Server -> SUBSET Nat]]
    BY DEF TypeInv
  <2>4. got' \in [Server -> [Server -> SUBSET Nat]]
    <3>1. got[s][p] \cup {repoch[s][p]} \in SUBSET Nat
      BY <2>2, <2>3
    <3>2. PICK A \in SUBSET Nat : got' = [got EXCEPT ![s][p] = A]
      BY <2>1, <3>1, ZenonT(30)
    <3> QED
      BY <2>3, <3>2
  <2> QED
    BY <2>1, <2>4, ZenonT(30) DEF TypeInv
<1>6. ASSUME NEW s \in Server, NEW p \in Server, ReceiveCon(s, p) \/ SkipEpoch(s, p)
      PROVE  TypeInv'
  <2>1. /\ repoch' = [repoch EXCEPT ![s][p] = @ + 1]
        /\ UNCHANGED <<txs, done, rpc, got, pending, log, applied, latest, voters,
                       firstInvalid, approve, passed>>
    BY <1>6 DEF ReceiveCon, SkipEpoch, publishers, raft, ccb
  <2>2. repoch' \in [Server -> [Server -> Nat \ {0}]]
    BY <2>1, RepochType, ZenonT(30)
  <2> QED
    BY <2>1, <2>2, ZenonT(30) DEF TypeInv
<1>7. ASSUME NEW s \in Server, NEW p \in Server, RejectBatch(s, p) PROVE TypeInv'
  <2>1. /\ rpc' = [rpc EXCEPT ![s][p] = "skip"]
        /\ UNCHANGED <<txs, done, repoch, got, log, applied, latest, voters,
                       firstInvalid, approve, passed>>
    BY <1>7 DEF RejectBatch, publishers, ccb
  <2>2. pending' \in [Server -> Seq(Message)]
    <3>1. Propose(s, Malicious(p, repoch[s][p]))
      BY <1>7 DEF RejectBatch
    <3>2. repoch[s][p] \in Nat \ {0}
      BY DEF TypeInv
    <3> QED
      BY <3>1, <3>2, ProposeType
  <2>3. rpc' \in [Server -> [Server -> {"receive", "skip"}]]
    BY <2>1, Zenon DEF TypeInv
  <2> QED
    BY <2>1, <2>2, <2>3, ZenonT(30) DEF TypeInv
<1>8. ASSUME NEW s \in Server, NEW p \in Server, StopReceiver(s, p) PROVE TypeInv'
  <2>1. /\ rpc' = [rpc EXCEPT ![s][p] = "skip"]
        /\ UNCHANGED <<txs, done, repoch, got, pending, log, applied, latest, voters,
                       firstInvalid, approve, passed>>
    BY <1>8 DEF StopReceiver, publishers, raft, ccb
  <2>3. rpc' \in [Server -> [Server -> {"receive", "skip"}]]
    BY <2>1, Zenon DEF TypeInv
  <2> QED
    BY <2>1, <2>3, ZenonT(30) DEF TypeInv
<1>9. ASSUME NEW s \in Server, NEW p \in Server, SpinCheckTimeout(s, p) PROVE TypeInv'
  <2>1. UNCHANGED <<txs, done, rpc, repoch, got, log, applied, latest, voters,
                    firstInvalid, approve, passed>>
    BY <1>9 DEF SpinCheckTimeout, publishers, receivers, ccb
  <2>2. PICK e \in LatestEpochs(s, p) : Propose(s, Malicious(p, e + 1))
    BY <1>9 DEF SpinCheckTimeout
  <2>3. e + 1 \in Nat \ {0}
    <3>1. latest[s][p] \in Nat /\ done[p] \in Nat
      BY DEF TypeInv
    <3>2. e = latest[s][p] \/ e \in 0 .. done[p]
      BY <2>2 DEF LatestEpochs
    <3> QED
      BY <3>1, <3>2
  <2>4. pending' \in [Server -> Seq(Message)]
    BY <2>2, <2>3, ProposeType
  <2> QED
    BY <2>1, <2>4, ZenonT(30) DEF TypeInv
<1>10. ASSUME NEW s \in Server, PassEpoch(s) PROVE TypeInv'
  <2>1. /\ passed[s] < LastEpoch
        /\ passed' = [passed EXCEPT ![s] = @ + 1]
        /\ UNCHANGED <<txs, done, rpc, repoch, got, pending, log, applied, latest, voters,
                       firstInvalid, approve>>
    BY <1>10 DEF PassEpoch, publishers, receivers, raft, ccb
  <2>2. passed' \in [Server -> 0 .. LastEpoch]
    BY <2>1 DEF TypeInv
  <2> QED
    BY <2>1, <2>2, ZenonT(30) DEF TypeInv
<1>11. CASE UNCHANGED vars
  BY <1>11, Zenon DEF vars, TypeInv
<1> QED
  BY <1>1, <1>2, <1>4, <1>5, <1>6, <1>7, <1>8, <1>9, <1>10, <1>11, ApplyType,
     ServersAssumption
  DEF Next, ReceiverStep, Rest
-----------------------------------------------------------------------------
(* Who is left out, and what is approved. *)

\* f + 1, of 3f + 1 servers.
Quorum == (Cardinality(Server) - 1) \div 3 + 1

\* Those who voted against p from epoch e on in the logs l.
Votes(l, p, e) == {q \in Server : Contains(l[q], Malicious(p, e))}

\* The logs grow at their ends only.
LEMMA LogGrows ==
    ASSUME TypeInv, [Next]_vars, NEW q \in Server, NEW m, Contains(log[q], m)
    PROVE  Contains(log'[q], m)
<1>1. CASE log' = log
  BY <1>1
<1>2. CASE \E p \in Server : CommitProposal(p)
  <2>1. PICK p \in Server : CommitProposal(p)
    BY <1>2
  <2>2. PICK x : log' = [log EXCEPT ![p] = Append(@, x)]
    BY <2>1, ZenonT(30) DEF CommitProposal
  <2>3. log'[q] = log[q] \/ log'[q] = Append(log[q], x)
    BY <2>2 DEF TypeInv
  <2>4. PICK i \in 1 .. Len(log[q]) : log[q][i] = m
    BY DEF Contains
  <2>5. log[q] \in Seq(Message)
    BY DEF TypeInv
  <2>6. \A l \in Seq(Message) : \A i1 \in 1 .. Len(l) : \A x1 :
            Append(l, x1)[i1] = l[i1] /\ i1 \in 1 .. Len(Append(l, x1))
    OBVIOUS
  <2>7. i \in 1 .. Len(log'[q]) /\ log'[q][i] = m
    BY <2>3, <2>4, <2>5, <2>6
  <2> QED
    BY <2>7 DEF Contains
<1> QED
  BY <1>1, <1>2, Changes

\* Votes are never taken back.
LEMMA VotesGrow ==
    ASSUME IsFiniteSet(Server), NEW l, NEW k, NEW p, NEW e,
           \A q \in Server : Contains(l[q], Malicious(p, e)) => Contains(k[q], Malicious(p, e))
    PROVE  /\ Cardinality(Votes(l, p, e)) \in Nat /\ Cardinality(Votes(k, p, e)) \in Nat
           /\ Cardinality(Votes(l, p, e)) <= Cardinality(Votes(k, p, e))
<1>1. Votes(l, p, e) \subseteq Votes(k, p, e) /\ Votes(k, p, e) \subseteq Server
  BY DEF Votes
<1>2. IsFiniteSet(Votes(k, p, e)) /\ IsFiniteSet(Votes(l, p, e))
  BY <1>1, FS_Subset
<1> QED
  BY <1>1, <1>2, FS_Subset, FS_CardinalityType

\* Where only the logs change, what they say still holds.
LEMMA ApprovalFrame ==
    ASSUME IsFiniteSet(Server), TypeInv, ApprovalInv, [Next]_vars,
           UNCHANGED <<voters, firstInvalid, approve, failed>>
    PROVE  VotesInv' /\ InvalidByQuorum' /\ ApproveInv'
<1>1. VotesInv'
  <2> SUFFICES ASSUME NEW s \in Server, NEW v \in voters[s]
               PROVE  Contains(log'[v[3]], Malicious(v[1], v[2]))
    BY DEF VotesInv
  <2>1. v[3] \in Server
    BY DEF TypeInv
  <2>2. Contains(log[v[3]], Malicious(v[1], v[2]))
    BY DEF ApprovalInv, VotesInv
  <2> QED
    BY <2>1, <2>2, LogGrows
<1>2. InvalidByQuorum'
  <2>1. ASSUME NEW s \in Server, NEW p \in Server, firstInvalid[s][p] # 0
        PROVE  Cardinality(Votes(log', p, firstInvalid[s][p])) >= Quorum
    <3>1. Cardinality(Votes(log, p, firstInvalid[s][p])) >= Quorum
      BY <2>1 DEF ApprovalInv, InvalidByQuorum, Against, Votes, Quorum
    <3>2. Quorum \in Int
      BY FS_CardinalityType DEF Quorum
    <3>3. /\ Cardinality(Votes(log, p, firstInvalid[s][p])) \in Nat
          /\ Cardinality(Votes(log', p, firstInvalid[s][p])) \in Nat
          /\ Cardinality(Votes(log, p, firstInvalid[s][p]))
                 <= Cardinality(Votes(log', p, firstInvalid[s][p]))
      BY LogGrows, VotesGrow
    <3> QED
      BY <3>1, <3>2, <3>3
  <2> QED
    BY <2>1 DEF ApprovalInv, InvalidByQuorum, Against, Votes, Quorum
<1>3. ApproveInv'
  BY LogGrows DEF ApprovalInv, ApproveInv
<1> QED
  BY <1>1, <1>2, <1>3

\* The voters for one epoch are different servers, each with the vote in its log.
LEMMA VotersCounted ==
    ASSUME IsFiniteSet(Server), NEW V \in SUBSET (Server \X Nat \X Server), NEW p, NEW e,
           \A v \in V : Contains(log[v[3]], Malicious(v[1], v[2])), Enough(V, p, e)
    PROVE  Cardinality(Votes(log, p, e)) >= Quorum
<1> DEFINE W == {v \in V : v[1] = p /\ v[2] = e}
           T == Votes(log, p, e)
           f == [v \in W |-> v[3]]
<1>1. IsFiniteSet(T)
  BY FS_Subset DEF Votes
<1>2. \A v \in W : v[3] \in T
  BY DEF Votes
<1>3. \A v, u \in W : v[3] = u[3] => v = u
  <2> SUFFICES ASSUME NEW v \in W, NEW u \in W, v[3] = u[3] PROVE v = u
    OBVIOUS
  <2>1. v = <<v[1], v[2], v[3]>> /\ u = <<u[1], u[2], u[3]>>
    OBVIOUS
  <2> QED
    BY <2>1
<1>4. f \in Injection(W, T)
  <2>1. f \in [W -> T]
    BY <1>2
  <2>2. \A a, b \in DOMAIN f : f[a] = f[b] => a = b
    BY <1>3
  <2> QED
    BY <2>1, <2>2 DEF Injection, IsInjective
<1>5. Cardinality(W) <= Cardinality(T) /\ IsFiniteSet(W)
  BY <1>1, <1>4, FS_Injection
<1>6. Cardinality(W) \in Nat /\ Cardinality(T) \in Nat /\ Quorum \in Int
  BY <1>1, <1>5, FS_CardinalityType DEF Quorum
<1>7. Cardinality(W) >= Quorum
  BY DEF Enough, Quorum
<1> HIDE DEF W, T
<1>8. Cardinality(T) >= Quorum
  BY <1>5, <1>6, <1>7
<1> QED
  BY <1>8 DEF T

\* What is applied is in a log: a CON message approves, f + 1 votes leave a server out.
LEMMA ApprovalApply ==
    ASSUME IsFiniteSet(Server), LastEpoch \in Nat, TypeInv, ApprovalInv,
           NEW s \in Server, NEW p \in Server, Apply(s, p), [Next]_vars
    PROVE  VotesInv' /\ InvalidByQuorum' /\ ApproveInv'
<1> DEFINE m == log[p][applied[s][p] + 1]
<1>1. m \in Message /\ Contains(log[p], m)
  BY NextMessage, ZenonT(30) DEF Apply, Received
<1> HIDE DEF m
<1>2. log' = log
  BY DEF Apply, raft
<1>3. \A u, q \in Server : \A d \in Epoch :
          q \in approve[u][d] => Contains(log'[q], Con(d)) \/ firstInvalid[u][q] \in 1 .. d
  BY <1>2 DEF ApprovalInv, ApproveInv
<1>4. CASE UNCHANGED <<latest, voters, firstInvalid, approve, failed>>
  BY <1>4, ApprovalFrame
<1>5. CASE m.type = "CON" /\ Confirm(s, p, m.epoch)
  <2>1. m.epoch \in Epoch /\ m = Con(m.epoch)
    BY <1>1, <1>5, MessageForm
  <2>2. UNCHANGED <<voters, firstInvalid, failed>>
    BY <1>5 DEF Confirm, ConfirmedClientProxy
  <2>3. VotesInv' /\ InvalidByQuorum'
    BY <1>2, <2>2 DEF ApprovalInv, VotesInv, InvalidByQuorum, Against
  <2>4. approve' = [approve EXCEPT ![s][m.epoch] = @ \cup {p}]
    BY <1>5 DEF Confirm, ConfirmedClientProxy
  <2>5. \A u \in Server, d \in Epoch : \A q \in approve'[u][d] :
            q \in approve[u][d] \/ (q = p /\ d = m.epoch)
    BY <2>1, <2>4, ZenonT(30) DEF TypeInv
  <2>6. ApproveInv'
    BY <1>1, <1>2, <1>3, <2>1, <2>2, <2>5 DEF ApproveInv
  <2> QED
    BY <2>3, <2>6
<1>6. CASE m.type = "MALICIOUS" /\ ObtainMalicious(s, p, m.target, m.epoch)
  <2> DEFINE t == m.target
             e == m.epoch
  <2>1. t \in Server /\ e \in Nat \ {0} /\ m = Malicious(t, e)
    BY <1>1, <1>6, MessageForm
  <2>2. ObtainMalicious(s, p, t, e)
    BY <1>6
  <2> HIDE DEF t, e
  <2>3. \A u \in Server : \A v \in voters'[u] : v \in voters[u] \/ v = <<t, e, p>>
    <3>1. PICK A : voters' = [voters EXCEPT ![s] = A] /\ A \subseteq voters[s] \cup {<<t, e, p>>}
      BY <2>2, ZenonT(30) DEF ObtainMalicious
    <3>2. DOMAIN voters = Server
      BY DEF TypeInv
    <3>3. \A u \in Server : voters'[u] = IF u = s THEN A ELSE voters[u]
      BY <3>1, <3>2
    <3> QED
      BY <3>1, <3>3
  <2>4. VotesInv'
    <3> SUFFICES ASSUME NEW u \in Server, NEW v \in voters'[u]
                 PROVE  Contains(log[v[3]], Malicious(v[1], v[2]))
      BY <1>2 DEF VotesInv
    <3>1. CASE v \in voters[u]
      BY <3>1 DEF ApprovalInv, VotesInv
    <3>2. CASE v = <<t, e, p>>
      <4>1. v[1] = t /\ v[2] = e /\ v[3] = p
        BY <3>2
      <4> QED
        BY <1>1, <2>1, <4>1
    <3> QED
      BY <2>3, <3>1, <3>2
  <2>5. CASE UNCHANGED <<firstInvalid, approve, failed>>
    <3>1. InvalidByQuorum'
      BY <1>2, <2>5 DEF ApprovalInv, InvalidByQuorum, Against
    <3>2. ApproveInv'
      BY <1>3, <2>5 DEF ApproveInv
    <3> QED
      BY <2>4, <3>1, <3>2
  <2>6. CASE /\ Considers(s, t) /\ Enough(voters'[s], t, e)
             /\ MaliciousTarget(s, t, e)
    <3>1. firstInvalid[s][t] = 0 /\ ~failed'
      BY <2>6, ZenonT(30)
         DEF Considers, Valid, MaliciousTarget, MaliciousCallback, ApprovalInv, InvalidByQuorum
    <3>2. voters'[s] \in SUBSET (Server \X Nat \X Server)
      BY ApplyType, ZenonT(30) DEF TypeInv
    <3>3. \A v \in voters'[s] : Contains(log[v[3]], Malicious(v[1], v[2]))
      BY <1>2, <2>4 DEF VotesInv
    <3>4. Cardinality(Votes(log, t, e)) >= Quorum
      BY <2>6, <3>2, <3>3, VotersCounted, ZenonT(30)
    <3>5. /\ firstInvalid'[s][t] = e
          /\ \A u, q \in Server : u # s \/ q # t => firstInvalid'[u][q] = firstInvalid[u][q]
          /\ \A u \in Server, d \in Epoch : \A q \in approve'[u][d] :
                 q \in approve[u][d] \/ (u = s /\ q = t /\ d >= e)
      BY <2>1, <2>6, MaliciousTargetChanges
    <3>6. InvalidByQuorum'
      <4> SUFFICES ASSUME NEW u \in Server, NEW q \in Server, firstInvalid'[u][q] # 0
                   PROVE  Cardinality(Votes(log, q, firstInvalid'[u][q])) >= Quorum
        BY <1>2, <3>1 DEF InvalidByQuorum, Against, Votes, Quorum
      <4>1. CASE u = s /\ q = t
        BY <3>4, <3>5, <4>1
      <4>2. CASE u # s \/ q # t
        BY <3>5, <4>2 DEF ApprovalInv, InvalidByQuorum, Against, Votes, Quorum
      <4> QED
        BY <4>1, <4>2
    <3>7. ApproveInv'
      <4> SUFFICES ASSUME NEW u \in Server, NEW q \in Server, NEW d \in Epoch,
                          q \in approve'[u][d]
                   PROVE  Contains(log'[q], Con(d)) \/ firstInvalid'[u][q] \in 1 .. d
        BY DEF ApproveInv
      <4>1. d \in Nat
        BY DEF Epoch
      <4>2. CASE q \in approve[u][d]
        <5>1. 0 \notin 1 .. d
          BY <4>1
        <5> QED
          BY <1>3, <3>1, <3>5, <4>2, <5>1
      <4>3. CASE u = s /\ q = t /\ d >= e
        BY <2>1, <3>5, <4>1, <4>3
      <4> QED
        BY <3>5, <4>2, <4>3
    <3> QED
      BY <2>4, <3>6, <3>7
  <2> QED
    BY <2>2, <2>5, <2>6 DEF ObtainMalicious
<1> QED
  BY <1>4, <1>5, <1>6 DEF Apply, Received, m

\* An approval is never taken back.
LEMMA ApproveGrows ==
    ASSUME LastEpoch \in Nat, TypeInv, [Next]_vars, NEW u \in Server, NEW d \in Epoch
    PROVE  approve[u][d] \subseteq approve'[u][d]
<1>1. CASE approve' = approve
  BY <1>1
<1>2. ASSUME NEW s \in Server, NEW p \in Server, Apply(s, p)
      PROVE  approve[u][d] \subseteq approve'[u][d]
  <2> DEFINE m == log[p][applied[s][p] + 1]
  <2>1. m \in Message
    BY <1>2, NextMessage, Zenon DEF Apply, Received
  <2> HIDE DEF m
  <2>2. CASE m.type = "CON" /\ Confirm(s, p, m.epoch)
    <3>1. m.epoch \in Epoch /\ approve' = [approve EXCEPT ![s][m.epoch] = @ \cup {p}]
      BY <2>1, <2>2, MessageForm DEF Confirm, ConfirmedClientProxy
    <3> QED
      BY <3>1, Zenon DEF TypeInv
  <2>3. CASE m.type = "MALICIOUS" /\ MaliciousTarget(s, m.target, m.epoch)
    <3>1. m.target \in Server /\ m.epoch \in Nat
      BY <2>1, <2>3, MessageForm
    <3> QED
      BY <2>3, <3>1, MaliciousTargetChanges
  <2> QED
    BY <1>1, <1>2, <2>2, <2>3, ZenonT(30) DEF Apply, ObtainMalicious, Received, m
<1> QED
  BY <1>1, <1>2, Changes

\* Nothing is voted, approved or committed at the start.
LEMMA ApprovalInit ==
    ASSUME Init
    PROVE  ApprovalInv
<1>1. VotesInv /\ ApproveInv
  BY DEF Init, VotesInv, ApproveInv
<1>2. InvalidByQuorum
  BY DEF Init, InvalidByQuorum
<1>3. PassedInv
  BY DEF Init, PassedInv
<1> QED
  BY <1>1, <1>2, <1>3 DEF ApprovalInv

\* Only PassEpoch goes past an epoch, and only when all servers have approved it.
LEMMA PassedStep ==
    ASSUME IsFiniteSet(Server), LastEpoch \in Nat, TypeInv, TypeInv', PassedInv, [Next]_vars
    PROVE  PassedInv'
<1> SUFFICES ASSUME NEW u \in Server, NEW e \in 1 .. passed'[u]
             PROVE  approve'[u][e] = Server
  BY DEF PassedInv
<1>1. e \in Epoch /\ passed[u] \in Nat
  <2>1. passed[u] \in 0 .. LastEpoch /\ passed'[u] \in 0 .. LastEpoch
    BY DEF TypeInv
  <2> QED
    BY <2>1 DEF Epoch
<1>2. approve[u][e] \subseteq approve'[u][e] /\ approve'[u][e] \subseteq Server
  <2>1. approve[u][e] \subseteq approve'[u][e]
    BY <1>1, ApproveGrows
  <2>2. approve'[u][e] \subseteq Server
    BY <1>1 DEF TypeInv
  <2> QED
    BY <2>1, <2>2
<1>3. CASE e \in 1 .. passed[u]
  BY <1>2, <1>3 DEF PassedInv
<1>4. CASE e = passed[u] + 1 /\ PassEpoch(u)
  <2>1. Cardinality(approve[u][e]) = Cardinality(Server)
    BY <1>4 DEF PassEpoch, Approved
  <2>2. approve[u][e] = Server
    BY <1>1, <2>1, FS_Subset DEF TypeInv
  <2> QED
    BY <1>2, <2>2
<1>5. passed'[u] = passed[u] \/ (PassEpoch(u) /\ passed'[u] = passed[u] + 1)
  <2>1. ASSUME NEW s \in Server, PassEpoch(s)
        PROVE  passed'[u] = passed[u] \/ (PassEpoch(u) /\ passed'[u] = passed[u] + 1)
    <3>1. passed' = [passed EXCEPT ![s] = @ + 1]
      BY <2>1 DEF PassEpoch
    <3> QED
      BY <2>1, <3>1 DEF TypeInv
  <2>2. passed' = passed \/ \E s \in Server : PassEpoch(s)
    BY Changes
  <2> QED
    BY <2>1, <2>2
<1>6. e \in 1 .. passed[u] \/ (e = passed[u] + 1 /\ PassEpoch(u))
  BY <1>1, <1>5
<1> QED
  BY <1>3, <1>4, <1>6

\* Every step keeps what is known about votes, approvals and committed epochs.
LEMMA ApprovalStep ==
    ASSUME IsFiniteSet(Server), LastEpoch \in Nat, TypeInv, TypeInv', ApprovalInv, [Next]_vars
    PROVE  ApprovalInv'
<1>1. VotesInv' /\ InvalidByQuorum' /\ ApproveInv'
  <2>1. UNCHANGED <<voters, firstInvalid, approve, failed>> \/ \E s, p \in Server : Apply(s, p)
    BY Changes
  <2> QED
    BY <2>1, ApprovalFrame, ApprovalApply
<1>2. PassedInv'
  BY PassedStep DEF ApprovalInv
<1> QED
  BY <1>1, <1>2 DEF ApprovalInv

\* obtainMalicious leaves a server out only by f + 1 votes for the same epoch, and once,
\* for any finite set of servers and any number of epochs.
THEOREM InvalidByQuorumTheorem ==
    ASSUME IsFiniteSet(Server), LastEpoch \in Nat
    PROVE  Spec => []InvalidByQuorum
<1>1. Init => TypeInv /\ ApprovalInv
  BY TypeInit, ApprovalInit
<1>2. TypeInv /\ ApprovalInv /\ [Next]_vars => (TypeInv /\ ApprovalInv)'
  BY TypeStep, ApprovalStep
<1>3. TypeInv /\ ApprovalInv => InvalidByQuorum
  BY DEF ApprovalInv
<1> QED
  BY <1>1, <1>2, <1>3, PTL DEF Spec

\* waitForEpochFinish lets a coordinator past an epoch only when raft has what every other
\* server needs to go past it too, for any finite set of servers and any number of epochs.
THEOREM PassedIsApprovedTheorem ==
    ASSUME IsFiniteSet(Server), LastEpoch \in Nat
    PROVE  Spec => []PassedIsApproved
<1>1. Init => TypeInv /\ ApprovalInv
  BY TypeInit, ApprovalInit
<1>2. TypeInv /\ ApprovalInv /\ [Next]_vars => (TypeInv /\ ApprovalInv)'
  BY TypeStep, ApprovalStep
<1>3. TypeInv /\ ApprovalInv => PassedIsApproved
  <2> SUFFICES ASSUME TypeInv, ApprovalInv,
                      NEW s \in Server, NEW p \in Server, NEW e \in 1 .. passed[s]
               PROVE  \/ Contains(log[p], Con(e))
                      \/ \E d \in 1 .. e : Cardinality(Against(p, d))
                                               >= (Cardinality(Server) - 1) \div 3 + 1
    BY DEF PassedIsApproved
  <2>1. p \in approve[s][e]
    BY DEF ApprovalInv, PassedInv
  <2>2. e \in Epoch
    <3>1. passed[s] \in 0 .. LastEpoch
      BY DEF TypeInv
    <3> QED
      BY <3>1 DEF Epoch
  <2>3. Contains(log[p], Con(e)) \/ firstInvalid[s][p] \in 1 .. e
    BY <2>1, <2>2 DEF ApprovalInv, ApproveInv
  <2>4. firstInvalid[s][p] \in 1 .. e => firstInvalid[s][p] # 0
    OBVIOUS
  <2> QED
    BY <2>3, <2>4 DEF ApprovalInv, InvalidByQuorum
<1> QED
  BY <1>1, <1>2, <1>3, PTL DEF Spec
-----------------------------------------------------------------------------
(* What a receiver has, and what was published. *)

\* Nothing is published or received at the start.
LEMMA ChannelInit ==
    ASSUME Init
    PROVE  ChannelInv
  BY DEF Init, ChannelInv

\* Every step keeps the channels.
LEMMA ChannelStep ==
    ASSUME LastEpoch \in Nat, TypeInv, ChannelInv, [Next]_vars
    PROVE  ChannelInv'
<1>0. /\ \A p \in Server : done[p] \in Nat /\ passed[p] \in Nat /\ txs[p] \subseteq Nat
      /\ \A s, p \in Server : repoch[s][p] \in Nat
  <2>1. \A p \in Server : done[p] \in 0 .. LastEpoch /\ passed[p] \in 0 .. LastEpoch
    BY DEF TypeInv
  <2>2. \A p \in Server : txs[p] \subseteq Nat
    BY DEF TypeInv
  <2>3. \A s, p \in Server : repoch[s][p] \in Nat
    BY DEF TypeInv
  <2>4. \A n \in 0 .. LastEpoch : n \in Nat
    OBVIOUS
  <2> QED
    BY <2>1, <2>2, <2>3, <2>4
<1>1. ASSUME NEW q \in Server, PublishBatch(q) PROVE ChannelInv'
  <2>1. /\ txs' = [txs EXCEPT ![q] = @ \cup {done[q] + 1}]
        /\ got' = [got EXCEPT ![q][q] = @ \cup {done[q] + 1}]
        /\ UNCHANGED <<done, rpc, repoch, passed>>
    BY <1>1 DEF PublishBatch
  <2>2. /\ txs'[q] = txs[q] \cup {done[q] + 1}
        /\ got'[q][q] = got[q][q] \cup {done[q] + 1}
        /\ \A p \in Server \ {q} : txs'[p] = txs[p]
        /\ \A s, p \in Server : s # q \/ p # q => got'[s][p] = got[s][p]
    BY <2>1 DEF TypeInv
  <2>4. done[q] + 1 \in 1 .. done[q] + 1
    BY <1>0
  <2>5. \A s \in Server \ {q} : rpc[s][q] = "receive" => ~(done[q] + 1 < repoch[s][q])
    BY <1>0 DEF ChannelInv
  <2>6. ASSUME NEW p \in Server
        PROVE  /\ txs'[p] \subseteq 1 .. done'[p] + 1
               /\ rpc'[p][p] = "receive" /\ got'[p][p] = txs'[p]
               /\ \A s \in Server : passed'[s] < repoch'[s][p]
               /\ \A s \in Server \ {p} : rpc'[s][p] = "receive" =>
                      /\ got'[s][p] \subseteq txs'[p]
                      /\ repoch'[s][p] <= done'[p] + 1
                      /\ \A e \in txs'[p] : e < repoch'[s][p] => e \in got'[s][p]
    <3>1. CASE p = q
      <4>1. /\ txs'[q] \subseteq 1 .. done[q] + 1
            /\ rpc[q][q] = "receive" /\ got'[q][q] = txs'[q]
            /\ \A s \in Server : passed[s] < repoch[s][q]
        BY <2>2, <2>4 DEF ChannelInv
      <4>2. ASSUME NEW s \in Server \ {q}, rpc[s][q] = "receive"
            PROVE  /\ got'[s][q] \subseteq txs'[q]
                   /\ repoch[s][q] <= done[q] + 1
                   /\ \A e \in txs'[q] : e < repoch[s][q] => e \in got'[s][q]
        <5>1. got'[s][q] = got[s][q] /\ ~(done[q] + 1 < repoch[s][q])
          BY <2>2, <2>5, <4>2
        <5>2. /\ got[s][q] \subseteq txs[q]
              /\ repoch[s][q] <= done[q] + 1
              /\ \A e \in txs[q] : e < repoch[s][q] => e \in got[s][q]
          BY <4>2 DEF ChannelInv
        <5> QED
          BY <2>2, <5>1, <5>2
      <4> QED
        BY <2>1, <3>1, <4>1, <4>2
    <3>2. CASE p # q
      BY <2>1, <2>2, <3>2 DEF ChannelInv
    <3> QED
      BY <3>1, <3>2
  <2> QED
    BY <2>6, ZenonT(30) DEF ChannelInv
<1>2. ASSUME NEW q \in Server, FinishEpoch(q) PROVE ChannelInv'
  <2>1. /\ done' = [done EXCEPT ![q] = @ + 1]
        /\ repoch' = [repoch EXCEPT ![q][q] = @ + 1]
        /\ UNCHANGED <<txs, got, rpc, passed>>
    BY <1>2 DEF FinishEpoch, SendEpochFinishSignal, ccb
  <2>2. /\ done'[q] = done[q] + 1 /\ \A p \in Server \ {q} : done'[p] = done[p]
        /\ repoch'[q][q] = repoch[q][q] + 1
        /\ \A s, p \in Server : s # q \/ p # q => repoch'[s][p] = repoch[s][p]
    BY <2>1 DEF TypeInv
  <2>4. 1 .. done[q] + 1 \subseteq 1 .. done'[q] + 1
    BY <1>0, <2>2
  <2>5. \A s, p \in Server : passed[s] < repoch'[s][p]
    BY <1>0, <2>2 DEF ChannelInv
  <2>6. \A s \in Server, p \in Server :
            s # p /\ repoch[s][p] <= done[p] + 1 => repoch'[s][p] <= done'[p] + 1
    BY <1>0, <2>2
  <2>7. \A p \in Server : txs[p] \subseteq 1 .. done'[p] + 1
    BY <2>2, <2>4 DEF ChannelInv
  <2> QED
    BY <2>1, <2>2, <2>5, <2>6, <2>7 DEF ChannelInv
<1>3. ASSUME NEW u \in Server, NEW q \in Server, ReceiveBatch(u, q) PROVE ChannelInv'
  <2>1. /\ u # q
        /\ got' = [got EXCEPT ![u][q] = @ \cup {repoch[u][q]}]
        /\ repoch[u][q] \in txs[q]
        /\ UNCHANGED <<txs, done, rpc, repoch, passed>>
    BY <1>3 DEF ReceiveBatch, Listens, HasBatch, publishers
  <2>2. /\ got'[u][q] = got[u][q] \cup {repoch[u][q]}
        /\ \A s, p \in Server : s # u \/ p # q => got'[s][p] = got[s][p]
    BY <2>1, ZenonT(30) DEF TypeInv
  <2> QED
    BY <2>1, <2>2 DEF ChannelInv
<1>4. ASSUME NEW u \in Server, NEW q \in Server, ReceiveCon(u, q) PROVE ChannelInv'
  <2>1. /\ u # q /\ rpc[u][q] = "receive"
        /\ repoch[u][q] <= done[q]
        /\ repoch[u][q] \notin txs[q] \ got[u][q]
        /\ repoch' = [repoch EXCEPT ![u][q] = @ + 1]
        /\ UNCHANGED <<txs, done, rpc, got, passed>>
    BY <1>4 DEF ReceiveCon, Listens, Complete, HasBatch, publishers
  <2>2. /\ repoch'[u][q] = repoch[u][q] + 1
        /\ \A s, p \in Server : s # u \/ p # q => repoch'[s][p] = repoch[s][p]
    BY <2>1 DEF TypeInv
  <2>4. passed[u] < repoch'[u][q] /\ repoch'[u][q] <= done[q] + 1
    BY <1>0, <2>1, <2>2 DEF ChannelInv
  <2>5. \A e \in txs[q] : e < repoch'[u][q] => e < repoch[u][q] \/ e = repoch[u][q]
    BY <1>0, <2>2
  <2>6. \A e \in txs[q] : e < repoch'[u][q] => e \in got[u][q]
    BY <2>1, <2>5 DEF ChannelInv
  <2> QED
    BY <2>1, <2>2, <2>4, <2>6 DEF ChannelInv
<1>5. ASSUME NEW u \in Server, NEW q \in Server, RejectBatch(u, q) \/ StopReceiver(u, q)
      PROVE  ChannelInv'
  <2>1. /\ u # q
        /\ rpc' = [rpc EXCEPT ![u][q] = "skip"]
        /\ UNCHANGED <<txs, done, repoch, got, passed>>
    BY <1>5 DEF RejectBatch, StopReceiver, Listens, publishers
  <2>2. /\ rpc'[u][q] = "skip"
        /\ \A s, p \in Server : s # u \/ p # q => rpc'[s][p] = rpc[s][p]
    BY <2>1 DEF TypeInv
  <2> QED
    BY <2>1, <2>2 DEF ChannelInv
<1>6. ASSUME NEW u \in Server, NEW q \in Server, SkipEpoch(u, q) PROVE ChannelInv'
  <2>1. /\ rpc[u][q] = "skip"
        /\ repoch' = [repoch EXCEPT ![u][q] = @ + 1]
        /\ UNCHANGED <<txs, done, rpc, got, passed>>
    BY <1>6 DEF SkipEpoch, publishers
  <2>2. /\ repoch'[u][q] = repoch[u][q] + 1
        /\ \A s, p \in Server : s # u \/ p # q => repoch'[s][p] = repoch[s][p]
    BY <2>1 DEF TypeInv
  <2>4. passed[u] < repoch'[u][q]
    BY <1>0, <2>2 DEF ChannelInv
  <2>5. rpc[u][q] # "receive"
    BY <2>1
  <2> QED
    BY <2>1, <2>2, <2>4, <2>5 DEF ChannelInv
<1>7. ASSUME NEW u \in Server, PassEpoch(u) PROVE ChannelInv'
  <2>1. /\ passed' = [passed EXCEPT ![u] = @ + 1]
        /\ \A p \in Server : repoch[u][p] > passed[u] + 1
        /\ UNCHANGED <<txs, done, rpc, repoch, got>>
    BY <1>7 DEF PassEpoch, publishers, receivers
  <2>2. passed'[u] = passed[u] + 1 /\ \A s \in Server \ {u} : passed'[s] = passed[s]
    BY <2>1 DEF TypeInv
  <2>3. \A s, p \in Server : passed'[s] < repoch[s][p]
    BY <1>0, <2>1, <2>2 DEF ChannelInv
  <2> QED
    BY <2>1, <2>3 DEF ChannelInv
<1>8. CASE UNCHANGED <<txs, done, rpc, repoch, got, passed>>
  BY <1>8 DEF ChannelInv
<1> QED
  BY <1>1, <1>2, <1>3, <1>4, <1>5, <1>6, <1>7, <1>8,
     ServersAssumption, ZenonT(30)
  DEF Next, ReceiverStep, Rest, vars, publishers, receivers, CommitProposal, Apply,
      SpinCheckTimeout

\* A server executes, in every epoch that it goes past, exactly the transactions that the
\* servers it has not left out have published in it (receiveFromOtherServer), for any set of
\* servers and any number of epochs.
THEOREM SameTransactionsTheorem ==
    ASSUME LastEpoch \in Nat
    PROVE  Spec => []SameTransactions
<1>1. Init => TypeInv /\ ChannelInv
  BY TypeInit, ChannelInit
<1>2. TypeInv /\ ChannelInv /\ [Next]_vars => (TypeInv /\ ChannelInv)'
  BY TypeStep, ChannelStep
<1>3. TypeInv /\ ChannelInv => SameTransactions
  <2> SUFFICES ASSUME TypeInv, ChannelInv, NEW s \in Server, NEW p \in Server,
                      NEW e \in 1 .. passed[s], rpc[s][p] = "receive"
               PROVE  e \in got[s][p] <=> e \in txs[p]
    BY DEF SameTransactions
  <2>1. CASE s = p
    BY <2>1 DEF ChannelInv
  <2>2. CASE s # p
    <3>1. passed[s] < repoch[s][p]
      BY DEF ChannelInv
    <3>2. repoch[s][p] \in Nat /\ passed[s] \in 0 .. LastEpoch
      BY DEF TypeInv
    <3>3. e < repoch[s][p]
      BY <3>1, <3>2
    <3> QED
      BY <2>2, <3>3 DEF ChannelInv
  <2> QED
    BY <2>1, <2>2
<1> QED
  BY <1>1, <1>2, <1>3, PTL DEF Spec
=============================================================================
