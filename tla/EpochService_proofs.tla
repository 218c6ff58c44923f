------------------------ MODULE EpochService_proofs -------------------------
(***************************************************************************)
(* What the epoch service and the user collector guarantee for any number  *)
(* of epoch servers, threads, batches, restarts and resent proposals.      *)
(***************************************************************************)
EXTENDS EpochService, SequenceTheorems, TLAPS

\* Types, as far as the arguments below need them.
TypeInv ==
    /\ current \in [Server -> Nat]
    /\ pending \in [Server -> Seq(Nat)]
    /\ log \in Seq(Nat)
    /\ applied \in [Server -> Nat]
    /\ snapshot \in [Server -> Nat]
    /\ \A v \in Server : snapshot[v] <= applied[v] /\ applied[v] <= Len(log)
    /\ rpc \in [Receiver -> {"idle", "wait", "locked"}]
    /\ asked \in [Receiver -> SUBSET Server]
    /\ reply \in [Receiver -> Nat]
    /\ latest \in Nat
    /\ queue \in Seq(Nat)
    /\ proxyEpoch \in Nat

\* The batches in pendingTransactions are in the order of their epochs, between the
\* one that the client proxy is in and the latest; the thread that holds pipelineLock
\* has all its answers and the latest epoch.
OrderInv ==
    /\ failed = FALSE
    /\ proxyEpoch <= latest
    /\ \A i \in 1 .. Len(queue) : proxyEpoch <= queue[i] /\ queue[i] <= latest
    /\ \A i, j \in 1 .. Len(queue) : i <= j => queue[i] <= queue[j]
    /\ \A r \in Receiver : rpc[r] = "locked" => asked[r] = {} /\ reply[r] = latest

\* The log has all epochs up to any that is in it, that a server is in, or before one
\* that is proposed.
AskedInv ==
    /\ \A i \in 1 .. Len(log) : \A e \in 2 .. log[i] : e \in Range(log)
    /\ \A v \in Server : \A i \in 1 .. Len(pending[v]) :
           \A e \in 2 .. pending[v][i] - 1 : e \in Range(log)
    /\ \A v \in Server : \A e \in 2 .. current[v] : e \in Range(log)

\* A server that makes no snapshots is in the largest epoch of what it has applied.
EpochInv ==
    \A v \in Server \ Snapshots :
        /\ snapshot[v] = 0
        /\ current[v] = 1 \/ \E i \in 1 .. applied[v] : log[i] = current[v]
        /\ current[v] >= 1
        /\ \A i \in 1 .. applied[v] : log[i] <= current[v]
-----------------------------------------------------------------------------
\* What is left of a sequence when one element is removed.
LEMMA RemoveAtSeq ==
    ASSUME NEW S, NEW s \in Seq(S), NEW i \in 1 .. Len(s)
    PROVE  /\ RemoveAt(s, i) \in Seq(S)
           /\ \A j \in 1 .. Len(RemoveAt(s, i)) :
                  \E k \in 1 .. Len(s) : RemoveAt(s, i)[j] = s[k]
<1> DEFINE a == SubSeq(s, 1, i - 1)
           b == SubSeq(s, i + 1, Len(s))
<1>1. a \in Seq(S) /\ Len(a) = i - 1 /\ \A j \in 1 .. i - 1 : a[j] = s[j]
  OBVIOUS
<1>2. b \in Seq(S) /\ Len(b) = Len(s) - i /\ \A j \in 1 .. Len(s) - i : b[j] = s[i + j]
  OBVIOUS
<1>3. RemoveAt(s, i) = a \o b
  BY DEF RemoveAt
<1> HIDE DEF a, b
<1>0. /\ a \o b \in Seq(S)
      /\ Len(a \o b) = Len(a) + Len(b)
      /\ \A j \in 1 .. Len(a) + Len(b) :
             (a \o b)[j] = IF j <= Len(a) THEN a[j] ELSE b[j - Len(a)]
  BY <1>1, <1>2, ConcatProperties, Zenon
<1>4. /\ a \o b \in Seq(S)
      /\ Len(a \o b) = Len(s) - 1
      /\ \A j \in 1 .. Len(s) - 1 :
             (a \o b)[j] = IF j <= i - 1 THEN a[j] ELSE b[j - (i - 1)]
  <2>1. Len(a) + Len(b) = Len(s) - 1
    BY <1>1, <1>2
  <2> QED
    BY <1>0, <2>1, <1>1
<1>5. ASSUME NEW j \in 1 .. Len(s) - 1
      PROVE  \E k \in 1 .. Len(s) : (a \o b)[j] = s[k]
  <2>1. CASE j <= i - 1
    BY <1>1, <1>4, <2>1
  <2>2. CASE j > i - 1
    <3>1. j - (i - 1) \in 1 .. Len(s) - i /\ i + (j - (i - 1)) \in 1 .. Len(s)
      BY <2>2
    <3>2. (a \o b)[j] = s[i + (j - (i - 1))]
      BY <1>2, <1>4, <2>2, <3>1
    <3> QED
      BY <3>1, <3>2
  <2>3. j <= i - 1 \/ j > i - 1
    OBVIOUS
  <2> QED
    BY <2>1, <2>2, <2>3
<1> QED
  BY <1>3, <1>4, <1>5

\* The range of a log grows by what is appended.
LEMMA RangeAppend ==
    ASSUME NEW s \in Seq(Nat), NEW e \in Nat
    PROVE  Range(Append(s, e)) = Range(s) \cup {e}
<1>1. DOMAIN s = 1 .. Len(s) /\ DOMAIN Append(s, e) = 1 .. Len(s) + 1
  OBVIOUS
<1>2. \A i \in 1 .. Len(s) : Append(s, e)[i] = s[i]
  OBVIOUS
<1>3. Append(s, e)[Len(s) + 1] = e
  OBVIOUS
<1> QED
  BY <1>1, <1>2, <1>3 DEF Range

\* The later of two epochs.
LEMMA MaxOfTwo ==
    ASSUME NEW a \in Nat, NEW b \in Nat, a <= b
    PROVE  Max({a, b}) = b
  BY DEF Max
-----------------------------------------------------------------------------
(* Types. *)

\* The servers start in epoch 1 with an empty log.
LEMMA TypeInit == Init => TypeInv
  BY DEF Init, TypeInv

\* Every step of the servers, of the collector and of the proxy keeps the types; a log
\* only grows, so that what was applied or saved of it stays a part of it.
LEMMA TypeStep == TypeInv /\ [Next]_vars => TypeInv'
<1> SUFFICES ASSUME TypeInv, [Next]_vars
             PROVE  TypeInv'
  OBVIOUS
<1>1. ASSUME NEW v \in Server, NEW r \in Receiver, ReceiveFromUser(v, r)
      PROVE  TypeInv'
  <2>1. Append(pending[v], current[v] + 1) \in Seq(Nat) /\ current[v] \in Nat
    BY DEF TypeInv
  <2>2. pending' \in [Server -> Seq(Nat)]
    BY <1>1, <2>1 DEF ReceiveFromUser, TypeInv
  <2>3. asked' \in [Receiver -> SUBSET Server] /\ reply' \in [Receiver -> Nat]
    BY <1>1, <2>1 DEF ReceiveFromUser, TypeInv
  <2> QED
    BY <1>1, <2>2, <2>3 DEF ReceiveFromUser, TypeInv, proxy
<1>2. ASSUME NEW v \in Server, CommitProposal(v)
      PROVE  TypeInv'
  <2> PICK i \in 1 .. Len(pending[v]) :
         /\ log' = Append(log, pending[v][i])
         /\ pending' = pending \/ pending' = [pending EXCEPT ![v] = RemoveAt(@, i)]
    BY <1>2 DEF CommitProposal
  <2>1. pending[v] \in Seq(Nat) /\ pending[v][i] \in Nat
    BY DEF TypeInv
  <2>2. RemoveAt(pending[v], i) \in Seq(Nat)
    BY <2>1, RemoveAtSeq, Zenon
  <2>3. pending' \in [Server -> Seq(Nat)]
    BY <2>2 DEF TypeInv
  <2>4. log' \in Seq(Nat) /\ Len(log') = Len(log) + 1 /\ Len(log) \in Nat
    BY <2>1 DEF TypeInv
  <2>5. UNCHANGED <<current, applied, snapshot, rpc, asked, reply, latest, queue, proxyEpoch>>
    BY <1>2 DEF CommitProposal, servers, collector, proxy
  <2>6. \A u \in Server : snapshot'[u] <= applied'[u] /\ applied'[u] <= Len(log')
    BY <2>4, <2>5 DEF TypeInv
  <2> QED
    BY <2>3, <2>4, <2>5, <2>6, Zenon DEF TypeInv
<1>3. ASSUME NEW v \in Server, ReceiveFromRaft(v)
      PROVE  TypeInv'
  <2>1. applied[v] \in Nat /\ applied[v] + 1 \in 1 .. Len(log) /\ log[applied[v] + 1] \in Nat
    BY <1>3 DEF ReceiveFromRaft, TypeInv
  <2>2. current' \in [Server -> Nat]
    BY <1>3, <2>1 DEF ReceiveFromRaft, NewEpoch, TypeInv
  <2>3. /\ applied' \in [Server -> Nat] /\ applied'[v] = applied[v] + 1
        /\ \A u \in Server \ {v} : applied'[u] = applied[u]
    BY <1>3, <2>1 DEF ReceiveFromRaft, TypeInv
  <2>4. UNCHANGED <<pending, log, snapshot, rpc, asked, reply, latest, queue, proxyEpoch>>
    BY <1>3 DEF ReceiveFromRaft, collector, proxy
  <2>5. \A u \in Server : snapshot'[u] <= applied'[u] /\ applied'[u] <= Len(log')
    <3>1. /\ Len(log) \in Nat
          /\ \A u \in Server : /\ snapshot[u] \in Nat /\ applied[u] \in Nat
                               /\ snapshot[u] <= applied[u] /\ applied[u] <= Len(log)
      BY DEF TypeInv
    <3> QED
      BY <2>1, <2>3, <2>4, <3>1
  <2> QED
    BY <2>2, <2>3, <2>4, <2>5 DEF TypeInv
<1>4. ASSUME NEW v \in Server, SaveSnapshot(v)
      PROVE  TypeInv'
  <2>1. UNCHANGED <<current, pending, log, applied, rpc, asked, reply, latest, queue,
                    proxyEpoch>>
    BY <1>4 DEF SaveSnapshot, servers, collector, proxy
  <2>2. snapshot' = [snapshot EXCEPT ![v] = applied[v]]
    BY <1>4 DEF SaveSnapshot
  <2> QED
    BY <2>1, <2>2 DEF TypeInv
<1>5. ASSUME NEW v \in Server, Restart(v)
      PROVE  TypeInv'
  <2>1. UNCHANGED <<log, snapshot, rpc, asked, reply, latest, queue, proxyEpoch>>
    BY <1>5 DEF Restart, collector, proxy
  <2>2. /\ current' = [current EXCEPT ![v] = 1]
        /\ pending' = [pending EXCEPT ![v] = <<>>]
        /\ applied' = [applied EXCEPT ![v] = snapshot[v]]
    BY <1>5 DEF Restart
  <2>3. /\ current' \in [Server -> Nat]
        /\ pending' \in [Server -> Seq(Nat)]
        /\ applied' \in [Server -> Nat]
    BY <2>2 DEF TypeInv
  <2>4. Len(log) \in Nat /\ \A u \in Server : snapshot[u] \in Nat /\ applied[u] \in Nat
    BY DEF TypeInv
  <2>5. \A u \in Server : snapshot'[u] <= applied'[u] /\ applied'[u] <= Len(log')
    BY <2>1, <2>2, <2>4 DEF TypeInv
  <2> QED
    BY <2>1, <2>3, <2>5 DEF TypeInv
<1>10. ASSUME NEW r \in Receiver, SendRequest(r)
      PROVE  TypeInv'
  <2>1. UNCHANGED <<current, pending, log, applied, snapshot, reply, latest, queue, proxyEpoch>>
    BY <1>10 DEF SendRequest, servers, raft, proxy
  <2> QED
    BY <1>10, <2>1 DEF SendRequest, TypeInv
<1>11. ASSUME NEW r \in Receiver, TakeReply(r)
      PROVE  TypeInv'
  <2>1. UNCHANGED <<current, pending, log, applied, snapshot, reply, queue, proxyEpoch>>
    BY <1>11 DEF TakeReply, servers, raft, proxy
  <2>2. latest' \in Nat
    BY <1>11 DEF TakeReply, TypeInv
  <2> QED
    BY <1>11, <2>1, <2>2 DEF TakeReply, TypeInv
<1>6. ASSUME NEW r \in Receiver, HandOver(r)
      PROVE  TypeInv'
  BY <1>6 DEF HandOver, TypeInv, servers, raft
<1>7. ASSUME TakeBatch
      PROVE  TypeInv'
  <2>1. Head(queue) \in Nat /\ Tail(queue) \in Seq(Nat) /\ proxyEpoch \in Nat
    BY <1>7 DEF TakeBatch, TypeInv
  <2>2. proxyEpoch' \in Nat
    <3>1. CASE proxyEpoch <= Head(queue)
      BY <1>7, <2>1, <3>1, MaxOfTwo DEF TakeBatch
    <3>2. CASE Head(queue) <= proxyEpoch
      <4>1. {proxyEpoch, Head(queue)} = {Head(queue), proxyEpoch}
        OBVIOUS
      <4> QED
        BY <1>7, <2>1, <3>2, <4>1, MaxOfTwo DEF TakeBatch
    <3> QED
      BY <2>1, <3>1, <3>2
  <2> QED
    BY <1>7, <2>1, <2>2 DEF TakeBatch, TypeInv, servers, raft, collector
<1>8. ASSUME UNCHANGED vars
      PROVE  TypeInv'
  BY <1>8 DEF vars, TypeInv
<1> QED
  BY <1>1, <1>2, <1>3, <1>4, <1>5, <1>10, <1>11, <1>6, <1>7, <1>8 DEF Next, Rest
-----------------------------------------------------------------------------
(* The order of the batches. *)

\* No batch is on its way at the start.
LEMMA OrderInit == Init => OrderInv
  BY DEF Init, OrderInv

\* Only the thread that holds pipelineLock appends to pendingTransactions, and what it
\* appends is the latest epoch.
LEMMA OrderStep == TypeInv /\ OrderInv /\ [Next]_vars => OrderInv'
<1> SUFFICES ASSUME TypeInv, OrderInv, [Next]_vars
             PROVE  OrderInv'
  OBVIOUS
<1>1. ASSUME NEW v \in Server, NEW r \in Receiver, ReceiveFromUser(v, r)
      PROVE  OrderInv'
  <2>1. UNCHANGED <<rpc, latest, queue, proxyEpoch, failed>>
    BY <1>1 DEF ReceiveFromUser, proxy
  <2>2. rpc[r] # "locked"
    BY <1>1 DEF ReceiveFromUser, OrderInv
  <2>3. \A q \in Receiver \ {r} : asked'[q] = asked[q] /\ reply'[q] = reply[q]
    BY <1>1 DEF ReceiveFromUser, TypeInv
  <2> QED
    BY <2>1, <2>2, <2>3 DEF OrderInv
<1>2. ASSUME UNCHANGED <<collector, proxy>>
      PROVE  OrderInv'
  BY <1>2 DEF OrderInv, collector, proxy
<1>3. ASSUME NEW v \in Server,
             CommitProposal(v) \/ ReceiveFromRaft(v) \/ SaveSnapshot(v) \/ Restart(v)
      PROVE  OrderInv'
  BY <1>2, <1>3 DEF CommitProposal, ReceiveFromRaft, SaveSnapshot, Restart
<1>4. ASSUME NEW r \in Receiver, SendRequest(r)
      PROVE  OrderInv'
  BY <1>4 DEF SendRequest, proxy, OrderInv, TypeInv
<1>5. ASSUME NEW r \in Receiver, TakeReply(r)
      PROVE  OrderInv'
  <2>1. UNCHANGED <<reply, queue, proxyEpoch, failed>>
    BY <1>5 DEF TakeReply, proxy
  <2>2. CASE TooOld(reply[r])
    BY <1>5, <2>1, <2>2 DEF TakeReply, OrderInv, TypeInv
  <2>3. CASE ~TooOld(reply[r])
    <3>1. /\ latest' = reply[r] /\ rpc' = [rpc EXCEPT ![r] = "locked"]
          /\ asked' = asked /\ asked[r] = {} /\ LockFree
      BY <1>5, <2>3 DEF TakeReply
    <3>2. latest \in Nat /\ latest' \in Nat /\ latest <= latest'
      BY <2>3, <3>1 DEF TooOld, TypeInv
    <3>3. proxyEpoch \in Nat /\ \A i \in 1 .. Len(queue) : queue[i] \in Nat
      BY DEF TypeInv
    <3>4. \A i \in 1 .. Len(queue) : proxyEpoch <= queue[i] /\ queue[i] <= latest'
      BY <3>2, <3>3 DEF OrderInv
    <3>5. \A q \in Receiver : rpc'[q] = "locked" => q = r
      BY <3>1 DEF LockFree, TypeInv
    <3>6. proxyEpoch <= latest'
      BY <3>2, <3>3 DEF OrderInv
    <3> QED
      BY <2>1, <3>1, <3>4, <3>5, <3>6 DEF OrderInv
  <2> QED
    BY <2>2, <2>3
<1>6. ASSUME NEW r \in Receiver, HandOver(r)
      PROVE  OrderInv'
  <2>1. /\ UNCHANGED <<asked, reply, latest, proxyEpoch, failed>>
        /\ queue' = Append(queue, latest)
        /\ rpc' = [rpc EXCEPT ![r] = "idle"]
    BY <1>6 DEF HandOver, OrderInv
  <2>2. /\ Len(queue) \in Nat /\ Len(queue') = Len(queue) + 1
        /\ \A i \in 1 .. Len(queue) : queue'[i] = queue[i] /\ queue[i] \in Nat
        /\ queue'[Len(queue) + 1] = latest
    BY <2>1 DEF TypeInv
  <2>3. proxyEpoch \in Nat /\ latest \in Nat
    BY DEF TypeInv
  <2>4. \A i \in 1 .. Len(queue') : proxyEpoch' <= queue'[i] /\ queue'[i] <= latest'
    BY <2>1, <2>2, <2>3 DEF OrderInv
  <2>5. \A i, j \in 1 .. Len(queue') : i <= j => queue'[i] <= queue'[j]
    BY <2>1, <2>2, <2>3 DEF OrderInv
  <2>6. \A q \in Receiver : rpc'[q] = "locked" => asked'[q] = {} /\ reply'[q] = latest'
    BY <2>1 DEF OrderInv, TypeInv
  <2> QED
    BY <2>1, <2>4, <2>5, <2>6 DEF OrderInv
<1>7. ASSUME TakeBatch
      PROVE  OrderInv'
  <2>1. queue # <<>> /\ queue' = Tail(queue) /\ UNCHANGED <<rpc, asked, reply, latest>>
    BY <1>7 DEF TakeBatch, collector
  <2>2. /\ Len(queue) \in Nat /\ Len(queue) >= 1 /\ Head(queue) = queue[1]
        /\ Len(queue') = Len(queue) - 1
        /\ \A i \in 1 .. Len(queue) - 1 : queue'[i] = queue[i + 1]
        /\ \A i \in 1 .. Len(queue) : queue[i] \in Nat
    BY <2>1 DEF TypeInv
  <2>3. proxyEpoch \in Nat /\ latest \in Nat /\ proxyEpoch <= Head(queue) /\ Head(queue) <= latest
    BY <2>2 DEF TypeInv, OrderInv
  <2>4. Max({proxyEpoch, Head(queue)}) = Head(queue)
    BY <2>2, <2>3, MaxOfTwo
  <2>5. proxyEpoch' = queue[1] /\ failed' = FALSE
    BY <1>7, <2>2, <2>4 DEF TakeBatch
  <2>6. \A i \in 1 .. Len(queue') : proxyEpoch' <= queue'[i] /\ queue'[i] <= latest'
    BY <2>1, <2>2, <2>5 DEF OrderInv
  <2>7. \A i, j \in 1 .. Len(queue') : i <= j => queue'[i] <= queue'[j]
    BY <2>2 DEF OrderInv
  <2>8. proxyEpoch' <= latest'
    BY <2>1, <2>2, <2>3, <2>5
  <2> QED
    BY <2>1, <2>5, <2>6, <2>7, <2>8 DEF OrderInv
<1>8. ASSUME UNCHANGED vars
      PROVE  OrderInv'
  BY <1>2, <1>8 DEF vars, collector, proxy
<1> QED
  BY <1>1, <1>3, <1>4, <1>5, <1>6, <1>7, <1>8 DEF Next, Rest

\* However many threads of the collector ask, and however often the servers restart
\* and their proposals are sent again, the CHECK of receiveFromLocalServer holds.
THEOREM BatchesInOrder == Spec => []ProxyInOrder
<1>1. Init => TypeInv /\ OrderInv
  BY TypeInit, OrderInit
<1>2. TypeInv /\ OrderInv /\ [Next]_vars => TypeInv' /\ OrderInv'
  BY TypeStep, OrderStep
<1>3. OrderInv => ProxyInOrder
  BY DEF OrderInv, ProxyInOrder
<1> QED
  BY <1>1, <1>2, <1>3, PTL DEF Spec
-----------------------------------------------------------------------------
(* No epoch is left out. *)

\* Nothing is proposed at the start.
LEMMA AskedInit == Init => AskedInv
  BY DEF Init, AskedInv

\* A server proposes the epoch after its own, which the log has; so does every proposal
\* that raft applies.
LEMMA AskedStep == TypeInv /\ AskedInv /\ [Next]_vars => AskedInv'
<1> SUFFICES ASSUME TypeInv, AskedInv, [Next]_vars
             PROVE  AskedInv'
  OBVIOUS
<1>1. ASSUME NEW v \in Server, NEW r \in Receiver, ReceiveFromUser(v, r)
      PROVE  AskedInv'
  <2>1. UNCHANGED <<current, log>>
    BY <1>1 DEF ReceiveFromUser
  <2>2. /\ \A u \in Server \ {v} : pending'[u] = pending[u]
        /\ pending'[v] = pending[v] \/ pending'[v] = Append(pending[v], current[v] + 1)
    BY <1>1 DEF ReceiveFromUser, TypeInv
  <2>3. pending[v] \in Seq(Nat) /\ current[v] \in Nat
    BY DEF TypeInv
  <2>4. \A i \in 1 .. Len(pending'[v]) :
            \/ i \in 1 .. Len(pending[v]) /\ pending'[v][i] = pending[v][i]
            \/ pending'[v][i] - 1 = current[v]
    <3>1. CASE pending'[v] = pending[v]
      BY <3>1
    <3>2. CASE pending'[v] = Append(pending[v], current[v] + 1)
      <4> DEFINE q == pending[v]
                 c == current[v]
      <4>1. q \in Seq(Nat) /\ c \in Nat
        BY <2>3
      <4> HIDE DEF q, c
      <4>2. \A i \in 1 .. Len(Append(q, c + 1)) :
                \/ i \in 1 .. Len(q) /\ Append(q, c + 1)[i] = q[i]
                \/ Append(q, c + 1)[i] - 1 = c
        BY <4>1
      <4> QED
        BY <3>2, <4>2 DEF q, c
    <3> QED
      BY <2>2, <3>1, <3>2
  <2>5. \A i \in 1 .. Len(pending'[v]) : \A e \in 2 .. pending'[v][i] - 1 : e \in Range(log)
    BY <2>4 DEF AskedInv
  <2> QED
    BY <2>1, <2>2, <2>5 DEF AskedInv
<1>2. ASSUME NEW v \in Server, CommitProposal(v)
      PROVE  AskedInv'
  <2> PICK i \in 1 .. Len(pending[v]) :
         /\ log' = Append(log, pending[v][i])
         /\ pending' = pending \/ pending' = [pending EXCEPT ![v] = RemoveAt(@, i)]
    BY <1>2 DEF CommitProposal
  <2> DEFINE p == pending[v][i]
  <2>1. current' = current
    BY <1>2 DEF CommitProposal, servers
  <2>2. pending[v] \in Seq(Nat) /\ p \in Nat /\ log \in Seq(Nat)
    BY DEF TypeInv
  <2>3. Range(log') = Range(log) \cup {p}
    BY <2>2, RangeAppend
  <2>4. \A e \in 2 .. p : e \in Range(log')
    <3> SUFFICES ASSUME NEW e \in 2 .. p
                 PROVE  e \in Range(log')
      OBVIOUS
    <3>1. e = p \/ e \in 2 .. p - 1
      BY <2>2
    <3> QED
      BY <2>3, <3>1 DEF AskedInv
  <2>5. \A k \in 1 .. Len(log') : \A e \in 2 .. log'[k] : e \in Range(log')
    <3>1. \A k \in 1 .. Len(log') : log'[k] = p \/ (k \in 1 .. Len(log) /\ log'[k] = log[k])
      BY <2>2
    <3> QED
      BY <2>3, <2>4, <3>1 DEF AskedInv
  <2>6. \A u \in Server : \A j \in 1 .. Len(pending'[u]) :
            \E k \in 1 .. Len(pending[u]) : pending'[u][j] = pending[u][k]
    <3>1. \A j \in 1 .. Len(RemoveAt(pending[v], i)) :
              \E k \in 1 .. Len(pending[v]) : RemoveAt(pending[v], i)[j] = pending[v][k]
      <4> DEFINE q == pending[v]
      <4>1. q \in Seq(Nat) /\ i \in 1 .. Len(q)
        BY <2>2
      <4> HIDE DEF q
      <4>2. \A j \in 1 .. Len(RemoveAt(q, i)) : \E k \in 1 .. Len(q) : RemoveAt(q, i)[j] = q[k]
        BY <4>1, RemoveAtSeq
      <4> QED
        BY <4>2 DEF q
    <3>2. CASE pending' = pending
      BY <3>2
    <3>3. CASE pending' = [pending EXCEPT ![v] = RemoveAt(@, i)]
      <4>1. pending'[v] = RemoveAt(pending[v], i)
        BY <3>3 DEF TypeInv
      <4>2. \A u \in Server \ {v} : pending'[u] = pending[u]
        BY <3>3 DEF TypeInv
      <4>3. \A j \in 1 .. Len(pending'[v]) :
                \E k \in 1 .. Len(pending[v]) : pending'[v][j] = pending[v][k]
        BY <3>1, <4>1, Zenon
      <4> QED
        BY <4>2, <4>3
    <3> QED
      BY <3>2, <3>3
  <2>7. \A u \in Server : \A j \in 1 .. Len(pending'[u]) :
            \A e \in 2 .. pending'[u][j] - 1 : e \in Range(log')
    <3> SUFFICES ASSUME NEW u \in Server, NEW j \in 1 .. Len(pending'[u])
                 PROVE  \A e \in 2 .. pending'[u][j] - 1 : e \in Range(log')
      OBVIOUS
    <3>1. PICK k \in 1 .. Len(pending[u]) : pending'[u][j] = pending[u][k]
      BY <2>6
    <3>2. \A e \in 2 .. pending[u][k] - 1 : e \in Range(log)
      BY DEF AskedInv
    <3> QED
      BY <2>3, <3>1, <3>2
  <2>8. \A u \in Server : \A e \in 2 .. current'[u] : e \in Range(log')
    BY <2>1, <2>3 DEF AskedInv
  <2> QED
    BY <2>5, <2>7, <2>8 DEF AskedInv
<1>3. ASSUME NEW v \in Server, ReceiveFromRaft(v)
      PROVE  AskedInv'
  <2>1. UNCHANGED <<pending, log>>
    BY <1>3 DEF ReceiveFromRaft
  <2>2. applied[v] + 1 \in 1 .. Len(log)
    BY <1>3 DEF ReceiveFromRaft, TypeInv
  <2>3. /\ \A u \in Server \ {v} : current'[u] = current[u]
        /\ current'[v] = current[v] \/ current'[v] = log[applied[v] + 1]
    BY <1>3 DEF ReceiveFromRaft, NewEpoch, TypeInv
  <2> QED
    BY <2>1, <2>2, <2>3 DEF AskedInv
<1>4. ASSUME UNCHANGED <<current, pending, log>>
      PROVE  AskedInv'
  BY <1>4 DEF AskedInv
<1>5. ASSUME NEW v \in Server, SaveSnapshot(v)
      PROVE  AskedInv'
  BY <1>4, <1>5 DEF SaveSnapshot, servers
<1>6. ASSUME NEW v \in Server, Restart(v)
      PROVE  AskedInv'
  <2>1. /\ log' = log
        /\ current'[v] = 1 /\ pending'[v] = <<>>
        /\ \A u \in Server \ {v} : current'[u] = current[u] /\ pending'[u] = pending[u]
    BY <1>6 DEF Restart, TypeInv
  <2> QED
    BY <2>1 DEF AskedInv
<1>7. ASSUME NEW r \in Receiver, SendRequest(r) \/ TakeReply(r) \/ HandOver(r)
      PROVE  AskedInv'
  BY <1>4, <1>7 DEF SendRequest, TakeReply, HandOver, servers, raft
<1>8. ASSUME TakeBatch
      PROVE  AskedInv'
  BY <1>4, <1>8 DEF TakeBatch, servers, raft
<1>9. ASSUME UNCHANGED vars
      PROVE  AskedInv'
  BY <1>4, <1>9 DEF vars
<1> QED
  BY <1>1, <1>2, <1>3, <1>5, <1>6, <1>7, <1>8, <1>9 DEF Next, Rest

\* An epoch begins only when a server has asked for it while in the epoch before, for
\* any number of servers, proposals sent again, snapshots and restarts.
THEOREM NoEpochLeftOut == Spec => []EpochsAreAskedFor
<1>1. Init => TypeInv /\ AskedInv
  BY TypeInit, AskedInit
<1>2. TypeInv /\ AskedInv /\ [Next]_vars => TypeInv' /\ AskedInv'
  BY TypeStep, AskedStep
<1>3. AskedInv => EpochsAreAskedFor
  BY DEF AskedInv, EpochsAreAskedFor
<1> QED
  BY <1>1, <1>2, <1>3, PTL DEF Spec
-----------------------------------------------------------------------------
(* The epoch of a server. *)

\* The servers start in epoch 1, with nothing applied.
LEMMA EpochInit == Init => EpochInv
  BY DEF Init, EpochInv

\* A restarted server begins again with an empty part of the log, a running one goes to
\* the larger of its own epoch and the next in the log.
LEMMA EpochStep ==
    ASSUME TypeInv, EpochInv, [Next]_vars
    PROVE  EpochInv'
<1>1. ASSUME UNCHANGED <<current, log, applied, snapshot>>
      PROVE  EpochInv'
  BY <1>1 DEF EpochInv
<1>2. ASSUME NEW v \in Server, NEW r \in Receiver, ReceiveFromUser(v, r)
      PROVE  EpochInv'
  BY <1>1, <1>2 DEF ReceiveFromUser
<1>3. ASSUME NEW v \in Server, CommitProposal(v)
      PROVE  EpochInv'
  <2>1. UNCHANGED <<current, applied, snapshot>>
    BY <1>3 DEF CommitProposal, servers
  <2>2. PICK p \in Nat : log' = Append(log, p)
    BY <1>3 DEF CommitProposal, TypeInv
  <2>3. \A k \in 1 .. Len(log) : log'[k] = log[k]
    BY <2>2 DEF TypeInv
  <2>4. \A u \in Server : \A k \in 1 .. applied[u] : log'[k] = log[k]
    BY <2>3 DEF TypeInv
  <2> QED
    BY <2>1, <2>4 DEF EpochInv
<1>4. ASSUME NEW v \in Server, ReceiveFromRaft(v)
      PROVE  EpochInv'
  <2> DEFINE a == applied[v]
             e == log[a + 1]
             c == current[v]
  <2>1. UNCHANGED <<log, snapshot>>
    BY <1>4 DEF ReceiveFromRaft
  <2>2. \A u \in Server \ {v} : current'[u] = current[u] /\ applied'[u] = applied[u]
    BY <1>4 DEF ReceiveFromRaft, TypeInv
  <2>3. /\ applied'[v] = a + 1
        /\ current'[v] = IF e > c THEN e ELSE c
    BY <1>4 DEF ReceiveFromRaft, NewEpoch, TypeInv
  <2>4. a \in Nat /\ c \in Nat /\ e \in Nat /\ \A i \in 1 .. a : log[i] \in Nat
    BY <1>4 DEF ReceiveFromRaft, TypeInv
  <2>5. v \notin Snapshots =>
            /\ c = 1 \/ \E i \in 1 .. a : log[i] = c
            /\ c >= 1 /\ \A i \in 1 .. a : log[i] <= c
    BY DEF EpochInv
  <2>6. \A i \in 1 .. a + 1 : i \in 1 .. a \/ i = a + 1
    BY <2>4
  <2> HIDE DEF a, c
  <2>7. v \notin Snapshots =>
            /\ current'[v] = 1 \/ \E i \in 1 .. a + 1 : log[i] = current'[v]
            /\ current'[v] >= 1
            /\ \A i \in 1 .. a + 1 : log[i] <= current'[v]
    BY <2>3, <2>4, <2>5, <2>6
  <2> QED
    BY <2>1, <2>2, <2>3, <2>7 DEF EpochInv
<1>5. ASSUME NEW v \in Server, SaveSnapshot(v)
      PROVE  EpochInv'
  <2>1. /\ v \in Snapshots
        /\ UNCHANGED <<current, log, applied>>
        /\ snapshot' = [snapshot EXCEPT ![v] = applied[v]]
    BY <1>5 DEF SaveSnapshot, servers
  <2>2. \A u \in Server \ Snapshots : snapshot'[u] = snapshot[u]
    BY <2>1 DEF TypeInv
  <2> QED
    BY <2>1, <2>2 DEF EpochInv
<1>6. ASSUME NEW v \in Server, Restart(v)
      PROVE  EpochInv'
  <2>1. /\ UNCHANGED <<log, snapshot>>
        /\ current'[v] = 1 /\ (v \notin Snapshots => applied'[v] = 0)
        /\ \A u \in Server \ {v} : current'[u] = current[u] /\ applied'[u] = applied[u]
    BY <1>6 DEF Restart, TypeInv, EpochInv
  <2> QED
    BY <2>1 DEF EpochInv
<1>7. ASSUME NEW r \in Receiver, SendRequest(r) \/ TakeReply(r) \/ HandOver(r)
      PROVE  EpochInv'
  BY <1>1, <1>7 DEF SendRequest, TakeReply, HandOver, servers, raft
<1>8. ASSUME TakeBatch
      PROVE  EpochInv'
  BY <1>1, <1>8 DEF TakeBatch, servers, raft
<1>9. ASSUME UNCHANGED vars
      PROVE  EpochInv'
  BY <1>1, <1>9 DEF vars
<1> QED
  BY <1>2, <1>3, <1>4, <1>5, <1>6, <1>7, <1>8, <1>9 DEF Next, Rest

\* The bound that EpochInv gives is the maximum of EpochOfLog.
LEMMA EpochIsMax == TypeInv /\ EpochInv => EpochOfLog
<1> SUFFICES ASSUME TypeInv, EpochInv, NEW v \in Server \ Snapshots
             PROVE  current[v] = Max({1} \cup Range(SubSeq(log, 1, applied[v])))
  BY DEF EpochOfLog
<1> DEFINE a == applied[v]
           s == SubSeq(log, 1, a)
           S == {1} \cup Range(s)
<1>1. a \in Nat /\ a <= Len(log) /\ log \in Seq(Nat) /\ current[v] \in Nat
  BY DEF TypeInv
<1>2. DOMAIN s = 1 .. a /\ \A i \in 1 .. a : s[i] = log[i] /\ log[i] \in Nat
  BY <1>1
<1>3. current[v] \in S /\ \A y \in S : y \in Nat /\ current[v] >= y
  <2> HIDE DEF s
  <2>1. Range(s) = {log[i] : i \in 1 .. a}
    BY <1>2 DEF Range
  <2>2. /\ current[v] = 1 \/ \E i \in 1 .. a : log[i] = current[v]
        /\ current[v] >= 1
        /\ \A i \in 1 .. a : log[i] <= current[v]
    BY DEF EpochInv
  <2> HIDE DEF a
  <2>3. current[v] \in S
    BY <2>1, <2>2
  <2>4. \A y \in Range(s) : y \in Nat /\ current[v] >= y
    BY <1>1, <1>2, <2>1, <2>2
  <2> QED
    BY <1>1, <2>2, <2>3, <2>4
<1> HIDE DEF S
<1>4. \A x \in S : (\A y \in S : x >= y) => x = current[v]
  BY <1>1, <1>3
<1> QED
  BY <1>3, <1>4 DEF Max, S

\* A server that makes no snapshots is in the epoch that the log determines, restarts
\* included: such servers that have applied the same are in the same epoch.
THEOREM EpochIsAgreed == Spec => []EpochOfLog
<1>1. Init => TypeInv /\ EpochInv
  BY TypeInit, EpochInit
<1>2. TypeInv /\ EpochInv /\ [Next]_vars => TypeInv' /\ EpochInv'
  BY TypeStep, EpochStep
<1>3. TypeInv /\ EpochInv => EpochOfLog
  BY EpochIsMax
<1> QED
  BY <1>1, <1>2, <1>3, PTL DEF Spec
=============================================================================
