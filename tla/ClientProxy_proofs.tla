------------------------- MODULE ClientProxy_proofs -------------------------
(***************************************************************************)
(* Proofs about ClientProxy, for every number of servers, epochs and       *)
(* transactions.  The barrier keeps every worker in the epoch              *)
(* globalProcessingEpoch or, while it empties its buffer, in the one       *)
(* before; a receiver is never behind it.                                  *)
(***************************************************************************)
EXTENDS ClientProxy, FiniteSetTheorems, TLAPS

-----------------------------------------------------------------------------
(* The inductive invariants. *)

\* Types of the threads' variables, the counters of the barrier apart.
ThreadTypes ==
    /\ epoch \in [Server -> StartEpoch .. LastEpoch + 1]
    /\ received \in [Server -> 0 .. MaxTx]
    /\ rpc \in [Server -> {"receive", "loaded", "send"}]
    /\ buffer \in [Server -> [Epoch -> 0 .. MaxTx]]
    /\ wpc \in [Server -> {"idle", "wait", "callback", "advance", "empty"}]
    /\ wepoch \in [Server -> StartEpoch .. LastEpoch + 1]

\* What a receiver holds back it has received, and nothing for a later epoch; in the
\* middle of pushTransactionToBuffer it has one more.
Held(p) ==
    /\ \A e \in Epoch : e > epoch[p] => buffer[p][e] = 0
    /\ rpc[p] # "receive" =>
           Eager /\ epoch[p] <= LastEpoch /\ buffer[p][epoch[p]] < received[p]
    /\ epoch[p] <= LastEpoch => buffer[p][epoch[p]] <= received[p]

HeldInv == \A p \in Server : Held(p)

\* A worker has a task while it is not idle.
TaskInv ==
    \A p \in Server :
        /\ wepoch[p] <= epoch[p]
        /\ wpc[p] # "idle" => wepoch[p] < epoch[p]

ThreadInv == ThreadTypes /\ HeldInv /\ TaskInv /\ (~Eager => FinishedEpochEmptied)

\* The workers that the barrier has counted, and those that are not emptying a buffer.
AtBarrier == {p \in Server : wpc[p] \in {"wait", "callback", "advance"}}
NotEmptying == {p \in Server : wpc[p] # "empty"}

\* The callback runs when all have arrived, in one of them.
CallbackInv ==
    \A p \in Server : wpc[p] \in {"callback", "advance"} =>
        \A q \in Server \ {p} : wpc[q] = "wait"

\* The counters of the barrier and of the queue manager.
CountInv ==
    /\ waits = Cardinality(AtBarrier)
    /\ finished = IF \E p \in Server : wpc[p] = "advance" THEN 0
                  ELSE Cardinality(NotEmptying)

\* All workers have passed the barrier the same number of times.
EpochInv ==
    /\ global \in StartEpoch .. LastEpoch + 1
    /\ \A p \in Server : wepoch[p] = IF wpc[p] = "empty" THEN global - 1 ELSE global

BarrierInv == CallbackInv /\ CountInv /\ EpochInv

\* What is sent is of the epoch that the barrier has reached (by a receiver) or of the
\* one before (by a worker).
QueueInv ==
    /\ tail \in {0} \cup Epoch
    /\ tail = 0 \/ tail < global \/ (Eager /\ tail = global)
    /\ \A p \in Server : rpc[p] # "receive" => epoch[p] = global
    /\ crashed = FALSE

-----------------------------------------------------------------------------
(* The threads, spurious wakeups included. *)

\* Storing a number of held transactions in one place of the buffers changes no other.
LEMMA UpdateFacts ==
    ASSUME NEW b \in [Server -> [Epoch -> 0 .. MaxTx]], NEW p \in Server,
           NEW i \in Epoch, NEW n \in 0 .. MaxTx
    PROVE  /\ [b EXCEPT ![p][i] = n] \in [Server -> [Epoch -> 0 .. MaxTx]]
           /\ [b EXCEPT ![p][i] = n][p][i] = n
           /\ \A q \in Server, e \in Epoch :
                  q # p \/ e # i => [b EXCEPT ![p][i] = n][q][e] = b[q][e]
<1>1. [b EXCEPT ![p][i] = n] \in [Server -> [Epoch -> 0 .. MaxTx]]
  OBVIOUS
<1>2. [b EXCEPT ![p][i] = n][p][i] = n
  OBVIOUS
<1>3. ASSUME NEW q \in Server, NEW e \in Epoch, q # p \/ e # i
      PROVE  [b EXCEPT ![p][i] = n][q][e] = b[q][e]
  BY <1>3
<1>4. QED
  BY <1>1, <1>2, <1>3

\* Every step of a receiver or a worker keeps what a thread knows: pushTransactionToBuffer
\* holds back for the receiver's own epoch, and syncEmptyBuffer empties an earlier one.
LEMMA ThreadStep == ThreadInv /\ [Next]_vars => ThreadInv'
<1> SUFFICES ASSUME ThreadInv, [Next]_vars PROVE ThreadInv'
  OBVIOUS
<1> USE ConstantsAssumption
<1>0. ThreadTypes /\ HeldInv /\ TaskInv /\ (~Eager => FinishedEpochEmptied)
  BY DEF ThreadInv
<1>e. ASSUME NEW q \in Server
      PROVE  /\ Held(q) /\ received[q] \in Nat /\ epoch[q] \in Nat
             /\ epoch[q] <= LastEpoch => epoch[q] \in Epoch
             /\ \A e \in Epoch : e \in Nat /\ buffer[q][e] \in Nat
  BY <1>0, <1>e DEF ThreadTypes, HeldInv, Epoch
<1>k. ASSUME NEW q \in Server, epoch'[q] = epoch[q], rpc'[q] = rpc[q],
             received'[q] = received[q], \A e \in Epoch : buffer'[q][e] = buffer[q][e]
      PROVE  Held(q)'
  BY <1>e, <1>k DEF Held, Epoch
<1>u. ASSUME NEW p \in Server, epoch'[p] = epoch[p], epoch[p] <= LastEpoch,
             \A e \in Epoch : e # epoch[p] => buffer'[p][e] = buffer[p][e],
             buffer'[p][epoch[p]] <= received'[p],
             rpc'[p] # "receive" => Eager /\ buffer'[p][epoch[p]] < received'[p]
      PROVE  Held(p)'
  <2>1. ASSUME NEW e \in Epoch, e > epoch'[p] PROVE buffer'[p][e] = 0
    <3>1. e # epoch[p]
      BY <1>e, <1>u, <2>1
    <3>2. buffer[p][e] = 0
      BY <1>e, <1>u, <2>1 DEF Held
    <3>3. QED
      BY <1>u, <3>1, <3>2
  <2>2. QED
    BY <1>u, <2>1 DEF Held, Epoch
<1>h. ASSUME NEW p \in Server, epoch[p] <= LastEpoch, Hold(p),
             buffer[p][epoch[p]] < MaxTx
      PROVE  /\ buffer' \in [Server -> [Epoch -> 0 .. MaxTx]]
             /\ buffer'[p][epoch[p]] = buffer[p][epoch[p]] + 1
             /\ \A q \in Server, e \in Epoch :
                    q # p \/ e # epoch[p] => buffer'[q][e] = buffer[q][e]
  <2>1. epoch[p] \in Epoch /\ buffer[p][epoch[p]] + 1 \in 0 .. MaxTx
    BY <1>0, <1>h DEF ThreadTypes, Epoch
  <2>2. QED
    BY <1>0, <1>h, <2>1, UpdateFacts DEF ThreadTypes, Hold
<1>r. ASSUME NEW p \in Server, NEW i \in Epoch, buffer[p][i] > 0,
             buffer' = [buffer EXCEPT ![p][i] = @ - 1]
      PROVE  /\ buffer' \in [Server -> [Epoch -> 0 .. MaxTx]]
             /\ buffer'[p][i] = buffer[p][i] - 1
             /\ \A q \in Server, e \in Epoch :
                    q # p \/ e # i => buffer'[q][e] = buffer[q][e]
  <2>1. buffer[p][i] - 1 \in 0 .. MaxTx
    BY <1>0, <1>r DEF ThreadTypes
  <2>2. QED
    BY <1>0, <1>r, <2>1, UpdateFacts DEF ThreadTypes
<1>c. ASSUME NEW p \in Server, received[p] < MaxTx,
             received' = [received EXCEPT ![p] = @ + 1]
      PROVE  /\ received' \in [Server -> 0 .. MaxTx]
             /\ received'[p] = received[p] + 1
             /\ \A q \in Server \ {p} : received'[q] = received[q]
  <2>1. received \in [Server -> 0 .. MaxTx] /\ received[p] + 1 \in 0 .. MaxTx
    BY <1>0, <1>c DEF ThreadTypes
  <2>2. QED
    BY <1>c, <2>1
<1>1. ASSUME NEW p \in Server, BufferTransaction(p) PROVE ThreadInv'
  <2>1. epoch[p] <= LastEpoch /\ buffer[p][epoch[p]] < MaxTx /\ rpc[p] = "receive"
    BY <1>0, <1>1 DEF BufferTransaction, Receives, ThreadTypes, HeldInv, Held, Epoch
  <2>2. /\ buffer' \in [Server -> [Epoch -> 0 .. MaxTx]]
        /\ buffer'[p][epoch[p]] = buffer[p][epoch[p]] + 1
        /\ \A q \in Server, e \in Epoch :
               q # p \/ e # epoch[p] => buffer'[q][e] = buffer[q][e]
    BY <1>1, <1>h, <2>1 DEF BufferTransaction
  <2>r. /\ received' \in [Server -> 0 .. MaxTx]
        /\ received'[p] = received[p] + 1
        /\ \A q \in Server \ {p} : received'[q] = received[q]
        /\ UNCHANGED <<epoch, rpc, wpc, wepoch>>
    BY <1>1, <1>c DEF BufferTransaction, Receives, workers
  <2>3. ThreadTypes'
    BY <1>0, <2>2, <2>r DEF ThreadTypes
  <2>4. HeldInv'
    <3>1. ASSUME NEW q \in Server, q # p PROVE Held(q)'
      BY <1>k, <2>2, <2>r, <3>1
    <3>2. Held(p)'
      <4>1. buffer[p][epoch[p]] <= received[p]
        BY <1>e, <2>1 DEF Held
      <4>2. buffer'[p][epoch[p]] <= received'[p]
        BY <1>e, <2>1, <2>2, <2>r, <4>1
      <4>3. QED
        BY <1>u, <2>1, <2>2, <2>r, <4>2
    <3>3. QED
      BY <3>1, <3>2 DEF HeldInv
  <2>5. TaskInv'
    BY <1>0, <1>1 DEF BufferTransaction, TaskInv, workers
  <2>6. ~Eager => FinishedEpochEmptied'
    <3>1. SUFFICES ASSUME ~Eager, NEW q \in Server, NEW e \in Epoch, e < wepoch[q]
                   PROVE  buffer'[q][e] = 0
      BY <2>r DEF FinishedEpochEmptied
    <3>2. q # p \/ e # epoch[p]
      BY <1>0, <3>1 DEF TaskInv, ThreadTypes, Epoch
    <3>3. QED
      BY <1>0, <2>2, <3>1, <3>2 DEF FinishedEpochEmptied
  <2>7. QED
    BY <2>3, <2>4, <2>5, <2>6 DEF ThreadInv
<1>2. ASSUME NEW p \in Server, LoadGlobal(p) PROVE ThreadInv'
  <2>1. epoch[p] <= LastEpoch /\ buffer[p][epoch[p]] < MaxTx /\ rpc[p] = "receive"
    BY <1>0, <1>2 DEF LoadGlobal, Receives, ThreadTypes, HeldInv, Held, Epoch
  <2>2. TaskInv' /\ Eager
    BY <1>0, <1>2 DEF LoadGlobal, TaskInv, workers
  <2>r. /\ received' \in [Server -> 0 .. MaxTx]
        /\ received'[p] = received[p] + 1
        /\ \A q \in Server \ {p} : received'[q] = received[q]
        /\ UNCHANGED <<epoch, wpc, wepoch>>
    BY <1>2, <1>c DEF LoadGlobal, Receives, workers
  <2>3. CASE Hold(p) /\ UNCHANGED <<rpc, crashed>>
    <3>1. /\ buffer' \in [Server -> [Epoch -> 0 .. MaxTx]]
          /\ buffer'[p][epoch[p]] = buffer[p][epoch[p]] + 1
          /\ \A q \in Server, e \in Epoch :
                 q # p \/ e # epoch[p] => buffer'[q][e] = buffer[q][e]
      BY <1>h, <2>1, <2>3
    <3>2. ThreadTypes'
      BY <1>0, <2>3, <2>r, <3>1 DEF ThreadTypes
    <3>3. HeldInv'
      <4>1. ASSUME NEW q \in Server, q # p PROVE Held(q)'
        BY <1>k, <2>3, <2>r, <3>1, <4>1
      <4>2. Held(p)'
        <5>1. buffer[p][epoch[p]] <= received[p]
          BY <1>e, <2>1 DEF Held
        <5>2. buffer'[p][epoch[p]] <= received'[p]
          BY <1>e, <2>1, <2>r, <3>1, <5>1
        <5>3. QED
          BY <1>u, <2>1, <2>3, <2>r, <3>1, <5>2
      <4>3. QED
        BY <4>1, <4>2 DEF HeldInv
    <3>4. QED
      BY <2>2, <3>2, <3>3 DEF ThreadInv
  <2>4. CASE rpc' = [rpc EXCEPT ![p] = "loaded"] /\ UNCHANGED buffer
    <3>1. ThreadTypes'
      BY <1>0, <2>4, <2>r DEF ThreadTypes
    <3>2. HeldInv'
      <4>1. ASSUME NEW q \in Server, q # p PROVE Held(q)'
        BY <1>0, <1>k, <2>4, <2>r, <4>1 DEF ThreadTypes
      <4>2. Held(p)'
        BY <1>e, <2>1, <2>2, <2>4, <2>r DEF Held, Epoch
      <4>3. QED
        BY <4>1, <4>2 DEF HeldInv
    <3>3. QED
      BY <2>2, <3>1, <3>2 DEF ThreadInv
  <2>5. QED
    BY <1>2, <2>3, <2>4 DEF LoadGlobal
<1>3. ASSUME NEW p \in Server, LoadCount(p) PROVE ThreadInv'
  <2>1. epoch[p] <= LastEpoch /\ buffer[p][epoch[p]] < received[p] /\ Eager
    BY <1>0, <1>3 DEF LoadCount, HeldInv, Held
  <2>2. epoch[p] \in Epoch /\ buffer[p][epoch[p]] < MaxTx
    BY <1>0, <2>1 DEF ThreadTypes, Epoch
  <2>3. TaskInv'
    BY <1>0, <1>3 DEF LoadCount, TaskInv, workers
  <2>4. CASE Hold(p) /\ rpc' = [rpc EXCEPT ![p] = "receive"]
    <3>1. /\ buffer' \in [Server -> [Epoch -> 0 .. MaxTx]]
          /\ buffer'[p][epoch[p]] = buffer[p][epoch[p]] + 1
          /\ \A q \in Server, e \in Epoch :
                 q # p \/ e # epoch[p] => buffer'[q][e] = buffer[q][e]
      BY <1>h, <2>1, <2>2, <2>4
    <3>2. ThreadTypes'
      BY <1>0, <1>3, <2>4, <3>1 DEF LoadCount, ThreadTypes, workers
    <3>3. HeldInv'
      <4>1. ASSUME NEW q \in Server, q # p PROVE Held(q)'
        BY <1>0, <1>3, <1>k, <2>4, <3>1, <4>1 DEF LoadCount, ThreadTypes
      <4>2. rpc'[p] = "receive" /\ UNCHANGED <<epoch, received>>
        BY <1>0, <1>3, <2>4 DEF LoadCount, ThreadTypes
      <4>3. Held(p)'
        <5>1. buffer'[p][epoch[p]] <= received'[p]
          BY <1>e, <2>1, <2>2, <3>1, <4>2
        <5>2. QED
          BY <1>u, <2>1, <3>1, <4>2, <5>1
      <4>4. QED
        BY <4>1, <4>3 DEF HeldInv
    <3>4. QED
      BY <2>1, <2>3, <3>2, <3>3 DEF ThreadInv
  <2>5. CASE rpc' = [rpc EXCEPT ![p] = "send"] /\ UNCHANGED buffer
    <3>1. ThreadTypes'
      BY <1>0, <1>3, <2>5 DEF LoadCount, ThreadTypes, workers
    <3>2. HeldInv'
      BY <1>0, <1>3, <2>1, <2>5 DEF LoadCount, ThreadTypes, HeldInv, Held, Epoch
    <3>3. QED
      BY <2>1, <2>3, <3>1, <3>2 DEF ThreadInv
  <2>6. QED
    BY <1>3, <2>4, <2>5 DEF LoadCount
<1>4. ASSUME NEW p \in Server, SendHeld(p) PROVE ThreadInv'
  <2>1. epoch[p] \in Epoch /\ buffer[p][epoch[p]] < received[p] /\ Eager
    BY <1>e, <1>4 DEF SendHeld, Held
  <2>2. /\ buffer' \in [Server -> [Epoch -> 0 .. MaxTx]]
        /\ buffer'[p][epoch[p]] = buffer[p][epoch[p]] - 1
        /\ \A q \in Server, e \in Epoch :
               q # p \/ e # epoch[p] => buffer'[q][e] = buffer[q][e]
    BY <1>4, <1>r, <2>1, ZenonT(30) DEF SendHeld
  <2>3. ThreadTypes'
    BY <1>0, <1>4, <2>2 DEF SendHeld, ThreadTypes, workers, receivers
  <2>4. HeldInv'
    <3>1. ASSUME NEW q \in Server, q # p PROVE Held(q)'
      BY <1>4, <1>k, <2>2, <3>1 DEF SendHeld, receivers
    <3>2. UNCHANGED <<epoch, received, rpc>> /\ epoch[p] <= LastEpoch
      BY <1>4, <2>1 DEF SendHeld, receivers, Epoch
    <3>3. buffer'[p][epoch[p]] < received'[p] /\ buffer'[p][epoch[p]] <= received'[p]
      BY <1>e, <2>1, <2>2, <3>2
    <3>4. Held(p)'
      BY <1>u, <2>1, <2>2, <3>2, <3>3
    <3>5. QED
      BY <3>1, <3>4 DEF HeldInv
  <2>5. TaskInv'
    BY <1>0, <1>4 DEF SendHeld, TaskInv, workers, receivers
  <2>6. QED
    BY <2>1, <2>3, <2>4, <2>5 DEF ThreadInv
<1>5. ASSUME NEW p \in Server, SendTransaction(p) PROVE ThreadInv'
  <2>1. Eager
    BY <1>0, <1>5 DEF SendTransaction, HeldInv, Held
  <2>2. ThreadTypes' /\ HeldInv' /\ TaskInv'
    BY <1>0, <1>5 DEF SendTransaction, ThreadTypes, HeldInv, Held, TaskInv, Epoch, workers
  <2>3. QED
    BY <2>1, <2>2 DEF ThreadInv
<1>6. ASSUME NEW p \in Server, FinishEpoch(p) PROVE ThreadInv'
  <2>1. ThreadTypes'
    BY <1>0, <1>6 DEF FinishEpoch, ThreadTypes, workers
  <2>2. HeldInv'
    <3>1. ASSUME NEW q \in Server, q # p PROVE Held(q)'
      BY <1>0, <1>6, <3>1 DEF FinishEpoch, ThreadTypes, HeldInv, Held, Epoch
    <3>2. epoch'[p] = epoch[p] + 1 /\ received'[p] = 0 /\ rpc'[p] = "receive"
      BY <1>0, <1>6 DEF FinishEpoch, ThreadTypes
    <3>3. epoch[p] + 1 <= LastEpoch => epoch[p] + 1 \in Epoch /\ epoch[p] + 1 > epoch[p]
      BY <1>0 DEF ThreadTypes, Epoch
    <3>4. Held(p)'
      BY <1>0, <1>6, <3>2, <3>3 DEF FinishEpoch, ThreadTypes, HeldInv, Held, Epoch
    <3>5. QED
      BY <3>1, <3>4 DEF HeldInv
  <2>3. TaskInv'
    BY <1>0, <1>6 DEF FinishEpoch, ThreadTypes, TaskInv, workers
  <2>4. ~Eager => FinishedEpochEmptied'
    BY <1>0, <1>6 DEF FinishEpoch, FinishedEpochEmptied, workers
  <2>5. QED
    BY <2>1, <2>2, <2>3, <2>4 DEF ThreadInv
<1>7. ASSUME NEW p \in Server, Await(p) PROVE ThreadInv'
  BY <1>0, <1>7 DEF Await, ThreadInv, ThreadTypes, HeldInv, Held, TaskInv, FinishedEpochEmptied,
     receivers
<1>8. ASSUME NEW p \in Server, ResetCount(p) PROVE ThreadInv'
  BY <1>0, <1>8 DEF ResetCount, ThreadInv, ThreadTypes, HeldInv, Held, TaskInv,
     FinishedEpochEmptied, receivers
<1>9. ASSUME NEW p \in Server, AdvanceGlobal(p) PROVE ThreadInv'
  BY <1>0, <1>9 DEF AdvanceGlobal, Woken, ThreadInv, ThreadTypes, HeldInv, Held, TaskInv,
     FinishedEpochEmptied, receivers
<1>10. ASSUME NEW p \in Server, WakeUp(p) PROVE ThreadInv'
  BY <1>0, <1>10 DEF WakeUp, ThreadInv, ThreadTypes, HeldInv, Held, TaskInv,
     FinishedEpochEmptied, receivers
<1>11. ASSUME NEW p \in Server, EmptyBuffer(p) PROVE ThreadInv'
  <2>1. wepoch[p] \in Epoch /\ wepoch[p] < epoch[p] /\ ~Eager
    BY <1>0, <1>11 DEF EmptyBuffer, ThreadTypes, TaskInv, Epoch
  <2>2. /\ buffer' \in [Server -> [Epoch -> 0 .. MaxTx]]
        /\ buffer'[p][wepoch[p]] = buffer[p][wepoch[p]] - 1
        /\ \A q \in Server, e \in Epoch :
               q # p \/ e # wepoch[p] => buffer'[q][e] = buffer[q][e]
    BY <1>11, <1>r, <2>1, ZenonT(30) DEF EmptyBuffer
  <2>3. ThreadTypes'
    BY <1>0, <1>11, <2>2 DEF EmptyBuffer, ThreadTypes, workers, receivers
  <2>4. HeldInv'
    <3>1. ASSUME NEW q \in Server, q # p PROVE Held(q)'
      BY <1>11, <1>k, <2>2, <3>1 DEF EmptyBuffer, receivers
    <3>2. UNCHANGED <<epoch, received, rpc>>
      BY <1>11 DEF EmptyBuffer, receivers
    <3>3. \A e \in Epoch : e >= epoch[p] => buffer'[p][e] = buffer[p][e]
      BY <1>0, <1>e, <2>1, <2>2 DEF ThreadTypes, Epoch
    <3>4. Held(p)'
      BY <1>e, <3>2, <3>3 DEF Held, Epoch
    <3>5. QED
      BY <3>1, <3>4 DEF HeldInv
  <2>5. TaskInv'
    BY <1>0, <1>11 DEF EmptyBuffer, TaskInv, workers, receivers
  <2>6. FinishedEpochEmptied'
    BY <1>0, <1>11, <2>1, <2>2 DEF EmptyBuffer, FinishedEpochEmptied, workers, ThreadTypes
  <2>7. QED
    BY <2>3, <2>4, <2>5, <2>6 DEF ThreadInv
<1>12. ASSUME NEW p \in Server, SignalFinished(p) PROVE ThreadInv'
  <2>1. ThreadTypes' /\ TaskInv'
    BY <1>0, <1>12 DEF SignalFinished, ThreadTypes, TaskInv, receivers
  <2>2. HeldInv'
    BY <1>0, <1>12 DEF SignalFinished, HeldInv, Held, receivers
  <2>3. ~Eager => FinishedEpochEmptied'
    BY <1>0, <1>12 DEF SignalFinished, Emptied, FinishedEpochEmptied, ThreadTypes, Epoch
  <2>4. QED
    BY <2>1, <2>2, <2>3 DEF ThreadInv
<1>13. CASE UNCHANGED vars
  BY <1>0, <1>13 DEF vars, ThreadInv, ThreadTypes, HeldInv, Held, TaskInv, FinishedEpochEmptied
<1>14. QED
  BY <1>1, <1>2, <1>3, <1>4, <1>5, <1>6, <1>7, <1>8, <1>9, <1>10, <1>11, <1>12, <1>13
     DEF Next, ReceiverStep, WorkerStep, Rest

\* The initial state of the proxies.
LEMMA ThreadInit == Init => ThreadInv
BY ConstantsAssumption DEF Init, ThreadInv, ThreadTypes, HeldInv, Held, TaskInv,
   FinishedEpochEmptied, Epoch

\* When the task that asyncEmptyBuffer has queued for an epoch is over, nothing of the
\* epoch is held back: without early_execution, and even if the condition variable of
\* CyclicBarrier lets a worker through too early.
THEOREM EmptiedTheorem == ~Eager => (Spec => []FinishedEpochEmptied)
<1>1. SUFFICES ASSUME ~Eager PROVE Spec => []FinishedEpochEmptied
  OBVIOUS
<1>2. ThreadInv => FinishedEpochEmptied
  BY <1>1 DEF ThreadInv
<1>3. QED
  BY <1>2, ThreadInit, ThreadStep, PTL DEF Spec

-----------------------------------------------------------------------------
(* The barrier, when the condition variable only returns on a notification. *)

\* Facts about the sizes of sets of servers.
LEMMA Sizes ==
    /\ Parties \in Nat
    /\ \A S \in SUBSET Server :
           /\ IsFiniteSet(S) /\ Cardinality(S) \in 0 .. Parties
           /\ Cardinality(S) >= Parties => S = Server
           /\ \A p \in Server \ S : Cardinality(S \cup {p}) = Cardinality(S) + 1
<1>1. Parties \in Nat
  BY ConstantsAssumption, FS_CardinalityType DEF Parties
<1>2. ASSUME NEW S \in SUBSET Server
      PROVE  /\ IsFiniteSet(S) /\ Cardinality(S) \in 0 .. Parties
             /\ Cardinality(S) >= Parties => S = Server
             /\ \A p \in Server \ S : Cardinality(S \cup {p}) = Cardinality(S) + 1
  <2>1. /\ IsFiniteSet(S) /\ Cardinality(S) <= Parties
        /\ Cardinality(S) = Parties => S = Server
    BY ConstantsAssumption, FS_Subset DEF Parties
  <2>2. Cardinality(S) \in Nat
    BY <2>1, FS_CardinalityType
  <2>3. \A p \in Server \ S : Cardinality(S \cup {p}) = Cardinality(S) + 1
    BY <2>1, FS_AddElement
  <2>4. QED
    BY <1>1, <2>1, <2>2, <2>3
<1>3. QED
  BY <1>1, <1>2

\* CyclicBarrier and EpochTxnQueueManager: all workers arrive, one of them resets the
\* count and advances globalProcessingEpoch, and all of them empty their buffers before
\* the count is full again.
LEMMA BarrierStep ==
    ASSUME ~SpuriousWakeup, ThreadInv, BarrierInv, [Next]_vars
    PROVE  BarrierInv'
<1> USE ConstantsAssumption
<1>0. /\ wpc \in [Server -> {"idle", "wait", "callback", "advance", "empty"}]
      /\ wepoch \in [Server -> StartEpoch .. LastEpoch + 1]
      /\ CallbackInv /\ CountInv /\ EpochInv
  BY DEF BarrierInv, ThreadInv, ThreadTypes
<1>1. CASE UNCHANGED <<wpc, wepoch, waits, global, finished>>
  BY <1>0, <1>1 DEF BarrierInv, CallbackInv, CountInv, EpochInv, AtBarrier, NotEmptying
<1>2. ASSUME NEW p \in Server, Await(p) PROVE BarrierInv'
  <2>1. /\ wpc[p] = "idle" /\ MutexFree /\ waits' = waits + 1
        /\ wpc' = [wpc EXCEPT ![p] = IF AllArrived(waits + 1) THEN "callback" ELSE "wait"]
        /\ UNCHANGED <<wepoch, global, finished>>
    BY <1>2 DEF Await
  <2>2. AtBarrier' = AtBarrier \cup {p} /\ p \notin AtBarrier /\ AtBarrier \subseteq Server
    BY <1>0, <2>1 DEF AtBarrier
  <2>3. NotEmptying' = NotEmptying
    BY <1>0, <2>1 DEF NotEmptying
  <2>4. Cardinality(AtBarrier') = waits + 1
    BY <1>0, <2>2, Sizes DEF CountInv
  <2>5. CountInv'
    <3>1. ~\E q \in Server : wpc[q] = "advance"
      BY <2>1 DEF MutexFree
    <3>2. ~\E q \in Server : wpc'[q] = "advance"
      BY <1>0, <2>1, <3>1
    <3>3. QED
      BY <1>0, <2>1, <2>3, <2>4, <3>1, <3>2 DEF CountInv
  <2>6. CallbackInv'
    <3>1. CASE AllArrived(waits + 1)
      <4>1. AtBarrier' = Server
        BY <2>2, <2>4, <3>1, Sizes DEF AllArrived
      <4>2. \A q \in Server \ {p} : wpc[q] = "wait"
        BY <2>1, <2>2, <4>1 DEF AtBarrier, MutexFree
      <4>3. \A q \in Server \ {p} : wpc'[q] = "wait"
        BY <1>0, <2>1, <4>2
      <4>4. QED
        BY <4>3 DEF CallbackInv
    <3>2. CASE ~AllArrived(waits + 1)
      BY <1>0, <2>1, <3>2 DEF CallbackInv, MutexFree
    <3>3. QED
      BY <3>1, <3>2
  <2>7. EpochInv'
    BY <1>0, <2>1 DEF EpochInv
  <2>8. QED
    BY <2>5, <2>6, <2>7 DEF BarrierInv
<1>3. ASSUME NEW p \in Server, ResetCount(p) PROVE BarrierInv'
  <2>1. /\ wpc[p] = "callback" /\ finished' = 0
        /\ wpc' = [wpc EXCEPT ![p] = "advance"]
        /\ UNCHANGED <<wepoch, waits, global>>
    BY <1>3 DEF ResetCount, NewCount
  <2>2. AtBarrier' = AtBarrier
    BY <1>0, <2>1 DEF AtBarrier
  <2>3. CountInv'
    BY <1>0, <2>1, <2>2 DEF CountInv
  <2>4. CallbackInv'
    BY <1>0, <2>1 DEF CallbackInv
  <2>5. EpochInv'
    BY <1>0, <2>1 DEF EpochInv
  <2>6. QED
    BY <2>3, <2>4, <2>5 DEF BarrierInv
<1>4. ASSUME NEW p \in Server, AdvanceGlobal(p) PROVE BarrierInv'
  <2>1. /\ wpc[p] = "advance" /\ global' = global + 1 /\ waits' = 0
        /\ UNCHANGED <<wepoch, finished>>
    BY <1>4 DEF AdvanceGlobal
  <2>2. \A q \in Server : q = p \/ wpc[q] = "wait"
    BY <1>0, <2>1 DEF CallbackInv
  <2>3. \A q \in Server : wpc'[q] = "empty"
    BY <1>4, <2>2 DEF AdvanceGlobal, Woken
  <2>4. AtBarrier' = {} /\ NotEmptying' = {}
    BY <2>3 DEF AtBarrier, NotEmptying
  <2>5. CountInv'
    BY <1>0, <2>1, <2>3, <2>4, FS_EmptySet DEF CountInv
  <2>6. CallbackInv'
    BY <2>3 DEF CallbackInv
  <2>7. \A q \in Server : wepoch[q] = global
    BY <1>0, <2>1, <2>2 DEF EpochInv
  <2>8. global < epoch[p] /\ epoch[p] \in StartEpoch .. LastEpoch + 1
    BY <2>1, <2>7 DEF ThreadInv, ThreadTypes, TaskInv
  <2>9. EpochInv'
    BY <1>0, <2>1, <2>3, <2>7, <2>8 DEF EpochInv
  <2>10. QED
    BY <2>5, <2>6, <2>9 DEF BarrierInv
<1>5. ASSUME NEW p \in Server, SignalFinished(p) PROVE BarrierInv'
  <2>1. /\ wpc[p] = "empty" /\ finished' = finished + 1
        /\ wpc' = [wpc EXCEPT ![p] = "idle"]
        /\ wepoch' = [wepoch EXCEPT ![p] = @ + 1]
        /\ UNCHANGED <<waits, global>>
    BY <1>5 DEF SignalFinished
  <2>2. \A q \in Server : wpc[q] \notin {"callback", "advance"}
    BY <1>0, <2>1 DEF CallbackInv
  <2>3. \A q \in Server : wpc'[q] \notin {"callback", "advance"}
    BY <1>0, <2>1, <2>2
  <2>4. /\ AtBarrier' = AtBarrier /\ NotEmptying' = NotEmptying \cup {p}
        /\ p \notin NotEmptying /\ NotEmptying \subseteq Server
    BY <1>0, <2>1 DEF AtBarrier, NotEmptying
  <2>5. Cardinality(NotEmptying') = Cardinality(NotEmptying) + 1
    BY <2>4, Sizes
  <2>6. CountInv'
    BY <1>0, <2>1, <2>2, <2>3, <2>4, <2>5 DEF CountInv
  <2>7. CallbackInv'
    BY <2>3 DEF CallbackInv
  <2>8. EpochInv'
    BY <1>0, <2>1 DEF EpochInv
  <2>9. QED
    BY <2>6, <2>7, <2>8 DEF BarrierInv
<1>6. ASSUME NEW p \in Server, ReceiverStep(p) \/ EmptyBuffer(p) PROVE BarrierInv'
  BY <1>1, <1>6 DEF ReceiverStep, BufferTransaction, LoadGlobal, LoadCount, SendHeld,
     SendTransaction, FinishEpoch, EmptyBuffer, workers, manager
<1>7. ASSUME NEW p \in Server, WakeUp(p) PROVE BarrierInv'
  BY <1>7 DEF WakeUp
<1>8. CASE UNCHANGED vars
  BY <1>1, <1>8 DEF vars
<1>9. QED
  BY <1>2, <1>3, <1>4, <1>5, <1>6, <1>7, <1>8 DEF Next, WorkerStep, Rest

\* A receiver is never behind the barrier: its worker waits there only for epochs that
\* the receiver has finished.
LEMMA NotBehind ==
    ASSUME ThreadInv, BarrierInv
    PROVE  /\ global \in Nat
           /\ \A p \in Server : /\ epoch[p] \in Nat /\ epoch[p] >= global
                                /\ wpc[p] \in {"wait", "callback", "advance"} =>
                                       epoch[p] > global
BY ConstantsAssumption
   DEF ThreadInv, ThreadTypes, TaskInv, BarrierInv, EpochInv

\* What the threads put into the queue: a receiver, with early_execution, a transaction of
\* globalProcessingEpoch; a worker, without it, one of the epoch before.
LEMMA QueueStep ==
    ASSUME ~SpuriousWakeup, ThreadInv, BarrierInv, QueueInv, [Next]_vars
    PROVE  QueueInv' /\ (tail' # tail => tail' >= tail)
<1> USE ConstantsAssumption
<1>0. /\ global \in StartEpoch .. LastEpoch + 1 /\ global \in Nat
      /\ tail \in {0} \cup Epoch /\ tail \in Nat
      /\ tail = 0 \/ tail < global \/ (Eager /\ tail = global)
      /\ \A q \in Server : rpc[q] # "receive" => epoch[q] = global
      /\ crashed = FALSE
  BY NotBehind DEF QueueInv, BarrierInv, EpochInv, Epoch
<1>1. rpc \in [Server -> {"receive", "loaded", "send"}]
  BY DEF ThreadInv, ThreadTypes
<1>2. CASE UNCHANGED <<rpc, epoch, tail, global, crashed>>
  BY <1>0, <1>2 DEF QueueInv
<1>3. ASSUME NEW p \in Server, BufferTransaction(p)
      PROVE  UNCHANGED <<rpc, epoch, tail, global, crashed>>
  BY <1>3 DEF BufferTransaction, manager
<1>4. ASSUME NEW p \in Server, LoadGlobal(p)
      PROVE  QueueInv' /\ tail' = tail
  <2>1. UNCHANGED <<epoch, tail, global>>
    BY <1>4 DEF LoadGlobal, manager
  <2>2. CASE UNCHANGED <<rpc, crashed>>
    BY <1>0, <2>1, <2>2 DEF QueueInv
  <2>3. CASE /\ ~TooEarly(epoch[p]) /\ crashed' = (epoch[p] < global)
             /\ rpc' = [rpc EXCEPT ![p] = "loaded"]
    <3>1. epoch[p] = global
      BY <1>0, <2>3, NotBehind DEF TooEarly
    <3>2. crashed' = FALSE
      BY <1>0, <2>3, <3>1
    <3>3. \A q \in Server : rpc'[q] # "receive" => epoch[q] = global
      BY <1>0, <1>1, <2>3, <3>1
    <3>4. QED
      BY <1>0, <2>1, <3>2, <3>3 DEF QueueInv
  <2>4. QED
    BY <1>4, <2>2, <2>3 DEF LoadGlobal
<1>5. ASSUME NEW p \in Server, LoadCount(p)
      PROVE  QueueInv' /\ tail' = tail
  <2>1. /\ UNCHANGED <<epoch, tail, global, crashed>> /\ rpc[p] = "loaded"
        /\ rpc' = [rpc EXCEPT ![p] = "receive"] \/ rpc' = [rpc EXCEPT ![p] = "send"]
    BY <1>5 DEF LoadCount, manager
  <2>2. \A q \in Server : rpc'[q] # "receive" => epoch[q] = global
    BY <1>0, <1>1, <2>1
  <2>3. QED
    BY <1>0, <2>1, <2>2 DEF QueueInv
<1>6. ASSUME NEW p \in Server, SendHeld(p) \/ SendTransaction(p)
      PROVE  QueueInv' /\ tail' >= tail
  <2>1. /\ UNCHANGED <<epoch, global, crashed>> /\ rpc[p] = "send" /\ tail' = epoch[p]
        /\ UNCHANGED rpc \/ rpc' = [rpc EXCEPT ![p] = "receive"]
    BY <1>6 DEF SendHeld, SendTransaction, receivers, manager
  <2>2. epoch[p] = global /\ Eager /\ epoch[p] <= LastEpoch
    BY <1>0, <2>1 DEF ThreadInv, HeldInv, Held
  <2>3. \A q \in Server : rpc'[q] # "receive" => epoch[q] = global
    BY <1>0, <1>1, <2>1
  <2>4. tail' = global /\ tail' \in Epoch
    BY <1>0, <2>1, <2>2 DEF Epoch
  <2>5. QED
    BY <1>0, <2>1, <2>2, <2>3, <2>4 DEF QueueInv
<1>7. ASSUME NEW p \in Server, FinishEpoch(p)
      PROVE  QueueInv' /\ tail' = tail
  <2>1. /\ UNCHANGED <<rpc, tail, global, crashed>> /\ rpc[p] = "receive"
        /\ epoch' = [epoch EXCEPT ![p] = @ + 1]
    BY <1>7 DEF FinishEpoch, manager
  <2>2. \A q \in Server : rpc'[q] # "receive" => epoch'[q] = global
    BY <1>0, <2>1 DEF ThreadInv, ThreadTypes
  <2>3. QED
    BY <1>0, <2>1, <2>2 DEF QueueInv
<1>8. ASSUME NEW p \in Server, Await(p) \/ ResetCount(p) \/ SignalFinished(p)
      PROVE  UNCHANGED <<rpc, epoch, tail, global, crashed>>
  BY <1>8 DEF Await, ResetCount, SignalFinished, receivers
<1>9. ASSUME NEW p \in Server, AdvanceGlobal(p)
      PROVE  QueueInv' /\ tail' = tail
  <2>1. /\ UNCHANGED <<rpc, epoch, tail, crashed>> /\ global' = global + 1
        /\ wpc[p] = "advance"
    BY <1>9 DEF AdvanceGlobal, receivers
  <2>2. \A q \in Server : q = p \/ wpc[q] = "wait"
    BY <2>1 DEF BarrierInv, CallbackInv
  <2>3. \A q \in Server : epoch[q] > global /\ epoch[q] \in Nat
    BY <2>1, <2>2, NotBehind
  <2>4. \A q \in Server : rpc[q] = "receive"
    BY <1>0, <2>3
  <2>5. tail < global' \/ tail = 0
    BY <1>0, <2>1
  <2>6. QED
    BY <1>0, <2>1, <2>4, <2>5 DEF QueueInv
<1>10. ASSUME NEW p \in Server, EmptyBuffer(p)
       PROVE  QueueInv' /\ tail' >= tail
  <2>1. /\ UNCHANGED <<rpc, epoch, global, crashed>> /\ wpc[p] = "empty" /\ ~Eager
        /\ tail' = wepoch[p]
    BY <1>10 DEF EmptyBuffer, receivers, manager
  <2>2. wepoch[p] = global - 1 /\ wepoch[p] \in StartEpoch .. LastEpoch + 1
    BY <2>1 DEF BarrierInv, EpochInv, ThreadInv, ThreadTypes
  <2>3. tail' \in Epoch /\ tail' < global /\ tail' >= tail
    BY <1>0, <2>1, <2>2 DEF Epoch
  <2>4. QED
    BY <1>0, <2>1, <2>3 DEF QueueInv
<1>11. ASSUME NEW p \in Server, WakeUp(p) PROVE FALSE
  BY <1>11 DEF WakeUp
<1>12. CASE UNCHANGED vars
  BY <1>2, <1>12 DEF vars
<1>13. QED
  BY <1>2, <1>3, <1>4, <1>5, <1>6, <1>7, <1>8, <1>9, <1>10, <1>11, <1>12
     DEF Next, ReceiverStep, WorkerStep, Rest

-----------------------------------------------------------------------------
\* The inductive invariant of the proxies with a barrier that works.
IInv == ThreadInv /\ BarrierInv /\ QueueInv

\* The initial state of the barrier and of the queue.
LEMMA InitIInv == Init => IInv
<1> SUFFICES ASSUME Init PROVE IInv
  OBVIOUS
<1>1. AtBarrier = {} /\ NotEmptying = Server
  BY DEF Init, AtBarrier, NotEmptying
<1>2. CountInv
  BY <1>1, FS_EmptySet DEF Init, CountInv, Parties
<1>3. CallbackInv /\ EpochInv /\ QueueInv
  BY ConstantsAssumption DEF Init, CallbackInv, EpochInv, QueueInv
<1>4. QED
  BY <1>2, <1>3, ThreadInit DEF IInv, BarrierInv

\* When the condition variable of CyclicBarrier returns only on a notification, the
\* proxies keep the invariant, with and without early_execution.
THEOREM InvariantTheorem == ~SpuriousWakeup => (Spec => []IInv)
<1>1. SUFFICES ASSUME ~SpuriousWakeup PROVE Spec => []IInv
  OBVIOUS
<1>2. IInv /\ [Next]_vars => IInv'
  BY <1>1, ThreadStep, BarrierStep, QueueStep DEF IInv
<1>3. QED
  BY <1>2, InitIInv, PTL DEF Spec

\* The invariant implies the types: the counters of the barrier are sizes of sets.
THEOREM TypeTheorem == ~SpuriousWakeup => (Spec => []TypeOK)
<1>1. SUFFICES ASSUME ~SpuriousWakeup PROVE Spec => []TypeOK
  OBVIOUS
<1>2. ASSUME IInv PROVE TypeOK
  <2>1. AtBarrier \subseteq Server /\ NotEmptying \subseteq Server
    BY DEF AtBarrier, NotEmptying
  <2>2. waits \in 0 .. Parties /\ finished \in 0 .. Parties
    BY <1>2, <2>1, Sizes DEF IInv, BarrierInv, CountInv
  <2>3. QED
    BY <1>2, <2>2 DEF IInv, ThreadInv, ThreadTypes, BarrierInv, EpochInv, QueueInv, TypeOK
<1>3. QED
  BY <1>1, <1>2, InvariantTheorem, PTL

\* The CHECK in isAllCPPushedToQueue never fails: a receiver does not push a transaction
\* of an epoch that the barrier has closed.
THEOREM NeverBehindTheorem == ~SpuriousWakeup => (Spec => []NeverBehindBarrier)
<1>1. SUFFICES ASSUME ~SpuriousWakeup PROVE Spec => []NeverBehindBarrier
  OBVIOUS
<1>2. IInv => NeverBehindBarrier
  BY DEF IInv, QueueInv, NeverBehindBarrier
<1>3. QED
  BY <1>1, <1>2, InvariantTheorem, PTL

\* Once a transaction of a later epoch is in the queue, every proxy has finished the
\* earlier one and its buffers are empty: createWorkload closes a complete epoch.
THEOREM ClosedEpochTheorem ==
    ~SpuriousWakeup /\ ~Eager => (Spec => []ClosedEpochComplete)
<1>1. SUFFICES ASSUME ~SpuriousWakeup, ~Eager PROVE Spec => []ClosedEpochComplete
  OBVIOUS
<1>2. ASSUME IInv PROVE ClosedEpochComplete
  <2>1. SUFFICES ASSUME NEW p \in Server, NEW e \in Epoch, e < tail
                 PROVE  epoch[p] > e /\ buffer[p][e] = 0
    BY DEF ClosedEpochComplete
  <2>2. e < global - 1
    BY <1>1, <1>2, <2>1, NotBehind, ConstantsAssumption DEF IInv, QueueInv, Epoch
  <2>3. wepoch[p] \in Nat /\ epoch[p] \in Nat /\ wepoch[p] >= global - 1 /\ wepoch[p] <= epoch[p]
    BY <1>2, NotBehind, ConstantsAssumption
       DEF IInv, ThreadInv, ThreadTypes, TaskInv, BarrierInv, EpochInv
  <2>4. e < wepoch[p] /\ e < epoch[p]
    BY <1>2, <2>2, <2>3, NotBehind, ConstantsAssumption DEF IInv, Epoch
  <2>5. QED
    BY <1>1, <1>2, <2>3, <2>4, ConstantsAssumption
       DEF IInv, ThreadInv, FinishedEpochEmptied, Epoch
<1>3. QED
  BY <1>1, <1>2, InvariantTheorem, PTL

\* The transactions enter the queue in the order of their epochs, with and without
\* early_execution.
THEOREM EpochsInOrderTheorem == ~SpuriousWakeup => (Spec => EpochsInOrder)
<1>1. SUFFICES ASSUME ~SpuriousWakeup PROVE Spec => EpochsInOrder
  OBVIOUS
<1>2. IInv /\ [Next]_vars => [tail' >= tail]_vars
  <2>1. SUFFICES ASSUME IInv, [Next]_vars PROVE tail' >= tail
    OBVIOUS
  <2>2. tail \in Nat
    BY <2>1, ConstantsAssumption DEF IInv, QueueInv, Epoch
  <2>3. QED
    BY <1>1, <2>1, <2>2, QueueStep DEF IInv
<1>3. QED
  BY <1>1, <1>2, InvariantTheorem, PTL DEF Spec, EpochsInOrder

=============================================================================
