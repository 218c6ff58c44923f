----------------------- MODULE AriaCoordinator_proofs -----------------------
(***************************************************************************)
(* Proofs about AriaCoordinator, for every number of transactions, every   *)
(* first epoch and every gap between epochs.  The inductive invariant has  *)
(* a part about the phases, which says where each worker may be when the   *)
(* coordinator is at a given step, and a part about the workloads, which   *)
(* says that the popped transactions are divided between the committed     *)
(* ones, the workload being built and the loaded workers.                  *)
(***************************************************************************)
EXTENDS AriaCoordinator, FiniteSetTheorems, TLAPS

-----------------------------------------------------------------------------
(* The inductive invariant. *)

In(w, place, ws, gs) == wpc[w] \in place /\ wstate[w] = ws /\ gstate[w] \in gs

Absent(w) == In(w, {"none"}, "READY", {"START"})
Fresh(w) == In(w, {"run"}, "READY", {"START"})
Waiting(w) == In(w, {"waitRead"}, "ASSIGNED", {"START", "Aria_COMMIT"})
Started(w) == In(w, {"waitRead", "read"}, "ASSIGNED", {"Aria_READ"})
HasRead(w) == In(w, {"waitCommit"}, "FINISH_READ", {"Aria_READ"})
Released(w) == In(w, {"waitCommit", "commit"}, "FINISH_READ", {"Aria_COMMIT"})
Idle(w) == In(w, {"waitRead"}, "READY", {"Aria_COMMIT"})
Told(w) == In(w, {"waitRead"}, "READY", {"EXIT"})
Gone(w) == In(w, {"exited"}, "EXITED", {"EXIT"})

\* The worker has a workload that is not yet committed.
Loaded(w) == wstate[w] \in {"ASSIGNED", "FINISH_READ"} \/ wpc[w] = "run"

Assigning == pc \in {"create", "collect", "deploy", "assigned", "start"}

\* Where worker w may be while workloads are assigned ...
PlaceAssigning(w) ==
    \/ (pc \in {"assigned", "start"} => w # target) /\ (Idle(w) \/ Started(w) \/ HasRead(w))
    \/ pc \in {"assigned", "start"} /\ w = target /\ Waiting(w)
    \/ pc = "assigned" /\ w = target /\ Fresh(w)

\* ... in the read phase ...
PlaceRead(w) ==
    \/ Idle(w) \/ HasRead(w)
    \/ Started(w) /\ (pc = "broadcast" \/ (pc = "sync" /\ visit <= w))

\* ... in the commit phase ...
PlaceCommit(w) ==
    \/ Idle(w)
    \/ pc = "broadcast" /\ visit <= w /\ HasRead(w)
    \/ ((pc = "broadcast" /\ w < visit) \/ (pc = "sync" /\ visit <= w)) /\ Released(w)

\* ... and in the destructor.
PlaceExit(w) ==
    \/ pc = "broadcast" /\ visit <= w /\ Idle(w)
    \/ ((pc = "broadcast" /\ w < visit) \/ (pc = "sync" /\ visit <= w)) /\ Told(w)
    \/ (pc = "broadcast" => w < visit) /\ Gone(w)

Place(w) ==
    /\ Assigning => PlaceAssigning(w)
    /\ ~Assigning /\ stage = "read" => PlaceRead(w)
    /\ ~Assigning /\ stage = "commit" => PlaceCommit(w)
    /\ ~Assigning /\ stage = "exit" => PlaceExit(w)

\* The coordinator walks over the workers it has, and its place in the loop fixes the phase.
VisitInv ==
    /\ workers \in 0 .. MaxTx
    /\ visit \in 1 .. workers + 1
    /\ pc \in {"assigned", "start"} => target \in 1 .. workers
    /\ Assigning => stage # "exit"
    /\ pc = "approve" => stage = "read"
    /\ pc = "done" => stage = "exit"

\* A worker that was not created yet is untouched, every other one is at its place.
AbsentInv == \A w \in WorkerId : w > workers => Absent(w)
PlaceInv == \A w \in WorkerId : w <= workers => Place(w)

PhaseInv == VisitInv /\ AbsentInv /\ PlaceInv

\* Transactions come in the order of their epochs.
SortedInv == \A i, j \in 1 .. Len(pushed) : i <= j => pushed[i] <= pushed[j]

\* An epoch that is over is committed, and one that is being executed is complete.
OverInv ==
    /\ epoch <= LastEpoch
    /\ \A e \in announced : e < epoch
    /\ \A i \in 1 .. Len(pushed) : pushed[i] < epoch => i \in committed

CompleteInv == ~Assigning /\ stage # "exit" => EpochAssigned

QueueInv == SortedInv /\ OverInv /\ CompleteInv

\* The workload being built holds popped transactions of the epoch.
LoadInv ==
    /\ pc \in {"collect", "deploy"} <=> load # {}
    /\ load \subseteq 1 .. taken /\ committed \subseteq 1 .. taken
    /\ load \cap committed = {}
    /\ \A i \in load : pushed[i] = epoch

\* So do the workloads of the workers, which share nothing with each other.
OwnInv ==
    \A w \in WorkerId : Loaded(w) =>
        /\ work[w] # {} /\ work[w] \subseteq 1 .. taken
        /\ work[w] \cap committed = {} /\ work[w] \cap load = {}
        /\ \A i \in work[w] : pushed[i] = epoch

ApartInv ==
    \A w, v \in WorkerId :
        w # v /\ Loaded(w) /\ Loaded(v) => work[w] \cap work[v] = {}

\* Every popped transaction is committed, in the workload being built or with a worker.
CoverInv ==
    \A i \in 1 .. taken :
        i \in committed \cup load \/ \E w \in WorkerId : Loaded(w) /\ i \in work[w]

WorkInv == LoadInv /\ OwnInv /\ ApartInv /\ CoverInv

IInv == TypeOK /\ PhaseInv /\ QueueInv /\ WorkInv

\* The invariant is the conjunction of its parts.
LEMMA Parts ==
    ASSUME IInv
    PROVE  /\ TypeOK
           /\ VisitInv /\ AbsentInv /\ PlaceInv
           /\ SortedInv /\ OverInv /\ CompleteInv
           /\ LoadInv /\ OwnInv /\ ApartInv /\ CoverInv
  BY DEF IInv, PhaseInv, QueueInv, WorkInv

\* What the arguments below need of the types.
LEMMA TypeFacts ==
    ASSUME TypeOK
    PROVE  /\ taken \in Nat /\ taken <= Len(pushed) /\ taken <= MaxTx
           /\ epoch \in Nat /\ visit \in Nat /\ workers \in Nat
           /\ stage \in {"read", "commit", "exit"} /\ announced \subseteq Nat
           /\ DOMAIN wpc = WorkerId /\ DOMAIN wstate = WorkerId
           /\ DOMAIN gstate = WorkerId /\ DOMAIN work = WorkerId
<1>1. pushed \in Seq(Nat) /\ Len(pushed) \in Nat /\ Len(pushed) <= MaxTx
  BY DEF TypeOK
<1>2. taken \in 0 .. Len(pushed) /\ visit \in 1 .. MaxTx + 1 /\ workers \in 0 .. MaxTx
  BY DEF TypeOK
<1>3. epoch \in Nat /\ stage \in {"read", "commit", "exit"} /\ announced \subseteq Nat
  BY DEF TypeOK, Signal
<1>4. /\ DOMAIN wpc = WorkerId /\ DOMAIN wstate = WorkerId
      /\ DOMAIN gstate = WorkerId /\ DOMAIN work = WorkerId
  BY DEF TypeOK
<1> QED
  BY <1>1, <1>2, <1>3, <1>4, ConstantsAssumption

-----------------------------------------------------------------------------
(* Type correctness. *)

\* What Append does to the queue of epochs.
LEMMA AppendFacts ==
    ASSUME NEW s \in Seq(Nat), NEW e \in Nat
    PROVE  /\ Append(s, e) \in Seq(Nat)
           /\ Len(s) \in Nat
           /\ Len(Append(s, e)) = Len(s) + 1
           /\ \A i \in 1 .. Len(s) : Append(s, e)[i] = s[i]
           /\ Append(s, e)[Len(s) + 1] = e
  OBVIOUS

\* When a workload is built and no worker is READY, every worker has a workload of its
\* own: there are fewer workers than popped transactions, and a new one has an id.
LEMMA RoomForWorker ==
    ASSUME IInv, pc = "deploy", Ready = {}
    PROVE  workers + 1 \in WorkerId
<1> DEFINE Id == 1 .. workers + 1
           mine == [w \in Id |-> IF w = workers + 1 THEN load ELSE work[w]]
           pick == [w \in Id |-> CHOOSE i \in mine[w] : TRUE]
<1> USE ConstantsAssumption
<1>1. workers \in Nat /\ taken \in Nat /\ taken <= MaxTx
  BY Parts, TypeFacts
<1>2. \A w \in 1 .. workers : w \in WorkerId /\ Loaded(w)
  <2> TAKE w \in 1 .. workers
  <2>1. w \in WorkerId
    BY Parts DEF VisitInv, WorkerId
  <2>2. Idle(w) \/ Started(w) \/ HasRead(w)
    BY <2>1, Parts DEF PlaceInv, Place, PlaceAssigning, Assigning
  <2>3. wstate[w] # "READY"
    BY DEF Ready
  <2> QED
    BY <2>1, <2>2, <2>3 DEF Idle, Started, HasRead, In, Loaded
<1>3. \A w \in Id : mine[w] # {} /\ mine[w] \subseteq 1 .. taken
  <2>1. load # {} /\ load \subseteq 1 .. taken
    BY Parts DEF LoadInv
  <2>2. \A w \in 1 .. workers : work[w] # {} /\ work[w] \subseteq 1 .. taken
    BY <1>2, Parts DEF OwnInv
  <2> TAKE w \in Id
  <2>3. CASE w = workers + 1
    BY <2>1, <2>3
  <2>4. CASE w # workers + 1
    <3>1. w \in 1 .. workers
      BY <1>1, <2>4
    <3> QED
      BY <2>2, <2>4, <3>1
  <2> QED
    BY <2>3, <2>4
<1>4. \A w, v \in Id : w # v => mine[w] \cap mine[v] = {}
  BY <1>1, <1>2, Parts DEF OwnInv, ApartInv
<1> HIDE DEF mine
<1>5. \A w \in Id : pick[w] \in mine[w]
  BY <1>3
<1>6. pick \in Injection(Id, 1 .. taken)
  <2>1. pick \in [Id -> 1 .. taken]
    BY <1>3, <1>5
  <2>2. \A w, v \in Id : pick[w] = pick[v] => w = v
    BY <1>4, <1>5
  <2> QED
    BY <2>1, <2>2, Zenon DEF Injection, IsInjective
<1>7. workers + 1 <= taken
  <2>1. IsFiniteSet(Id) /\ Cardinality(Id) = workers + 1
    BY <1>1, FS_Interval
  <2>2. IsFiniteSet(1 .. taken) /\ Cardinality(1 .. taken) = taken
    BY <1>1, FS_Interval
  <2> HIDE DEF Id, pick
  <2>3. Cardinality(Id) <= Cardinality(1 .. taken)
    BY <1>6, <2>1, <2>2, FS_Injection
  <2> QED
    BY <2>1, <2>2, <2>3
<1> QED
  BY <1>1, <1>7 DEF WorkerId

\* Every step keeps the types.
LEMMA TypeStep ==
    ASSUME IInv, [Next]_vars
    PROVE  TypeOK'
<1> USE ConstantsAssumption DEF WorkerId, Tx
<1> TypeOK
  BY Parts
<1>1. CASE UNCHANGED vars
  BY <1>1 DEF TypeOK, vars, Signal
<1>2. ASSUME NEW e \in LastEpoch .. LastEpoch + EpochGap, AddTransaction(e) PROVE TypeOK'
  <2>1. e \in Nat
    BY DEF TypeOK, LastEpoch
  <2>2. (pushed' = Append(pushed, e) /\ Len(pushed) < MaxTx) \/ pushed' = pushed
    BY <1>2 DEF AddTransaction
  <2>3. pushed' \in Seq(Nat) /\ Len(pushed') <= MaxTx /\ Len(pushed') >= Len(pushed)
    <3>1. pushed \in Seq(Nat) /\ Len(pushed) <= MaxTx /\ Len(pushed) \in Nat
      BY DEF TypeOK
    <3>2. CASE pushed' = Append(pushed, e) /\ Len(pushed) < MaxTx
      BY <2>1, <3>1, <3>2, AppendFacts
    <3>3. CASE pushed' = pushed
      BY <3>1, <3>3
    <3> QED
      BY <2>2, <3>2, <3>3
  <2>4. taken' \in 0 .. Len(pushed') /\ cacheEpoch' \in Nat
    BY <1>2, <2>1, <2>3 DEF TypeOK, AddTransaction, thread
  <2>5. crashed' \in BOOLEAN
    BY <1>2, Zenon DEF TypeOK, AddTransaction
  <2>6. UNCHANGED <<thread, worker, stopped>>
    BY <1>2 DEF AddTransaction
  <2> QED
    BY <2>3, <2>4, <2>5, <2>6 DEF TypeOK, thread, worker
<1>3. CASE Stop
  BY <1>3 DEF TypeOK, Stop, producer, thread, worker, Signal
<1>4. CASE FinishAssign
  BY <1>4 DEF TypeOK, FinishAssign, At, producer, worker, Signal
<1>5. CASE TakeTransaction
  BY <1>5 DEF TypeOK, TakeTransaction, Front, Pop, At, producer, worker, Signal
<1>6. CASE CloseWorkload
  BY <1>6 DEF TypeOK, CloseWorkload, At, producer, worker, Signal
<1>7. ASSUME NEW w \in WorkerId, DeployWorkload(w) PROVE TypeOK'
  BY <1>7 DEF TypeOK, DeployWorkload, At, producer, Signal
<1>8. CASE NewWorker
  <2>1. workers + 1 \in WorkerId
    BY <1>8, RoomForWorker DEF NewWorker, At
  <2> QED
    BY <1>8, <2>1 DEF TypeOK, NewWorker, At, producer, Signal
<1>9. CASE WorkerAssigned
  BY <1>9 DEF TypeOK, WorkerAssigned, At, producer, worker, Signal
<1>10. CASE StartWorker
  BY <1>10, Zenon DEF TypeOK, StartWorker, At, producer, Signal
<1>11. CASE Broadcast
  <2>1. gstate' \in [WorkerId -> {"START", "Aria_READ", "Aria_COMMIT", "EXIT"}]
    BY <1>11 DEF TypeOK, Broadcast, Signal
  <2>2. visit' \in 1 .. MaxTx + 1
    BY <1>11 DEF TypeOK, Broadcast
  <2> QED
    BY <1>11, <2>1, <2>2 DEF TypeOK, Broadcast, At, producer
<1>12. CASE FinishBroadcast
  BY <1>12 DEF TypeOK, FinishBroadcast, At, producer, worker, Signal
<1>13. CASE Sync
  <2>1. visit' \in 1 .. MaxTx + 1
    BY <1>13 DEF TypeOK, Sync
  <2> QED
    BY <1>13, <2>1 DEF TypeOK, Sync, At, producer, worker
<1>14. CASE FinishRead
  BY <1>14 DEF TypeOK, FinishRead, At, producer, worker, Signal
<1>15. CASE EpochApproved
  BY <1>15 DEF TypeOK, EpochApproved, At, producer, worker, Signal
<1>16. CASE FinishEpoch
  BY <1>16 DEF TypeOK, FinishEpoch, At, producer, worker, Signal
<1>17. CASE Exit
  BY <1>17 DEF TypeOK, Exit, At, producer, worker, Signal
<1>18. ASSUME NEW w \in WorkerId, WorkerStep(w) PROVE TypeOK'
  <2>1. UNCHANGED <<producer, thread, gstate, work, stopped>>
    BY <1>18 DEF WorkerStep, Run, StartRead, EndRead, StartCommit, EndCommit, WorkerExit
  <2>2. /\ wpc' \in [WorkerId -> {"none", "run", "waitRead", "read", "waitCommit",
                                   "commit", "exited"}]
        /\ wstate' \in [WorkerId -> {"READY", "ASSIGNED", "FINISH_READ", "EXITED"}]
        /\ committed' \subseteq Tx
    BY <1>18, ZenonT(30)
       DEF TypeOK, WorkerStep, Run, StartRead, EndRead, StartCommit, EndCommit, WorkerExit
  <2> QED
    BY <2>1, <2>2 DEF TypeOK, producer, thread
<1> QED
  BY <1>1, <1>2, <1>3, <1>4, <1>5, <1>6, <1>7, <1>8, <1>9, <1>10, <1>11, <1>12, <1>13,
     <1>14, <1>15, <1>16, <1>17, <1>18 DEF Next, CoordinatorStep, Rest

-----------------------------------------------------------------------------
(* The phases. *)

\* A step of a worker moves this worker only, along the states of its loop.
LEMMA WorkerMoves ==
    ASSUME TypeOK, NEW w \in WorkerId, WorkerStep(w)
    PROVE  /\ UNCHANGED <<producer, thread, gstate, work>>
           /\ \A v \in WorkerId \ {w} : wpc'[v] = wpc[v] /\ wstate'[v] = wstate[v]
           /\ wpc[w] # "commit" => committed' = committed
           /\ \/ wpc[w] = "run" /\ wpc'[w] = "waitRead" /\ wstate'[w] = "ASSIGNED"
              \/ /\ wpc[w] = "waitRead" /\ gstate[w] = "Aria_READ"
                 /\ wpc'[w] = "read" /\ wstate'[w] = wstate[w]
              \/ wpc[w] = "read" /\ wpc'[w] = "waitCommit" /\ wstate'[w] = "FINISH_READ"
              \/ /\ wpc[w] = "waitCommit" /\ gstate[w] = "Aria_COMMIT"
                 /\ wpc'[w] = "commit" /\ wstate'[w] = wstate[w]
              \/ /\ wpc[w] = "commit" /\ committed' = committed \cup work[w]
                 /\ wpc'[w] = "waitRead" /\ wstate'[w] = "READY"
              \/ /\ wpc[w] \in {"waitRead", "waitCommit"} /\ gstate[w] = "EXIT"
                 /\ wpc'[w] = "exited" /\ wstate'[w] = "EXITED"
<1>1. DOMAIN wpc = WorkerId /\ DOMAIN wstate = WorkerId
  BY TypeFacts
<1>2. CASE Run(w)
  BY <1>1, <1>2 DEF Run
<1>3. CASE StartRead(w)
  BY <1>1, <1>3 DEF StartRead
<1>4. CASE EndRead(w)
  BY <1>1, <1>4 DEF EndRead
<1>5. CASE StartCommit(w)
  BY <1>1, <1>5 DEF StartCommit
<1>6. CASE EndCommit(w)
  BY <1>1, <1>6 DEF EndCommit
<1>7. CASE WorkerExit(w)
  BY <1>1, <1>7 DEF WorkerExit
<1> QED
  BY <1>2, <1>3, <1>4, <1>5, <1>6, <1>7 DEF WorkerStep

\* Where a worker is depends on nothing but its own state and the signal it was given.
LEMMA SamePlace ==
    ASSUME NEW w \in WorkerId,
           wpc'[w] = wpc[w], wstate'[w] = wstate[w], gstate'[w] = gstate[w]
    PROVE  /\ Absent(w)' <=> Absent(w)
           /\ (Fresh(w)' <=> Fresh(w)) /\ (Waiting(w)' <=> Waiting(w))
           /\ (Started(w)' <=> Started(w)) /\ (HasRead(w)' <=> HasRead(w))
           /\ (Released(w)' <=> Released(w)) /\ (Idle(w)' <=> Idle(w))
           /\ (Told(w)' <=> Told(w)) /\ (Gone(w)' <=> Gone(w))
<1>1. \A p, s, g : In(w, p, s, g)' <=> In(w, p, s, g)
  BY DEF In
<1> QED
  BY <1>1 DEF Absent, Fresh, Waiting, Started, HasRead, Released, Idle, Told, Gone

\* Every step keeps the workers where the phase allows them to be.
LEMMA PhaseStep ==
    ASSUME IInv, TypeOK', [Next]_vars
    PROVE  PhaseInv'
<1> USE ConstantsAssumption DEF WorkerId
<1>p. TypeOK /\ VisitInv /\ AbsentInv /\ PlaceInv
  BY Parts
<1>t. /\ workers \in Nat /\ visit \in Nat /\ stage \in {"read", "commit", "exit"}
      /\ DOMAIN wpc = WorkerId /\ DOMAIN wstate = WorkerId /\ DOMAIN gstate = WorkerId
  BY <1>p, TypeFacts
<1>w. ASSUME UNCHANGED worker
      PROVE  \A w \in WorkerId :
                 /\ Absent(w)' <=> Absent(w)
                 /\ (Fresh(w)' <=> Fresh(w)) /\ (Waiting(w)' <=> Waiting(w))
                 /\ (Started(w)' <=> Started(w)) /\ (HasRead(w)' <=> HasRead(w))
                 /\ (Released(w)' <=> Released(w)) /\ (Idle(w)' <=> Idle(w))
                 /\ (Told(w)' <=> Told(w)) /\ (Gone(w)' <=> Gone(w))
  BY <1>w, SamePlace DEF worker
<1>s. ASSUME UNCHANGED <<pc, stage, visit, target, workers, worker>> PROVE PhaseInv'
  <2>1. VisitInv' /\ AbsentInv'
    BY <1>p, <1>s, <1>w DEF VisitInv, AbsentInv, Assigning
  <2>2. PlaceInv'
    BY <1>p, <1>s, <1>w
       DEF PlaceInv, Place, PlaceAssigning, PlaceRead, PlaceCommit, PlaceExit, Assigning
  <2> QED
    BY <2>1, <2>2 DEF PhaseInv
<1>1. CASE UNCHANGED vars
  BY <1>1, <1>s DEF vars, worker
<1>2. ASSUME NEW e \in LastEpoch .. LastEpoch + EpochGap, AddTransaction(e)
      PROVE  PhaseInv'
  BY <1>2, <1>s DEF AddTransaction, thread
<1>3. CASE Stop
  BY <1>3, <1>s DEF Stop, thread
<1>4. CASE FinishAssign
  <2>1. VisitInv' /\ AbsentInv'
    BY <1>4, <1>p, <1>t, <1>w DEF FinishAssign, At, VisitInv, AbsentInv, Assigning
  <2>2. PlaceInv'
    BY <1>4, <1>p, <1>t, <1>w
       DEF FinishAssign, At, PlaceInv, Place, PlaceAssigning, PlaceRead, Assigning
  <2> QED
    BY <2>1, <2>2 DEF PhaseInv
<1>5. CASE TakeTransaction
  <2>1. VisitInv' /\ AbsentInv'
    BY <1>5, <1>p, <1>t, <1>w DEF TakeTransaction, At, VisitInv, AbsentInv, Assigning
  <2>2. PlaceInv'
    BY <1>5, <1>p, <1>t, <1>w
       DEF TakeTransaction, At, PlaceInv, Place, PlaceAssigning, Assigning
  <2> QED
    BY <2>1, <2>2 DEF PhaseInv
<1>6. CASE CloseWorkload
  <2>1. VisitInv' /\ AbsentInv'
    BY <1>6, <1>p, <1>t, <1>w DEF CloseWorkload, At, VisitInv, AbsentInv, Assigning
  <2>2. PlaceInv'
    BY <1>6, <1>p, <1>t, <1>w
       DEF CloseWorkload, At, PlaceInv, Place, PlaceAssigning, Assigning
  <2> QED
    BY <2>1, <2>2 DEF PhaseInv
<1>7. ASSUME NEW w \in WorkerId, DeployWorkload(w) PROVE PhaseInv'
  <2>1. /\ pc = "deploy" /\ pc' = "start" /\ target' = w /\ w <= workers
        /\ wstate[w] = "READY" /\ wstate'[w] = "ASSIGNED"
        /\ UNCHANGED <<stage, visit, workers, wpc, gstate>>
    BY <1>7, <1>t DEF DeployWorkload, At, Ready
  <2>2. \A v \in WorkerId \ {w} : wstate'[v] = wstate[v]
    BY <1>7, <1>t DEF DeployWorkload
  <2>3. \A v \in WorkerId \ {w} :
             /\ Absent(v)' <=> Absent(v)
             /\ (Idle(v)' <=> Idle(v)) /\ (Started(v)' <=> Started(v))
             /\ HasRead(v)' <=> HasRead(v)
    BY <2>1, <2>2, SamePlace
  <2>4. Idle(w) /\ Waiting(w)'
    <3>1. Place(w)
      BY <1>p, <2>1 DEF PlaceInv
    <3>2. Idle(w)
      BY <2>1, <3>1 DEF Place, PlaceAssigning, Assigning, In, Idle, Started, HasRead
    <3> QED
      BY <2>1, <3>2 DEF In, Idle, Waiting
  <2>8. VisitInv' /\ AbsentInv'
    BY <1>p, <1>t, <2>1, <2>3, <2>4 DEF VisitInv, AbsentInv, Assigning
  <2>9. PlaceInv'
    BY <1>p, <1>t, <2>1, <2>3, <2>4
       DEF PlaceInv, Place, PlaceAssigning, PlaceRead, PlaceCommit, PlaceExit, Assigning
  <2> QED
    BY <2>8, <2>9 DEF PhaseInv
<1>8. CASE NewWorker
  <2>1. PICK w \in WorkerId : w = workers + 1
    BY <1>8, RoomForWorker DEF NewWorker, At
  <2>2. /\ pc = "deploy" /\ pc' = "assigned" /\ target' = w /\ workers' = w
        /\ wpc'[w] = "run" /\ \A v \in WorkerId \ {w} : wpc'[v] = wpc[v]
        /\ UNCHANGED <<stage, visit, wstate, gstate>>
    BY <1>8, <1>t, <2>1 DEF NewWorker, At
  <2>3. \A v \in WorkerId \ {w} :
             /\ Absent(v)' <=> Absent(v)
             /\ (Idle(v)' <=> Idle(v)) /\ (Started(v)' <=> Started(v))
             /\ HasRead(v)' <=> HasRead(v)
    BY <2>2, SamePlace
  <2>4. Fresh(w)'
    BY <1>p, <1>t, <2>1, <2>2 DEF AbsentInv, In, Absent, Fresh
  <2>8. VisitInv' /\ AbsentInv'
    BY <1>p, <1>t, <2>1, <2>2, <2>3, <2>4 DEF VisitInv, AbsentInv, Assigning
  <2>9. PlaceInv'
    BY <1>p, <1>t, <2>1, <2>2, <2>3, <2>4
       DEF PlaceInv, Place, PlaceAssigning, PlaceRead, PlaceCommit, PlaceExit, Assigning
  <2> QED
    BY <2>8, <2>9 DEF PhaseInv
<1>9. CASE WorkerAssigned
  <2>1. target \in WorkerId /\ ~Fresh(target)
    BY <1>9, <1>p, <1>t DEF WorkerAssigned, At, VisitInv, In, Fresh
  <2>8. VisitInv' /\ AbsentInv'
    BY <1>9, <1>p, <1>w DEF WorkerAssigned, At, VisitInv, AbsentInv, Assigning
  <2>9. PlaceInv'
    BY <1>9, <1>p, <1>t, <1>w, <2>1
       DEF WorkerAssigned, At, PlaceInv, Place, PlaceAssigning, Assigning
  <2> QED
    BY <2>8, <2>9 DEF PhaseInv
<1>10. CASE StartWorker
  <2>1. /\ target \in WorkerId /\ target <= workers
        /\ pc = "start" /\ pc' = "create" /\ gstate'[target] = "Aria_READ"
        /\ UNCHANGED <<stage, visit, target, workers, wpc, wstate>>
    BY <1>10, <1>p, <1>t DEF StartWorker, At, VisitInv
  <2>2. \A v \in WorkerId \ {target} : gstate'[v] = gstate[v]
    BY <1>10, <1>t DEF StartWorker
  <2>3. \A v \in WorkerId \ {target} :
             /\ Absent(v)' <=> Absent(v)
             /\ (Idle(v)' <=> Idle(v)) /\ (Started(v)' <=> Started(v))
             /\ HasRead(v)' <=> HasRead(v)
    BY <2>1, <2>2, SamePlace
  <2>4. Started(target)'
    <3>1. Place(target)
      BY <1>p, <2>1 DEF PlaceInv
    <3>2. Waiting(target)
      BY <2>1, <3>1 DEF Place, PlaceAssigning, Assigning
    <3> QED
      BY <2>1, <3>2 DEF In, Waiting, Started
  <2>8. VisitInv' /\ AbsentInv'
    BY <1>p, <1>t, <2>1, <2>3, <2>4 DEF VisitInv, AbsentInv, Assigning
  <2>9. PlaceInv'
    BY <1>p, <1>t, <2>1, <2>3, <2>4
       DEF PlaceInv, Place, PlaceAssigning, PlaceRead, PlaceCommit, PlaceExit, Assigning
  <2> QED
    BY <2>8, <2>9 DEF PhaseInv
<1>11. CASE Broadcast
  <2>1. PICK w \in WorkerId : w = visit
    BY <1>11, <1>p, <1>t DEF Broadcast, VisitInv
  <2>2. /\ w <= workers /\ pc = "broadcast" /\ pc' = pc /\ visit' = w + 1
        /\ UNCHANGED <<stage, target, workers, wpc, wstate>>
    BY <1>11, <2>1 DEF Broadcast, At
  <2>3. /\ \A v \in WorkerId \ {w} : gstate'[v] = gstate[v]
        /\ gstate'[w] = IF Skipped(w) THEN gstate[w] ELSE Signal[stage]
    BY <1>11, <1>t, <2>1 DEF Broadcast
  <2>4. ~Assigning /\ ~Assigning' /\ Place(w)
    BY <1>p, <2>2 DEF Assigning, PlaceInv
  <2>5. Place(w)'
    <3>1. CASE stage = "read"
      <4>1. Idle(w) \/ HasRead(w) \/ Started(w)
        BY <2>4, <3>1 DEF Place, PlaceRead
      <4>2. gstate'[w] = IF wstate[w] = "READY" THEN gstate[w] ELSE "Aria_READ"
        BY <2>3, <3>1 DEF Skipped, Signal
      <4>3. Idle(w)' \/ HasRead(w)' \/ Started(w)'
        BY <2>2, <4>1, <4>2 DEF In, Started, HasRead, Idle
      <4> QED
        BY <2>2, <2>4, <3>1, <4>3 DEF Place, PlaceRead
    <3>2. CASE stage = "commit"
      <4>1. Idle(w) \/ HasRead(w)
        BY <1>t, <2>1, <2>2, <2>4, <3>2 DEF Place, PlaceCommit
      <4>2. gstate'[w] = IF wstate[w] = "READY" THEN gstate[w] ELSE "Aria_COMMIT"
        BY <2>3, <3>2 DEF Skipped, Signal
      <4>3. Idle(w)' \/ Released(w)'
        BY <2>2, <4>1, <4>2 DEF In, HasRead, Released, Idle
      <4> QED
        BY <2>2, <2>4, <3>2, <4>3 DEF Place, PlaceCommit
    <3>3. CASE stage = "exit"
      <4>1. Idle(w) \/ Gone(w)
        BY <1>t, <2>1, <2>2, <2>4, <3>3 DEF Place, PlaceExit
      <4>2. gstate'[w] = "EXIT"
        BY <2>3, <3>3 DEF Skipped, Signal
      <4>3. Told(w)' \/ Gone(w)'
        BY <2>2, <4>1, <4>2 DEF In, Idle, Told, Gone
      <4> QED
        BY <2>2, <2>4, <3>3, <4>3 DEF Place, PlaceExit
    <3> QED
      BY <1>t, <3>1, <3>2, <3>3
  <2>6. ASSUME NEW v \in WorkerId \ {w}
        PROVE  (Absent(v) => Absent(v)') /\ (v <= workers => Place(v)')
    <3>1. v <= workers => Place(v)
      BY <1>p DEF PlaceInv
    <3>2. /\ Absent(v)' <=> Absent(v)
          /\ (Started(v)' <=> Started(v)) /\ (HasRead(v)' <=> HasRead(v))
          /\ (Released(v)' <=> Released(v)) /\ (Idle(v)' <=> Idle(v))
          /\ (Told(v)' <=> Told(v)) /\ (Gone(v)' <=> Gone(v))
      BY <2>2, <2>3, SamePlace
    <3> QED
      BY <1>t, <2>1, <2>2, <2>4, <3>1, <3>2 DEF Place, PlaceRead, PlaceCommit, PlaceExit
  <2>7. VisitInv' /\ AbsentInv'
    BY <1>p, <1>t, <2>2, <2>4, <2>6 DEF VisitInv, AbsentInv
  <2>8. PlaceInv'
    BY <2>2, <2>5, <2>6 DEF PlaceInv
  <2> QED
    BY <2>7, <2>8 DEF PhaseInv
<1>12. CASE FinishBroadcast
  <2>1. VisitInv' /\ AbsentInv'
    BY <1>12, <1>p, <1>t, <1>w DEF FinishBroadcast, At, VisitInv, AbsentInv, Assigning
  <2>2. PlaceInv'
    BY <1>12, <1>p, <1>t, <1>w
       DEF FinishBroadcast, At, PlaceInv, Place, PlaceRead, PlaceCommit, PlaceExit, Assigning
  <2> QED
    BY <2>1, <2>2 DEF PhaseInv
<1>13. CASE Sync
  <2>1. visit \in WorkerId /\ Arrived(visit)
    BY <1>13, <1>p, <1>t DEF Sync, VisitInv
  <2>2. /\ stage = "read" => ~Started(visit)
        /\ stage = "commit" => ~Released(visit)
        /\ stage = "exit" => ~Told(visit)
    BY <2>1 DEF Arrived, Skipped, Awaited, In, Started, Released, Told
  <2>8. VisitInv' /\ AbsentInv'
    BY <1>13, <1>p, <1>t, <1>w DEF Sync, At, VisitInv, AbsentInv, Assigning
  <2>9. PlaceInv'
    BY <1>13, <1>p, <1>t, <1>w, <2>1, <2>2
       DEF Sync, At, PlaceInv, Place, PlaceRead, PlaceCommit, PlaceExit, Assigning
  <2> QED
    BY <2>8, <2>9 DEF PhaseInv
<1>14. CASE FinishRead
  <2>1. VisitInv' /\ AbsentInv'
    BY <1>14, <1>p, <1>t, <1>w DEF FinishRead, At, VisitInv, AbsentInv, Assigning
  <2>2. PlaceInv'
    BY <1>14, <1>p, <1>t, <1>w
       DEF FinishRead, At, PlaceInv, Place, PlaceRead, Assigning
  <2> QED
    BY <2>1, <2>2 DEF PhaseInv
<1>15. CASE EpochApproved
  <2>1. VisitInv' /\ AbsentInv'
    BY <1>15, <1>p, <1>t, <1>w DEF EpochApproved, At, VisitInv, AbsentInv, Assigning
  <2>2. PlaceInv'
    BY <1>15, <1>p, <1>t, <1>w
       DEF EpochApproved, At, VisitInv, PlaceInv, Place, PlaceRead, PlaceCommit, Assigning
  <2> QED
    BY <2>1, <2>2 DEF PhaseInv
<1>16. CASE FinishEpoch
  <2>1. VisitInv' /\ AbsentInv'
    BY <1>16, <1>p, <1>t, <1>w DEF FinishEpoch, At, VisitInv, AbsentInv, Assigning
  <2>2. PlaceInv'
    BY <1>16, <1>p, <1>t, <1>w
       DEF FinishEpoch, At, PlaceInv, Place, PlaceCommit, PlaceAssigning, PlaceExit, Assigning
  <2> QED
    BY <2>1, <2>2 DEF PhaseInv
<1>17. CASE Exit
  <2>1. VisitInv' /\ AbsentInv'
    BY <1>17, <1>p, <1>t, <1>w DEF Exit, At, VisitInv, AbsentInv, Assigning
  <2>2. PlaceInv'
    BY <1>17, <1>p, <1>t, <1>w
       DEF Exit, At, PlaceInv, Place, PlaceExit, Assigning
  <2> QED
    BY <2>1, <2>2 DEF PhaseInv
<1>18. ASSUME NEW w \in WorkerId, WorkerStep(w) PROVE PhaseInv'
  <2>1. /\ UNCHANGED <<pc, stage, visit, target, workers, gstate>>
        /\ \A v \in WorkerId \ {w} : wpc'[v] = wpc[v] /\ wstate'[v] = wstate[v]
    BY <1>18, <1>p, WorkerMoves DEF thread
  <2>2. \A v \in WorkerId \ {w} :
             /\ Absent(v)' <=> Absent(v)
             /\ (Fresh(v)' <=> Fresh(v)) /\ (Waiting(v)' <=> Waiting(v))
             /\ (Started(v)' <=> Started(v)) /\ (HasRead(v)' <=> HasRead(v))
             /\ (Released(v)' <=> Released(v)) /\ (Idle(v)' <=> Idle(v))
             /\ (Told(v)' <=> Told(v)) /\ (Gone(v)' <=> Gone(v))
    BY <2>1, SamePlace
  <2>3. w <= workers
    BY <1>18, <1>p, <1>t, WorkerMoves DEF AbsentInv, In, Absent
  <2>4. /\ ~Idle(w) /\ ~Waiting(w) /\ ~HasRead(w) /\ ~Gone(w)
        /\ Fresh(w) => Waiting(w)'
        /\ Started(w) => Started(w)' \/ HasRead(w)'
        /\ Released(w) => Released(w)' \/ Idle(w)'
        /\ Told(w) => Gone(w)'
    BY <1>18, <1>p, <2>1, WorkerMoves
       DEF In, Fresh, Waiting, Started, HasRead, Released, Idle, Told, Gone
  <2>5. ASSUME NEW v \in WorkerId, v <= workers PROVE Place(v)'
    <3>1. Place(v) /\ (Assigning' <=> Assigning)
      BY <1>p, <2>1, <2>5 DEF PlaceInv, Assigning
    <3>2. CASE v = w /\ Assigning
      BY <2>1, <2>4, <3>1, <3>2 DEF Place, PlaceAssigning
    <3>3. CASE v = w /\ ~Assigning
      BY <2>1, <2>4, <3>1, <3>3 DEF Place, PlaceRead, PlaceCommit, PlaceExit
    <3>4. CASE v # w
      BY <2>1, <2>2, <3>1, <3>4
         DEF Place, PlaceAssigning, PlaceRead, PlaceCommit, PlaceExit
    <3> QED
      BY <3>2, <3>3, <3>4
  <2>6. VisitInv' /\ AbsentInv'
    <3>1. VisitInv'
      BY <1>p, <2>1 DEF VisitInv, Assigning
    <3>2. AbsentInv'
      BY <1>p, <1>t, <2>2, <2>1, <2>3 DEF AbsentInv
    <3> QED
      BY <3>1, <3>2
  <2>7. PlaceInv'
    BY <2>1, <2>5 DEF PlaceInv
  <2> QED
    BY <2>6, <2>7 DEF PhaseInv
<1> QED
  BY <1>1, <1>2, <1>3, <1>4, <1>5, <1>6, <1>7, <1>8, <1>9, <1>10, <1>11, <1>12, <1>13,
     <1>14, <1>15, <1>16, <1>17, <1>18 DEF Next, CoordinatorStep, Rest

-----------------------------------------------------------------------------
(* The queue. *)

\* The queue holds epochs, and LastEpoch is the one at its end.
LEMMA QueueFacts ==
    ASSUME TypeOK
    PROVE  /\ pushed \in Seq(Nat) /\ Len(pushed) \in Nat
           /\ \A i \in 1 .. Len(pushed) : pushed[i] \in Nat
           /\ LastEpoch \in Nat
           /\ Len(pushed) > 0 => LastEpoch = pushed[Len(pushed)]
<1> USE ConstantsAssumption
<1>1. pushed \in Seq(Nat) /\ Len(pushed) \in Nat
  BY DEF TypeOK
<1>2. \A i \in 1 .. Len(pushed) : pushed[i] \in Nat
  BY <1>1
<1>3. CASE pushed = <<>>
  BY <1>1, <1>2, <1>3 DEF LastEpoch
<1>4. CASE pushed # <<>>
  <2>1. Len(pushed) > 0
    BY <1>1, <1>4
  <2> QED
    BY <1>1, <1>2, <1>4, <2>1 DEF LastEpoch
<1> QED
  BY <1>3, <1>4

\* When the commit phase is over nobody has a workload, and what was popped is
\* committed.
LEMMA EpochIsDone ==
    ASSUME IInv, FinishEpoch
    PROVE  /\ \A w \in WorkerId : ~Loaded(w)
           /\ load = {}
           /\ committed = 1 .. taken
           /\ EpochAssigned
<1>1. pc = "sync" /\ stage = "commit" /\ visit > workers /\ workers \in Nat /\ visit \in Nat
  BY Parts, TypeFacts DEF FinishEpoch, At
<1>2. ASSUME NEW w \in WorkerId PROVE ~Loaded(w)
  <2>1. CASE w > workers
    BY <2>1, Parts DEF AbsentInv, Absent, In, Loaded
  <2>2. CASE w <= workers
    <3>1. Place(w) /\ ~Assigning
      BY <1>1, <2>2, Parts DEF PlaceInv, Assigning
    <3>2. Idle(w)
      BY <1>1, <2>2, <3>1 DEF Place, PlaceCommit, WorkerId
    <3> QED
      BY <3>2 DEF Idle, In, Loaded
  <2> QED
    BY <1>1, <2>1, <2>2 DEF WorkerId
<1>3. load = {}
  BY <1>1, Parts DEF LoadInv
<1>4. committed = 1 .. taken
  BY <1>2, <1>3, Parts, Zenon DEF LoadInv, CoverInv
<1>5. EpochAssigned
  BY <1>1, Parts DEF CompleteInv, Assigning
<1> QED
  BY <1>2, <1>3, <1>4, <1>5

\* Every step keeps the order of the queue, and no epoch is over too early.
LEMMA QueueStep ==
    ASSUME IInv, TypeOK', [Next]_vars
    PROVE  QueueInv'
<1> USE ConstantsAssumption
<1>p. TypeOK /\ VisitInv /\ SortedInv /\ OverInv /\ CompleteInv
  BY Parts
<1>t. /\ pushed \in Seq(Nat) /\ Len(pushed) \in Nat /\ taken \in Nat /\ epoch \in Nat
      /\ LastEpoch \in Nat /\ announced \subseteq Nat
  BY <1>p, TypeFacts, QueueFacts
<1>s. ASSUME UNCHANGED <<pushed, taken, epoch, announced>>, committed \subseteq committed',
             CompleteInv'
      PROVE  QueueInv'
  <2>1. SortedInv'
    BY <1>p, <1>s DEF SortedInv
  <2>2. OverInv'
    BY <1>p, <1>s DEF OverInv, LastEpoch
  <2> QED
    BY <1>s, <2>1, <2>2 DEF QueueInv
<1>c. ASSUME UNCHANGED <<pushed, taken, epoch, pc, stage>> PROVE CompleteInv'
  BY <1>c, <1>p DEF CompleteInv, Assigning, EpochAssigned, Front, FrontEpoch
<1>1. CASE UNCHANGED vars
  BY <1>1, <1>c, <1>s DEF vars
<1>2. ASSUME NEW e \in LastEpoch .. LastEpoch + EpochGap, AddTransaction(e)
      PROVE  QueueInv'
  <2> DEFINE n == Len(pushed)
  <2>1. e \in Nat /\ e >= LastEpoch
    BY <1>t
  <2>2. UNCHANGED <<taken, epoch, pc, stage, announced, committed>>
    BY <1>2 DEF AddTransaction, thread, worker
  <2>3. CASE pushed' = pushed
    BY <1>c, <1>s, <2>2, <2>3
  <2>4. CASE pushed' = Append(pushed, e)
    <3>1. /\ Len(pushed') = n + 1 /\ pushed'[n + 1] = e
          /\ \A i \in 1 .. n : pushed'[i] = pushed[i]
      BY <1>t, <2>1, <2>4, AppendFacts
    <3>2. \A i \in 1 .. n : pushed[i] \in Nat /\ pushed[i] <= e
      <4> SUFFICES ASSUME NEW i \in 1 .. n PROVE pushed[i] \in Nat /\ pushed[i] <= e
        OBVIOUS
      <4>1. LastEpoch = pushed[n] /\ n \in 1 .. n
        BY <1>p, <1>t, QueueFacts
      <4>2. pushed[i] \in Nat /\ pushed[i] <= pushed[n]
        BY <1>p, <1>t, <4>1, QueueFacts DEF SortedInv
      <4> QED
        BY <1>t, <2>1, <4>1, <4>2
    <3>3. LastEpoch' = e
      BY <1>t, <3>1 DEF LastEpoch
    <3>4. SortedInv'
      <4> SUFFICES ASSUME NEW i \in 1 .. n + 1, NEW j \in 1 .. n + 1, i <= j
                   PROVE  pushed'[i] <= pushed'[j]
        BY <3>1 DEF SortedInv
      <4>1. CASE j \in 1 .. n
        <5>1. i \in 1 .. n
          BY <1>t, <4>1
        <5>2. pushed[i] <= pushed[j]
          BY <1>p, <4>1, <5>1 DEF SortedInv
        <5> QED
          BY <3>1, <4>1, <5>1, <5>2
      <4>2. CASE j = n + 1 /\ i \in 1 .. n
        BY <3>1, <3>2, <4>2
      <4>3. CASE j = n + 1 /\ i = n + 1
        BY <2>1, <3>1, <4>3
      <4> QED
        BY <1>t, <4>1, <4>2, <4>3
    <3>5. OverInv'
      <4>1. \A i \in 1 .. n : pushed'[i] < epoch => i \in committed
        BY <1>p, <3>1 DEF OverInv
      <4>2. ~(pushed'[n + 1] < epoch) /\ epoch <= LastEpoch'
        BY <1>p, <1>t, <2>1, <3>1, <3>3 DEF OverInv
      <4>3. \A i \in 1 .. n + 1 : pushed'[i] < epoch => i \in committed
        BY <1>t, <4>1, <4>2
      <4> QED
        BY <1>p, <2>2, <3>1, <4>2, <4>3 DEF OverInv
    <3>6. CompleteInv'
      BY <1>p, <1>t, <2>2, <3>1 DEF CompleteInv, Assigning, EpochAssigned, Front, FrontEpoch
    <3> QED
      BY <3>4, <3>5, <3>6 DEF QueueInv
  <2> QED
    BY <1>2, <2>3, <2>4 DEF AddTransaction
<1>3. CASE Stop
  BY <1>3, <1>c, <1>s DEF Stop, producer, thread, worker
<1>4. CASE FinishAssign
  <2>1. CompleteInv'
    BY <1>4 DEF FinishAssign, producer, CompleteInv, EpochAssigned, Front, FrontEpoch
  <2> QED
    BY <1>4, <1>s, <2>1 DEF FinishAssign, producer, worker
<1>5. CASE TakeTransaction
  <2>1. CompleteInv' /\ UNCHANGED <<pushed, epoch, announced, committed>>
    BY <1>5 DEF TakeTransaction, producer, worker, CompleteInv, Assigning
  <2>2. SortedInv' /\ OverInv'
    BY <1>p, <2>1 DEF SortedInv, OverInv, LastEpoch
  <2> QED
    BY <2>1, <2>2 DEF QueueInv
<1>6. CASE CloseWorkload \/ WorkerAssigned \/ StartWorker
  <2>1. Assigning' /\ UNCHANGED <<pushed, taken, epoch, announced, committed>>
    BY <1>6, Zenon DEF CloseWorkload, WorkerAssigned, StartWorker, producer, worker, Assigning
  <2> QED
    BY <1>s, <2>1 DEF CompleteInv
<1>7. ASSUME NEW w \in WorkerId, DeployWorkload(w) PROVE QueueInv'
  <2>1. Assigning' /\ UNCHANGED <<pushed, taken, epoch, announced, committed>>
    BY <1>7 DEF DeployWorkload, producer, Assigning
  <2> QED
    BY <1>s, <2>1 DEF CompleteInv
<1>8. CASE NewWorker
  <2>1. Assigning' /\ UNCHANGED <<pushed, taken, epoch, announced, committed>>
    BY <1>8 DEF NewWorker, producer, Assigning
  <2> QED
    BY <1>s, <2>1 DEF CompleteInv
<1>9. CASE Broadcast \/ FinishBroadcast \/ Sync \/ FinishRead \/ EpochApproved
  <2>1. /\ (~Assigning /\ stage # "exit") \/ stage' = "exit"
        /\ UNCHANGED <<pushed, taken, epoch, announced, committed>>
    BY <1>9, <1>p, Zenon DEF Broadcast, FinishBroadcast, Sync, FinishRead, EpochApproved, At,
                             producer, worker, Assigning, VisitInv
  <2>2. CompleteInv'
    BY <1>p, <2>1 DEF CompleteInv, EpochAssigned, Front, FrontEpoch
  <2> QED
    BY <1>s, <2>1, <2>2
<1>10. CASE Exit
  <2>1. stage' = "exit" /\ UNCHANGED <<pushed, taken, epoch, announced, committed>>
    BY <1>10 DEF Exit, producer, worker
  <2> QED
    BY <1>s, <2>1 DEF CompleteInv
<1>11. CASE FinishEpoch
  <2>1. committed = 1 .. taken /\ taken < Len(pushed) /\ pushed[taken + 1] > epoch
    BY <1>11, EpochIsDone DEF EpochAssigned, Front, FrontEpoch
  <2>2. /\ epoch' = epoch + 1 /\ announced' = announced \cup {epoch}
        /\ UNCHANGED <<pushed, committed, taken>>
    BY <1>11 DEF FinishEpoch, producer, worker
  <2>3. CompleteInv'
    BY <1>11 DEF FinishEpoch, CompleteInv, Assigning
  <2>4. \A i \in 1 .. Len(pushed) : i > taken => pushed[i] >= epoch + 1
    <3> TAKE i \in 1 .. Len(pushed)
    <3> HAVE i > taken
    <3>1. taken + 1 \in 1 .. Len(pushed)
      BY <1>t, <2>1
    <3>2. pushed[i] >= pushed[taken + 1]
      BY <1>p, <1>t, <3>1 DEF SortedInv
    <3>3. pushed[i] \in Nat /\ pushed[taken + 1] \in Nat
      BY <1>p, <3>1, QueueFacts
    <3> QED
      BY <1>t, <2>1, <3>2, <3>3
  <2>5. OverInv'
    <3>1. LastEpoch' = LastEpoch /\ LastEpoch = pushed[Len(pushed)]
      BY <1>p, <1>t, <2>1, <2>2, QueueFacts DEF LastEpoch
    <3>2. epoch' <= LastEpoch'
      BY <1>t, <2>1, <2>2, <2>4, <3>1
    <3>3. \A e \in announced' : e < epoch'
      BY <1>p, <1>t, <2>2 DEF OverInv
    <3>4. \A i \in 1 .. Len(pushed) : pushed[i] < epoch + 1 => i \in committed
      BY <1>p, <1>t, <2>1, <2>4, QueueFacts
    <3> QED
      BY <2>2, <3>2, <3>3, <3>4 DEF OverInv
  <2>6. SortedInv'
    BY <1>p, <2>2 DEF SortedInv
  <2> QED
    BY <2>3, <2>5, <2>6 DEF QueueInv
<1>12. ASSUME NEW w \in WorkerId, WorkerStep(w) PROVE QueueInv'
  <2>1. committed \subseteq committed' /\ UNCHANGED <<producer, thread>>
    BY <1>12 DEF WorkerStep, Run, StartRead, EndRead, StartCommit, EndCommit, WorkerExit
  <2> QED
    BY <1>c, <1>s, <2>1 DEF producer, thread
<1> QED
  BY <1>1, <1>2, <1>3, <1>4, <1>5, <1>6, <1>7, <1>8, <1>9, <1>10, <1>11, <1>12
     DEF Next, CoordinatorStep, Rest

-----------------------------------------------------------------------------
(* The workloads. *)

\* What the phases say of a worker that is about to take a step.
LEMMA PlaceFacts ==
    ASSUME IInv, NEW w \in WorkerId
    PROVE  /\ wpc[w] = "read" => wstate[w] = "ASSIGNED"
           /\ wpc[w] \in {"waitCommit", "commit"} => wstate[w] = "FINISH_READ"
           /\ gstate[w] = "EXIT" => ~Loaded(w)
           /\ pc = "deploy" /\ wstate[w] = "READY" => ~Loaded(w)
<1>1. CASE w > workers
  BY <1>1, Parts DEF AbsentInv, Absent, In, Loaded
<1>2. CASE w <= workers
  <2>1. Place(w) /\ stage \in {"read", "commit", "exit"} /\ (pc = "deploy" => Assigning)
    BY <1>2, Parts, TypeFacts DEF PlaceInv, Assigning
  <2> QED
    BY <2>1, Zenon DEF Place, PlaceAssigning, PlaceRead, PlaceCommit, PlaceExit, In, Fresh,
                       Waiting, Started, HasRead, Released, Idle, Told, Gone, Loaded
<1> QED
  BY <1>1, <1>2, Parts, TypeFacts, ConstantsAssumption DEF WorkerId

\* Giving the workload that was built to a worker without one keeps the division.
LEMMA Deployed ==
    ASSUME IInv, NEW w \in WorkerId, ~Loaded(w), Loaded(w)', load # {},
           work' = [work EXCEPT ![w] = load], load' = {}, pc' \in {"start", "assigned"},
           \A v \in WorkerId \ {w} : Loaded(v)' <=> Loaded(v),
           UNCHANGED <<pushed, taken, epoch, committed>>
    PROVE  WorkInv'
<1>1. work'[w] = load /\ \A v \in WorkerId \ {w} : work'[v] = work[v]
  BY Parts, TypeFacts
<1>2. LoadInv'
  BY Parts DEF LoadInv
<1>3. OwnInv'
  BY <1>1, Parts, Zenon DEF LoadInv, OwnInv
<1>4. ApartInv'
  BY <1>1, Parts DEF OwnInv, ApartInv
<1>5. CoverInv'
  BY <1>1, Parts DEF CoverInv
<1> QED
  BY <1>2, <1>3, <1>4, <1>5 DEF WorkInv

\* Every step keeps the popped transactions divided between the committed ones, the
\* workload being built and the loaded workers.
LEMMA WorkStep ==
    ASSUME IInv, TypeOK', [Next]_vars
    PROVE  WorkInv'
<1>p. TypeOK /\ LoadInv /\ OwnInv /\ ApartInv /\ CoverInv
  BY Parts
<1>t. taken \in Nat /\ workers \in Nat /\ epoch \in Nat /\ taken <= Len(pushed)
  BY <1>p, TypeFacts
<1>s. ASSUME UNCHANGED <<taken, epoch, load, work, committed>>,
             \A i \in 1 .. taken : pushed'[i] = pushed[i],
             pc' \in {"collect", "deploy"} <=> pc \in {"collect", "deploy"},
             \A w \in WorkerId : Loaded(w)' <=> Loaded(w)
      PROVE  WorkInv'
  <2>1. LoadInv'
    BY <1>p, <1>s DEF LoadInv
  <2>2. OwnInv'
    BY <1>p, <1>s DEF OwnInv
  <2>3. ApartInv' /\ CoverInv'
    BY <1>p, <1>s DEF ApartInv, CoverInv
  <2> QED
    BY <2>1, <2>2, <2>3 DEF WorkInv
<1>l. ASSUME UNCHANGED <<wpc, wstate>> PROVE \A w \in WorkerId : Loaded(w)' <=> Loaded(w)
  BY <1>l DEF Loaded
<1>1. CASE UNCHANGED vars
  BY <1>1, <1>l, <1>s DEF vars
<1>2. ASSUME NEW e \in LastEpoch .. LastEpoch + EpochGap, AddTransaction(e)
      PROVE  WorkInv'
  <2>1. UNCHANGED <<taken, epoch, load, work, committed, pc, wpc, wstate>>
    BY <1>2 DEF AddTransaction, thread, worker
  <2>2. \A i \in 1 .. taken : pushed'[i] = pushed[i]
    <3>1. e \in Nat /\ pushed \in Seq(Nat) /\ \A i \in 1 .. taken : i \in 1 .. Len(pushed)
      BY <1>p, <1>t, QueueFacts
    <3>2. CASE pushed' = Append(pushed, e)
      BY <3>1, <3>2, AppendFacts
    <3> QED
      BY <1>2, <3>2 DEF AddTransaction
  <2> QED
    BY <1>l, <1>s, <2>1, <2>2
<1>3. CASE Stop
  BY <1>3, <1>l, <1>s DEF Stop, producer, thread, worker
<1>4. CASE FinishAssign
  BY <1>4, <1>l, <1>s DEF FinishAssign, At, producer, worker
<1>5. CASE TakeTransaction
  <2>1. taken + 1 \in 1 .. Len(pushed) /\ pushed[taken + 1] <= epoch
    BY <1>5, <1>p, <1>t, QueueFacts DEF TakeTransaction, Front, FrontEpoch
  <2>2. pushed[taken + 1] = epoch
    <3>1. taken + 1 \notin committed
      BY <1>p, <1>t DEF LoadInv
    <3>2. ~(pushed[taken + 1] < epoch)
      BY <2>1, <3>1, Parts DEF OverInv
    <3> QED
      BY <1>p, <1>t, <2>1, <3>2, QueueFacts
  <2>3. /\ load' = load \cup {taken + 1} /\ taken' = taken + 1 /\ pc' = "collect"
        /\ UNCHANGED <<pushed, epoch, committed, work, wpc, wstate>>
    BY <1>5 DEF TakeTransaction, Pop, producer, worker
  <2>4. 1 .. taken + 1 = (1 .. taken) \cup {taken + 1} /\ taken + 1 \notin 1 .. taken
    BY <1>t
  <2>5. \A w \in WorkerId : Loaded(w)' <=> Loaded(w)
    BY <1>l, <2>3
  <2>6. LoadInv'
    <3>1. load' \subseteq 1 .. taken' /\ committed \subseteq 1 .. taken' /\ load' # {}
      BY <1>p, <2>3, <2>4 DEF LoadInv
    <3>2. load' \cap committed = {}
      BY <1>p, <2>3, <2>4, Zenon DEF LoadInv
    <3>3. \A i \in load' : pushed[i] = epoch
      BY <1>p, <2>2, <2>3, Zenon DEF LoadInv
    <3> QED
      BY <2>3, <3>1, <3>2, <3>3 DEF LoadInv
  <2>7. OwnInv'
    BY <1>p, <2>3, <2>4, <2>5 DEF OwnInv
  <2>8. ApartInv'
    BY <1>p, <2>3, <2>5 DEF ApartInv
  <2>9. CoverInv'
    BY <1>p, <2>3, <2>4, <2>5 DEF CoverInv
  <2> QED
    BY <2>6, <2>7, <2>8, <2>9 DEF WorkInv
<1>6. CASE CloseWorkload
  BY <1>6, <1>l, <1>s DEF CloseWorkload, At, producer, worker
<1>7. ASSUME NEW w \in WorkerId, DeployWorkload(w) PROVE WorkInv'
  <2>1. ~Loaded(w) /\ load # {}
    BY <1>7, <1>p, PlaceFacts DEF DeployWorkload, At, Ready, LoadInv
  <2>2. Loaded(w)' /\ \A v \in WorkerId \ {w} : Loaded(v)' <=> Loaded(v)
    BY <1>7, <1>p, TypeFacts DEF DeployWorkload, Loaded
  <2> QED
    BY <1>7, <2>1, <2>2, Deployed DEF DeployWorkload, producer
<1>8. CASE NewWorker
  <2>1. PICK w \in WorkerId : w = workers + 1
    BY <1>8, RoomForWorker DEF NewWorker, At
  <2>2. ~Loaded(w)
    <3>1. Absent(w)
      BY <1>t, <2>1, Parts DEF AbsentInv
    <3> QED
      BY <3>1 DEF Absent, In, Loaded
  <2>3. /\ wpc' = [wpc EXCEPT ![w] = "run"] /\ work' = [work EXCEPT ![w] = load]
        /\ UNCHANGED <<wstate, pushed, taken, epoch, committed>>
        /\ pc = "deploy" /\ pc' = "assigned" /\ load' = {}
    BY <1>8, <2>1 DEF NewWorker, At, producer
  <2>4. Loaded(w)' /\ \A v \in WorkerId \ {w} : Loaded(v)' <=> Loaded(v)
    <3>1. wpc'[w] = "run" /\ \A v \in WorkerId \ {w} : wpc'[v] = wpc[v]
      BY <1>p, <2>3, TypeFacts
    <3> QED
      BY <2>3, <3>1 DEF Loaded
  <2>5. load # {}
    BY <1>p, <2>3 DEF LoadInv
  <2> QED
    BY <2>2, <2>3, <2>4, <2>5, Deployed
<1>9. CASE WorkerAssigned \/ StartWorker
  <2>1. /\ UNCHANGED <<pushed, taken, epoch, load, work, committed, wpc, wstate>>
        /\ pc \notin {"collect", "deploy"} /\ pc' \notin {"collect", "deploy"}
    BY <1>9 DEF WorkerAssigned, StartWorker, At, producer, worker
  <2> QED
    BY <1>l, <1>s, <2>1
<1>10. CASE Broadcast \/ FinishBroadcast \/ Sync
  <2>1. /\ UNCHANGED <<pushed, taken, epoch, load, work, committed, wpc, wstate>>
        /\ pc \notin {"collect", "deploy"} /\ pc' \notin {"collect", "deploy"}
    BY <1>10 DEF Broadcast, FinishBroadcast, Sync, At, producer, worker
  <2> QED
    BY <1>l, <1>s, <2>1
<1>11. CASE FinishRead \/ EpochApproved \/ Exit
  <2>1. /\ UNCHANGED <<pushed, taken, epoch, load, work, committed, wpc, wstate>>
        /\ pc \notin {"collect", "deploy"} /\ pc' \notin {"collect", "deploy"}
    BY <1>11 DEF FinishRead, EpochApproved, Exit, At, producer, worker
  <2> QED
    BY <1>l, <1>s, <2>1
<1>12. CASE FinishEpoch
  <2>1. (\A w \in WorkerId : ~Loaded(w)) /\ load = {} /\ committed = 1 .. taken
    BY <1>12, EpochIsDone
  <2>2. /\ UNCHANGED <<taken, load, work, committed, wpc, wstate>>
        /\ pc' \notin {"collect", "deploy"}
    BY <1>12 DEF FinishEpoch, worker
  <2>3. \A w \in WorkerId : ~Loaded(w)'
    BY <1>l, <2>1, <2>2
  <2>4. LoadInv' /\ OwnInv' /\ ApartInv' /\ CoverInv'
    BY <2>1, <2>2, <2>3 DEF LoadInv, OwnInv, ApartInv, CoverInv
  <2> QED
    BY <2>4 DEF WorkInv
<1>13. ASSUME NEW w \in WorkerId, WorkerStep(w) PROVE WorkInv'
  <2>1. /\ UNCHANGED <<pushed, taken, epoch, pc, load, work>>
        /\ \A v \in WorkerId \ {w} : wpc'[v] = wpc[v] /\ wstate'[v] = wstate[v]
    BY <1>13, <1>p, WorkerMoves DEF producer, thread
  <2>2. \A v \in WorkerId \ {w} : Loaded(v)' <=> Loaded(v)
    BY <2>1 DEF Loaded
  <2>3. CASE wpc[w] # "commit"
    <3>1. committed' = committed
      BY <1>13, <1>p, <2>3, WorkerMoves
    <3>2. Loaded(w)' <=> Loaded(w)
      BY <1>13, <1>p, <2>3, WorkerMoves, PlaceFacts DEF Loaded
    <3> QED
      BY <1>s, <2>1, <2>2, <3>1, <3>2
  <2>4. CASE wpc[w] = "commit"
    <3>1. Loaded(w) /\ ~Loaded(w)'
      BY <1>13, <1>p, <2>4, WorkerMoves, PlaceFacts DEF Loaded
    <3>2. committed' = committed \cup work[w]
      BY <1>13, <1>p, <2>4, WorkerMoves
    <3>3. LoadInv'
      BY <1>p, <2>1, <3>1, <3>2 DEF LoadInv, OwnInv
    <3>4. OwnInv'
      BY <1>p, <2>1, <2>2, <3>1, <3>2 DEF OwnInv, ApartInv
    <3>5. ApartInv'
      BY <1>p, <2>1, <2>2, <3>1 DEF ApartInv
    <3>6. CoverInv'
      BY <1>p, <2>1, <2>2, <3>1, <3>2 DEF CoverInv
    <3> QED
      BY <3>3, <3>4, <3>5, <3>6 DEF WorkInv
  <2> QED
    BY <2>3, <2>4
<1> QED
  BY <1>1, <1>2, <1>3, <1>4, <1>5, <1>6, <1>7, <1>8, <1>9, <1>10, <1>11, <1>12, <1>13
     DEF Next, CoordinatorStep, Rest

-----------------------------------------------------------------------------
(* The theorems. *)

\* The initial state satisfies the invariant.
LEMMA InitIInv == Init => IInv
<1> SUFFICES ASSUME Init PROVE IInv
  OBVIOUS
<1> USE ConstantsAssumption DEF Init, WorkerId
<1>1. TypeOK
  <2>1. pushed \in Seq(Nat) /\ Len(pushed) = 0
    OBVIOUS
  <2>2. crashed \in BOOLEAN /\ stopped \in BOOLEAN
    OBVIOUS
  <2>3. /\ wpc \in [WorkerId -> {"none", "run", "waitRead", "read", "waitCommit",
                                  "commit", "exited"}]
        /\ wstate \in [WorkerId -> {"READY", "ASSIGNED", "FINISH_READ", "EXITED"}]
        /\ gstate \in [WorkerId -> {"START", "Aria_READ", "Aria_COMMIT", "EXIT"}]
        /\ work \in [WorkerId -> SUBSET Tx]
    OBVIOUS
  <2>4. /\ cacheEpoch = 1 /\ taken = 0 /\ epoch \in Nat /\ pc = "create" /\ stage = "read"
        /\ visit = 1 /\ load = {} /\ target = 0 /\ workers = 0
        /\ committed = {} /\ announced = {}
    OBVIOUS
  <2> QED
    <3> HIDE DEF Init
    <3> QED
      BY <2>1, <2>2, <2>3, <2>4 DEF TypeOK, Signal
<1>2. PhaseInv
  BY DEF PhaseInv, VisitInv, AbsentInv, PlaceInv, Absent, In
<1>3. QueueInv
  <2>1. Len(pushed) = 0 /\ LastEpoch = StartupEpoch
    BY DEF LastEpoch
  <2> QED
    BY <2>1 DEF QueueInv, SortedInv, OverInv, CompleteInv, Assigning
<1>4. WorkInv
  BY DEF WorkInv, LoadInv, OwnInv, ApartInv, CoverInv, Loaded
<1> QED
  BY <1>1, <1>2, <1>3, <1>4 DEF IInv

\* The invariant holds in every reachable state.
THEOREM InvariantTheorem == Spec => []IInv
<1>1. IInv /\ [Next]_vars => IInv'
  BY TypeStep, PhaseStep, QueueStep, WorkStep DEF IInv
<1> QED
  BY <1>1, InitIInv, PTL DEF Spec

\* Types are kept: in particular there are never more workers than transactions, however
\* few of the workers are READY when deployWorkload looks for one.
THEOREM TypeTheorem == Spec => []TypeOK
<1>1. IInv => TypeOK
  BY DEF IInv
<1> QED
  BY <1>1, InvariantTheorem, PTL

\* No worker commits while another one reads, although every worker starts to read as
\* soon as it has a workload: readPhase waits for all of them before commitPhase
\* begins, and commitPhase for all of them before assignWorkloadPhase starts a new one.
THEOREM PhasesExcludeTheorem == Spec => []PhasesExclude
<1>1. ASSUME IInv PROVE PhasesExclude
  <2> SUFFICES ASSUME NEW w \in WorkerId, NEW v \in WorkerId, wpc[w] = "commit"
               PROVE  wpc[v] # "read"
    BY DEF PhasesExclude
  <2> USE DEF In, Absent, Fresh, Waiting, Started, HasRead, Released, Idle, Told, Gone
  <2>1. stage \in {"read", "commit", "exit"} /\ workers \in Nat /\ visit \in Nat
    BY <1>1, Parts, TypeFacts
  <2>2. w <= workers /\ Place(w)
    BY <1>1, <2>1, Parts, ConstantsAssumption DEF AbsentInv, PlaceInv, WorkerId
  <2>3. ~Assigning /\ stage = "commit"
    BY <2>1, <2>2 DEF Place, PlaceAssigning, PlaceRead, PlaceExit
  <2>4. CASE v > workers
    BY <1>1, <2>4, Parts DEF AbsentInv
  <2>5. CASE v <= workers
    <3>1. Place(v)
      BY <1>1, <2>5, Parts DEF PlaceInv
    <3> QED
      BY <2>3, <3>1 DEF Place, PlaceCommit
  <2> QED
    BY <2>1, <2>4, <2>5, ConstantsAssumption DEF WorkerId
<1> QED
  BY <1>1, InvariantTheorem, PTL

\* A worker that reads or commits does so for transactions of the current epoch that
\* nobody else has and that were not committed before, however createWorkload cuts the
\* queue.
THEOREM WorkOnceTheorem == Spec => []WorkOnce
<1>1. ASSUME IInv PROVE WorkOnce
  <2>1. \A w \in Busy : w \in WorkerId /\ Loaded(w)
    BY <1>1, PlaceFacts DEF Busy, Loaded
  <2> QED
    BY <1>1, <2>1, Parts, Zenon DEF WorkOnce, OwnInv, ApartInv
<1> QED
  BY <1>1, InvariantTheorem, PTL

\* When the coordinator announces an epoch, all of its transactions are committed and
\* none is still to come, though it only knows that the epoch is complete from the first
\* transaction of a later one.
THEOREM AnnouncedCompleteTheorem == Spec => []AnnouncedComplete
<1>1. ASSUME IInv PROVE AnnouncedComplete
  BY <1>1, Parts DEF OverInv, AnnouncedComplete
<1> QED
  BY <1>1, InvariantTheorem, PTL

\* createWorkload never meets a transaction of an epoch that is over.
THEOREM NoLateTransactionTheorem == Spec => []NoLateTransaction
<1>1. ASSUME IInv PROVE NoLateTransaction
  <2> SUFFICES ASSUME taken < Len(pushed), pushed[taken + 1] < epoch PROVE FALSE
    BY <1>1, Parts, TypeFacts, QueueFacts DEF NoLateTransaction, Front, FrontEpoch
  <2>1. taken \in Nat /\ taken + 1 \in 1 .. Len(pushed)
    BY <1>1, Parts, TypeFacts, QueueFacts
  <2>2. taken + 1 \in committed
    BY <1>1, <2>1, Parts DEF OverInv
  <2> QED
    BY <1>1, <2>1, <2>2, Parts DEF LoadInv
<1> QED
  BY <1>1, InvariantTheorem, PTL

\* The workers are gone when the destructor returns.
THEOREM ExitTheorem == Spec => []ExitJoinsAll
<1>1. ASSUME IInv PROVE ExitJoinsAll
  <2> SUFFICES ASSUME pc = "done", NEW w \in 1 .. workers PROVE wpc[w] = "exited"
    BY DEF ExitJoinsAll
  <2>1. w \in WorkerId /\ w <= workers /\ stage = "exit"
    BY <1>1, Parts, ConstantsAssumption DEF VisitInv, WorkerId
  <2>2. Place(w) /\ ~Assigning
    BY <1>1, <2>1, Parts DEF PlaceInv, Assigning
  <2> QED
    BY <2>1, <2>2 DEF Place, PlaceExit, Gone, In
<1> QED
  BY <1>1, InvariantTheorem, PTL
=============================================================================
