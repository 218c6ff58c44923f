------------------------ MODULE AriaExecution_proofs ------------------------
(***************************************************************************)
(* The safety properties of AriaExecution for any number of transactions,  *)
(* keys and workers, by way of the inductive invariant IInv: first facts   *)
(* about types, about what the commit rule guarantees from the batch alone *)
(* and about steps that leave some of the state alone; then every step of  *)
(* the read phase, and every step of the commit phase, preserves IInv.     *)
(***************************************************************************)
EXTENDS AriaExecution, TLAPS

\* The invariant is the conjunction of its parts.
LEMMA Parts ==
    ASSUME IInv
    PROVE  /\ TypeOK /\ KeysInv /\ StoreInv /\ LoadInv /\ TableInv /\ ResultInv
           /\ DecisionInv /\ CommittedWritesSurvive /\ UntouchedInv
  BY DEF IInv

\* The types of the variables.
LEMMA TypeFacts ==
    ASSUME TypeOK
    PROVE  /\ txn \in [Tid -> Transaction]
           /\ table \in [Kinds -> [Key -> Tid \cup {0}]]
           /\ phase \in {"Aria_READ", "Aria_COMMIT"}
           /\ running \in [Worker -> Tid \cup {0}]
           /\ todo \in [Worker -> [Kinds -> SUBSET Key]]
           /\ loaded \in [Worker -> Register \cup {NoRegister}]
           /\ DOMAIN result = Tid
           /\ executed \subseteq Tid /\ decided \subseteq Tid
  BY DEF TypeOK

\* Transaction ids, and what a register holds, are natural numbers.
LEMMA TidNat ==
    /\ \A t \in Tid : t \in Nat /\ t # 0
    /\ \A x \in Tid \cup {0} : x \in Nat
  BY TidAssumption

\* The two fields of a transaction that hold keys, selected by kind.
LEMMA KeySets ==
    ASSUME NEW d \in Transaction, NEW kind \in Kinds
    PROVE  /\ d[kind] \subseteq Key
           /\ d.read \subseteq Key
           /\ d.write \subseteq Key
           /\ d.ok \in BOOLEAN
           /\ d.worker \in Worker
           /\ d["read"] = d.read
           /\ d["write"] = d.write
  BY DEF Transaction, Kinds

\* Every step keeps the executor's state well typed.
LEMMA TypeStep == TypeOK /\ [Next]_vars => TypeOK'
<1> SUFFICES ASSUME TypeOK, [Next]_vars PROVE TypeOK'
  OBVIOUS
<1> USE DEF TypeOK
<1>1. CASE UNCHANGED vars
  BY <1>1 DEF vars
<1>2. ASSUME NEW w \in Worker, NEW t \in Tid, InvokeChaincodeFails(w, t)
      PROVE  TypeOK'
  BY <1>2 DEF InvokeChaincodeFails
<1>3. ASSUME NEW w \in Worker, NEW t \in Tid, InvokeChaincode(w, t)
      PROVE  TypeOK'
  BY <1>3, KeySets DEF InvokeChaincode
<1>4. ASSUME NEW w \in Worker, NEW kind \in Kinds, NEW k \in Key,
             LoadRegister(w, kind, k)
      PROVE  TypeOK'
  BY <1>4 DEF LoadRegister, Register
<1>5. ASSUME NEW w \in Worker, KeepRegister(w) PROVE TypeOK'
  BY <1>5 DEF KeepRegister, NextRegister, Register, NoRegister
<1>6. ASSUME NEW w \in Worker, ExchangeRegister(w) PROVE TypeOK'
  BY <1>6 DEF ExchangeRegister, NextRegister, Register, NoRegister
<1>7. ASSUME NEW w \in Worker, RetryRegister(w) PROVE TypeOK'
  BY <1>7 DEF RetryRegister, Reload, Register, NoRegister
<1>8. ASSUME NEW w \in Worker, FinishReserve(w) PROVE TypeOK'
  BY <1>8 DEF FinishReserve
<1>9. CASE StartCommit
  BY <1>9 DEF StartCommit
<1>10. ASSUME NEW w \in Worker, NEW t \in Tid, AbortFailed(w, t) PROVE TypeOK'
  BY <1>10 DEF AbortFailed
<1>11. ASSUME NEW w \in Worker, NEW t \in Tid, AbortTransaction(w, t) PROVE TypeOK'
  BY <1>11 DEF AbortTransaction
<1>12. ASSUME NEW w \in Worker, NEW t \in Tid, CommitUpdate(w, t) PROVE TypeOK'
  BY <1>12, KeySets DEF CommitUpdate, Kinds
<1>13. ASSUME NEW w \in Worker, NEW k \in Key, UpdateWriteSet(w, k) PROVE TypeOK'
  BY <1>13 DEF UpdateWriteSet, Kinds
<1>14. ASSUME NEW w \in Worker, FinishCommit(w) PROVE TypeOK'
  BY <1>14 DEF FinishCommit
<1>15. CASE EpochOver
  BY <1>15 DEF EpochOver, vars
<1> QED
  BY <1>1, <1>2, <1>3, <1>4, <1>5, <1>6, <1>7, <1>8, <1>9, <1>10, <1>11,
     <1>12, <1>13, <1>14, <1>15 DEF Next, ReadStep, CommitStep
-----------------------------------------------------------------------------
(* What the commit rule guarantees, from the batch alone. *)

\* Two transactions that the rule lets through write different keys: the larger
\* one would have a write-after-write dependency.
LEMMA CommitsDisjoint ==
    ASSUME TypeOK, NEW t \in Tid, NEW u \in Tid, t # u,
           Decision(t) = "COMMIT", Decision(u) = "COMMIT"
    PROVE  txn[t].write \cap txn[u].write = {}
<1>1. txn[t].ok /\ txn[u].ok /\ ~WAW(t) /\ ~WAW(u)
  BY DEF Decision
<1>2. t < u \/ u < t
  BY TidAssumption
<1>3. txn[t]["write"] = txn[t].write /\ txn[u]["write"] = txn[u].write
  BY KeySets, TypeFacts
<1> QED
  BY <1>1, <1>2, <1>3 DEF WAW, Conflicts

\* A transaction that has read a key comes, in the serial order, before the
\* other committed transaction that writes it.
LEMMA ReaderBeforeWriter ==
    ASSUME TypeOK, NEW t \in Tid, NEW u \in Tid, t # u,
           Decision(t) = "COMMIT", Decision(u) = "COMMIT",
           txn[t].read \cap txn[u].write # {}
    PROVE  Before(t, u)
<1>1. /\ txn[t].ok /\ ~(WAR(t) /\ RAW(t))
      /\ txn[u].ok /\ ~(WAR(u) /\ RAW(u))
  BY DEF Decision
<1>2. txn[t]["read"] = txn[t].read /\ txn[u]["write"] = txn[u].write
  BY KeySets, TypeFacts
<1>3. CASE t < u
  <2>1. WAR(u)
    BY <1>1, <1>2, <1>3 DEF WAR, Conflicts
  <2> QED
    BY <1>1, <1>3, <2>1 DEF Before
<1>4. CASE u < t
  <2>1. RAW(t)
    BY <1>1, <1>2, <1>4 DEF RAW, Conflicts
  <2> QED
    BY <1>1, <1>4, <2>1 DEF Before
<1> QED
  BY <1>3, <1>4, TidAssumption

\* Before is a strict total order on the epoch's transactions.
LEMMA BeforeIsOrder ==
    ASSUME NEW t \in Tid, NEW u \in Tid, NEW v \in Tid
    PROVE  /\ ~Before(t, t)
           /\ t # u => Before(t, u) \/ Before(u, t)
           /\ Before(t, u) /\ Before(u, v) => Before(t, v)
  BY TidAssumption DEF Before

\* Once every transaction has reserved, the reserve table answers the question
\* dependencyAnalysis asks as the batch does.
LEMMA TableAnswers ==
    ASSUME TypeOK, TableInv, executed = Tid,
           NEW t \in Tid, NEW kind \in Kinds, NEW keys \in SUBSET Key
    PROVE  ReservedBySmaller(keys, kind, t) <=> Conflicts(t, keys, kind)
<1>1. ASSUME NEW k \in keys, table[kind][k] < t, table[kind][k] # 0
      PROVE  Conflicts(t, keys, kind)
  <2>1. table[kind][k] \in Tid
    BY <1>1, TypeFacts
  <2>2. Reserves(table[kind][k], kind, k)
    BY <1>1 DEF TableInv
  <2> QED
    BY <1>1, <2>1, <2>2 DEF Conflicts, Reserves
<1>2. ASSUME NEW u \in Tid, u < t, txn[u].ok, txn[u][kind] \cap keys # {}
      PROVE  ReservedBySmaller(keys, kind, t)
  <2>1. PICK k \in keys : k \in txn[u][kind]
    BY <1>2
  <2>2. table[kind][k] # 0 /\ table[kind][k] <= u
    BY <1>2, <2>1 DEF TableInv, Reserves, HeldUpTo
  <2>3. table[kind][k] \in Nat /\ u \in Nat /\ t \in Nat
    <3>1. table[kind][k] \in Tid \cup {0}
      BY TypeFacts
    <3> QED
      BY <3>1, TidNat
  <2>4. table[kind][k] < t
    BY <1>2, <2>2, <2>3
  <2> QED
    BY <2>2, <2>4 DEF ReservedBySmaller
<1> QED
  BY <1>1, <1>2 DEF ReservedBySmaller, Conflicts

\* commitList's verdict is the one the batch determines.
LEMMA VerdictIsDecision ==
    ASSUME TypeOK, TableInv, executed = Tid, NEW t \in Tid, txn[t].ok
    PROVE  Decision(t) = IF MustAbort(dependencyAnalysis(t)) THEN "ABORT" ELSE "COMMIT"
<1>1. txn[t].read \in SUBSET Key /\ txn[t].write \in SUBSET Key
  BY KeySets, TypeFacts DEF Kinds
<1>2. /\ dependencyAnalysis(t).waw <=> WAW(t)
      /\ dependencyAnalysis(t).war <=> WAR(t)
      /\ dependencyAnalysis(t).raw <=> RAW(t)
  BY <1>1, TableAnswers DEF dependencyAnalysis, WAW, WAR, RAW, Kinds
<1> QED
  BY <1>2 DEF Decision, MustAbort
-----------------------------------------------------------------------------
(* What a step preserves that leaves some of the state alone. *)

\* What depends on the batch alone stays as it is, for no step changes the batch.
LEMMA BatchFrame ==
    ASSUME txn' = txn
    PROVE  /\ \A t \in Tid : Decision(t)' = Decision(t)
           /\ \A t \in Tid, kind \in Kinds, k \in Key :
                 Reserves(t, kind, k)' = Reserves(t, kind, k)
  BY DEF Decision, WAW, WAR, RAW, Conflicts, Reserves

\* A step that leaves the database alone leaves the untouched keys alone.
LEMMA UntouchedFrame ==
    ASSUME UntouchedInv, UNCHANGED <<txn, db>>
    PROVE  UntouchedInv'
  BY BatchFrame DEF UntouchedInv

\* A step that touches neither the results nor the database.
LEMMA OutcomeFrame ==
    ASSUME decided \subseteq Tid, DecisionInv, CommittedWritesSurvive, UntouchedInv,
           UNCHANGED <<txn, decided, result, db>>
    PROVE  DecisionInv' /\ CommittedWritesSurvive' /\ UntouchedInv'
<1>1. DecisionInv'
  BY BatchFrame DEF DecisionInv
<1>2. CommittedWritesSurvive'
  BY DEF CommittedWritesSurvive, Committed
<1> QED
  BY <1>1, <1>2, UntouchedFrame

\* A worker goes on with its transaction: it has fewer keys to do.
LEMMA KeysFrame ==
    ASSUME KeysInv, UNCHANGED <<txn, running>>,
           \A v \in Worker, kind \in Kinds : todo'[v][kind] \subseteq todo[v][kind]
    PROVE  KeysInv'
  BY DEF KeysInv

\* Nothing is stored while chaincodes run.
LEMMA ReadPhase ==
    ASSUME StoreInv, phase = "Aria_READ"
    PROVE  \A v \in Worker : running[v] \notin executed
  BY DEF StoreInv, Storing

\* A step of the read phase keeps the invariant on what is stored.
LEMMA ReadFrame ==
    ASSUME phase' = "Aria_READ", \A v \in Worker : running'[v] \notin executed'
    PROVE  StoreInv'
  BY DEF StoreInv, Storing

\* The registers workers have loaded stay as they are.
LEMMA LoadFrame ==
    ASSUME LoadInv, table' = table,
           \A v \in Worker : loaded'[v].kind # "none" =>
               /\ loaded'[v] = loaded[v]
               /\ todo'[v] = todo[v]
               /\ Executing(v) => Executing(v)'
    PROVE  LoadInv'
  BY DEF LoadInv, HeldUpTo

\* One worker has loaded what is in the table.
LEMMA LoadOne ==
    ASSUME LoadInv, UNCHANGED <<table, todo>>, \A v \in Worker : Executing(v)' <=> Executing(v),
           NEW w \in Worker, NEW kind \in Kinds, NEW k \in Key, table[kind][k] \in Nat,
           Executing(w), k \in todo[w][kind],
           loaded'[w].kind = kind, loaded'[w].key = k, loaded'[w].old = table[kind][k],
           \A v \in Worker \ {w} : loaded'[v] = loaded[v]
    PROVE  LoadInv'
<1>1. ASSUME NEW v \in Worker, loaded'[v].kind # "none"
      PROVE  /\ Executing(v) /\ loaded'[v].key \in todo[v][loaded'[v].kind]
             /\ loaded'[v].old # 0 => HeldUpTo(loaded'[v].kind, loaded'[v].key, loaded'[v].old)
  <2>1. CASE v = w
    BY <2>1 DEF HeldUpTo
  <2>2. CASE v # w
    BY <1>1, <2>2 DEF LoadInv
  <2> QED
    BY <2>1, <2>2
<1> QED
  BY <1>1 DEF LoadInv, HeldUpTo

\* A step that reserves nothing and finishes nothing.
LEMMA TableFrame ==
    ASSUME TableInv, UNCHANGED <<txn, table, running, todo, executed>>
    PROVE  TableInv'
  BY DEF TableInv, Executing, HeldUpTo, Reserves

\* A step that leaves the table alone and finishes or starts only what is reserved.
LEMMA TableKept ==
    ASSUME TableInv, UNCHANGED <<txn, table>>,
           \A t \in executed' \ executed, kind \in Kinds, k \in Key :
               Reserves(t, kind, k) => HeldUpTo(kind, k, t),
           \A v \in Worker, kind \in Kinds, k \in Key :
               Executing(v)' /\ Reserves(running'[v], kind, k) /\ k \notin todo'[v][kind]
                   => \/ Executing(v) /\ running'[v] = running[v] /\ k \notin todo[v][kind]
                      \/ HeldUpTo(kind, k, running'[v])
    PROVE  TableInv'
<1>1. ASSUME NEW v \in Worker, NEW kind \in Kinds, NEW k \in Key, Executing(v)',
             Reserves(running'[v], kind, k), k \notin todo'[v][kind]
      PROVE  HeldUpTo(kind, k, running'[v])
  BY <1>1 DEF TableInv
<1>2. ASSUME NEW kind \in Kinds, NEW k \in Key
      PROVE  /\ table[kind][k] # 0 => Reserves(table[kind][k], kind, k)
             /\ \A t \in executed' : Reserves(t, kind, k) => HeldUpTo(kind, k, t)
  BY DEF TableInv
<1> QED
  BY <1>1, <1>2 DEF TableInv, HeldUpTo, Reserves

\* The transactions that are being stored stay so, and no other one becomes so.
LEMMA StoreKept ==
    ASSUME StoreInv, executed = Tid, UNCHANGED <<txn, db, phase, executed>>,
           \A v \in Worker : ~Executing(v)',
           \A v \in Worker : Storing(v)' =>
               /\ running'[v] = running[v] /\ todo'[v] = todo[v] /\ running[v] \notin decided'
    PROVE  StoreInv'
<1>1. ASSUME NEW v \in Worker, Storing(v)'
      PROVE  /\ phase = "Aria_COMMIT" /\ Decision(running[v]) = "COMMIT"
             /\ \A k \in txn[running[v]].write \ todo[v]["write"] :
                    db[k] = Writes(running[v], txn[running[v]], Snapshot)[k]
  <2>1. Storing(v)
    BY <1>1 DEF Storing
  <2> QED
    BY <2>1 DEF StoreInv
<1>2. ASSUME NEW v \in Worker, Storing(v)' PROVE Decision(running[v])' = "COMMIT"
  <2>1. running[v] \in Tid
    BY <1>2 DEF Storing
  <2> QED
    BY <1>1, <1>2, <2>1, BatchFrame
<1> QED
  BY <1>1, <1>2 DEF StoreInv

\* In the commit phase every transaction has reserved and no register is loaded.
LEMMA CommitPhase ==
    ASSUME IInv, phase = "Aria_COMMIT"
    PROVE  executed = Tid /\ \A v \in Worker : loaded[v].kind = "none"
<1>1. executed = Tid
  BY Parts DEF ResultInv
<1>2. \A v \in Worker : ~Executing(v)
  BY Parts DEF StoreInv
<1> QED
  BY <1>1, <1>2, Parts DEF LoadInv

\* A step of the commit phase leaves the reserve table alone.
LEMMA CommitFrame ==
    ASSUME TypeOK', TableInv, executed = Tid, UNCHANGED <<txn, table, executed, loaded>>,
           \A v \in Worker : loaded[v].kind = "none"
    PROVE  TableInv' /\ LoadInv' /\ \A v \in Worker : ~Executing(v)'
<1>1. \A v \in Worker : ~Executing(v)'
  <2>1. running' \in [Worker -> Tid \cup {0}]
    BY DEF TypeOK
  <2> QED
    BY <2>1 DEF Executing
<1>2. TableInv'
  BY <1>1 DEF TableInv, HeldUpTo, Reserves
<1>3. LoadInv'
  BY DEF LoadInv
<1> QED
  BY <1>1, <1>2, <1>3
-----------------------------------------------------------------------------
(* The steps of executeList and reserveRWSet, and the start of the commit phase. *)

\* A failing chaincode reserves nothing and decides nothing.
LEMMA InvokeChaincodeFailsStep ==
    ASSUME IInv, TypeOK', NEW w \in Worker, NEW t \in Tid, InvokeChaincodeFails(w, t)
    PROVE  IInv'
<1> USE DEF InvokeChaincodeFails, Pick
<1>1. phase = "Aria_READ" /\ decided = {} /\ t # 0
  BY TidNat, Parts, TypeFacts DEF ResultInv
<1>2. \A v \in Worker : running[v] # t /\ running[v] \notin executed'
  <2>1. \A v \in Worker : running[v] \notin executed
    BY <1>1, ReadPhase, Parts
  <2> QED
    BY <1>1, <2>1, Parts DEF KeysInv
<1>3. KeysInv'
  BY KeysFrame, Parts
<1>4. StoreInv'
  BY <1>1, <1>2, ReadFrame
<1>5. LoadInv'
  BY <1>2, LoadFrame, Parts DEF Executing
<1>6. TableInv'
  <2>1. \A kind \in Kinds, k \in Key : ~Reserves(t, kind, k)
    BY DEF Reserves
  <2> QED
    BY <1>2, <2>1, Parts, TableKept DEF Executing
<1>7. ResultInv'
  <2>1. result'[t] = "ABORT_NO_RETRY" /\ \A u \in Tid \ {t} : result'[u] = result[u]
    BY Parts, TypeFacts
  <2> QED
    BY <1>1, <2>1, Parts DEF ResultInv
<1>8. DecisionInv' /\ CommittedWritesSurvive'
  BY <1>1 DEF DecisionInv, CommittedWritesSurvive, Committed
<1>9. UntouchedInv'
  BY Parts, UntouchedFrame
<1> QED
  BY <1>3, <1>4, <1>5, <1>6, <1>7, <1>8, <1>9 DEF IInv

\* A chaincode runs only while the database is the previous epoch's.
LEMMA InvokeChaincodeStep ==
    ASSUME IInv, TypeOK', NEW w \in Worker, NEW t \in Tid, InvokeChaincode(w, t)
    PROVE  IInv'
<1> USE DEF InvokeChaincode, Pick
<1>1. phase = "Aria_READ" /\ decided = {} /\ t # 0 /\ db = Snapshot
  BY TidNat, Parts, TypeFacts DEF ResultInv
<1>2. /\ running'[w] = t
      /\ \A kind \in Kinds : todo'[w][kind] = txn[t][kind]
  BY Parts, TypeFacts
<1>3. ASSUME NEW v \in Worker, v # w
      PROVE  running'[v] = running[v] /\ todo'[v] = todo[v]
  BY <1>3, Parts, TypeFacts
<1>4. loaded[w].kind = "none"
  BY Parts DEF LoadInv, Executing
<1>5. KeysInv'
  BY <1>1, <1>2, <1>3, Parts DEF KeysInv
<1>6. StoreInv'
  <2>1. \A v \in Worker : running[v] \notin executed
    BY <1>1, ReadPhase, Parts
  <2> QED
    BY <1>1, <1>2, <1>3, <2>1, ReadFrame
<1>7. LoadInv'
  BY <1>3, <1>4, LoadFrame, Parts DEF Executing
<1>8. TableInv'
  <2>1. \A kind \in Kinds, k \in Key : Reserves(t, kind, k) => k \in todo'[w][kind]
    BY <1>2 DEF Reserves
  <2> QED
    BY <1>2, <1>3, <2>1, Parts, TableKept DEF Executing
<1>9. ResultInv'
  <2>1. ASSUME NEW u \in Tid,
               txn[u].ok /\ (u \in executed \/ \E v \in Worker : running'[v] = u)
        PROVE  kvRWSet'[u] = Writes(u, txn[u], Snapshot)
    <3>1. CASE u = t
      BY <1>1, <3>1, Parts DEF ResultInv
    <3>2. CASE u # t
      BY <1>2, <1>3, <2>1, <3>2, Parts DEF ResultInv
    <3> QED
      BY <3>1, <3>2
  <2>2. kvRWSet' = [u \in Tid |-> kvRWSet'[u]]
    BY Parts DEF ResultInv
  <2> QED
    BY <1>1, <2>1, <2>2, Parts DEF ResultInv
<1>10. DecisionInv' /\ CommittedWritesSurvive' /\ UntouchedInv'
  BY OutcomeFrame, Parts, TypeFacts
<1> QED
  BY <1>5, <1>6, <1>7, <1>8, <1>9, <1>10 DEF IInv

\* The value loaded is an upper bound of the register from now on.
LEMMA LoadRegisterStep ==
    ASSUME IInv, TypeOK', NEW w \in Worker, NEW kind \in Kinds, NEW k \in Key,
           LoadRegister(w, kind, k)
    PROVE  IInv'
<1> USE DEF LoadRegister
<1>1. table[kind][k] \in Nat
  BY TidNat, Parts, TypeFacts
<1>2. loaded'[w] = [kind |-> kind, key |-> k, old |-> table[kind][k]]
  BY Parts, TypeFacts
<1>3. ASSUME NEW v \in Worker, v # w PROVE loaded'[v] = loaded[v]
  BY <1>3, Parts, TypeFacts
<1>4. KeysInv'
  BY KeysFrame, Parts
<1>5. StoreInv'
  BY BatchFrame, Parts, TypeFacts DEF StoreInv, Executing, Storing
<1>6. LoadInv'
  <2>1. Executing(w) /\ \A v \in Worker : Executing(v)' <=> Executing(v)
    BY DEF Executing
  <2>2. UNCHANGED <<table, todo>> /\ k \in todo[w][kind]
    OBVIOUS
  <2>3. loaded'[w].kind = kind /\ loaded'[w].key = k /\ loaded'[w].old = table[kind][k]
    BY <1>2
  <2> HIDE DEF LoadRegister
  <2> QED
    BY <1>1, <1>3, <2>1, <2>2, <2>3, Parts, LoadOne
<1>7. TableInv'
  BY TableFrame, Parts
<1>8. ResultInv'
  BY Parts DEF ResultInv
<1>9. DecisionInv' /\ CommittedWritesSurvive' /\ UntouchedInv'
  BY OutcomeFrame, Parts, TypeFacts
<1> QED
  BY <1>4, <1>5, <1>6, <1>7, <1>8, <1>9 DEF IInv

\* A register left alone is held by a smaller transaction.
LEMMA KeepRegisterStep ==
    ASSUME IInv, TypeOK', NEW w \in Worker, KeepRegister(w)
    PROVE  IInv'
<1> DEFINE r == loaded[w]
<1> USE DEF KeepRegister, NextRegister
<1>1. /\ r \in Register
      /\ Executing(w) /\ r.key \in todo[w][r.kind]
      /\ r.old # 0 => HeldUpTo(r.kind, r.key, r.old)
  <2>1. r \in Register
    BY Parts, TypeFacts DEF NoRegister
  <2> QED
    BY <2>1, Parts DEF LoadInv
<1>2. r.kind \in Kinds /\ r.key \in Key /\ r.old \in Nat
  BY <1>1, TidNat DEF Register
<1>3. HeldUpTo(r.kind, r.key, running[w])
  <2>1. table[r.kind][r.key] \in Nat /\ running[w] \in Nat
    BY <1>2, TidNat, Parts, TypeFacts
  <2> QED
    BY <1>1, <1>2, <2>1 DEF HeldUpTo, HeldBySmaller
<1>4. ASSUME NEW v \in Worker, v # w
      PROVE  todo'[v] = todo[v] /\ loaded'[v] = loaded[v]
  BY <1>4, Parts, TypeFacts
<1>5. /\ todo'[w][r.kind] = todo[w][r.kind] \ {r.key}
      /\ \A kind \in Kinds \ {r.kind} : todo'[w][kind] = todo[w][kind]
      /\ loaded'[w].kind = "none"
  BY <1>2, Parts, TypeFacts DEF NoRegister
<1>6. phase = "Aria_READ"
  BY <1>1, Parts DEF StoreInv
<1>7. KeysInv'
  BY <1>4, <1>5, KeysFrame, Parts
<1>8. StoreInv'
  BY <1>6, ReadPhase, ReadFrame, Parts
<1>9. LoadInv'
  BY <1>4, <1>5, LoadFrame, Parts DEF Executing
<1>10. TableInv'
  <2>1. ASSUME NEW kind \in Kinds, NEW k \in Key, NEW v \in Worker,
               Executing(v), Reserves(running[v], kind, k), k \notin todo'[v][kind]
        PROVE  HeldUpTo(kind, k, running[v])
    <3>1. CASE k \notin todo[v][kind]
      BY <2>1, <3>1, Parts DEF TableInv
    <3>2. CASE k \in todo[v][kind]
      <4>1. v = w /\ kind = r.kind /\ k = r.key
        BY <1>4, <1>5, <2>1, <3>2
      <4> QED
        BY <1>3, <4>1
    <3> QED
      BY <3>1, <3>2
  <2> QED
    BY <2>1, Parts, TableKept DEF Executing
<1>11. ResultInv'
  BY Parts DEF ResultInv
<1>12. DecisionInv' /\ CommittedWritesSurvive' /\ UntouchedInv'
  BY OutcomeFrame, Parts, TypeFacts
<1> QED
  BY <1>7, <1>8, <1>9, <1>10, <1>11, <1>12 DEF IInv

\* A successful exchange lowers the register to the running transaction.
LEMMA ExchangeRegisterStep ==
    ASSUME IInv, TypeOK', NEW w \in Worker, ExchangeRegister(w)
    PROVE  IInv'
<1> DEFINE r == loaded[w]
           t == running[w]
<1> USE DEF ExchangeRegister, NextRegister
<1>1. r \in Register /\ Executing(w) /\ r.key \in todo[w][r.kind]
  <2>1. r \in Register
    BY Parts, TypeFacts DEF NoRegister
  <2> QED
    BY <2>1, Parts DEF LoadInv
<1>2. r.kind \in Kinds /\ r.key \in Key /\ r.old \in Nat
  BY <1>1, TidNat DEF Register
<1>3. t \in Tid /\ t \in Nat /\ t # 0
  BY <1>1, TidNat, Parts, TypeFacts DEF Executing
<1>4. Reserves(t, r.kind, r.key)
  BY <1>1, <1>2, <1>3, Parts DEF KeysInv, Reserves
<1>5. /\ table'[r.kind][r.key] = t
      /\ table[r.kind][r.key] = r.old
      /\ \A kind \in Kinds, k \in Key :
            ~(kind = r.kind /\ k = r.key) => table'[kind][k] = table[kind][k]
  BY <1>2, Parts, TypeFacts DEF Expected
\* A register that was held is held by a smaller transaction afterwards.
<1>6. ASSUME NEW kind \in Kinds, NEW k \in Key, NEW u \in Nat, HeldUpTo(kind, k, u)
      PROVE  table'[kind][k] # 0 /\ table'[kind][k] <= u
  <2>1. CASE kind = r.kind /\ k = r.key
    <3>1. r.old # 0 /\ r.old <= u /\ ~(r.old <= t /\ r.old # 0)
      BY <1>5, <1>6, <2>1 DEF HeldUpTo, HeldBySmaller
    <3> HIDE DEF ExchangeRegister, NextRegister
    <3> QED
      BY <1>2, <1>3, <1>5, <2>1, <3>1
  <2>2. CASE ~(kind = r.kind /\ k = r.key)
    BY <1>5, <1>6, <2>2 DEF HeldUpTo
  <2> QED
    BY <2>1, <2>2
<1>7. ASSUME NEW v \in Worker, v # w
      PROVE  todo'[v] = todo[v] /\ loaded'[v] = loaded[v]
  BY <1>7, Parts, TypeFacts
<1>8. /\ todo'[w][r.kind] = todo[w][r.kind] \ {r.key}
      /\ \A kind \in Kinds \ {r.kind} : todo'[w][kind] = todo[w][kind]
      /\ loaded'[w].kind = "none"
  BY <1>2, Parts, TypeFacts DEF NoRegister
<1>9. phase = "Aria_READ"
  BY <1>1, Parts DEF StoreInv
<1>10. KeysInv'
  BY <1>7, <1>8, KeysFrame, Parts
<1>11. StoreInv'
  BY <1>9, ReadPhase, ReadFrame, Parts
<1>12. LoadInv'
  <2>1. ASSUME NEW v \in Worker, loaded'[v].kind # "none"
        PROVE  /\ Executing(v)' /\ loaded'[v].key \in todo'[v][loaded'[v].kind]
               /\ loaded'[v].old # 0 =>
                     /\ table'[loaded'[v].kind][loaded'[v].key] # 0
                     /\ table'[loaded'[v].kind][loaded'[v].key] <= loaded'[v].old
    <3>1. v # w /\ loaded'[v] = loaded[v] /\ todo'[v] = todo[v]
      BY <1>7, <1>8, <2>1
    <3>2. /\ Executing(v) /\ loaded[v].key \in todo[v][loaded[v].kind]
          /\ loaded[v].old # 0 => HeldUpTo(loaded[v].kind, loaded[v].key, loaded[v].old)
      BY <2>1, <3>1, Parts DEF LoadInv
    <3>3. loaded[v] \in Register
      BY <2>1, <3>1, Parts, TypeFacts DEF NoRegister
    <3>4. loaded[v].kind \in Kinds /\ loaded[v].key \in Key /\ loaded[v].old \in Nat
      BY <3>3, TidNat DEF Register
    <3> QED
      BY <1>6, <3>1, <3>2, <3>4 DEF Executing
  <2> QED
    BY <2>1, ZenonT(30) DEF LoadInv, HeldUpTo
<1>13. TableInv'
  <2>1. ASSUME NEW kind \in Kinds, NEW k \in Key, table'[kind][k] # 0
        PROVE  Reserves(table'[kind][k], kind, k)
    BY <1>4, <1>5, <2>1, Parts DEF TableInv
  <2>2. ASSUME NEW kind \in Kinds, NEW k \in Key, NEW u \in executed, Reserves(u, kind, k)
        PROVE  table'[kind][k] # 0 /\ table'[kind][k] <= u
    <3>1. u \in Nat
      BY TidNat, Parts, TypeFacts
    <3>2. HeldUpTo(kind, k, u)
      BY <2>2, Parts DEF TableInv
    <3> QED
      BY <1>6, <3>1, <3>2
  <2>3. ASSUME NEW kind \in Kinds, NEW k \in Key, NEW v \in Worker,
               Executing(v), Reserves(running[v], kind, k), k \notin todo'[v][kind]
        PROVE  table'[kind][k] # 0 /\ table'[kind][k] <= running[v]
    <3>1. CASE k \notin todo[v][kind]
      <4>1. HeldUpTo(kind, k, running[v])
        BY <2>3, <3>1, Parts DEF TableInv
      <4>2. running[v] \in Nat
        BY TidNat, Parts, TypeFacts
      <4> QED
        BY <1>6, <4>1, <4>2
    <3>2. CASE k \in todo[v][kind]
      <4>1. v = w /\ kind = r.kind /\ k = r.key
        BY <1>7, <1>8, <2>3, <3>2
      <4> HIDE DEF ExchangeRegister, NextRegister
      <4> QED
        BY <1>3, <1>5, <4>1
    <3> QED
      BY <3>1, <3>2
  <2> QED
    BY <2>1, <2>2, <2>3, ZenonT(30) DEF TableInv, Executing, HeldUpTo, Reserves
<1>14. ResultInv'
  BY Parts DEF ResultInv
<1>15. DecisionInv' /\ CommittedWritesSurvive' /\ UntouchedInv'
  BY OutcomeFrame, Parts, TypeFacts
<1> QED
  BY <1>10, <1>11, <1>12, <1>13, <1>14, <1>15 DEF IInv

\* A failed exchange loads the current value.
LEMMA RetryRegisterStep ==
    ASSUME IInv, TypeOK', NEW w \in Worker, RetryRegister(w)
    PROVE  IInv'
<1> DEFINE r == loaded[w]
<1> USE DEF RetryRegister
<1>1. r \in Register /\ Executing(w) /\ r.key \in todo[w][r.kind]
  <2>1. r \in Register
    BY Parts, TypeFacts DEF NoRegister
  <2> QED
    BY <2>1, Parts, ZenonT(30) DEF LoadInv
<1>2. r.kind \in Kinds /\ r.key \in Key
  BY <1>1 DEF Register
<1>3. /\ loaded'[w].kind = r.kind
      /\ loaded'[w].key = r.key
      /\ loaded'[w].old = table[r.kind][r.key]
  BY Parts, TypeFacts DEF Reload
<1>4. table[r.kind][r.key] \in Nat
  BY <1>2, TidNat, Parts, TypeFacts
<1>5. ASSUME NEW v \in Worker, v # w PROVE loaded'[v] = loaded[v]
  BY <1>5, Parts, TypeFacts
<1>6. KeysInv'
  BY KeysFrame, Parts
<1>7. StoreInv'
  <2>1. phase = "Aria_READ"
    BY <1>1, Parts DEF StoreInv
  <2> QED
    BY <2>1, ReadPhase, ReadFrame, Parts
<1>8. LoadInv'
  <2>1. \A v \in Worker : Executing(v)' <=> Executing(v)
    BY DEF Executing
  <2> QED
    BY <1>1, <1>2, <1>3, <1>4, <1>5, <2>1, Parts, LoadOne
<1>9. TableInv'
  BY TableFrame, Parts
<1>10. ResultInv'
  BY Parts DEF ResultInv
<1>11. DecisionInv' /\ CommittedWritesSurvive' /\ UntouchedInv'
  BY OutcomeFrame, Parts, TypeFacts
<1> QED
  BY <1>6, <1>7, <1>8, <1>9, <1>10, <1>11 DEF IInv

\* A transaction that leaves reserveRWSet has reserved all its keys.
LEMMA FinishReserveStep ==
    ASSUME IInv, TypeOK', NEW w \in Worker, FinishReserve(w)
    PROVE  IInv'
<1> DEFINE t == running[w]
<1> USE DEF FinishReserve
<1>1. t \in Tid /\ t # 0 /\ Executing(w)
  BY Parts, TypeFacts DEF Executing
<1>2. phase = "Aria_READ" /\ decided = {}
  BY <1>1, Parts DEF StoreInv, ResultInv
<1>3. txn[t].ok
  BY Parts DEF KeysInv
<1>4. \A kind \in Kinds : todo[w][kind] = {}
  BY DEF NoKeys
<1>5. loaded[w].kind = "none"
  <2>1. ASSUME loaded[w].kind # "none" PROVE FALSE
    <3>1. loaded[w] \in Register
      BY <2>1, Parts, TypeFacts DEF NoRegister
    <3>2. loaded[w].kind \in Kinds
      BY <3>1 DEF Register
    <3> QED
      BY <1>4, <2>1, <3>2, Parts DEF LoadInv
  <2> QED
    BY <2>1
<1>6. ASSUME NEW v \in Worker, v # w
      PROVE  running'[v] = running[v] /\ running[v] # t
  <2>1. running'[v] = running[v]
    BY <1>6, Parts, TypeFacts
  <2>2. running[v] # t
    BY <1>1, <1>6, Parts DEF KeysInv
  <2> QED
    BY <2>1, <2>2
<1>7. running'[w] = 0
  BY Parts, TypeFacts
<1>8. KeysInv'
  BY <1>4, <1>6, <1>7, Parts DEF KeysInv
<1>9. StoreInv'
  <2>1. 0 \notin executed'
    BY <1>1, TidNat, Parts, TypeFacts
  <2>2. \A v \in Worker : running[v] \notin executed
    BY <1>2, ReadPhase, Parts
  <2> QED
    BY <1>2, <1>6, <1>7, <2>1, <2>2, ReadFrame
<1>10. LoadInv'
  BY <1>5, <1>6, LoadFrame, Parts DEF Executing
<1>11. TableInv'
  <2>1. ASSUME NEW kind \in Kinds, NEW k \in Key, Reserves(t, kind, k)
        PROVE  HeldUpTo(kind, k, t)
    BY <1>1, <1>4, <2>1, Parts DEF TableInv
  <2> QED
    BY <1>6, <1>7, <2>1, Parts, TableKept DEF Executing
<1>12. ResultInv'
  BY <1>1, <1>2, <1>3, <1>6, <1>7, TidNat, Parts DEF ResultInv
<1>13. DecisionInv' /\ CommittedWritesSurvive' /\ UntouchedInv'
  BY OutcomeFrame, Parts, TypeFacts
<1> QED
  BY <1>8, <1>9, <1>10, <1>11, <1>12, <1>13 DEF IInv

\* syncAllWorker lets the commit phase start only after the last reservation.
LEMMA StartCommitStep ==
    ASSUME IInv, TypeOK', StartCommit
    PROVE  IInv'
<1> USE DEF StartCommit
<1>1. executed = Tid
  BY KeySets, Parts, TypeFacts DEF SyncAllWorker, FinishedRead, Kinds
<1>2. \A v \in Worker : running[v] = 0
  <2>1. \A v \in Worker : running[v] \notin executed
    BY ReadPhase, Parts
  <2> QED
    BY <1>1, <2>1, Parts, TypeFacts
<1>3. \A v \in Worker : loaded[v].kind = "none"
  BY <1>2, Parts DEF LoadInv, Executing
<1>4. TableInv' /\ LoadInv'
  BY <1>1, <1>3, CommitFrame, Parts
<1>5. KeysInv'
  BY KeysFrame, Parts
<1>6. StoreInv'
  BY <1>1, <1>2, TidNat DEF StoreInv, Executing, Storing
<1>7. ResultInv'
  BY <1>1, Parts DEF ResultInv
<1>8. DecisionInv' /\ CommittedWritesSurvive' /\ UntouchedInv'
  BY OutcomeFrame, Parts, TypeFacts
<1> QED
  BY <1>4, <1>5, <1>6, <1>7, <1>8 DEF IInv
-----------------------------------------------------------------------------
(* The steps of commitList and commitUpdate, and the theorems. *)

\* A decision on a transaction that no worker is storing.
LEMMA DecideFrame ==
    ASSUME IInv, TypeOK', NEW t \in Tid, phase = "Aria_COMMIT",
           \A v \in Worker : running[v] # t,
           decided' = decided \cup {t},
           UNCHANGED <<txn, table, phase, running, todo, loaded, kvRWSet, executed, db>>
    PROVE  KeysInv' /\ StoreInv' /\ LoadInv' /\ TableInv'
<1>1. executed = Tid /\ \A v \in Worker : loaded[v].kind = "none"
  BY CommitPhase
<1>2. TableInv' /\ LoadInv' /\ \A v \in Worker : ~Executing(v)'
  BY <1>1, CommitFrame, Parts
<1>3. KeysInv'
  BY KeysFrame, Parts
<1>4. StoreInv'
  <2>1. ASSUME NEW v \in Worker, Storing(v)' PROVE running[v] \notin decided'
    <3>1. Storing(v)
      BY <2>1 DEF Storing
    <3> QED
      BY <3>1, Parts DEF StoreInv
  <2> QED
    BY <1>1, <1>2, <2>1, Parts, StoreKept
<1> QED
  BY <1>2, <1>3, <1>4

\* A failed transaction keeps its result.
LEMMA AbortFailedStep ==
    ASSUME IInv, TypeOK', NEW w \in Worker, NEW t \in Tid, AbortFailed(w, t)
    PROVE  IInv'
<1> USE DEF AbortFailed, Reach
<1>1. executed = Tid /\ ~txn[t].ok
  BY Parts DEF ResultInv
<1>2. \A v \in Worker : running[v] # t
  BY <1>1, TidNat, Parts DEF KeysInv
<1>3. KeysInv' /\ StoreInv' /\ LoadInv' /\ TableInv'
  BY <1>2, DecideFrame
<1>4. ResultInv'
  BY <1>1, Parts DEF ResultInv
<1>5. DecisionInv'
  <2>1. Decision(t) = "ABORT_NO_RETRY"
    BY <1>1 DEF Decision
  <2>2. decided \subseteq Tid
    BY Parts, TypeFacts
  <2> QED
    BY <2>1, <2>2, BatchFrame, Parts DEF DecisionInv
<1>6. CommittedWritesSurvive'
  BY Parts DEF CommittedWritesSurvive, Committed
<1>7. UntouchedInv'
  BY Parts, UntouchedFrame
<1> QED
  BY <1>3, <1>4, <1>5, <1>6, <1>7 DEF IInv

\* An abort is the verdict the batch determines.
LEMMA AbortTransactionStep ==
    ASSUME IInv, TypeOK', NEW w \in Worker, NEW t \in Tid, AbortTransaction(w, t)
    PROVE  IInv'
<1> USE DEF AbortTransaction, Reach
<1>1. executed = Tid /\ txn[t].ok
  BY Parts DEF ResultInv
<1>2. Decision(t) = "ABORT"
  BY <1>1, VerdictIsDecision, Parts
<1>3. \A v \in Worker : running[v] # t
  BY <1>1, <1>2, Parts DEF StoreInv, Storing
<1>4. KeysInv' /\ StoreInv' /\ LoadInv' /\ TableInv'
  BY <1>3, DecideFrame
<1>5. /\ decided \subseteq Tid
      /\ result'[t] = "ABORT" /\ \A u \in Tid \ {t} : result'[u] = result[u]
  BY Parts, TypeFacts
<1>6. ResultInv'
  BY <1>1, <1>5, Parts DEF ResultInv
<1>7. DecisionInv'
  BY <1>2, <1>5, BatchFrame, Parts DEF DecisionInv
<1>8. CommittedWritesSurvive'
  <2>1. Committed' \subseteq Committed
    BY <1>5 DEF Committed
  <2>2. CommittedWritesSurvive
    BY Parts
  <2> QED
    BY <2>1, <2>2 DEF CommittedWritesSurvive
<1>9. UntouchedInv'
  BY Parts, UntouchedFrame
<1> QED
  BY <1>4, <1>6, <1>7, <1>8, <1>9 DEF IInv

\* A transaction that passes is one the batch determines to commit.
LEMMA CommitUpdateStep ==
    ASSUME IInv, TypeOK', NEW w \in Worker, NEW t \in Tid, CommitUpdate(w, t)
    PROVE  IInv'
<1> USE DEF CommitUpdate, Reach
<1>1. executed = Tid /\ txn[t].ok /\ t # 0
  BY TidNat, Parts DEF ResultInv
<1>2. Decision(t) = "COMMIT"
  BY <1>1, VerdictIsDecision, Parts
<1>3. running'[w] = t /\ todo'[w]["write"] = txn[t].write /\ todo'[w]["read"] = todo[w]["read"]
  BY Parts, TypeFacts DEF Kinds
<1>4. todo[w]["read"] = {}
  BY Parts DEF KeysInv, Kinds
<1>5. ASSUME NEW v \in Worker, v # w
      PROVE  running'[v] = running[v] /\ todo'[v] = todo[v]
  BY <1>5, Parts, TypeFacts
<1>6. txn[t]["write"] = txn[t].write
  BY KeySets, Parts, TypeFacts DEF Kinds
<1>7. TableInv' /\ LoadInv' /\ \A v \in Worker : ~Executing(v)'
  BY CommitPhase, CommitFrame, Parts
<1>8. KeysInv'
  BY <1>1, <1>3, <1>4, <1>5, <1>6, Parts DEF KeysInv, Kinds
<1>9. StoreInv'
  <2>1. Decision(t)' = "COMMIT"
    BY <1>2, BatchFrame
  <2>2. ASSUME NEW v \in Worker, v # w, Storing(v) PROVE Decision(running[v])' = "COMMIT"
    BY <1>1, <2>2, BatchFrame, Parts DEF StoreInv, Storing
  <2> QED
    BY <1>3, <1>5, <1>7, <2>1, <2>2, Parts DEF StoreInv, Storing
<1>10. ResultInv'
  BY <1>1, Parts DEF ResultInv
<1>11. DecisionInv' /\ CommittedWritesSurvive' /\ UntouchedInv'
  BY OutcomeFrame, Parts, TypeFacts
<1> QED
  BY <1>7, <1>8, <1>9, <1>10, <1>11 DEF IInv

\* A stored value overwrites nothing another committed transaction wrote.
LEMMA UpdateWriteSetStep ==
    ASSUME IInv, TypeOK', NEW w \in Worker, NEW k \in Key, UpdateWriteSet(w, k)
    PROVE  IInv'
<1> DEFINE t == running[w]
<1> USE DEF UpdateWriteSet
<1>1. /\ t \in Tid /\ t # 0 /\ Storing(w)
      /\ phase = "Aria_COMMIT" /\ t \notin decided /\ Decision(t) = "COMMIT"
  <2>1. t \in Tid /\ t # 0 /\ Storing(w)
    BY TidNat, Parts, TypeFacts DEF Storing
  <2> QED
    BY <2>1, Parts DEF StoreInv
<1>2. txn[t].ok /\ txn[t].worker = w /\ k \in txn[t].write
  <2>1. txn[t]["write"] = txn[t].write
    BY <1>1, KeySets, Parts, TypeFacts DEF Kinds
  <2> QED
    BY <1>1, <2>1, Parts DEF KeysInv, Kinds
<1>3. executed = Tid /\ \A v \in Worker : loaded[v].kind = "none"
  BY <1>1, CommitPhase
<1>4. db'[k] = Writes(t, txn[t], Snapshot)[k] /\ \A j \in Key \ {k} : db'[j] = db[j]
  <2>1. kvRWSet[t] = Writes(t, txn[t], Snapshot)
    BY <1>1, <1>2, Parts DEF ResultInv
  <2> QED
    BY <2>1, Parts DEF ResultInv
<1>5. ASSUME NEW u \in Tid, u # t, Decision(u) = "COMMIT"
      PROVE  k \notin txn[u].write
  BY <1>1, <1>2, <1>5, CommitsDisjoint, Parts
<1>6. \A u \in Tid : txn[u].write \subseteq Key
  BY KeySets, Parts, TypeFacts DEF Kinds
<1>7. todo'[w]["write"] = todo[w]["write"] \ {k} /\ todo'[w]["read"] = todo[w]["read"]
  BY Parts, TypeFacts DEF Kinds
<1>8. ASSUME NEW v \in Worker, v # w PROVE todo'[v] = todo[v]
  BY <1>8, Parts, TypeFacts
<1>9. TableInv' /\ LoadInv' /\ \A v \in Worker : ~Executing(v)'
  BY <1>3, CommitFrame, Parts
<1>10. KeysInv'
  BY <1>7, <1>8, KeysFrame, Parts DEF Kinds
<1>11. StoreInv'
  <2>1. ASSUME NEW v \in Worker, Storing(v)
        PROVE  /\ running[v] \in Tid /\ running[v] \notin decided
               /\ Decision(running[v]) = "COMMIT"
               /\ \A j \in txn[running[v]].write \ todo[v]["write"] :
                     db[j] = Writes(running[v], txn[running[v]], Snapshot)[j]
    BY <1>3, <2>1, Parts DEF StoreInv, Storing
  <2>2. ASSUME NEW v \in Worker, Storing(v),
               NEW j \in txn[running[v]].write \ todo'[v]["write"]
        PROVE  db'[j] = Writes(running[v], txn[running[v]], Snapshot)[j]
    <3>1. CASE v = w
      BY <1>4, <1>6, <1>7, <2>1, <2>2, <3>1
    <3>2. CASE v # w
      <4>1. running[v] # t
        BY <1>1, <1>2, <3>2, Parts DEF KeysInv
      <4>2. j # k
        BY <1>5, <2>1, <2>2, <4>1
      <4> QED
        BY <1>4, <1>6, <1>8, <2>1, <2>2, <3>2, <4>2
    <3> QED
      BY <3>1, <3>2
  <2>3. \A v \in Worker : Storing(v) => Decision(running[v])' = "COMMIT"
    BY <2>1, BatchFrame
  <2> QED
    BY <1>1, <1>9, <2>1, <2>2, <2>3 DEF StoreInv, Storing
<1>12. ResultInv'
  <2>1. db' = [j \in Key |-> db'[j]]
    BY Parts DEF ResultInv
  <2> QED
    BY <1>1, <2>1, Parts DEF ResultInv
<1>13. DecisionInv'
  BY <1>3, BatchFrame, Parts DEF DecisionInv, ResultInv
<1>14. CommittedWritesSurvive'
  <2>1. ASSUME NEW u \in Committed, NEW j \in txn[u].write
        PROVE  db'[j] = Writes(u, txn[u], Snapshot)[j]
    <3>1. u \in Tid /\ u # t /\ Decision(u) = "COMMIT"
      BY <1>1, <1>3, Parts DEF Committed, DecisionInv, ResultInv
    <3> QED
      BY <1>4, <1>5, <1>6, <3>1, Parts DEF CommittedWritesSurvive
  <2> QED
    BY <2>1 DEF CommittedWritesSurvive, Committed
<1>15. UntouchedInv'
  <2>1. \A u \in Tid : Decision(u)' = Decision(u)
    BY BatchFrame
  <2>2. \A j \in Key \ {k} :
           db[j] # Snapshot[j] => \E u \in Tid : j \in txn[u].write /\ Decision(u) = "COMMIT"
    BY Parts DEF UntouchedInv
  <2> QED
    BY <1>1, <1>2, <1>4, <2>1, <2>2 DEF UntouchedInv
<1> QED
  BY <1>9, <1>10, <1>11, <1>12, <1>13, <1>14, <1>15 DEF IInv

\* A transaction that leaves commitUpdate has stored all its values.
LEMMA FinishCommitStep ==
    ASSUME IInv, TypeOK', NEW w \in Worker, FinishCommit(w)
    PROVE  IInv'
<1> DEFINE t == running[w]
<1> USE DEF FinishCommit
<1>1. /\ t \in Tid /\ t # 0 /\ Storing(w)
      /\ phase = "Aria_COMMIT" /\ Decision(t) = "COMMIT"
  <2>1. t \in Tid /\ t # 0 /\ Storing(w)
    BY TidNat, Parts, TypeFacts DEF Storing
  <2> QED
    BY <2>1, Parts DEF StoreInv
<1>2. txn[t].worker = w
  BY <1>1, Parts DEF KeysInv
<1>3. \A kind \in Kinds : todo[w][kind] = {}
  BY DEF NoKeys
<1>4. executed = Tid /\ \A v \in Worker : loaded[v].kind = "none"
  BY <1>1, CommitPhase
<1>5. ASSUME NEW v \in Worker, v # w
      PROVE  running'[v] = running[v] /\ running[v] # t
  <2>1. running'[v] = running[v]
    BY <1>5, Parts, TypeFacts
  <2>2. running[v] # t
    BY <1>1, <1>2, <1>5, Parts DEF KeysInv
  <2> QED
    BY <2>1, <2>2
<1>6. running'[w] = 0
  BY Parts, TypeFacts
<1>7. /\ decided \subseteq Tid
      /\ result'[t] = "COMMIT" /\ \A u \in Tid \ {t} : result'[u] = result[u]
  BY <1>1, Parts, TypeFacts
<1>8. TableInv' /\ LoadInv' /\ \A v \in Worker : ~Executing(v)'
  BY <1>4, CommitFrame, Parts
<1>9. KeysInv'
  BY <1>3, <1>5, <1>6, Parts DEF KeysInv
<1>10. StoreInv'
  <2>1. ~Storing(w)'
    BY <1>4, <1>6, TidNat DEF Storing
  <2>2. ASSUME NEW v \in Worker, v # w, Storing(v)' PROVE running[v] \notin decided'
    <3>1. Storing(v)
      BY <1>5, <2>2 DEF Storing
    <3> QED
      BY <1>5, <2>2, <3>1, Parts DEF StoreInv
  <2> QED
    BY <1>1, <1>4, <1>5, <1>8, <2>1, <2>2, Parts, StoreKept
<1>11. ResultInv'
  <2>1. ASSUME NEW u \in Tid PROVE (\E v \in Worker : running'[v] = u) => u \in executed
    BY <1>4
  <2> QED
    BY <1>1, <1>4, <1>7, <2>1, Parts DEF ResultInv
<1>12. DecisionInv'
  BY <1>1, <1>7, BatchFrame, Parts DEF DecisionInv
<1>13. CommittedWritesSurvive'
  <2>1. \A k \in txn[t].write : db[k] = Writes(t, txn[t], Snapshot)[k]
    <3>1. todo[w]["write"] = {}
      BY <1>3 DEF Kinds
    <3> QED
      BY <1>1, <3>1, Parts DEF StoreInv
  <2>2. Committed' \subseteq Committed \cup {t}
    BY <1>7 DEF Committed
  <2> QED
    BY <2>1, <2>2, Parts DEF CommittedWritesSurvive
<1>14. UntouchedInv'
  BY Parts, UntouchedFrame
<1> QED
  BY <1>8, <1>9, <1>10, <1>11, <1>12, <1>13, <1>14 DEF IInv
-----------------------------------------------------------------------------
(* The theorems. *)

\* The state executeList starts from satisfies the invariant.
LEMMA InitIInv == Init => IInv
<1> SUFFICES ASSUME Init PROVE IInv
  OBVIOUS
<1> USE DEF Init
<1>1. TypeOK
  BY BatchAssumption DEF TypeOK, NoKeys
<1>2. KeysInv /\ LoadInv
  BY DEF KeysInv, LoadInv, NoKeys, NoRegister
<1>2a. StoreInv
  BY TidNat DEF StoreInv, Executing, Storing
<1>3. TableInv
  BY DEF TableInv, Executing
<1>4. ResultInv
  BY TidNat DEF ResultInv, Snapshot
<1>5. DecisionInv /\ CommittedWritesSurvive
  BY DEF DecisionInv, CommittedWritesSurvive, Committed
<1>6. UntouchedInv
  BY DEF UntouchedInv
<1> QED
  BY <1>1, <1>2, <1>2a, <1>3, <1>4, <1>5, <1>6 DEF IInv

\* Every step of the workers and of the coordinator preserves the invariant.
LEMMA NextIInv == IInv /\ [Next]_vars => IInv'
<1> SUFFICES ASSUME IInv, [Next]_vars PROVE IInv'
  OBVIOUS
<1>1. TypeOK'
  BY TypeStep, Parts
<1>2. CASE UNCHANGED vars
  <2> USE <1>2, Parts DEF vars
  <2>1. KeysInv'
    BY KeysFrame
  <2>1a. StoreInv'
    <3>1. ASSUME NEW v \in Worker, Storing(v) PROVE Decision(running[v])' = "COMMIT"
      BY <3>1, BatchFrame, TypeFacts, Parts DEF StoreInv, Storing
    <3> QED
      BY <3>1 DEF StoreInv, Executing, Storing
  <2>1b. LoadInv'
    BY LoadFrame DEF Executing
  <2>2. TableInv'
    BY TableFrame
  <2>3. ResultInv'
    BY DEF ResultInv
  <2>4. DecisionInv' /\ CommittedWritesSurvive' /\ UntouchedInv'
    BY OutcomeFrame, TypeFacts, Parts
  <2> QED
    BY <1>1, <2>1, <2>1a, <2>1b, <2>2, <2>3, <2>4 DEF IInv
<1>3. CASE \E w \in Worker : ReadStep(w)
  BY <1>1, <1>3, InvokeChaincodeFailsStep, InvokeChaincodeStep, LoadRegisterStep,
     KeepRegisterStep, ExchangeRegisterStep, RetryRegisterStep, FinishReserveStep
     DEF ReadStep
<1>4. CASE \E w \in Worker : CommitStep(w)
  BY <1>1, <1>4, AbortFailedStep, AbortTransactionStep, CommitUpdateStep,
     UpdateWriteSetStep, FinishCommitStep
     DEF CommitStep
<1>5. CASE StartCommit
  BY <1>1, <1>5, StartCommitStep
<1>6. CASE EpochOver
  BY <1>2, <1>6 DEF EpochOver
<1> QED
  BY <1>2, <1>3, <1>4, <1>5, <1>6 DEF Next

\* The inductive invariant holds in every reachable state of the executor.
THEOREM InvariantTheorem == Spec => []IInv
<1>1. Init => IInv
  BY InitIInv
<1>2. IInv /\ [Next]_vars => IInv'
  BY NextIInv
<1> QED
  BY <1>1, <1>2, PTL DEF Spec

\* The executor's state is always well typed.
THEOREM TypeTheorem == Spec => []TypeOK
<1>1. IInv => TypeOK
  BY DEF IInv
<1> QED
  BY <1>1, InvariantTheorem, PTL

\* When commitList starts, the reserve table holds the minimum of every key.
THEOREM TableTheorem == Spec => []TableIsMinimum
<1>1. IInv => TableIsMinimum
  <2> SUFFICES ASSUME IInv, phase = "Aria_COMMIT", NEW kind \in Kinds, NEW k \in Key
               PROVE  LET holders == {t \in Tid : txn[t].ok /\ k \in txn[t][kind]} IN
                      /\ holders = {} => table[kind][k] = 0
                      /\ holders # {} => /\ table[kind][k] \in holders
                                         /\ \A t \in holders : table[kind][k] <= t
    BY DEF TableIsMinimum
  <2>1. executed = Tid /\ table[kind][k] \in Tid \cup {0}
    BY Parts, TypeFacts DEF ResultInv
  <2>2. table[kind][k] # 0 => Reserves(table[kind][k], kind, k)
    BY Parts DEF TableInv
  <2>3. \A t \in Tid : Reserves(t, kind, k) => HeldUpTo(kind, k, t)
    BY <2>1, Parts DEF TableInv
  <2> QED
    BY <2>1, <2>2, <2>3 DEF Reserves, HeldUpTo
<1> QED
  BY <1>1, InvariantTheorem, PTL

\* The result of every transaction and the database at the end are determined by the
\* epoch's batch, not by the interleaving of the workers: all servers build the same
\* block and start the next epoch from the same state.
THEOREM DeterminismTheorem == Spec => []DeterministicResult
<1>1. IInv => DeterministicResult
  <2> SUFFICES ASSUME IInv, Done PROVE db = Outcome
    BY Parts DEF DecisionInv, DeterministicResult
  <2> DEFINE writers(k) == {t \in Tid : k \in txn[t].write /\ Decision(t) = "COMMIT"}
             writer(k) == CHOOSE t \in writers(k) : TRUE
  <2>1. db = [k \in Key |-> db[k]]
    BY Parts DEF ResultInv
  <2>2. \A t \in Tid : Decision(t) = "COMMIT" => t \in Committed
    BY Parts DEF Done, DecisionInv, Committed
  <2>3. ASSUME NEW k \in Key, writers(k) # {}
        PROVE  db[k] = Writes(writer(k), txn[writer(k)], Snapshot)[k]
    <3>1. writer(k) \in Tid /\ k \in txn[writer(k)].write /\ Decision(writer(k)) = "COMMIT"
      BY <2>3
    <3> HIDE DEF writer, writers
    <3> QED
      BY <2>2, <3>1, Parts DEF CommittedWritesSurvive
  <2>4. ASSUME NEW k \in Key, writers(k) = {}
        PROVE  db[k] = Snapshot[k]
    BY <2>4, Parts DEF UntouchedInv
  <2> QED
    BY <2>1, <2>3, <2>4, Zenon DEF Outcome
<1> QED
  BY <1>1, InvariantTheorem, PTL

\* The transactions committed in an epoch are serializable in the order Before.
THEOREM SerializableTheorem == Spec => []Serializable
<1>1. IInv => Serializable
  <2> SUFFICES ASSUME IInv, NEW t \in Committed, NEW u \in Committed, t # u
               PROVE  /\ txn[t].write \cap txn[u].write = {}
                      /\ txn[t].read \cap txn[u].write # {} => Before(t, u)
    BY DEF Serializable
  <2>1. /\ t \in Tid /\ u \in Tid /\ TypeOK
        /\ Decision(t) = "COMMIT" /\ Decision(u) = "COMMIT"
    BY Parts, TypeFacts DEF Committed, DecisionInv
  <2> QED
    BY <2>1, CommitsDisjoint, ReaderBeforeWriter
<1> QED
  BY <1>1, InvariantTheorem, PTL

\* The database keeps the writes of every committed transaction, computed from
\* the state the previous epoch left.
THEOREM SurvivalTheorem == Spec => []CommittedWritesSurvive
<1>1. IInv => CommittedWritesSurvive
  BY DEF IInv
<1> QED
  BY <1>1, InvariantTheorem, PTL

\* The smallest transaction that succeeds is committed.
THEOREM ProgressTheorem == Spec => []SmallestCommits
<1>1. IInv => SmallestCommits
  <2> SUFFICES ASSUME IInv, NEW t \in decided, txn[t].ok,
                      \A u \in Tid : txn[u].ok => t <= u
               PROVE  result[t] = "COMMIT"
    BY DEF SmallestCommits
  <2>1. t \in Tid
    BY Parts, TypeFacts
  <2>2. \A u \in Tid : txn[u].ok => ~(u < t)
    BY <2>1, TidNat
  <2>3. ~WAW(t) /\ ~RAW(t)
    BY <2>2 DEF WAW, RAW, Conflicts
  <2> QED
    BY <2>3, Parts DEF DecisionInv, Decision
<1> QED
  BY <1>1, InvariantTheorem, PTL

\* A register that is held is never released nor handed to a larger transaction.
THEOREM ShrinkTheorem == Spec => ReservationsOnlyShrink
<1> DEFINE Shrinks == \A kind \in Kinds, k \in Key :
               table[kind][k] # 0 => table'[kind][k] \in 1 .. table[kind][k]
<1>1. ASSUME IInv, [Next]_vars PROVE [Shrinks]_vars
  <2>1. CASE table' = table
    <3>1. \A kind \in Kinds, k \in Key : table[kind][k] \in Nat
      BY <1>1, TidNat, Parts, TypeFacts
    <3> QED
      BY <2>1, <3>1
  <2>2. ASSUME NEW w \in Worker, ExchangeRegister(w),
               NEW kind \in Kinds, NEW k \in Key, table[kind][k] # 0
        PROVE  table'[kind][k] \in 1 .. table[kind][k]
    <3> DEFINE r == loaded[w]
    <3>1. r \in Register /\ Executing(w)
      <4>1. r \in Register /\ r.kind # "none"
        BY <1>1, <2>2, Parts, TypeFacts DEF ExchangeRegister, NoRegister
      <4> QED
        BY <1>1, <4>1, Parts DEF LoadInv
    <3>2. r.kind \in Kinds /\ r.key \in Key
      BY <3>1 DEF Register
    <3>3. table[kind][k] \in Nat /\ running[w] \in Nat /\ running[w] # 0
      BY <1>1, <3>1, TidNat, Parts, TypeFacts DEF Executing
    <3>4. CASE kind = r.kind /\ k = r.key
      <4>1. table'[kind][k] = running[w] /\ r.old = table[kind][k]
        BY <1>1, <2>2, <3>2, <3>4, Parts, TypeFacts DEF ExchangeRegister, Expected
      <4>2. running[w] < table[kind][k]
        BY <2>2, <3>3, <4>1 DEF ExchangeRegister, HeldBySmaller
      <4> QED
        BY <3>3, <4>1, <4>2
    <3>5. CASE ~(kind = r.kind /\ k = r.key)
      <4>1. table'[kind][k] = table[kind][k]
        BY <1>1, <2>2, <3>2, <3>5, Parts, TypeFacts DEF ExchangeRegister
      <4> QED
        BY <2>2, <3>3, <4>1
    <3> QED
      BY <3>4, <3>5
  <2>3. \/ table' = table
        \/ \E w \in Worker : ExchangeRegister(w)
    BY <1>1 DEF Next, ReadStep, CommitStep, vars, InvokeChaincodeFails, InvokeChaincode,
       LoadRegister, KeepRegister, RetryRegister, FinishReserve, StartCommit, AbortFailed,
       AbortTransaction, CommitUpdate, UpdateWriteSet, FinishCommit, EpochOver
  <2> QED
    BY <2>1, <2>2, <2>3
<1> QED
  BY <1>1, InvariantTheorem, PTL DEF Spec, ReservationsOnlyShrink

\* Once commitList is done with every transaction, nothing of the outcome changes.
LEMMA DoneIsFinal ==
    ASSUME IInv, [Next]_vars, Done
    PROVE  UNCHANGED <<txn, phase, decided, result, db>>
<1>1. phase = "Aria_COMMIT" /\ decided = Tid /\ executed = Tid
  BY Parts DEF Done, ResultInv
<1>2. \A w \in Worker : running[w] \notin executed
  BY <1>1, Parts DEF StoreInv, Storing
<1>3. \A w \in Worker, t \in Tid :
         ~InvokeChaincodeFails(w, t) /\ ~AbortFailed(w, t) /\ ~AbortTransaction(w, t)
  BY <1>1 DEF InvokeChaincodeFails, Pick, AbortFailed, AbortTransaction, Reach
<1>4. \A w \in Worker : ~FinishCommit(w) /\ \A k \in Key : ~UpdateWriteSet(w, k)
  BY <1>2 DEF FinishCommit, UpdateWriteSet
<1>5. ~StartCommit
  BY <1>1 DEF StartCommit
<1>6. ASSUME NEW w \in Worker, ReadStep(w)
      PROVE  UNCHANGED <<txn, phase, decided, result, db>>
  BY <1>3, <1>6 DEF ReadStep, InvokeChaincode, LoadRegister, KeepRegister, ExchangeRegister,
     RetryRegister, FinishReserve
<1>7. ASSUME NEW w \in Worker, CommitStep(w)
      PROVE  UNCHANGED <<txn, phase, decided, result, db>>
  BY <1>3, <1>4, <1>7 DEF CommitStep, CommitUpdate
<1> QED
  BY <1>5, <1>6, <1>7 DEF Next, vars, EpochOver

\* No step changes the batch.
LEMMA BatchKept ==
    ASSUME [Next]_vars
    PROVE  txn' = txn
<1>1. ASSUME NEW w \in Worker, ReadStep(w) PROVE txn' = txn
  BY <1>1, Zenon DEF ReadStep, InvokeChaincodeFails, InvokeChaincode, LoadRegister,
     KeepRegister, ExchangeRegister, RetryRegister, FinishReserve
<1>2. ASSUME NEW w \in Worker, CommitStep(w) PROVE txn' = txn
  BY <1>2, Zenon DEF CommitStep, AbortFailed, AbortTransaction, CommitUpdate, UpdateWriteSet,
     FinishCommit
<1> QED
  BY <1>1, <1>2, Zenon DEF Next, vars, StartCommit, EpochOver
-----------------------------------------------------------------------------
(* Running transactions one after the other. *)

LOCAL INSTANCE FiniteSetTheorems

\* The relation R is a strict total order on S.
TotalOrder(R, S) ==
    /\ \A x \in S : <<x, x>> \notin R
    /\ \A x, y, z \in S : <<x, y>> \in R /\ <<y, z>> \in R => <<x, z>> \in R
    /\ \A x, y \in S : x # y => <<x, y>> \in R \/ <<y, x>> \in R

\* The elements of a finite set can be listed in a strict total order on it.
LEMMA Listing ==
    ASSUME NEW S, IsFiniteSet(S), NEW R, TotalOrder(R, S)
    PROVE  \E order \in [1 .. Cardinality(S) -> S] :
               /\ S = {order[i] : i \in DOMAIN order}
               /\ \A i, j \in 1 .. Cardinality(S) : i < j => <<order[i], order[j]>> \in R
<1> DEFINE n == Cardinality(S)
           upTo(x) == {y \in S : <<x, y>> \notin R}
           rank == [x \in S |-> Cardinality(upTo(x))]
<1>1. n \in Nat
  BY FS_CardinalityType
<1>2. ASSUME NEW x \in S
      PROVE  IsFiniteSet(upTo(x)) /\ Cardinality(upTo(x)) \in 1 .. n
  <2>1. upTo(x) \in SUBSET S /\ x \in upTo(x)
    BY DEF TotalOrder
  <2>2. IsFiniteSet(upTo(x)) /\ Cardinality(upTo(x)) <= n
    BY <2>1, FS_Subset, Zenon
  <2>3. Cardinality(upTo(x)) \in Nat /\ Cardinality(upTo(x)) # 0
    BY <2>1, <2>2, FS_CardinalityType, FS_EmptySet
  <2> QED BY <1>1, <2>2, <2>3
<1>3. ASSUME NEW x \in S, NEW y \in S, <<x, y>> \in R
      PROVE  rank[x] < rank[y]
  <2>1. upTo(x) \in SUBSET upTo(y)
    BY <1>3 DEF TotalOrder
  <2>2. y \in upTo(y) /\ y \notin upTo(x)
    BY <1>3 DEF TotalOrder
  <2>3. upTo(x) # upTo(y)
    BY <2>2
  <2>4. /\ Cardinality(upTo(x)) <= Cardinality(upTo(y))
        /\ Cardinality(upTo(x)) # Cardinality(upTo(y))
    BY <1>2, <2>1, <2>3, FS_Subset, Zenon
  <2>5. Cardinality(upTo(x)) \in Nat /\ Cardinality(upTo(y)) \in Nat
    BY <1>1, <1>2
  <2> HIDE DEF upTo
  <2> QED BY <2>4, <2>5
<1> HIDE DEF upTo
<1>4. rank \in [S -> 1 .. n]
  BY <1>2
<1> HIDE DEF rank
<1>5. rank \in Injection(S, 1 .. n)
  <2>1. ASSUME NEW x \in S, NEW y \in S, rank[x] = rank[y] PROVE x = y
    <3>1. rank[x] \in Nat
      BY <1>1, <1>4
    <3>2. ~ (rank[x] < rank[y]) /\ ~ (rank[y] < rank[x])
      BY <2>1, <3>1
    <3>3. <<x, y>> \notin R /\ <<y, x>> \notin R
      BY <1>3, <3>2, Zenon
    <3> QED BY <3>3, Zenon DEF TotalOrder
  <2> QED BY <1>4, <2>1 DEF Injection, IsInjective
<1>6. rank \in Surjection(S, 1 .. n)
  <2>1. IsFiniteSet(1 .. n) /\ Cardinality(1 .. n) = n
    BY <1>1, FS_Interval
  <2> QED BY <1>5, <2>1, FS_Injection
<1> DEFINE order == [i \in 1 .. n |-> CHOOSE x \in S : rank[x] = i]
<1>7. ASSUME NEW i \in 1 .. n PROVE order[i] \in S /\ rank[order[i]] = i
  BY <1>6 DEF Surjection
<1> HIDE DEF order
<1>8. order \in [1 .. n -> S] /\ S = {order[i] : i \in DOMAIN order}
  <2>1. order \in [1 .. n -> S]
    BY <1>7 DEF order
  <2>2. \A x \in S : \E i \in 1 .. n : order[i] = x
    <3> TAKE x \in S
    <3>1. rank[x] \in 1 .. n
      BY <1>4
    <3>2. rank[order[rank[x]]] = rank[x] /\ order[rank[x]] \in S
      BY <1>7, <3>1
    <3> QED BY <1>5, <3>1, <3>2 DEF Injection, IsInjective
  <2> QED BY <2>1, <2>2
<1>9. ASSUME NEW i \in 1 .. n, NEW j \in 1 .. n, i < j
      PROVE  <<order[i], order[j]>> \in R
  <2>1. order[i] \in S /\ order[j] \in S /\ rank[order[i]] = i /\ rank[order[j]] = j
    BY <1>7
  <2>2. ~ (<<order[j], order[i]>> \in R)
    BY <1>1, <1>3, <1>9, <2>1
  <2>3. order[i] # order[j]
    BY <1>1, <1>9, <2>1
  <2> QED BY <2>1, <2>2, <2>3, Zenon DEF TotalOrder
<1> QED BY <1>8, <1>9, Zenon

\* A set of transactions of the epoch is finite.
LEMMA TidSubsets ==
    ASSUME NEW C \in SUBSET Tid
    PROVE  IsFiniteSet(C) /\ Cardinality(C) \in Nat
<1>1. PICK n \in Nat : \A t \in Tid : t <= n
  BY EpochAssumption, TidNat
<1>2. Tid \in SUBSET Nat
  BY TidAssumption
<1>3. IsFiniteSet(Tid)
  BY <1>1, <1>2, FS_BoundedSetOfNaturals, Zenon
<1>4. IsFiniteSet(C)
  BY <1>3, FS_Subset, Zenon
<1> QED
  BY <1>4, FS_CardinalityType, Zenon

\* A nonempty set of natural numbers has a least element.
LEMMA Least ==
    ASSUME NEW T \in SUBSET Nat, T # {}
    PROVE  \E x \in T : \A y \in T : x <= y
<1>1. PICK x \in T : \A y \in T : ~ (<<y, x>> \in OpToRel(<, Nat))
  BY NatLessThanWellFounded, WFMin
<1>2. OpToRel(<, Nat) = {ss \in Nat \X Nat : ss[1] < ss[2]}
  BY DEF OpToRel
<1>3. ASSUME NEW y \in T, y < x PROVE <<y, x>> \in {ss \in Nat \X Nat : ss[1] < ss[2]}
  BY <1>3
<1>4. ASSUME NEW y \in T PROVE ~ (y < x)
  BY <1>1, <1>2, <1>3, Zenon
<1>5. x \in Nat /\ \A y \in T : y \in Nat
  OBVIOUS
<1> QED BY <1>4, <1>5

\* The states s that the database goes through, from s0 on, when n transactions of the
\* batch b run in this order.
Passes(s, b, s0, order, n) ==
    s = [i \in 0 .. n |-> IF i = 0 THEN s0
                          ELSE Store(s[i - 1], Writes(order[i], b[order[i]], s[i - 1]))]

\* The order determines these states: the first two that differed would have the same
\* predecessor.
LEMMA PassesUnique ==
    ASSUME NEW n \in Nat, NEW b, NEW s0, NEW order, NEW f, NEW g,
           Passes(f, b, s0, order, n), Passes(g, b, s0, order, n)
    PROVE  f = g
<1> DEFINE T == {i \in 0 .. n : f[i] # g[i]}
<1>1. /\ f = [i \in 0 .. n |-> f[i]]
      /\ g = [i \in 0 .. n |-> g[i]]
  BY DEF Passes
<1>2. f[0] = s0 /\ g[0] = s0
  BY DEF Passes
<1>3. ASSUME NEW i \in 1 .. n
      PROVE  /\ f[i] = Store(f[i - 1], Writes(order[i], b[order[i]], f[i - 1]))
             /\ g[i] = Store(g[i - 1], Writes(order[i], b[order[i]], g[i - 1]))
  <2>1. i \in 0 .. n /\ i # 0
    OBVIOUS
  <2>2. f[i] = Store(f[i - 1], Writes(order[i], b[order[i]], f[i - 1]))
    BY <2>1, Zenon DEF Passes
  <2>3. g[i] = Store(g[i - 1], Writes(order[i], b[order[i]], g[i - 1]))
    BY <2>1, Zenon DEF Passes
  <2> QED
    BY <2>2, <2>3
<1>4. ASSUME T # {} PROVE FALSE
  <2>1. T \in SUBSET Nat
    OBVIOUS
  <2>2. PICK i \in T : \A j \in T : i <= j
    BY <1>4, <2>1, Least, Zenon
  <2>3. i \in 1 .. n /\ i - 1 \in 0 .. n /\ ~ (i <= i - 1)
    BY <1>2
  <2>4. f[i - 1] = g[i - 1]
    BY <2>2, <2>3
  <2>5. f[i] # g[i]
    OBVIOUS
  <2> HIDE DEF T
  <2> QED
    BY <1>3, <2>3, <2>4, <2>5
<1>5. \A i \in 0 .. n : f[i] = g[i]
  BY <1>4
<1> QED
  BY <1>1, <1>5

\* Each of the transactions C of a batch b that reads a key comes before the others
\* that write it.
ReadersFirst(b, C, R) ==
    \A t, u \in C : t # u /\ b[t].read \cap b[u].write # {} => <<t, u>> \in R

\* The database d has what each of the transactions C of a batch b writes when it runs
\* on the snapshot, and is otherwise the snapshot.
HoldsWrites(d, b, C) ==
    /\ d = [k \in Key |-> d[k]]
    /\ \A t \in C : \A k \in b[t].write : d[k] = Writes(t, b[t], Snapshot)[k]
    /\ \A k \in Key : d[k] # Snapshot[k] => \E t \in C : k \in b[t].write

\* The transactions C of a batch b, each run once and one after the other in some
\* order, lead from the snapshot to the database d.
LeadsTo(d, b, C) ==
    \E order \in [1 .. Cardinality(C) -> C] :
        /\ C = {order[i] : i \in DOMAIN order}
        /\ \E s : /\ Passes(s, b, Snapshot, order, Cardinality(C))
                 /\ s[Cardinality(C)] = d

\* Transactions and a database with these two properties: the ones lead to the other.
LEMMA SerialRun ==
    ASSUME NEW b \in [Tid -> Transaction], NEW C \in SUBSET Tid, NEW R, NEW d,
           TotalOrder(R, C), ReadersFirst(b, C, R), HoldsWrites(d, b, C)
    PROVE  LeadsTo(d, b, C)
<1> DEFINE n == Cardinality(C)
<1>1. IsFiniteSet(C) /\ n \in Nat
  BY TidSubsets
<1>2. PICK order \in [1 .. n -> C] :
         /\ C = {order[i] : i \in DOMAIN order}
         /\ \A i, j \in 1 .. n : i < j => <<order[i], order[j]>> \in R
  BY <1>1, Listing, Zenon
<1>3. order \in [1 .. n -> C] /\ \A t \in C : \E i \in 1 .. n : order[i] = t
  <2>1. DOMAIN order = 1 .. n
    OBVIOUS
  <2> QED
    BY <1>2, <2>1, Zenon
<1>4. \A t \in C : b[t] \in Transaction /\ b[t].read \subseteq Key /\ b[t].write \subseteq Key
  BY DEF Transaction
<1> HIDE DEF n
<1> DEFINE written(i) == {k \in Key : \E j \in 1 .. i : k \in b[order[j]].write}
           s == [i \in 0 .. n |-> [k \in Key |-> IF k \in written(i) THEN d[k] ELSE Snapshot[k]]]
<1>5. s[0] = Snapshot
  BY <1>1 DEF Snapshot
<1>6. ASSUME NEW i \in 1 .. n
      PROVE  s[i] = Store(s[i - 1], Writes(order[i], b[order[i]], s[i - 1]))
  <2> DEFINE t == order[i]
  <2>1. t \in C /\ i - 1 \in 0 .. n /\ i \in 0 .. n
    BY <1>1, <1>3
  <2>2. ASSUME NEW j \in b[t].read PROVE s[i - 1][j] = Snapshot[j]
    <3>1. ASSUME NEW m \in 1 .. (i - 1) PROVE j \notin b[order[m]].write
      <4>1. m \in 1 .. n /\ m < i
        BY <1>1
      <4>2. <<order[m], t>> \in R /\ order[m] \in C
        BY <1>2, <1>3, <4>1
      <4>3. order[m] # t /\ ~ (<<t, order[m]>> \in R)
        BY <2>1, <4>2, Zenon DEF TotalOrder
      <4> QED
        BY <2>1, <4>2, <4>3, Zenon DEF ReadersFirst
    <3>2. j \in Key /\ j \notin written(i - 1)
      BY <1>4, <2>1, <3>1
    <3> QED
      BY <2>1, <3>2
  <2>3. Writes(t, b[t], s[i - 1]) = Writes(t, b[t], Snapshot)
    <3> HIDE DEF s, t
    <3>1. [j \in b[t].read |-> s[i - 1][j]] = [j \in b[t].read |-> Snapshot[j]]
      BY <2>2
    <3> QED
      BY <3>1, Zenon DEF Writes
  <2>4. \A k \in Key : k \in written(i) <=> k \in written(i - 1) \/ k \in b[t].write
    <3>1. 1 .. i = (1 .. (i - 1)) \cup {i}
      BY <1>1
    <3> QED
      BY <3>1
  <2> HIDE DEF written
  <2>5. DOMAIN Writes(t, b[t], Snapshot) = b[t].write
    BY DEF Writes
  <2>6. ASSUME NEW k \in Key
        PROVE  s[i][k] = IF k \in b[t].write THEN Writes(t, b[t], Snapshot)[k] ELSE s[i - 1][k]
    <3>1. /\ s[i][k] = IF k \in written(i) THEN d[k] ELSE Snapshot[k]
          /\ s[i - 1][k] = IF k \in written(i - 1) THEN d[k] ELSE Snapshot[k]
      BY <2>1
    <3>2. k \in b[t].write => d[k] = Writes(t, b[t], Snapshot)[k]
      BY <2>1, Zenon DEF HoldsWrites
    <3> HIDE DEF s, t
    <3> QED
      BY <2>4, <3>1, <3>2
  <2>7. s[i] = [k \in Key |-> s[i][k]]
    BY <2>1
  <2> HIDE DEF s
  <2> QED
    BY <2>3, <2>5, <2>6, <2>7 DEF Store
<1>7. Passes(s, b, Snapshot, order, n)
  <2>1. s = [i \in 0 .. n |-> s[i]]
    OBVIOUS
  <2> HIDE DEF s
  <2>2. \A i \in 0 .. n : i = 0 \/ i \in 1 .. n
    BY <1>1
  <2> QED
    BY <1>5, <1>6, <2>1, <2>2, Zenon DEF Passes
<1>8. s[n] = d
  <2>1. ASSUME NEW k \in Key, k \notin written(n) PROVE d[k] = Snapshot[k]
    BY <1>3, <2>1 DEF HoldsWrites
  <2>2. n \in 0 .. n /\ d = [k \in Key |-> d[k]]
    BY <1>1 DEF HoldsWrites
  <2> HIDE DEF written
  <2> QED
    BY <2>1, <2>2
<1> QED
  BY <1>2, <1>7, <1>8, Zenon DEF n, LeadsTo
-----------------------------------------------------------------------------
(* Executing an epoch implements running the committed transactions one after the other. *)

\* The states that the abstract specification goes through are those of Passes.
LEMMA ThroughPasses ==
    ASSUME ~Done, NEW n \in Nat, NEW order, NEW s, Passes(s, txn, Snapshot, order, n)
    PROVE  Serial!Through(order, n) = s
<1>1. Serial!Through(order, n) = CHOOSE f : Passes(f, txn, Snapshot, order, n)
  BY Zenon DEF Serial!Through, Serial!Run, Serial!Store, Serial!Writes, Passes, Store, Writes
<1>2. Passes(CHOOSE f : Passes(f, txn, Snapshot, order, n), txn, Snapshot, order, n)
  OBVIOUS
<1> QED
  BY <1>1, <1>2, PassesUnique, Zenon

\* The step that decides the last transaction runs the epoch: the committed
\* transactions, one after the other in the order Before, lead from the snapshot to
\* the database.
LEMMA LastDecision ==
    ASSUME IInv, IInv', [Next]_vars, ~Done, Done'
    PROVE  Serial!RunEpoch
<1> DEFINE C == Committed'
           R == {p \in Tid \X Tid : Before(p[1], p[2])}
<1>1. txn' = txn
  BY BatchKept
<1>2. /\ TypeOK' /\ DecisionInv' /\ CommittedWritesSurvive' /\ UntouchedInv'
      /\ ResultInv' /\ decided' = Tid
  BY DEF IInv, Done
<1>3. C = {t \in Tid : Decision(t) = "COMMIT"}
  <2>1. \A t \in Tid : result'[t] = Decision(t)
    BY <1>1, <1>2, BatchFrame DEF DecisionInv
  <2> QED
    BY <1>2, <2>1 DEF Committed
<1>4. TypeOK /\ txn \in [Tid -> Transaction]
  BY Parts, TypeFacts
<1>5. C \in SUBSET {t \in Tid : txn[t].ok}
  BY <1>3 DEF Decision
<1>6. \A t, u \in Tid : <<t, u>> \in R <=> Before(t, u)
  OBVIOUS
<1> HIDE DEF R
<1>7. TotalOrder(R, C)
  BY <1>3, <1>6, BeforeIsOrder DEF TotalOrder
<1>8. ReadersFirst(txn, C, R)
  BY <1>3, <1>4, <1>6, ReaderBeforeWriter DEF ReadersFirst
<1>9. HoldsWrites(db', txn, C)
  <2>1. db' = [k \in Key |-> db'[k]]
    BY <1>2 DEF ResultInv
  <2>2. \A t \in C : \A k \in txn[t].write : db'[k] = Writes(t, txn[t], Snapshot)[k]
    BY <1>1, <1>2 DEF CommittedWritesSurvive
  <2>3. \A k \in Key : db'[k] # Snapshot[k] => \E t \in C : k \in txn[t].write
    BY <1>1, <1>2, <1>3, BatchFrame DEF UntouchedInv
  <2> QED
    BY <2>1, <2>2, <2>3, Zenon DEF HoldsWrites
<1>10. C \in SUBSET Tid
  BY <1>3
<1> HIDE DEF C
<1>11. LeadsTo(db', txn, C)
  BY <1>4, <1>7, <1>8, <1>9, <1>10, SerialRun, Zenon
<1>12. PICK order \in [1 .. Cardinality(C) -> C] :
         /\ C = {order[i] : i \in DOMAIN order}
         /\ \E s : /\ Passes(s, txn, Snapshot, order, Cardinality(C))
                  /\ s[Cardinality(C)] = db'
  BY <1>11, Zenon DEF LeadsTo
<1>13. Cardinality(C) \in Nat
  BY <1>10, TidSubsets
<1>14. Serial!Through(order, Cardinality(C))[Cardinality(C)] = db'
  BY <1>12, <1>13, ThroughPasses, Zenon
<1>15. Serial!Cardinality(C) = Cardinality(C)
  BY Zenon DEF Serial!Cardinality, Cardinality
<1>16. order \in [1 .. Serial!Cardinality(C) -> C] /\ C = {order[i] : i \in DOMAIN order}
  BY <1>12, <1>15, Zenon
<1>17. (IF Done THEN db ELSE Snapshot)' = db' /\ (IF Done THEN Committed ELSE {})' = C
  BY DEF C
<1>18. Serial!Through(order, Serial!Cardinality(C))[Serial!Cardinality(C)]
           = (IF Done THEN db ELSE Snapshot)'
  BY <1>14, <1>15, <1>17, Zenon
<1>19. Done' = TRUE
  BY DEF Done
<1> QED
  BY <1>1, <1>5, <1>16, <1>17, <1>18, <1>19, Zenon DEF Serial!RunEpoch

\* Executing an epoch, with any number of workers and any interleaving of their
\* compare_exchange loops and stores, implements running the committed transactions
\* one after the other on the database that the previous epoch left.
THEOREM SerialTheorem == Spec => SerialSpec
<1>1. Init => Serial!Init
  <2> SUFFICES ASSUME Init PROVE Serial!Init
    OBVIOUS
  <2>1. Done = FALSE
    BY DEF Init, Done
  <2>2. Serial!Snapshot = Snapshot
    BY DEF Serial!Snapshot, Snapshot, Serial!Unwritten, Unwritten
  <2>3. txn \in Batches
    BY DEF Init
  <2> QED
    BY <2>1, <2>2, <2>3 DEF Serial!Init
<1>2. ASSUME IInv, IInv', [Next]_vars
      PROVE  [Serial!RunEpoch]_<<txn, IF Done THEN db ELSE Snapshot,
                                 IF Done THEN Committed ELSE {}, Done>>
  <2>1. CASE Done
    <3>1. UNCHANGED <<txn, phase, decided, result, db>>
      BY <1>2, <2>1, DoneIsFinal
    <3> QED
      BY <3>1 DEF Done, Committed
  <2>2. CASE ~Done /\ ~Done'
    BY <1>2, <2>2, BatchKept DEF Done
  <2>3. CASE ~Done /\ Done'
    BY <1>2, <2>3, LastDecision, Zenon
  <2> QED
    BY <2>1, <2>2, <2>3
<1> QED
  BY <1>1, <1>2, InvariantTheorem, PTL DEF Spec, SerialSpec, Serial!Spec
=============================================================================
