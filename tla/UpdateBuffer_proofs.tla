------------------------- MODULE UpdateBuffer_proofs ------------------------
(***************************************************************************)
(* Proofs about UpdateBuffer, for every number of workers, transactions,   *)
(* buckets and epochs.  The flag commitPhase is up when an epoch begins,   *)
(* and as long as it is up nobody writes into the maps; it goes down when  *)
(* they are empty, and stays down until the epoch is committed.            *)
(***************************************************************************)
EXTENDS UpdateBuffer, WellFoundedInduction, TLAPS

-----------------------------------------------------------------------------
(* The inductive invariant. *)

\* Steps of bufferUpdates behind clearBufferThreadSafe.
Filling == {"rwSet", "setRWSet", "tableList", "setTableList"}
SetLabel(m) == IF m = "rwSet" THEN "setRWSet" ELSE "setTableList"

\* The lock: one worker empties the maps, and the flag is up while it does.
LockInv ==
    /\ \A w \in Workers : pc[w] = "clear" <=> w \in mutex
    /\ \A v, w \in mutex : v = w
    /\ mutex = {} => clearing = <<"rwSet", 0>>
    /\ mutex # {} => commitPhase

\* What is behind the bucket to be cleared next is empty.
Before(m, t) ==
    \/ m = clearing[1] /\ bucket(t) < clearing[2]
    \/ m = "rwSet" /\ clearing[1] = "tableList"

ClearedInv == \A m \in Maps, t \in Tids : Before(m, t) /\ mutex # {} => buffer[m][t] = Absent

\* What a worker knows on its way through bufferUpdates.
WorkerInv(w) ==
    /\ phase = "commit" => pc[w] = "idle"
    /\ pc[w] \in Filling => ~commitPhase
    /\ \A m \in Maps : pc[w] = SetLabel(m) => buffer[m][tx[w]] # Absent
    /\ pc[w] \in {"tableList", "setTableList"} => buffer["rwSet"][tx[w]] = epoch

\* A transaction that has reserved is buffered, or a worker is about to do it.
Buffered(t) ==
    \/ \E w \in Workers : tx[w] = t /\ pc[w] # "idle"
    \/ \A m \in Maps : buffer[m][t] = epoch

\* Before the flag goes down, nothing of this epoch is buffered.
NotYet(t) == commitPhase => \E w \in Workers : tx[w] = t /\ pc[w] # "idle"

\* After it, only entries of this epoch are there, or are about to be.
Current(m, t) ==
    \/ buffer[m][t] \in {Absent, epoch}
    \/ \E w \in Workers : tx[w] = t /\ pc[w] = SetLabel(m)

ReadInv ==
    phase = "read" =>
        /\ todo \cup DOMAIN outcome \cup failed # {}
        /\ \A t \in DOMAIN outcome : Buffered(t) /\ NotYet(t)
        /\ ~commitPhase => \A m \in Maps, t \in Tids : Current(m, t)

\* The flag is up when an epoch is committed: some transaction raises it.
Raises(t) == t \in failed \/ outcome[t] # "WAW"
CommitInv == phase = "commit" => commitPhase \/ \E t \in todo : Raises(t)

IInv ==
    /\ TypeOK /\ LockInv /\ ClearedInv
    /\ \A w \in Workers : WorkerInv(w)
    /\ ReadInv /\ CommitInv
    /\ BufferedUntilCommit

-----------------------------------------------------------------------------
\* The parts of the invariant, and what is true of the marks in the maps.
LEMMA Facts ==
    ASSUME IInv
    PROVE  /\ TypeOK /\ LockInv /\ ClearedInv /\ ReadInv /\ CommitInv /\ BufferedUntilCommit
           /\ \A w \in Workers : WorkerInv(w)
           /\ epoch \in Nat \ {0} /\ epoch # Absent /\ epoch \in Entries
           /\ Empty # Absent /\ Empty \in Entries /\ Absent \in Entries
BY ConstantsAssumption DEF IInv, TypeOK, Absent, Empty, Entries

\* A transaction's bucket is one of the map's.
LEMMA BucketFacts == \A t \in Tids : bucket(t) \in 0 .. N - 1
BY ConstantsAssumption DEF bucket

\* A set of transactions has a smallest one.
LEMMA MinFacts == \A S \in SUBSET Tids : S # {} => Min(S) \in S
<1> SUFFICES ASSUME NEW S \in SUBSET Tids, S # {} PROVE Min(S) \in S
  OBVIOUS
<1>1. S \subseteq Nat
  BY ConstantsAssumption
<1>2. PICK x \in S : \A y \in S : ~ (<<y, x>> \in OpToRel(<, Nat))
  BY <1>1, NatLessThanWellFounded, WFMin
<1>3. \A y \in S : x <= y
  <2>1. OpToRel(<, Nat) = {ss \in Nat \X Nat : ss[1] < ss[2]}
    BY DEF OpToRel
  <2>2. ASSUME NEW y \in S, y < x PROVE <<y, x>> \in {ss \in Nat \X Nat : ss[1] < ss[2]}
    BY <1>1, <2>2
  <2>3. ASSUME NEW y \in S PROVE ~ (y < x)
    BY <1>2, <2>1, <2>2, Zenon
  <2>4. QED
    BY <1>1, <2>3
<1>4. QED
  BY <1>3 DEF Min

\* Writing one entry changes no other.
LEMMA UpdateFacts ==
    ASSUME NEW b \in [Maps -> [Tids -> Entries]], NEW m \in Maps, NEW t \in Tids,
           NEW v \in Entries
    PROVE  /\ [b EXCEPT ![m][t] = v] \in [Maps -> [Tids -> Entries]]
           /\ [b EXCEPT ![m][t] = v][m][t] = v
           /\ \A n \in Maps, u \in Tids :
                  n # m \/ u # t => [b EXCEPT ![m][t] = v][n][u] = b[n][u]
<1>1. [b EXCEPT ![m][t] = v] \in [Maps -> [Tids -> Entries]]
  OBVIOUS
<1>2. [b EXCEPT ![m][t] = v][m][t] = v
  OBVIOUS
<1>3. ASSUME NEW n \in Maps, NEW u \in Tids, n # m \/ u # t
      PROVE  [b EXCEPT ![m][t] = v][n][u] = b[n][u]
  BY <1>3
<1>4. QED
  BY <1>1, <1>2, <1>3

-----------------------------------------------------------------------------
(* The steps. *)

\* executeList takes a transaction: its worker will buffer it, or the chaincode has failed.
LEMMA ExecuteStep ==
    ASSUME IInv, NEW w \in Workers, NEW t \in Tids, Execute(w, t)
    PROVE  IInv'
<1> USE Facts
<1>1. /\ phase = "read" /\ pc[w] = "idle" /\ t \in todo /\ todo' = todo \ {t}
      /\ tx' = [tx EXCEPT ![w] = t]
      /\ UNCHANGED <<epoch, phase, commitPhase, buffer, mutex, clearing, dangling>>
  BY DEF Execute, shared
<1>2. TypeOK'
  BY <1>1 DEF TypeOK, Execute, GoTo
<1>3. ASSUME NEW v \in Workers, v # w PROVE pc'[v] = pc[v] /\ tx'[v] = tx[v]
  BY <1>1, <1>3 DEF Execute, GoTo, TypeOK
<1>4. pc'[w] \in {"idle", "flag"} /\ tx'[w] = t
  BY <1>1 DEF Execute, GoTo, TypeOK
<1>5. LockInv' /\ ClearedInv'
  BY <1>1, <1>3, <1>4 DEF LockInv, ClearedInv, Before
<1>6. ASSUME NEW v \in Workers PROVE WorkerInv(v)'
  <2>1. CASE v = w
    BY <1>1, <1>4, <2>1 DEF WorkerInv, Filling, SetLabel
  <2>2. CASE v # w
    BY <1>1, <1>3, <2>2 DEF WorkerInv
  <2>3. QED
    BY <2>1, <2>2
<1>7. ASSUME NEW u, \E v \in Workers : tx[v] = u /\ pc[v] # "idle"
      PROVE  \E v \in Workers : tx'[v] = u /\ pc'[v] # "idle"
  BY <1>1, <1>3, <1>7
<1>8. ReadInv'
  <2>1. todo' \cup DOMAIN outcome' \cup failed' # {}
    BY <1>1 DEF Execute
  <2>2. ASSUME NEW u \in DOMAIN outcome' PROVE Buffered(u)' /\ NotYet(u)'
    <3>1. CASE u \in DOMAIN outcome
      BY <1>1, <1>7, <3>1 DEF ReadInv, Buffered, NotYet
    <3>2. CASE u \notin DOMAIN outcome
      <4>1. u = t /\ pc'[w] = "flag"
        BY <1>1, <2>2, <3>2 DEF Execute, GoTo, TypeOK
      <4>2. QED
        BY <1>4, <4>1 DEF Buffered, NotYet
    <3>3. QED
      BY <3>1, <3>2
  <2>3. ASSUME ~commitPhase', NEW m \in Maps, NEW u \in Tids PROVE Current(m, u)'
    <3>1. Current(m, u)
      BY <1>1, <2>3 DEF ReadInv
    <3>2. ASSUME NEW v \in Workers, tx[v] = u, pc[v] = SetLabel(m)
          PROVE  tx'[v] = u /\ pc'[v] = SetLabel(m)
      BY <1>1, <1>3, <3>2 DEF SetLabel
    <3>3. QED
      BY <1>1, <3>1, <3>2 DEF Current
  <2>4. QED
    BY <2>1, <2>2, <2>3 DEF ReadInv
<1>9. CommitInv' /\ BufferedUntilCommit'
  BY <1>1 DEF CommitInv, BufferedUntilCommit
<1>10. QED
  BY <1>2, <1>5, <1>6, <1>8, <1>9 DEF IInv

\* The flag is tested without the lock: when it is down, it stays down until the epoch is
\* committed.
LEMMA TestFlagStep ==
    ASSUME IInv, NEW w \in Workers, TestFlag(w)
    PROVE  IInv'
<1> USE Facts
<1>1. /\ pc[w] \in {"flag", "flag2"}
      /\ UNCHANGED <<epoch, phase, failed, outcome, todo, tx, commitPhase, buffer, mutex,
                     clearing, dangling>>
  BY DEF TestFlag, coordinated, shared
<1>2. /\ pc'[w] \in {"flag2", "lock", "rwSet"} /\ (pc'[w] = "rwSet" => ~commitPhase)
      /\ \A v \in Workers \ {w} : pc'[v] = pc[v]
      /\ TypeOK'
  BY <1>1 DEF TestFlag, GoTo, TypeOK, Maps
<1>3. phase = "read"
  BY <1>1 DEF WorkerInv, TypeOK
<1>4. LockInv' /\ ClearedInv'
  BY <1>1, <1>2 DEF LockInv, ClearedInv, Before
<1>5. ASSUME NEW v \in Workers PROVE WorkerInv(v)'
  <2>1. CASE v = w
    BY <1>1, <1>2, <1>3, <2>1 DEF WorkerInv, Filling, SetLabel
  <2>2. CASE v # w
    BY <1>1, <1>2, <2>2 DEF WorkerInv
  <2>3. QED
    BY <2>1, <2>2
<1>6. ReadInv'
  <2>1. ASSUME NEW u \in DOMAIN outcome PROVE Buffered(u)' /\ NotYet(u)'
    BY <1>1, <1>2, <1>3, <2>1 DEF ReadInv, Buffered, NotYet
  <2>2. ASSUME ~commitPhase, NEW m \in Maps, NEW u \in Tids PROVE Current(m, u)'
    <3>1. Current(m, u)
      BY <1>3, <2>2 DEF ReadInv
    <3>2. ASSUME NEW v \in Workers, pc[v] = SetLabel(m) PROVE pc'[v] = SetLabel(m)
      BY <1>1, <1>2, <3>2 DEF SetLabel
    <3>3. QED
      BY <1>1, <3>1, <3>2 DEF Current
  <2>3. QED
    BY <1>1, <1>3, <2>1, <2>2 DEF ReadInv
<1>7. CommitInv' /\ BufferedUntilCommit'
  BY <1>1, <1>3 DEF CommitInv, BufferedUntilCommit
<1>8. QED
  BY <1>2, <1>4, <1>5, <1>6, <1>7 DEF IInv

\* The flag is tested again under the lock.
LEMMA LockStep ==
    ASSUME IInv, NEW w \in Workers, Lock(w)
    PROVE  IInv'
<1> USE Facts
<1>1. /\ pc[w] = "lock" /\ mutex = {}
      /\ UNCHANGED <<epoch, phase, failed, outcome, todo, tx, commitPhase, buffer, clearing,
                     dangling>>
  BY DEF Lock, coordinated
<1>2. /\ \/ commitPhase /\ pc'[w] = "clear" /\ mutex' = {w}
         \/ ~commitPhase /\ pc'[w] = "rwSet" /\ mutex' = {}
      /\ \A v \in Workers \ {w} : pc'[v] = pc[v]
      /\ TypeOK'
  BY <1>1 DEF Lock, GoTo, TypeOK, Maps
<1>3. phase = "read"
  BY <1>1 DEF WorkerInv, TypeOK
<1>4. LockInv'
  BY <1>1, <1>2 DEF LockInv
<1>5. ClearedInv'
  BY <1>1, <1>2, BucketFacts DEF LockInv, ClearedInv, Before
<1>6. ASSUME NEW v \in Workers PROVE WorkerInv(v)'
  <2>1. CASE v = w
    BY <1>1, <1>2, <1>3, <2>1 DEF WorkerInv, Filling, SetLabel
  <2>2. CASE v # w
    BY <1>1, <1>2, <2>2 DEF WorkerInv
  <2>3. QED
    BY <2>1, <2>2
<1>7. ReadInv'
  <2>1. ASSUME NEW u \in DOMAIN outcome PROVE Buffered(u)' /\ NotYet(u)'
    BY <1>1, <1>2, <1>3, <2>1 DEF ReadInv, Buffered, NotYet
  <2>2. ASSUME ~commitPhase, NEW m \in Maps, NEW u \in Tids PROVE Current(m, u)'
    <3>1. Current(m, u)
      BY <1>3, <2>2 DEF ReadInv
    <3>2. ASSUME NEW v \in Workers, pc[v] = SetLabel(m) PROVE pc'[v] = SetLabel(m)
      BY <1>1, <1>2, <3>2 DEF SetLabel
    <3>3. QED
      BY <1>1, <3>1, <3>2 DEF Current
  <2>3. QED
    BY <1>1, <1>3, <2>1, <2>2 DEF ReadInv
<1>8. CommitInv' /\ BufferedUntilCommit'
  BY <1>1, <1>3 DEF CommitInv, BufferedUntilCommit
<1>9. QED
  BY <1>2, <1>4, <1>5, <1>6, <1>7, <1>8 DEF IInv

\* HashMap::clear empties bucket after bucket while nobody writes into the maps; the flag
\* goes down when all are empty.
LEMMA ClearStep ==
    ASSUME IInv, NEW w \in Workers, Clear(w)
    PROVE  IInv'
<1> USE Facts
<1>1. /\ pc[w] = "clear" /\ w \in mutex /\ mutex = {w} /\ commitPhase
      /\ clearing' = NextToClear
      /\ UNCHANGED <<epoch, phase, failed, outcome, todo, tx, dangling>>
  BY DEF Clear, coordinated, LockInv
<1>2. phase = "read"
  BY <1>1 DEF WorkerInv, TypeOK
<1>3. /\ buffer' \in [Maps -> [Tids -> Entries]]
      /\ \A m \in Maps, t \in Tids :
             buffer'[m][t] = IF m = clearing[1] /\ bucket(t) = clearing[2] THEN Absent
                             ELSE buffer[m][t]
  BY <1>1 DEF Clear, Cleared, TypeOK
<1>4. ASSUME NEW v \in Workers PROVE pc[v] \notin Filling
  BY <1>1 DEF WorkerInv
<1>5. ASSUME NEW u \in DOMAIN outcome
      PROVE  \E v \in Workers : tx[v] = u /\ pc[v] # "idle"
  BY <1>1, <1>2 DEF ReadInv, NotYet
<1>c. clearing \in Maps \X (0 .. N - 1)
  BY DEF TypeOK
<1>6. CASE NextToClear # <<"rwSet", 0>>
  <2>1. UNCHANGED <<commitPhase, mutex, pc>>
    BY <1>6 DEF Clear
  <2>2. NextToClear \in Maps \X (0 .. N - 1)
    BY <1>c, <1>6, ConstantsAssumption DEF NextToClear, Maps
  <2>3. TypeOK'
    BY <1>1, <1>3, <2>1, <2>2 DEF TypeOK
  <2>4. LockInv'
    BY <1>1, <2>1 DEF LockInv
  <2>5. ClearedInv'
    <3>1. ASSUME NEW m \in Maps, NEW t \in Tids, Before(m, t)'
          PROVE  Before(m, t) \/ (m = clearing[1] /\ bucket(t) = clearing[2])
      <4>1. bucket(t) \in 0 .. N - 1 /\ clearing[1] \in Maps /\ clearing[2] \in 0 .. N - 1
        BY <1>c, BucketFacts
      <4>2. CASE clearing[2] < N - 1
        <5>1. clearing'[1] = clearing[1] /\ clearing'[2] = clearing[2] + 1
          BY <1>1, <4>2 DEF NextToClear
        <5>2. \/ m = clearing[1] /\ bucket(t) < clearing[2] + 1
              \/ m = "rwSet" /\ clearing[1] = "tableList"
          BY <3>1, <5>1 DEF Before, bucket
        <5>3. QED
          BY <4>1, <5>2, ConstantsAssumption DEF Before
      <4>3. CASE ~(clearing[2] < N - 1)
        <5>1. clearing'[1] = "tableList" /\ clearing'[2] = 0 /\ clearing[1] = "rwSet"
          BY <1>1, <1>6, <4>1, <4>3 DEF NextToClear
        <5>2. m = "rwSet" \/ bucket(t) < 0
          BY <3>1, <5>1 DEF Before, bucket
        <5>3. QED
          BY <4>1, <4>3, <5>1, <5>2, ConstantsAssumption DEF Before
      <4>4. QED
        BY <4>2, <4>3
    <3>2. QED
      BY <1>1, <1>3, <3>1 DEF ClearedInv
  <2>6. ASSUME NEW v \in Workers PROVE WorkerInv(v)'
    BY <1>1, <1>2, <1>4, <2>1 DEF WorkerInv, Filling, SetLabel
  <2>7. ReadInv'
    BY <1>1, <1>2, <1>5, <2>1 DEF ReadInv, Buffered, NotYet
  <2>8. CommitInv' /\ BufferedUntilCommit'
    BY <1>1, <1>2 DEF CommitInv, BufferedUntilCommit
  <2>9. QED
    BY <2>3, <2>4, <2>5, <2>6, <2>7, <2>8 DEF IInv
<1>7. CASE NextToClear = <<"rwSet", 0>>
  <2>1. commitPhase' = FALSE /\ mutex' = {} /\ pc' = [pc EXCEPT ![w] = "rwSet"]
    BY <1>7 DEF Clear, GoTo
  <2>2. clearing[1] = "tableList" /\ clearing[2] = N - 1
    BY <1>c, <1>7, ConstantsAssumption DEF NextToClear, Maps
  <2>3. \A m \in Maps, t \in Tids : buffer'[m][t] = Absent
    <3>1. ASSUME NEW m \in Maps, NEW t \in Tids
          PROVE  Before(m, t) \/ (m = clearing[1] /\ bucket(t) = clearing[2])
      BY <2>2, BucketFacts, ConstantsAssumption DEF Before, Maps
    <3>2. QED
      BY <1>1, <1>3, <3>1 DEF ClearedInv
  <2>4. TypeOK'
    <3>1. clearing' \in Maps \X (0 .. N - 1)
      BY <1>1, <1>7, ConstantsAssumption DEF Maps
    <3>2. pc' \in [Workers -> {"idle", "flag", "flag2", "lock", "clear", "setRWSet",
                               "setTableList"} \cup Maps]
      BY <2>1 DEF TypeOK, Maps
    <3>3. QED
      BY <1>1, <1>3, <2>1, <3>1, <3>2 DEF TypeOK
  <2>5. /\ pc'[w] = "rwSet"
        /\ \A v \in Workers \ {w} : pc'[v] = pc[v]
    BY <2>1 DEF TypeOK
  <2>6. LockInv' /\ ClearedInv'
    BY <1>1, <1>7, <2>1, <2>5 DEF LockInv, ClearedInv
  <2>7. ASSUME NEW v \in Workers PROVE WorkerInv(v)'
    BY <1>1, <1>2, <1>4, <2>1, <2>5 DEF WorkerInv, Filling, SetLabel
  <2>8. ReadInv'
    <3>1. ASSUME NEW u \in DOMAIN outcome PROVE Buffered(u)' /\ NotYet(u)'
      BY <1>1, <1>5, <2>1, <2>5, <3>1 DEF Buffered, NotYet
    <3>2. QED
      BY <1>1, <1>2, <2>3, <3>1 DEF ReadInv, Current
  <2>9. CommitInv' /\ BufferedUntilCommit'
    BY <1>1, <1>2 DEF CommitInv, BufferedUntilCommit
  <2>10. QED
    BY <2>4, <2>6, <2>7, <2>8, <2>9 DEF IInv
<1>8. QED
  BY <1>6, <1>7

\* operator[] makes an entry or finds one: the flag is down, and nobody empties the maps.
LEMMA ReferenceStep ==
    ASSUME IInv, NEW w \in Workers, Reference(w)
    PROVE  IInv'
<1> USE Facts
<1>1. /\ pc[w] \in Maps
      /\ UNCHANGED <<epoch, phase, failed, outcome, todo, tx, commitPhase, mutex, clearing,
                     dangling>>
  BY DEF Reference, coordinated
<1>2. /\ pc'[w] = SetLabel(pc[w])
      /\ \A v \in Workers \ {w} : pc'[v] = pc[v]
      /\ pc' \in [Workers -> {"idle", "flag", "flag2", "lock", "clear", "setRWSet",
                              "setTableList"} \cup Maps]
  BY <1>1 DEF Reference, GoTo, TypeOK, Maps, SetLabel
<1>3. ~commitPhase /\ phase = "read" /\ mutex = {}
  BY <1>1 DEF WorkerInv, Filling, Maps, LockInv, TypeOK
<1>4. /\ buffer' \in [Maps -> [Tids -> Entries]]
      /\ buffer'[pc[w]][tx[w]] =
             IF buffer[pc[w]][tx[w]] = Absent THEN Empty ELSE buffer[pc[w]][tx[w]]
      /\ \A m \in Maps, t \in Tids :
             m # pc[w] \/ t # tx[w] => buffer'[m][t] = buffer[m][t]
  <2>1. /\ buffer \in [Maps -> [Tids -> Entries]] /\ tx[w] \in Tids
        /\ (IF buffer[pc[w]][tx[w]] = Absent THEN Empty ELSE buffer[pc[w]][tx[w]]) \in Entries
    BY <1>1 DEF TypeOK
  <2>2. buffer' = [buffer EXCEPT ![pc[w]][tx[w]] =
                       IF buffer[pc[w]][tx[w]] = Absent THEN Empty ELSE buffer[pc[w]][tx[w]]]
    BY DEF Reference
  <2>3. pc[w] \in Maps
    BY <1>1
  <2> HIDE Facts
  <2>4. QED
    BY <2>1, <2>2, <2>3, UpdateFacts
<1>5. \A m \in Maps, t \in Tids : /\ buffer[m][t] # Absent => buffer'[m][t] = buffer[m][t]
                                  /\ buffer'[pc[w]][tx[w]] # Absent
  BY <1>4
<1>t. \A v \in Workers : tx[v] \in Tids
  BY DEF TypeOK
<1>6. TypeOK' /\ LockInv' /\ ClearedInv'
  <2>1. TypeOK'
    BY <1>1, <1>2, <1>4 DEF TypeOK
  <2>2. pc'[w] # "clear" /\ pc[w] # "clear"
    BY <1>1, <1>2 DEF SetLabel, Maps
  <2>3. QED
    BY <1>1, <1>2, <1>3, <2>1, <2>2 DEF LockInv, ClearedInv
<1>7. ASSUME NEW v \in Workers PROVE WorkerInv(v)'
  <2>1. CASE v = w
    <3>1. pc'[w] \in {"setRWSet", "setTableList"}
      BY <1>2 DEF SetLabel
    <3>2. ASSUME NEW m \in Maps, pc'[w] = SetLabel(m) PROVE buffer'[m][tx[w]] # Absent
      <4>1. m = pc[w]
        BY <1>1, <1>2, <3>2 DEF SetLabel, Maps
      <4>2. QED
        BY <1>1, <1>5, <1>t, <4>1
    <3>3. pc'[w] \in {"tableList", "setTableList"} => buffer'["rwSet"][tx[w]] = epoch
      <4>1. SUFFICES ASSUME pc'[w] = "setTableList" PROVE buffer'["rwSet"][tx[w]] = epoch
        BY <3>1
      <4>2. pc[w] = "tableList"
        BY <1>1, <1>2, <4>1 DEF SetLabel, Maps
      <4>3. buffer["rwSet"][tx[w]] = epoch
        BY <4>2 DEF WorkerInv
      <4>4. QED
        BY <1>5, <1>t, <4>3 DEF Maps
    <3>4. QED
      BY <1>1, <1>3, <2>1, <3>2, <3>3 DEF WorkerInv
  <2>2. CASE v # w
    <3>1. /\ \A m \in Maps : pc[v] = SetLabel(m) => buffer'[m][tx[v]] # Absent
          /\ pc[v] \in {"tableList", "setTableList"} => buffer'["rwSet"][tx[v]] = epoch
      BY <1>5, <1>t DEF WorkerInv, Maps
    <3>2. QED
      BY <1>1, <1>2, <1>3, <2>2, <3>1 DEF WorkerInv
  <2>3. QED
    BY <2>1, <2>2
<1>8. ReadInv'
  <2>1. ASSUME NEW u \in DOMAIN outcome PROVE Buffered(u)' /\ NotYet(u)'
    <3>1. Buffered(u) /\ u \in Tids
      BY <1>3, <2>1 DEF ReadInv, TypeOK
    <3>2. ASSUME NEW v \in Workers, pc[v] # "idle" PROVE pc'[v] # "idle"
      BY <1>2, <3>2 DEF SetLabel
    <3>3. (\A m \in Maps : buffer[m][u] = epoch) => \A m \in Maps : buffer'[m][u] = epoch
      BY <1>5, <3>1
    <3>4. QED
      BY <1>1, <1>3, <3>1, <3>2, <3>3 DEF Buffered, NotYet
  <2>2. ASSUME NEW m \in Maps, NEW u \in Tids PROVE Current(m, u)'
    <3>1. Current(m, u)
      BY <1>3, <2>2 DEF ReadInv
    <3>2. CASE m = pc[w] /\ u = tx[w]
      BY <1>1, <1>2, <3>2 DEF Current
    <3>3. CASE m # pc[w] \/ u # tx[w]
      <4>1. ASSUME NEW v \in Workers, pc[v] = SetLabel(m) PROVE pc'[v] = SetLabel(m)
        BY <1>1, <1>2, <4>1 DEF SetLabel, Maps
      <4>2. QED
        BY <1>1, <1>4, <3>1, <3>3, <4>1 DEF Current
    <3>4. QED
      BY <3>2, <3>3
  <2>3. QED
    BY <1>1, <1>3, <2>1, <2>2 DEF ReadInv
<1>9. CommitInv' /\ BufferedUntilCommit'
  BY <1>1, <1>3 DEF CommitInv, BufferedUntilCommit
<1>10. QED
  BY <1>6, <1>7, <1>8, <1>9 DEF IInv

\* The assignment through the reference finds the entry, and makes it one of this epoch.
LEMMA AssignStep ==
    ASSUME IInv, NEW w \in Workers, Assign(w)
    PROVE  IInv'
<1> USE Facts
<1> DEFINE n == Written(w)
<1>1. /\ pc[w] \in {"setRWSet", "setTableList"} /\ n \in Maps /\ pc[w] = SetLabel(n)
      /\ UNCHANGED <<epoch, phase, failed, outcome, todo, tx, commitPhase, mutex, clearing>>
  BY DEF Assign, coordinated, Written, SetLabel, Maps
<1>2. /\ pc'[w] = IF n = "rwSet" THEN "tableList" ELSE "idle"
      /\ \A v \in Workers \ {w} : pc'[v] = pc[v]
      /\ pc' \in [Workers -> {"idle", "flag", "flag2", "lock", "clear", "setRWSet",
                              "setTableList"} \cup Maps]
  BY <1>1 DEF Assign, GoTo, TypeOK, Maps, Written
<1>3. ~commitPhase /\ phase = "read" /\ mutex = {} /\ buffer[n][tx[w]] # Absent
  BY <1>1 DEF WorkerInv, Filling, LockInv, TypeOK
<1>t. \A v \in Workers : tx[v] \in Tids
  BY DEF TypeOK
<1> HIDE DEF n
<1>4. buffer' = [buffer EXCEPT ![n][tx[w]] = epoch] /\ UNCHANGED dangling
  BY <1>3 DEF Assign, n
<1>5. /\ buffer' \in [Maps -> [Tids -> Entries]]
      /\ buffer'[n][tx[w]] = epoch
      /\ \A m \in Maps, t \in Tids : m # n \/ t # tx[w] => buffer'[m][t] = buffer[m][t]
  BY <1>1, <1>4, <1>t, UpdateFacts DEF TypeOK
<1>6. \A m \in Maps, t \in Tids : /\ buffer[m][t] # Absent => buffer'[m][t] # Absent
                                  /\ buffer[m][t] = epoch => buffer'[m][t] = epoch
  BY <1>5
<1>7. TypeOK' /\ LockInv' /\ ClearedInv'
  <2>1. TypeOK'
    BY <1>1, <1>2, <1>4, <1>5 DEF TypeOK
  <2>2. pc'[w] # "clear" /\ pc[w] # "clear"
    BY <1>1, <1>2
  <2>3. QED
    BY <1>1, <1>2, <1>3, <2>1, <2>2 DEF LockInv, ClearedInv
<1>8. ASSUME NEW v \in Workers PROVE WorkerInv(v)'
  <2>1. CASE v = w
    <3>1. pc'[w] = "tableList" => n = "rwSet"
      BY <1>2
    <3>2. pc'[w] \in {"tableList", "idle"}
      BY <1>2
    <3>3. pc'[w] = "tableList" => buffer'["rwSet"][tx[w]] = epoch
      BY <1>5, <3>1
    <3>4. QED
      BY <1>1, <1>3, <2>1, <3>2, <3>3 DEF WorkerInv, SetLabel
  <2>2. CASE v # w
    <3>1. /\ \A m \in Maps : pc[v] = SetLabel(m) => buffer'[m][tx[v]] # Absent
          /\ pc[v] \in {"tableList", "setTableList"} => buffer'["rwSet"][tx[v]] = epoch
      BY <1>6, <1>t DEF WorkerInv, Maps
    <3>2. QED
      BY <1>1, <1>2, <1>3, <2>2, <3>1 DEF WorkerInv
  <2>3. QED
    BY <2>1, <2>2
<1>9. ReadInv'
  <2>1. ASSUME NEW u \in DOMAIN outcome PROVE Buffered(u)' /\ NotYet(u)'
    <3>1. Buffered(u) /\ u \in Tids
      BY <1>3, <2>1 DEF ReadInv, TypeOK
    <3>2. CASE \A m \in Maps : buffer[m][u] = epoch
      BY <1>1, <1>3, <1>6, <3>1, <3>2 DEF Buffered, NotYet
    <3>3. ASSUME NEW v \in Workers, tx[v] = u, pc[v] # "idle" PROVE Buffered(u)'
      <4>1. CASE pc'[v] # "idle"
        BY <1>1, <3>3, <4>1 DEF Buffered
      <4>2. CASE pc'[v] = "idle"
        <5>1. v = w /\ n = "tableList"
          BY <1>1, <1>2, <3>3, <4>2 DEF Maps
        <5>2. buffer["rwSet"][u] = epoch
          BY <1>1, <3>3, <5>1 DEF WorkerInv, SetLabel
        <5>3. \A m \in Maps : buffer'[m][u] = epoch
          BY <1>5, <1>6, <3>1, <3>3, <5>1, <5>2 DEF Maps
        <5>4. QED
          BY <1>1, <5>3 DEF Buffered
      <4>3. QED
        BY <4>1, <4>2
    <3>4. QED
      BY <1>1, <1>3, <3>1, <3>2, <3>3 DEF Buffered, NotYet
  <2>2. ASSUME NEW m \in Maps, NEW u \in Tids PROVE Current(m, u)'
    <3>1. Current(m, u)
      BY <1>3, <2>2 DEF ReadInv
    <3>2. CASE m = n /\ u = tx[w]
      BY <1>1, <1>5, <3>2 DEF Current
    <3>3. CASE m # n \/ u # tx[w]
      <4>1. ASSUME NEW v \in Workers, pc[v] = SetLabel(m), tx[v] = u PROVE pc'[v] = SetLabel(m)
        BY <1>1, <1>2, <3>3, <4>1 DEF SetLabel, Maps
      <4>2. QED
        BY <1>1, <1>5, <3>1, <3>3, <4>1 DEF Current
    <3>4. QED
      BY <3>2, <3>3
  <2>3. QED
    BY <1>1, <1>3, <2>1, <2>2 DEF ReadInv
<1>10. CommitInv' /\ BufferedUntilCommit'
  BY <1>1, <1>3, <1>4 DEF CommitInv, BufferedUntilCommit
<1>11. QED
  BY <1>7, <1>8, <1>9, <1>10 DEF IInv

\* The barrier between the phases: all transactions that reserved are buffered, and one of
\* those to be committed or aborted will raise the flag.
LEMMA StartCommitStep ==
    ASSUME IInv, StartCommit
    PROVE  IInv'
<1> USE Facts
<1>1. /\ phase = "read" /\ phase' = "commit" /\ todo = {} /\ todo' = DOMAIN outcome \cup failed
      /\ outcome' \in Decisions
      /\ \A w \in Workers : pc[w] = "idle"
      /\ UNCHANGED <<epoch, failed, pc, tx, commitPhase, buffer, mutex, clearing, dangling>>
  BY DEF StartCommit, PhaseDone, shared
<1>2. /\ DOMAIN outcome' = DOMAIN outcome
      /\ DOMAIN outcome # {} => outcome'[Min(DOMAIN outcome)] = "COMMIT"
  BY <1>1 DEF Decisions
<1>3. TypeOK' /\ LockInv' /\ ClearedInv'
  BY <1>1, <1>2 DEF TypeOK, LockInv, ClearedInv, Before
<1>4. \A w \in Workers : WorkerInv(w)'
  BY <1>1 DEF WorkerInv, Filling, SetLabel
<1>5. CommitInv'
  <2>1. DOMAIN outcome \cup failed # {}
    BY <1>1 DEF ReadInv
  <2>2. CASE failed # {}
    BY <1>1, <2>2 DEF CommitInv, Raises
  <2>3. CASE DOMAIN outcome # {}
    <3>1. Min(DOMAIN outcome) \in DOMAIN outcome
      BY <2>3, MinFacts DEF TypeOK
    <3>2. QED
      BY <1>1, <1>2, <2>3, <3>1 DEF CommitInv, Raises
  <2>4. QED
    BY <2>1, <2>2, <2>3
<1>6. BufferedUntilCommit'
  <2>1. \A t \in DOMAIN outcome, m \in Maps : buffer[m][t] = epoch
    BY <1>1 DEF ReadInv, Buffered
  <2>2. ASSUME DOMAIN outcome # {}, NEW t \in Tids, NEW m \in Maps
        PROVE  buffer[m][t] \in {Absent, epoch}
    <3>1. ~commitPhase
      BY <1>1, <2>2 DEF ReadInv, NotYet
    <3>2. Current(m, t)
      BY <1>1, <3>1 DEF ReadInv
    <3>3. QED
      BY <1>1, <3>2 DEF Current, SetLabel
  <2>3. QED
    BY <1>1, <1>2, <2>1, <2>2 DEF BufferedUntilCommit
<1>7. QED
  BY <1>1, <1>3, <1>4, <1>5, <1>6 DEF IInv, ReadInv

\* commitUpdate and abortUpdate raise the flag; they change no entry.
LEMMA CommitStep ==
    ASSUME IInv, NEW t \in Tids, Commit(t)
    PROVE  IInv'
<1> USE Facts
<1>1. /\ phase = "commit" /\ t \in todo /\ todo' = todo \ {t}
      /\ commitPhase' = (commitPhase \/ t \in failed \/ outcome[t] # "WAW")
      /\ UNCHANGED <<epoch, phase, failed, outcome, pc, tx, buffer, mutex, clearing, dangling>>
  BY DEF Commit, coordinated
<1>2. commitPhase' \in BOOLEAN /\ (commitPhase => commitPhase')
  BY <1>1
<1>3. TypeOK' /\ LockInv' /\ ClearedInv'
  BY <1>1, <1>2 DEF TypeOK, LockInv, ClearedInv, Before
<1>4. \A w \in Workers : WorkerInv(w)'
  BY <1>1 DEF WorkerInv, Filling, SetLabel
<1>5. CommitInv'
  BY <1>1 DEF CommitInv, Raises
<1>6. ReadInv' /\ BufferedUntilCommit'
  BY <1>1 DEF ReadInv, BufferedUntilCommit
<1>7. QED
  BY <1>3, <1>4, <1>5, <1>6 DEF IInv

\* The next epoch begins with the flag up.
LEMMA NextEpochStep ==
    ASSUME IInv, NextEpoch
    PROVE  IInv'
<1> USE Facts
<1>1. /\ phase = "commit" /\ todo = {} /\ epoch < MaxEpoch /\ epoch' = epoch + 1
      /\ phase' = "read" /\ todo' \in (SUBSET Tids) \ {{}} /\ failed' = {}
      /\ DOMAIN outcome' = {}
      /\ \A w \in Workers : pc[w] = "idle"
      /\ UNCHANGED <<pc, tx, commitPhase, buffer, mutex, clearing, dangling>>
  BY DEF NextEpoch, PhaseDone, shared
<1>2. commitPhase
  BY <1>1 DEF CommitInv, TypeOK
<1>3. TypeOK'
  BY <1>1, ConstantsAssumption DEF TypeOK
<1>4. LockInv' /\ ClearedInv'
  BY <1>1 DEF LockInv, ClearedInv, Before
<1>5. \A w \in Workers : WorkerInv(w)'
  BY <1>1 DEF WorkerInv, Filling, SetLabel
<1>6. ReadInv' /\ CommitInv' /\ BufferedUntilCommit'
  BY <1>1, <1>2 DEF ReadInv, CommitInv, BufferedUntilCommit
<1>7. QED
  BY <1>3, <1>4, <1>5, <1>6 DEF IInv

-----------------------------------------------------------------------------
\* The database starts with empty maps and the flag down.
LEMMA InitIInv == Init => IInv
<1> SUFFICES ASSUME Init PROVE IInv
  OBVIOUS
<1>1. TypeOK
  <2>1. epoch \in 1 .. MaxEpoch /\ clearing \in Maps \X (0 .. N - 1)
    BY ConstantsAssumption DEF Init, Maps
  <2>2. buffer \in [Maps -> [Tids -> Entries]]
    BY DEF Init, Entries
  <2>3. (CHOOSE t \in Tids : TRUE) \in Tids
    BY ConstantsAssumption
  <2>4. QED
    BY <2>1, <2>2, <2>3 DEF Init, TypeOK
<1>2. LockInv /\ ClearedInv /\ CommitInv /\ BufferedUntilCommit
  BY DEF Init, LockInv, ClearedInv, CommitInv, BufferedUntilCommit
<1>3. \A w \in Workers : WorkerInv(w)
  BY DEF Init, WorkerInv, Filling, SetLabel
<1>4. ReadInv
  BY DEF Init, ReadInv, Current, Maps
<1>5. QED
  BY <1>1, <1>2, <1>3, <1>4 DEF IInv

\* The invariant holds in every reachable state.
THEOREM InvariantTheorem == Spec => []IInv
<1>1. ASSUME IInv, UNCHANGED vars PROVE IInv'
  <2>1. TypeOK' /\ LockInv'
    BY <1>1, Facts DEF vars, TypeOK, LockInv
  <2>2. ClearedInv' /\ \A w \in Workers : WorkerInv(w)'
    BY <1>1, Facts DEF vars, ClearedInv, Before, WorkerInv, Filling, SetLabel
  <2>3. ReadInv'
    BY <1>1, Facts DEF vars, ReadInv, Buffered, NotYet, Current
  <2>4. CommitInv' /\ BufferedUntilCommit'
    BY <1>1, Facts DEF vars, CommitInv, Raises, BufferedUntilCommit
  <2>5. QED
    BY <2>1, <2>2, <2>3, <2>4 DEF IInv
<1>2. IInv /\ [Next]_vars => IInv'
  BY <1>1, ExecuteStep, TestFlagStep, LockStep, ClearStep, ReferenceStep, AssignStep,
     StartCommitStep, CommitStep, NextEpochStep DEF Next, Finished
<1>3. QED
  BY <1>2, InitIInv, PTL DEF Spec

\* Every variable keeps its type.
THEOREM TypeTheorem == Spec => []TypeOK
<1>1. IInv => TypeOK
  BY DEF IInv
<1>2. QED
  BY <1>1, InvariantTheorem, PTL

\* commitUpdate finds what this epoch's execution wrote in both maps, nothing of an earlier
\* epoch is left beside it, and bufferUpdates never writes through a reference to an entry
\* that clearBufferThreadSafe has removed: although the flag is read without the lock, and
\* the references are used without the lock of their bucket.
THEOREM BufferedTheorem == Spec => []BufferedUntilCommit
<1>1. IInv => BufferedUntilCommit
  BY DEF IInv
<1>2. QED
  BY <1>1, InvariantTheorem, PTL

=============================================================================
