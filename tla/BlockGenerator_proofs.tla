----------------------- MODULE BlockGenerator_proofs ------------------------
(***************************************************************************)
(* Proofs about BlockGenerator, for every size of the pool, number of      *)
(* peers, epochs and crashes, and for both storages; and, at the end,      *)
(* about UserClient, the user who polls its blocks.                        *)
(***************************************************************************)
EXTENDS BlockGenerator, Sequences, FiniteSetTheorems, TLAPS

-----------------------------------------------------------------------------
(* The inductive invariant. *)

\* The pool has only what was asked for.
PoolInv == \A e \in Epoch : task[e] # "none" => e <= asked

\* The header thread works on the block after the last saved one.
HeaderInv ==
    /\ hpc \in {"wait", "sleep", "header", "insert"} => hepoch = saved + 1
    /\ hpc \in {"number", "notify"} => hepoch = saved
    /\ hpc = "header" => hepoch \in blockBuffer
    /\ hpc = "insert" =>
           /\ hepoch \in Epoch
           /\ block = [hash |-> Hash(hepoch),
                       previous |-> IF saved > 0 THEN file[saved].hash ELSE NoHash]

\* block_num.txt is behind the files by the block that was just written.
NumberInv ==
    /\ number \in {Lost, IF hpc = "number" THEN saved - 1 ELSE saved}
    /\ number = Lost => NumberMayTear

\* The process has found blocks when it started, and made none.
Restarted == previous = NoHash /\ saved > 0

\* The first n blocks are a chain.
Chain(n) ==
    \A e \in 1 .. n :
        /\ file[e] \notin {NoBlock, Torn} /\ file[e].hash[2] = e
        /\ e > 1 => file[e].previous = file[e - 1].hash

\* The saved blocks are one, unless their number was lost; the cached hash is that of
\* the last one, unless the process has found it there.
ChainInv ==
    /\ Chain(saved) \/ (number = Lost /\ Restarted)
    /\ Restarted => /\ hpc \in {"wait", "sleep", "header"}
                    /\ ~ResetEpoch /\ ~InMemory /\ incarnation > 1
    /\ IF hpc = "insert" THEN previous = Hash(hepoch)
                         ELSE saved > 0 /\ ~Restarted => previous = file[saved].hash
    /\ \A e \in Epoch : file[e].hash = NoHash => file[e] \in {NoBlock, Torn}

\* A signature is verified when the block is saved.
VerifierInv == \A p \in Peer : vpc[p] = "verify" => vepoch[p] \in 1 .. saved

\* A CHECK fails only after a restart that finds blocks.
CheckInv == failed => ~ResetEpoch /\ ~InMemory /\ incarnation > 1

\* Before a crash, the user knows of saved blocks and has got what it asked for.
UserInv == incarnation = 1 /\ ~EarlyReturn => tip <= saved /\ missed = {}

IInv ==
    /\ TypeOK /\ PoolInv /\ HeaderInv /\ NumberInv /\ ChainInv
    /\ VerifierInv /\ CheckInv /\ UserInv

-----------------------------------------------------------------------------
\* The parts of the invariant.
LEMMA Facts ==
    ASSUME IInv
    PROVE  /\ TypeOK /\ PoolInv /\ HeaderInv /\ NumberInv /\ ChainInv
           /\ VerifierInv /\ CheckInv /\ UserInv
           /\ saved \in Nat /\ hepoch \in Nat /\ asked \in Nat /\ incarnation \in Nat
           /\ saved <= LastEpoch /\ LastEpoch \in Nat /\ MaxCrash \in Nat
BY ConstantsAssumption DEF IInv, TypeOK

\* A block has a hash and the hash of the one before.
LEMMA BlockFacts ==
    /\ NoHash \in (0 .. MaxCrash + 1) \X (0 .. LastEpoch) /\ NoHash[1] = 0
    /\ NoBlock \in Blocks
    /\ Epoch # {} => Torn \in Blocks
    /\ NoBlock.hash = NoHash /\ Torn.hash = NoHash
BY ConstantsAssumption DEF NoHash, NoBlock, Torn, Blocks, Epoch

\* The hash of a body is not that of no block.
LEMMA HashFacts ==
    ASSUME TypeOK, NEW e \in Epoch
    PROVE  /\ Hash(e) \in (0 .. MaxCrash + 1) \X (0 .. LastEpoch)
           /\ Hash(e) # NoHash /\ Hash(e)[2] = e
BY ConstantsAssumption DEF Hash, NoHash, Epoch, TypeOK

\* A step of one task of the pool: no more threads are busy than there are.
LEMMA TaskStep ==
    ASSUME TypeOK, NEW e \in Epoch,
           NEW s \in {"queued", "running", "body", "built", "done"},
           task' = [task EXCEPT ![e] = s],
           \/ task[e] \in {"running", "body", "built"}
           \/ s = "queued"
           \/ Cardinality(Running) < PoolSize
    PROVE  /\ task' \in [Epoch -> {"none", "queued", "running", "body", "built", "done"}]
           /\ Cardinality(Running') <= PoolSize
<1> DEFINE Busy == {"running", "body", "built"}
<1>1. task' \in [Epoch -> {"none", "queued", "running", "body", "built", "done"}]
  BY DEF TypeOK
<1>2. IsFiniteSet(Running) /\ Cardinality(Running) \in Nat
  <2>1. IsFiniteSet(Epoch)
    BY FS_Interval, ConstantsAssumption DEF Epoch
  <2>2. QED
    BY <2>1, FS_Subset, FS_CardinalityType DEF Running
<1>3. CASE s \notin Busy \/ e \in Running
  <2>1. Running' \subseteq Running
    BY <1>3 DEF TypeOK, Running
  <2>2. Cardinality(Running') <= Cardinality(Running)
    BY <1>2, <2>1, FS_Subset
  <2>3. QED
    BY <1>1, <1>2, <2>1, <2>2, FS_Subset, FS_CardinalityType, ConstantsAssumption
       DEF TypeOK, Running
<1>4. CASE s \in Busy /\ e \notin Running
  <2>1. Running' = Running \cup {e}
    BY <1>4 DEF TypeOK, Running
  <2>2. Cardinality(Running) < PoolSize
    BY <1>4 DEF Running
  <2>3. Cardinality(Running') = Cardinality(Running) + 1
    BY <1>2, <1>4, <2>1, FS_AddElement
  <2>4. QED
    BY <1>1, <1>2, <2>2, <2>3, ConstantsAssumption
<1>5. QED
  BY <1>3, <1>4

\* A step of the coordinator or of the pool: it may add to blockBuffer, and wake the
\* header thread.
LEMMA PoolFrame ==
    ASSUME IInv,
           UNCHANGED <<process, hepoch, previous, block, saved, disk, verifiers, user>>,
           blockBuffer \subseteq blockBuffer',
           hpc' = hpc \/ (hpc = "sleep" /\ hpc' = "wait"),
           TypeOK', PoolInv'
    PROVE  IInv'
<1> USE Facts
<1> USE DEF process, disk, verifiers, user
<1>1. HeaderInv' /\ NumberInv'
  BY DEF HeaderInv, NumberInv, Hash
<1>2. ChainInv'
  BY DEF ChainInv, Chain, Restarted, Hash
<1>3. VerifierInv' /\ CheckInv' /\ UserInv'
  BY DEF VerifierInv, CheckInv, UserInv
<1>4. QED
  BY <1>1, <1>2, <1>3 DEF IInv

\* generateBlock.
LEMMA GenerateBlockStep ==
    ASSUME IInv, GenerateBlock
    PROVE  IInv'
<1> USE Facts
<1>1. /\ asked < LastEpoch /\ asked' = asked + 1
      /\ task' = [task EXCEPT ![asked + 1] = "queued"]
      /\ UNCHANGED <<process, partial, partialEpoch, blockBuffer, hpc, hepoch, previous,
                     block, saved, disk, verifiers, user>>
  BY DEF GenerateBlock, header
<1>2. asked + 1 \in Epoch
  BY <1>1 DEF Epoch
<1>3. /\ task' \in [Epoch -> {"none", "queued", "running", "body", "built", "done"}]
      /\ Cardinality(Running') <= PoolSize
  BY <1>1, <1>2, TaskStep
<1>4. TypeOK'
  BY <1>1, <1>3 DEF TypeOK, Running, process, disk, verifiers, user, Blocks
<1>5. PoolInv'
  <2>1. task'[asked + 1] = "queued" /\ \A e \in Epoch \ {asked + 1} : task'[e] = task[e]
    BY <1>1, <1>2 DEF TypeOK
  <2>2. \A e \in Epoch : e \in Nat /\ (e <= asked => e <= asked + 1)
    BY DEF Epoch
  <2>3. QED
    BY <1>1, <2>1, <2>2 DEF PoolInv
<1>6. QED
  BY <1>1, <1>4, <1>5, PoolFrame

\* A thread of the pool takes a task, builds the body, and gives the signal.
LEMMA PoolStepStep ==
    ASSUME IInv, PoolStep
    PROVE  IInv'
<1> USE Facts
<1>1. PICK e \in Epoch : StartTask(e) \/ BuildPartial(e) \/ BuildBody(e) \/ NotifyHeader(e)
  BY DEF PoolStep
<1>2. PICK s \in {"running", "body", "built", "done"} :
        /\ task' = [task EXCEPT ![e] = s]
        /\ task[e] \in {"running", "body", "built"} \/ Cardinality(Running) < PoolSize
  BY <1>1 DEF StartTask, BuildPartial, BuildBody, NotifyHeader
<1>3. /\ task' \in [Epoch -> {"none", "queued", "running", "body", "built", "done"}]
      /\ Cardinality(Running') <= PoolSize
  BY <1>2, TaskStep
<1>4. task[e] # "none" /\ e <= asked
  BY <1>1 DEF PoolInv, StartTask, BuildPartial, BuildBody, NotifyHeader
<1>5. /\ UNCHANGED <<process, asked, hepoch, previous, block, saved, disk, verifiers, user>>
      /\ blockBuffer' \in {blockBuffer, blockBuffer \cup {e}}
      /\ hpc' = hpc \/ (hpc = "sleep" /\ hpc' = "wait")
      /\ \/ UNCHANGED <<partial, partialEpoch>>
         \/ partial' = partial \cup {e} /\ partialEpoch' = e
  BY <1>1 DEF StartTask, BuildPartial, BuildBody, NotifyHeader, header, AfterNotify, AfterWakeup
<1>6. e \in 1 .. asked
  BY <1>4 DEF Epoch
<1>7. TypeOK'
  BY <1>3, <1>5, <1>6 DEF TypeOK, Running, process, disk, verifiers, user, Blocks
<1>8. PoolInv'
  BY <1>2, <1>4, <1>5 DEF PoolInv, TypeOK
<1>9. QED
  BY <1>5, <1>7, <1>8, PoolFrame

-----------------------------------------------------------------------------
(* The header thread. *)

\* A step that touches neither the pool nor the user.
LEMMA PoolUnchanged ==
    ASSUME IInv, UNCHANGED <<asked, task>>
    PROVE  PoolInv'
BY Facts DEF PoolInv

\* The wait for the body of the next epoch.
LEMMA WaitForBodyStep ==
    ASSUME IInv, WaitForBody
    PROVE  IInv'
<1> USE Facts
<1>1. /\ hpc = "wait" /\ hpc' = IF hepoch \in blockBuffer THEN "header" ELSE "sleep"
      /\ UNCHANGED <<incarnation, failed, asked, task, partial, partialEpoch, blockBuffer,
                     hepoch, previous, block, saved, file, number, vpc, vepoch, tip,
                     height, missed>>
  BY DEF WaitForBody, process, pool, disk, verifiers, user
<1>2. TypeOK' /\ PoolInv'
  BY <1>1, PoolUnchanged DEF TypeOK
<1>3. HeaderInv' /\ NumberInv'
  BY <1>1 DEF HeaderInv, NumberInv
<1>4. ChainInv'
  BY <1>1 DEF ChainInv, Chain, Restarted
<1>5. VerifierInv' /\ CheckInv' /\ UserInv'
  BY <1>1 DEF VerifierInv, CheckInv, UserInv
<1>6. QED
  BY <1>2, <1>3, <1>4, <1>5 DEF IInv

\* What can be loaded of a chain.
LEMMA ChainLoads ==
    ASSUME IInv, Chain(saved), NEW e \in 1 .. saved
    PROVE  e \in Epoch /\ DeserializeBlock(e) /\ SignatureValidate(e)
BY Facts DEF Chain, DeserializeBlock, LoadsDB, LoadsFile, SignatureValidate, Epoch

\* generateBlockHeader: the CHECKs hold, unless the process has found the last block.
LEMMA HeaderChecks ==
    ASSUME IInv, hpc = "header", saved > 0
    PROVE  PreviousMatches <=> ~Restarted
<1> USE Facts
<1>1. saved \in 1 .. saved /\ saved \in Epoch
  BY DEF Epoch
<1>2. CASE Restarted
  <2>1. ~InMemory
    BY <1>2 DEF ChainInv
  <2>2. file[saved].hash = NoHash => file[saved] \in {NoBlock, Torn}
    BY <1>1 DEF ChainInv
  <2>3. QED
    BY <1>2, <2>1, <2>2 DEF PreviousMatches, DeserializeBlock, LoadsFile, Restarted
<1>3. CASE ~Restarted
  <2>1. Chain(saved) /\ previous = file[saved].hash
    BY <1>3 DEF ChainInv
  <2>2. QED
    BY <1>1, <1>3, <2>1, ChainLoads DEF PreviousMatches
<1>4. QED
  BY <1>2, <1>3

\* generateBlockHeader.
LEMMA GenerateBlockHeaderStep ==
    ASSUME IInv, GenerateBlockHeader
    PROVE  IInv'
<1> USE Facts
<1>1. /\ hpc = "header" /\ hepoch = saved + 1 /\ hepoch \in blockBuffer
      /\ UNCHANGED <<incarnation, asked, task, partial, partialEpoch, hepoch, saved, file,
                     number, vpc, vepoch, tip, height, missed>>
  BY DEF GenerateBlockHeader, HeaderInv, pool, disk, verifiers, user
<1>2. hepoch \in Epoch
  BY <1>1 DEF TypeOK, Epoch
<1>3. PoolInv' /\ VerifierInv' /\ UserInv'
  BY <1>1, PoolUnchanged DEF VerifierInv, UserInv
<1>4. CASE saved > 0 /\ Restarted
  <2>1. failed' = TRUE /\ UNCHANGED <<block, previous, blockBuffer, hpc>>
    BY <1>1, <1>4, HeaderChecks DEF GenerateBlockHeader
  <2>2. TypeOK'
    BY <1>1, <2>1 DEF TypeOK
  <2>3. HeaderInv' /\ NumberInv'
    BY <1>1, <2>1 DEF HeaderInv, NumberInv
  <2>4. ChainInv'
    BY <1>1, <2>1 DEF ChainInv, Chain, Restarted
  <2>5. CheckInv'
    BY <1>1, <1>4 DEF CheckInv, ChainInv
  <2>6. QED
    BY <1>3, <2>2, <2>3, <2>4, <2>5 DEF IInv
<1>5. CASE ~(saved > 0 /\ Restarted)
  <2>1. /\ block' = [hash |-> Hash(hepoch), previous |-> IF saved > 0 THEN previous
                                                                     ELSE NoHash]
        /\ previous' = Hash(hepoch) /\ blockBuffer' = blockBuffer \ {hepoch}
        /\ hpc' = "insert" /\ UNCHANGED failed
    BY <1>1, <1>5, HeaderChecks DEF GenerateBlockHeader
  <2>2. ~Restarted /\ Chain(saved)
    BY <1>5 DEF Restarted, ChainInv
  <2>3. saved > 0 => previous = file[saved].hash
    BY <1>1, <2>2 DEF ChainInv
  <2>4. previous' # NoHash /\ previous' \in (0 .. MaxCrash + 1) \X (0 .. LastEpoch)
    BY <1>2, <2>1, HashFacts
  <2>5. block' \in Blocks
    BY <1>2, <2>1, HashFacts, BlockFacts DEF Blocks, TypeOK
  <2>6. TypeOK'
    BY <1>1, <2>1, <2>4, <2>5 DEF TypeOK, Blocks
  <2>7. HeaderInv'
    BY <1>1, <1>2, <2>1, <2>3 DEF HeaderInv, Hash
  <2>8. NumberInv' /\ CheckInv'
    BY <1>1, <2>1 DEF NumberInv, CheckInv
  <2>9. ChainInv'
    <3>1. Chain(saved)' /\ ~Restarted'
      BY <1>1, <2>2, <2>4 DEF Chain, Restarted
    <3>2. QED
      BY <1>1, <2>1, <2>4, <3>1 DEF ChainInv, Hash
  <2>10. QED
    BY <1>3, <2>6, <2>7, <2>8, <2>9 DEF IInv
<1>6. QED
  BY <1>4, <1>5

\* insertBlock: the block becomes the last of the chain.
LEMMA InsertBlockStep ==
    ASSUME IInv, InsertBlock
    PROVE  IInv'
<1> USE Facts
<1>1. /\ hpc = "insert" /\ hpc' = "number" /\ hepoch = saved + 1 /\ hepoch \in Epoch
      /\ saved' = saved + 1
      /\ UNCHANGED <<incarnation, failed, asked, task, partial, partialEpoch, blockBuffer,
                     hepoch, previous, block, number, vpc, vepoch, tip, height, missed>>
  BY DEF InsertBlock, HeaderInv, Number, process, pool, verifiers, user
<1>2. /\ block.hash = Hash(hepoch) /\ Hash(hepoch) # NoHash /\ Hash(hepoch)[2] = hepoch
      /\ block.previous = IF saved > 0 THEN file[saved].hash ELSE NoHash
  BY <1>1, HashFacts DEF HeaderInv
<1>3. /\ file' \in [Epoch -> Blocks]
      /\ \A e \in Epoch : file'[e] = IF e = saved + 1 THEN block ELSE file[e]
  BY <1>1 DEF InsertBlock, Inserted, InsertedDB, Number, TypeOK
<1>4. TypeOK'
  <2>1. saved' \in 0 .. LastEpoch
    BY <1>1 DEF Epoch
  <2>2. QED
    BY <1>1, <1>3, <2>1 DEF TypeOK, Blocks
<1>5. PoolInv' /\ CheckInv'
  BY <1>1, PoolUnchanged DEF CheckInv
<1>6. HeaderInv' /\ NumberInv'
  BY <1>1 DEF HeaderInv, NumberInv
<1>7. ChainInv'
  <2>1. ~Restarted /\ ~Restarted' /\ previous = Hash(hepoch)
    <3>1. previous = Hash(hepoch)
      BY <1>1 DEF ChainInv
    <3>2. QED
      BY <1>1, <1>2, <3>1 DEF Restarted
  <2>2. Chain(saved)
    BY <2>1 DEF ChainInv
  <2>3. block \notin {NoBlock, Torn}
    BY <1>2, BlockFacts
  <2>4. Chain(saved)'
    <3> SUFFICES ASSUME NEW e \in 1 .. saved + 1
                 PROVE  /\ file'[e] \notin {NoBlock, Torn} /\ file'[e].hash[2] = e
                        /\ e > 1 => file'[e].previous = file'[e - 1].hash
      BY <1>1 DEF Chain
    <3>1. e \in Epoch /\ (e > 1 => e - 1 \in Epoch)
      BY <1>1 DEF Epoch
    <3>2. CASE e = saved + 1
      BY <1>1, <1>2, <1>3, <2>3, <3>1, <3>2
    <3>3. CASE e # saved + 1
      BY <1>3, <2>2, <3>1, <3>3 DEF Chain
    <3>4. QED
      BY <3>2, <3>3
  <2>5. \A e \in Epoch : file'[e].hash = NoHash => file'[e] \in {NoBlock, Torn}
    BY <1>2, <1>3 DEF ChainInv
  <2>6. previous' = file'[saved'].hash
    BY <1>1, <1>2, <1>3, <2>1
  <2>7. QED
    BY <1>1, <2>1, <2>4, <2>5, <2>6 DEF ChainInv
<1>8. VerifierInv'
  BY <1>1 DEF VerifierInv, TypeOK
<1>9. UserInv'
  BY <1>1 DEF UserInv, TypeOK
<1>10. QED
  BY <1>4, <1>5, <1>6, <1>7, <1>8, <1>9 DEF IInv

\* updateLatestSavedEpoch.
LEMMA UpdateLatestSavedEpochStep ==
    ASSUME IInv, UpdateLatestSavedEpoch
    PROVE  IInv'
<1> USE Facts
<1>1. /\ hpc = "number" /\ hpc' = "notify" /\ number' = saved
      /\ UNCHANGED <<incarnation, failed, asked, task, partial, partialEpoch, blockBuffer,
                     hepoch, previous, block, saved, file, vpc, vepoch, tip, height,
                     missed>>
  BY DEF UpdateLatestSavedEpoch, NumberDB, process, pool, verifiers, user
<1>2. saved # Lost
  BY DEF Lost
<1>3. TypeOK' /\ PoolInv'
  BY <1>1, PoolUnchanged DEF TypeOK
<1>4. HeaderInv' /\ NumberInv'
  BY <1>1, <1>2 DEF HeaderInv, NumberInv
<1>5. ChainInv'
  BY <1>1 DEF ChainInv, Chain, Restarted
<1>6. VerifierInv' /\ CheckInv' /\ UserInv'
  BY <1>1 DEF VerifierInv, CheckInv, UserInv
<1>7. QED
  BY <1>3, <1>4, <1>5, <1>6 DEF IInv

\* The verifiers are woken, and the next block is worked on.
LEMMA NotifyVerifiersStep ==
    ASSUME IInv, NotifyVerifiers
    PROVE  IInv'
<1> USE Facts
<1>1. /\ hpc = "notify" /\ hpc' = "wait" /\ hepoch' = hepoch + 1 /\ hepoch = saved
      /\ vpc' = [p \in Peer |-> IF WakesUp(p) THEN "wait" ELSE vpc[p]]
      /\ UNCHANGED <<incarnation, failed, asked, task, partial, partialEpoch, blockBuffer,
                     previous, block, saved, file, number, vepoch, tip, height, missed>>
  BY DEF NotifyVerifiers, HeaderInv, process, pool, disk, user
<1>2. vpc' \in [Peer -> {"wait", "sleep", "verify"}] /\ hepoch' \in 1 .. LastEpoch + 1
  BY <1>1 DEF TypeOK
<1>3. TypeOK' /\ PoolInv'
  BY <1>1, <1>2, PoolUnchanged DEF TypeOK
<1>4. HeaderInv' /\ NumberInv'
  BY <1>1 DEF HeaderInv, NumberInv
<1>5. ChainInv'
  BY <1>1 DEF ChainInv, Chain, Restarted
<1>6. VerifierInv' /\ CheckInv' /\ UserInv'
  BY <1>1 DEF VerifierInv, CheckInv, UserInv
<1>7. QED
  BY <1>3, <1>4, <1>5, <1>6 DEF IInv

-----------------------------------------------------------------------------
(* The verifiers and the user. *)

\* A step that changes nothing of the pool, the header thread and the storage.
LEMMA StorageFrame ==
    ASSUME IInv, UNCHANGED <<incarnation, asked, pool, blockBuffer, header, saved, disk>>,
           TypeOK', VerifierInv', CheckInv', UserInv'
    PROVE  IInv'
<1> USE Facts
<1> USE DEF pool, header, disk
<1>1. PoolInv' /\ HeaderInv' /\ NumberInv'
  BY PoolUnchanged DEF HeaderInv, NumberInv, Hash
<1>2. ChainInv'
  BY DEF ChainInv, Chain, Restarted, Hash
<1>3. QED
  BY <1>1, <1>2 DEF IInv

\* A signature waits for its block.
LEMMA WaitForBlockStep ==
    ASSUME IInv, NEW p \in Peer, WaitForBlock(p)
    PROVE  IInv'
<1> USE Facts
<1>1. /\ vpc' = [vpc EXCEPT ![p] = IF IsSaved(vepoch[p]) THEN "verify" ELSE "sleep"]
      /\ UNCHANGED <<incarnation, failed, asked, pool, blockBuffer, header, saved, disk,
                     vepoch, tip, height, missed>>
  BY DEF WaitForBlock, process, user
<1>2. TypeOK'
  BY <1>1 DEF TypeOK, pool, header, disk, Blocks
<1>3. VerifierInv'
  BY <1>1 DEF VerifierInv, IsSaved, TypeOK
<1>4. CheckInv' /\ UserInv'
  BY <1>1 DEF CheckInv, UserInv
<1>5. QED
  BY <1>1, <1>2, <1>3, <1>4, StorageFrame

\* signatureVerifyCallback: the block can be loaded, and has the body that was signed.
LEMMA VerifySignatureStep ==
    ASSUME IInv, NEW p \in Peer, VerifySignature(p)
    PROVE  IInv'
<1> USE Facts
<1>1. /\ vpc[p] = "verify"
      /\ failed' = ~(DeserializeBlock(vepoch[p]) /\ SignatureValidate(vepoch[p]))
      /\ vepoch' = [vepoch EXCEPT ![p] = @ + 1]
      /\ vpc' = [vpc EXCEPT ![p] = "wait"]
      /\ UNCHANGED <<incarnation, asked, pool, blockBuffer, header, saved, disk, tip,
                     height, missed>>
  BY DEF VerifySignature, user
<1>2. vepoch[p] \in 1 .. saved
  BY <1>1 DEF VerifierInv
<1>3. failed' \in BOOLEAN /\ vepoch' \in [Peer -> 1 .. LastEpoch + 1]
  BY <1>1, <1>2 DEF TypeOK
<1>4. TypeOK'
  BY <1>1, <1>3 DEF TypeOK, pool, header, disk, Blocks
<1>5. VerifierInv'
  BY <1>1 DEF VerifierInv, TypeOK
<1>6. CheckInv'
  <2>1. CASE Chain(saved)
    BY <1>1, <1>2, <2>1, ChainLoads, ZenonT(30) DEF CheckInv
  <2>2. CASE Restarted
    BY <1>1, <2>2 DEF CheckInv, ChainInv
  <2>3. QED
    BY <2>1, <2>2 DEF ChainInv
<1>7. UserInv'
  BY <1>1 DEF UserInv
<1>8. QED
  BY <1>1, <1>4, <1>5, <1>6, <1>7, StorageFrame

\* tip_query.
LEMMA GetTipStep ==
    ASSUME IInv, GetTip
    PROVE  IInv'
<1> USE Facts
<1>1. /\ tip' = IF EarlyReturn THEN partialEpoch ELSE saved
      /\ UNCHANGED <<incarnation, failed, asked, pool, blockBuffer, header, saved, disk,
                     vpc, vepoch, height, missed>>
  BY DEF GetTip, process, verifiers
<1>2. tip' \in 0 .. LastEpoch
  BY <1>1 DEF TypeOK
<1>3. TypeOK'
  BY <1>1, <1>2 DEF TypeOK, pool, header, disk, Blocks
<1>4. VerifierInv' /\ CheckInv' /\ UserInv'
  BY <1>1 DEF VerifierInv, CheckInv, UserInv
<1>5. QED
  BY <1>1, <1>3, <1>4, StorageFrame

\* block_query: a block up to the tip is answered, before a crash.
LEMMA PollBlockStep ==
    ASSUME IInv, PollBlock
    PROVE  IInv'
<1> USE Facts
<1>1. /\ height <= tip /\ height' = height + 1
      /\ missed' = IF Answered(height) THEN missed ELSE missed \cup {height}
      /\ UNCHANGED <<incarnation, failed, asked, pool, blockBuffer, header, saved, disk,
                     vpc, vepoch, tip>>
  BY DEF PollBlock, process, verifiers
<1>2. height' \in 1 .. LastEpoch + 1 /\ missed' \subseteq Epoch
  <2>1. /\ height \in 1 .. LastEpoch + 1 /\ tip \in 0 .. LastEpoch
        /\ missed \subseteq Epoch
    BY DEF TypeOK
  <2>2. height \in Epoch /\ height + 1 \in 1 .. LastEpoch + 1
    BY <1>1, <2>1 DEF Epoch
  <2>3. QED
    BY <1>1, <2>1, <2>2
<1>3. TypeOK'
  BY <1>1, <1>2 DEF TypeOK, pool, header, disk, Blocks
<1>4. VerifierInv' /\ CheckInv'
  BY <1>1 DEF VerifierInv, CheckInv
<1>5. UserInv'
  <2> SUFFICES ASSUME incarnation = 1, ~EarlyReturn
               PROVE  tip <= saved /\ missed' = {}
    BY <1>1 DEF UserInv
  <2>1. tip <= saved /\ missed = {} /\ height \in 1 .. saved
    BY <1>1 DEF UserInv, TypeOK
  <2>2. Chain(saved)
    BY DEF ChainInv
  <2>3. Answered(height)
    BY <2>1, <2>2, ChainLoads DEF Answered
  <2>4. QED
    BY <1>1, <2>1, <2>3
<1>6. QED
  BY <1>1, <1>3, <1>4, <1>5, StorageFrame

-----------------------------------------------------------------------------
(* Crashes and restarts. *)

\* What a crash leaves of the files: the block being written may be torn.
LEMMA FilesFacts ==
    ASSUME IInv, NEW f \in FilesAfterCrash
    PROVE  /\ f \in [Epoch -> Blocks]
           /\ \A e \in Epoch : e <= saved => f[e] = file[e]
           /\ \A e \in Epoch : f[e].hash = NoHash => f[e] \in {NoBlock, Torn}
<1> USE Facts
<1>1. CASE f = file
  BY <1>1 DEF TypeOK, ChainInv
<1>2. CASE hpc = "insert" /\ f = [file EXCEPT ![Number] = Torn]
  <2>1. Number = saved + 1 /\ Number \in Epoch
    BY <1>2 DEF HeaderInv, Number
  <2>2. Torn \in Blocks
    BY <2>1, BlockFacts
  <2>3. f \in [Epoch -> Blocks]
    BY <1>2, <2>2 DEF TypeOK
  <2>4. \A e \in Epoch : f[e] = IF e = saved + 1 THEN Torn ELSE file[e]
    BY <1>2, <2>1 DEF TypeOK
  <2>5. \A e \in Epoch : e <= saved => f[e] = file[e]
    BY <2>4 DEF Epoch
  <2>6. \A e \in Epoch : f[e].hash = NoHash => f[e] \in {NoBlock, Torn}
    BY <2>4 DEF ChainInv
  <2>7. QED
    BY <2>3, <2>5, <2>6
<1>3. QED
  BY <1>1, <1>2 DEF FilesAfterCrash

\* BlockStorageToFile::BlockStorageToFile, or a new map.
LEMMA RestartStep ==
    ASSUME IInv, Restart
    PROVE  IInv'
<1> USE Facts
<1>1. /\ incarnation <= MaxCrash /\ incarnation' = incarnation + 1 /\ failed' = FALSE
      /\ asked' = saved' /\ task' = [e \in Epoch |-> "none"] /\ partial' = {}
      /\ partialEpoch' = 0 /\ blockBuffer' = {} /\ hpc' = "wait" /\ hepoch' = saved' + 1
      /\ previous' = NoHash /\ block' = NoBlock
      /\ vpc' = [p \in Peer |-> "wait"] /\ vepoch' = [p \in Peer |-> saved' + 1]
      /\ UNCHANGED <<tip, height, missed>>
  BY DEF Restart, user
<1>2. PICK n \in NumberAfterCrash :
        /\ saved' \in IF InMemory THEN {0} ELSE EpochFromFile(n)
        /\ number' = IF ResetEpoch \/ InMemory THEN 0 ELSE n
  BY DEF Restart
<1>3. /\ n \in {Lost} \cup 0 .. LastEpoch
      /\ n = Lost => NumberMayTear
      /\ n # Lost => n <= saved /\ (Chain(saved) \/ (number = Lost /\ Restarted)) /\ n = number
  <2>1. n = number \/ (n = Lost /\ NumberMayTear)
    BY DEF NumberAfterCrash
  <2>2. number \in {Lost, saved, saved - 1} /\ (number = Lost => NumberMayTear)
    BY DEF NumberInv
  <2>3. number \in {Lost} \cup 0 .. LastEpoch
    BY DEF TypeOK
  <2>4. Chain(saved) \/ (number = Lost /\ Restarted)
    BY DEF ChainInv
  <2>5. QED
    BY <2>1, <2>2, <2>3, <2>4
<1>4. /\ saved' \in 0 .. LastEpoch /\ number' \in {Lost, saved'}
      /\ number' = Lost => n = Lost
      /\ saved' > 0 => ~ResetEpoch /\ ~InMemory
  BY <1>2, <1>3 DEF EpochFromFile, Lost
<1>5. /\ file' \in [Epoch -> Blocks]
      /\ \A e \in Epoch : file'[e].hash = NoHash => file'[e] \in {NoBlock, Torn}
      /\ ~InMemory => \A e \in Epoch : e <= saved => file'[e] = file[e]
  <2>1. CASE InMemory
    BY <2>1, BlockFacts DEF Restart, EmptyDB
  <2>2. CASE ~InMemory
    BY <2>2, FilesFacts DEF Restart
  <2>3. QED
    BY <2>1, <2>2
<1>6. TypeOK'
  <2>1. incarnation' \in 1 .. MaxCrash + 1
    BY <1>1
  <2>2. saved' + 1 \in 1 .. LastEpoch + 1
    <3>1. \A i \in 0 .. LastEpoch : i + 1 \in 1 .. LastEpoch + 1
      BY ConstantsAssumption
    <3>2. QED
      BY <1>4, <3>1
  <2>3. hepoch' \in 1 .. LastEpoch + 1
    BY <1>1, <2>2
  <2>4. {e \in Epoch : task'[e] \in {"running", "body", "built"}} = {}
    BY <1>1
  <2>5. Cardinality({}) <= PoolSize
    BY FS_EmptySet, ConstantsAssumption
  <2>6. task' \in [Epoch -> {"none", "queued", "running", "body", "built", "done"}]
    BY <1>1
  <2>7. vpc' \in [Peer -> {"wait", "sleep", "verify"}]
    BY <1>1
  <2>8. vepoch' \in [Peer -> 1 .. LastEpoch + 1]
    BY <1>1, <2>2
  <2>9. QED
    BY <1>1, <1>4, <1>5, <2>1, <2>3, <2>4, <2>5, <2>6, <2>7, <2>8, BlockFacts DEF TypeOK
<1>7. PoolInv' /\ HeaderInv' /\ VerifierInv' /\ CheckInv'
  BY <1>1 DEF PoolInv, HeaderInv, VerifierInv, CheckInv
<1>8. NumberInv'
  BY <1>1, <1>3, <1>4 DEF NumberInv
<1>9. UserInv'
  BY <1>1 DEF UserInv, TypeOK
<1>10. ChainInv'
  <2>1. Chain(saved)' \/ (number' = Lost /\ Restarted')
    <3>1. CASE saved' = 0
      BY <3>1 DEF Chain
    <3>2. CASE saved' > 0 /\ number' = Lost
      BY <1>1, <3>2 DEF Restarted
    <3>3. CASE saved' > 0 /\ number' # Lost
      <4>1. ~InMemory /\ ~ResetEpoch /\ saved' = n /\ n = number /\ n <= saved /\ n # Lost
        BY <1>2, <1>3, <1>4, <3>3 DEF EpochFromFile
      <4>2. Chain(saved)
        BY <4>1 DEF ChainInv
      <4>3. \A e \in 1 .. n : e \in Epoch /\ e \in 1 .. saved
        BY <1>3, <4>1, ConstantsAssumption DEF Epoch
      <4>4. \A e \in 1 .. n : file'[e] = file[e] /\ (e > 1 => file'[e - 1] = file[e - 1])
        <5> SUFFICES ASSUME NEW e \in 1 .. n
                     PROVE  file'[e] = file[e] /\ (e > 1 => file'[e - 1] = file[e - 1])
          OBVIOUS
        <5>1. e > 1 => e - 1 \in Epoch /\ e - 1 <= saved
          BY <4>3 DEF Epoch
        <5>2. QED
          BY <1>5, <4>1, <4>3, <5>1
      <4>5. QED
        BY <4>1, <4>2, <4>3, <4>4 DEF Chain
    <3>4. QED
      BY <1>4, <3>1, <3>2, <3>3
  <2>2. Restarted' => /\ hpc' \in {"wait", "sleep", "header"}
                      /\ ~ResetEpoch /\ ~InMemory /\ incarnation' > 1
    <3>1. incarnation \in 1 .. MaxCrash + 1
      BY DEF TypeOK
    <3>2. QED
      BY <1>1, <1>4, <3>1 DEF Restarted
  <2>3. saved' > 0 => Restarted'
    BY <1>1 DEF Restarted
  <2>4. QED
    BY <1>1, <1>5, <2>1, <2>2, <2>3 DEF ChainInv
<1>11. QED
  BY <1>6, <1>7, <1>8, <1>9, <1>10 DEF IInv

-----------------------------------------------------------------------------
\* A server starts with an empty storage.
LEMMA InitIInv == Init => IInv
<1> SUFFICES ASSUME Init PROVE IInv
  OBVIOUS
<1>1. TypeOK
  <2>1. {e \in Epoch : task[e] \in {"running", "body", "built"}} = {}
    BY DEF Init
  <2>2. Cardinality({e \in Epoch : task[e] \in {"running", "body", "built"}}) <= PoolSize
    BY <2>1, FS_EmptySet, ConstantsAssumption
  <2>3. /\ file \in [Epoch -> Blocks] /\ block \in Blocks
        /\ previous \in (0 .. MaxCrash + 1) \X (0 .. LastEpoch)
    BY BlockFacts DEF Init
  <2>4. /\ incarnation \in 1 .. MaxCrash + 1 /\ hepoch \in 1 .. LastEpoch + 1
        /\ asked \in 0 .. LastEpoch /\ tip \in 0 .. LastEpoch /\ height \in 1 .. LastEpoch + 1
        /\ saved \in 0 .. LastEpoch /\ number \in 0 .. LastEpoch
    BY ConstantsAssumption DEF Init
  <2>5. vepoch \in [Peer -> 1 .. LastEpoch + 1]
    BY ConstantsAssumption DEF Init
  <2>6. QED
    BY <2>2, <2>3, <2>4, <2>5 DEF Init, TypeOK
<1>2. PoolInv /\ HeaderInv /\ NumberInv /\ VerifierInv /\ CheckInv /\ UserInv
  BY DEF Init, PoolInv, HeaderInv, NumberInv, VerifierInv, CheckInv, UserInv, Lost
<1>3. ChainInv
  BY DEF Init, ChainInv, Chain, Restarted
<1>4. QED
  BY <1>1, <1>2, <1>3 DEF IInv

\* Nothing happens.
LEMMA StutterStep ==
    ASSUME IInv, UNCHANGED vars
    PROVE  IInv'
<1>1. UNCHANGED <<incarnation, asked, pool, blockBuffer, header, saved, disk, failed,
                  vpc, vepoch, tip, height, missed>>
  BY DEF vars, pool, header, disk
<1>2. TypeOK'
  BY <1>1, Facts DEF TypeOK, pool, header, disk, Blocks
<1>3. VerifierInv' /\ CheckInv' /\ UserInv'
  BY <1>1, Facts DEF VerifierInv, CheckInv, UserInv
<1>4. QED
  BY <1>1, <1>2, <1>3, StorageFrame

\* The invariant holds in every reachable state.
THEOREM InvariantTheorem == Spec => []IInv
<1>1. IInv /\ [Next]_vars => IInv'
  <2> SUFFICES ASSUME IInv, [Next]_vars PROVE IInv'
    OBVIOUS
  <2>1. CASE HeaderStep
    BY <2>1, WaitForBodyStep, GenerateBlockHeaderStep, InsertBlockStep,
       UpdateLatestSavedEpochStep, NotifyVerifiersStep DEF HeaderStep
  <2>2. ASSUME NEW p \in Peer, VerifierStep(p) PROVE IInv'
    BY <2>2, WaitForBlockStep, VerifySignatureStep DEF VerifierStep
  <2>3. CASE Rest \/ UNCHANGED vars
    BY <2>3, StutterStep DEF Rest
  <2>4. QED
    BY <2>1, <2>2, <2>3, GenerateBlockStep, PoolStepStep, GetTipStep, PollBlockStep,
       RestartStep DEF Next
<1>2. QED
  BY <1>1, InitIInv, PTL DEF Spec

\* Every variable keeps its type: the pool never has more busy threads than PoolSize, and
\* insertBlock and the number stay within what was asked for.
THEOREM TypeTheorem == Spec => []TypeOK
<1>1. IInv => TypeOK
  BY DEF IInv
<1>2. QED
  BY <1>1, InvariantTheorem, PTL

\* Whatever the moment of a crash, what block_num.txt counts is a chain of readable
\* blocks, each with the body of its epoch: with and without reset_epoch, in files and
\* in memory, and even if a crash may hit the write of block_num.txt.
THEOREM ChainTheorem == Spec => []ChainOnDisk
<1>1. IInv => ChainOnDisk
  <2> SUFFICES ASSUME IInv PROVE ChainOnDisk
    OBVIOUS
  <2>1. CASE number = Lost
    BY <2>1 DEF Lost, ChainOnDisk
  <2>2. CASE number # Lost
    <3>1. Chain(saved) /\ number \in {saved, saved - 1}
      BY <2>2, Facts DEF ChainInv, NumberInv
    <3>2. 1 .. number \subseteq 1 .. saved
      BY <3>1, Facts
    <3>3. QED
      BY <3>1, <3>2 DEF Chain, ChainOnDisk
  <2>3. QED
    BY <2>1, <2>2
<1>2. QED
  BY <1>1, InvariantTheorem, PTL

\* A block that is counted is never written again, restarts included.
THEOREM KeptTheorem == Spec => ChainKept
<1>1. ASSUME IInv, [Next]_vars, incarnation' = incarnation \/ ~(ResetEpoch \/ InMemory),
             NEW e \in 1 .. number
      PROVE  file'[e] = file[e]
  <2> USE <1>1, Facts
  <2>1. e \in Epoch /\ e <= saved
    BY DEF NumberInv, Lost, Epoch
  <2>2. CASE InsertBlock
    <3>1. hpc = "insert" /\ Number = saved + 1 /\ Number \in Epoch
      BY <2>2 DEF InsertBlock, HeaderInv, Number
    <3>2. e # Number /\ DOMAIN file = Epoch
      BY <2>1, <3>1 DEF TypeOK, Epoch
    <3>3. file' = InsertedDB \/ file' = Inserted
      BY <2>2 DEF InsertBlock
    <3>4. QED
      BY <2>1, <3>1, <3>2, <3>3 DEF Inserted, InsertedDB
  <2>3. CASE Restart
    <3>1. ~InMemory
      BY <1>1, <2>3 DEF Restart
    <3>2. QED
      BY <2>1, <2>3, <3>1, FilesFacts DEF Restart
  <2>4. CASE ~InsertBlock /\ ~Restart
    <3>1. UNCHANGED file
      BY <1>1, <2>4 DEF Next, GenerateBlock, PoolStep, StartTask, BuildPartial, BuildBody,
         NotifyHeader, HeaderStep, WaitForBody, GenerateBlockHeader, UpdateLatestSavedEpoch,
         NotifyVerifiers, VerifierStep, WaitForBlock, VerifySignature, GetTip, PollBlock,
         Rest, vars, disk
    <3>2. QED
      BY <3>1
  <2>5. QED
    BY <2>2, <2>3, <2>4
<1>2. IInv /\ [Next]_vars =>
        [incarnation' = incarnation \/ ~(ResetEpoch \/ InMemory) =>
           \A e \in 1 .. number : file'[e] = file[e]]_vars
  BY <1>1
<1>3. QED
  BY <1>2, InvariantTheorem, PTL DEF Spec, ChainKept

\* If no crash hits the write of block_num.txt, the saved blocks have the bodies of their
\* epochs at any moment, and the last one is there.
THEOREM BodyTheorem == ~NumberMayTear => (Spec => [](BodyInItsBlock /\ LatestHasBlock))
<1>1. SUFFICES ASSUME ~NumberMayTear PROVE Spec => [](BodyInItsBlock /\ LatestHasBlock)
  OBVIOUS
<1>2. IInv => BodyInItsBlock /\ LatestHasBlock
  <2>1. IInv => Chain(saved) /\ saved \in Nat
    BY <1>1, Facts DEF ChainInv, NumberInv
  <2>2. QED
    BY <2>1 DEF Chain, BodyInItsBlock, LatestHasBlock
<1>3. QED
  BY <1>2, InvariantTheorem, PTL

\* No CHECK of the generator fails, unless a server is started again on the files it has:
\* the pool may finish the bodies in any order, and signatures may come at any time.
THEOREM CheckTheorem == ResetEpoch \/ InMemory \/ MaxCrash = 0 => (Spec => []NoCheckFails)
<1>1. SUFFICES ASSUME ResetEpoch \/ InMemory \/ MaxCrash = 0 PROVE Spec => []NoCheckFails
  OBVIOUS
<1>2. IInv => NoCheckFails
  BY <1>1, Facts DEF CheckInv, TypeOK, NoCheckFails
<1>3. QED
  BY <1>2, InvariantTheorem, PTL

\* As long as the server lives, a user gets every block up to the tip.
THEOREM UserTheorem == MaxCrash = 0 /\ ~EarlyReturn => (Spec => []NoBlockMissed)
<1>1. SUFFICES ASSUME MaxCrash = 0, ~EarlyReturn PROVE Spec => []NoBlockMissed
  OBVIOUS
<1>2. IInv => NoBlockMissed
  BY <1>1, Facts DEF UserInv, TypeOK, NoBlockMissed
<1>3. QED
  BY <1>2, InvariantTheorem, PTL

-----------------------------------------------------------------------------
(* The user of the block server, for every number of clients and transactions, with *)
(* and without losses: UserClient's monitor and client threads.                      *)
CONSTANTS Clients, TotalOp, Lossy
VARIABLES sent, next, permits, ticks, pending, flying, blocks, finish, pc, uTip, uHeight,
          txMap, committed, aborted, unknown

U == INSTANCE UserClient WITH tip <- uTip, height <- uHeight

\* The parts of the invariant.
LEMMA UParts ==
    U!IInv => /\ U!TypeOK /\ U!PaceInv /\ U!NotedInv /\ U!ChainInv /\ U!KnownInv
              /\ U!CountedByResult /\ U!NoMissing
BY DEF U!IInv

\* A block is a function from transactions to results.
LEMMA BlockOf ==
    ASSUME U!TypeOK, U!ChainInv
    PROVE  /\ Len(blocks) \in Nat
           /\ uTip \in Nat /\ uHeight \in Nat
           /\ \A h \in 1 .. Len(blocks) :
               \E txs \in SUBSET U!Txs : blocks[h] \in [txs -> U!Result] /\ DOMAIN blocks[h] = txs
<1> DEFINE B == UNION {[txs -> U!Result] : txs \in SUBSET U!Txs}
<1>1. blocks \in Seq(B)
  BY DEF U!ChainInv
<1>2. Len(blocks) \in Nat /\ \A h \in 1 .. Len(blocks) : blocks[h] \in B
  <2> HIDE DEF B
  <2> QED
    BY <1>1
<1>3. uTip \in Nat /\ uHeight \in Nat
  BY <1>2 DEF U!TypeOK
<1>4. \A h \in 1 .. Len(blocks) : \E txs \in SUBSET U!Txs : blocks[h] \in [txs -> U!Result]
  BY <1>2
<1> QED
  BY <1>2, <1>3, <1>4

LEMMA UserInit == TotalOp \in Nat \ {0} /\ U!Init => U!IInv
<1> SUFFICES ASSUME TotalOp \in Nat \ {0}, U!Init PROVE U!IInv
  OBVIOUS
<1>1. blocks = <<>> /\ Len(blocks) = 0 /\ uHeight = 1 /\ uTip = 0
  BY DEF U!Init
<1>2. U!TypeOK /\ U!PaceInv /\ U!NoMissing
  BY <1>1 DEF U!Init, U!TypeOK, U!PaceInv, U!NoMissing
<1>3. U!Noted = {}
  BY DEF U!Init, U!Noted, U!Txs
<1>4. U!NotedInv
  BY <1>3 DEF U!Init, U!NotedInv
<1>5. <<>> \in Seq(UNION {[txs -> U!Result] : txs \in SUBSET U!Txs})
  OBVIOUS
<1>6. U!ChainInv
  BY <1>1, <1>5 DEF U!Init, U!ChainInv
<1>7. U!KnownInv
  BY <1>1 DEF U!Init, U!KnownInv
<1>8. 1 .. uHeight - 1 = {}
  BY <1>1
<1>9. U!CountedByResult
  BY <1>8 DEF U!Init, U!CountedByResult
<1> QED
  BY <1>2, <1>4, <1>6, <1>7, <1>9, Zenon DEF U!IInv

\* The types of a client's counters.
LEMMA Counters ==
    ASSUME TotalOp \in Nat \ {0}, U!IInv, NEW c \in Clients
    PROVE  /\ sent[c] \in 0 .. TotalOp /\ permits[c] \in 0 .. TotalOp /\ ticks[c] \in 0 .. TotalOp
           /\ permits[c] + sent[c] = ticks[c] + (IF next[c] = "wait" THEN 1 ELSE 0)
           /\ next[c] \in {"work", "send"} => sent[c] < TotalOp
           /\ next[c] = "wait" => sent[c] > 0
BY UParts DEF U!TypeOK, U!PaceInv

\* What is counted depends on the chain and on the monitor's height.
LEMMA CountedFrame ==
    ASSUME U!CountedByResult, UNCHANGED <<blocks, uHeight, committed, aborted>>,
           (committed' \cup aborted') \cap (txMap' \cup pending') = {}
    PROVE  U!CountedByResult'
BY DEF U!CountedByResult

\* The monitor's part of the invariant does not depend on the clients' pace.
LEMMA MonitorFrame ==
    ASSUME U!IInv, U!Sent' = U!Sent, U!Noted' = U!Noted,
           UNCHANGED <<pending, flying, blocks, U!monitorVars>>
    PROVE  U!NotedInv' /\ U!ChainInv' /\ U!KnownInv' /\ U!CountedByResult' /\ U!NoMissing'
<1>1. U!NotedInv'
  BY UParts DEF U!NotedInv, U!monitorVars
<1>2. U!ChainInv'
  BY UParts DEF U!ChainInv, U!monitorVars
<1>3. U!KnownInv'
  BY UParts DEF U!KnownInv, U!monitorVars
<1>4. U!CountedByResult' /\ U!NoMissing'
  BY UParts DEF U!CountedByResult, U!NoMissing, U!monitorVars
<1> QED
  BY <1>1, <1>2, <1>3, <1>4

LEMMA TickStep ==
    ASSUME TotalOp \in Nat \ {0}, U!IInv, NEW c \in Clients, U!Tick(c)
    PROVE  U!IInv'
<1>1. permits[c] + 1 \in 0 .. TotalOp /\ ticks[c] + 1 \in 0 .. TotalOp
  BY Counters DEF U!Tick
<1>2. permits' \in [Clients -> 0 .. TotalOp] /\ ticks' \in [Clients -> 0 .. TotalOp]
  BY <1>1, UParts DEF U!TypeOK, U!Tick
<1>3. U!TypeOK'
  BY <1>2, UParts, Zenon DEF U!TypeOK, U!Tick, U!monitorVars
<1>4. U!PaceInv'
  <2> SUFFICES ASSUME NEW d \in Clients
               PROVE  /\ permits'[d] + sent[d] = ticks'[d] + (IF next[d] = "wait" THEN 1 ELSE 0)
                      /\ next[d] \in {"work", "send"} => sent[d] < TotalOp
                      /\ next[d] = "wait" => sent[d] > 0
    BY DEF U!PaceInv, U!Tick
  <2>1. permits'[d] = (IF d = c THEN permits[d] + 1 ELSE permits[d])
        /\ ticks'[d] = (IF d = c THEN ticks[d] + 1 ELSE ticks[d])
    BY UParts DEF U!TypeOK, U!Tick
  <2> QED
    BY <2>1, Counters
<1>5. U!Sent' = U!Sent /\ U!Noted' = U!Noted
  BY DEF U!Sent, U!Noted, U!Tick
<1> QED
  BY <1>3, <1>4, <1>5, MonitorFrame DEF U!IInv, U!Tick

LEMMA PaceStep ==
    ASSUME TotalOp \in Nat \ {0}, U!IInv, NEW c \in Clients, U!Pace(c)
    PROVE  U!IInv'
<1>1. permits[c] - 1 \in 0 .. TotalOp
  BY Counters DEF U!Pace
<1>2. /\ permits' \in [Clients -> 0 .. TotalOp]
      /\ next' \in [Clients -> {"work", "send", "wait", "done"}]
  BY <1>1, UParts DEF U!TypeOK, U!Pace
<1>3. U!TypeOK'
  BY <1>2, UParts DEF U!TypeOK, U!Pace, U!monitorVars
<1>p. ASSUME NEW d \in Clients
      PROVE  /\ permits'[d] = (IF d = c THEN permits[d] - 1 ELSE permits[d])
             /\ next'[d] = (IF d = c THEN IF sent[d] = TotalOp THEN "done" ELSE "work" ELSE next[d])
  BY UParts DEF U!TypeOK, U!Pace
<1>4. U!PaceInv'
  <2> SUFFICES ASSUME NEW d \in Clients
               PROVE  /\ permits'[d] + sent[d] = ticks[d] + (IF next'[d] = "wait" THEN 1 ELSE 0)
                      /\ next'[d] \in {"work", "send"} => sent[d] < TotalOp
                      /\ next'[d] = "wait" => sent[d] > 0
    BY DEF U!PaceInv, U!Pace
  <2>1. CASE d = c
    <3>1. /\ next[d] = "wait" /\ permits'[d] = permits[d] - 1
          /\ next'[d] = IF sent[d] = TotalOp THEN "done" ELSE "work"
      BY <1>p, <2>1, Zenon DEF U!Pace
    <3>2. /\ sent[d] \in 0 .. TotalOp /\ permits[d] \in 0 .. TotalOp /\ ticks[d] \in 0 .. TotalOp
          /\ permits[d] + sent[d] = ticks[d] + (IF next[d] = "wait" THEN 1 ELSE 0)
      BY Counters, Zenon
    <3> QED
      BY <3>1, <3>2
  <2>2. CASE d # c
    BY <1>p, <2>2, Counters
  <2> QED
    BY <2>1, <2>2
<1>5. U!Sent' = U!Sent /\ U!Noted' = U!Noted
  <2>1. \A d \in Clients : (next'[d] = "send") <=> (next[d] = "send")
    BY <1>p DEF U!Pace
  <2> QED
    BY <2>1 DEF U!Sent, U!Noted, U!Txs, U!Pace
<1> QED
  BY <1>3, <1>4, <1>5, MonitorFrame DEF U!IInv, U!Pace

LEMMA FinishStep ==
    ASSUME U!IInv, U!Finish
    PROVE  U!IInv'
<1>1. U!TypeOK' /\ U!PaceInv'
  BY UParts DEF U!TypeOK, U!PaceInv, U!Finish, U!clientVars, U!monitorVars
<1>2. U!Sent' = U!Sent /\ U!Noted' = U!Noted
  BY DEF U!Sent, U!Noted, U!Finish, U!clientVars
<1> QED
  BY <1>1, <1>2, MonitorFrame DEF U!IInv, U!Finish

\* A client notes a transaction that nobody has noted before.
LEMMA NotePendingStep ==
    ASSUME TotalOp \in Nat \ {0}, U!IInv, NEW c \in Clients, U!NotePending(c)
    PROVE  U!IInv'
<1> DEFINE tx == <<c, sent[c] + 1>>
<1>1. tx \in U!Txs
  BY Counters DEF U!Txs, U!NotePending
<1>2. U!TypeOK'
  <2>1. next' \in [Clients -> {"work", "send", "wait", "done"}]
    BY UParts DEF U!TypeOK, U!NotePending
  <2> QED
    BY <1>1, <2>1, UParts, Zenon DEF U!TypeOK, U!NotePending, U!monitorVars
<1>p. ASSUME NEW d \in Clients
      PROVE  next'[d] = (IF d = c THEN "send" ELSE next[d])
  BY UParts DEF U!TypeOK, U!NotePending
<1>3. U!PaceInv'
  <2> SUFFICES ASSUME NEW d \in Clients
               PROVE  /\ permits[d] + sent[d] = ticks[d] + (IF next'[d] = "wait" THEN 1 ELSE 0)
                      /\ next'[d] \in {"work", "send"} => sent[d] < TotalOp
                      /\ next'[d] = "wait" => sent[d] > 0
    BY DEF U!PaceInv, U!NotePending
  <2>1. CASE d = c
    BY <1>p, <2>1, Counters DEF U!NotePending
  <2>2. CASE d # c
    BY <1>p, <2>2, Counters
  <2> QED
    BY <2>1, <2>2
<1>4. U!Sent' = U!Sent
  BY DEF U!Sent, U!NotePending
<1>5. U!Noted' = U!Noted \cup {tx} /\ tx \notin U!Noted
  <2>1. tx \notin U!Noted
    BY Counters DEF U!Noted, U!NotePending
  <2>2. ASSUME NEW t \in U!Txs PROVE t \in U!Noted' <=> t \in U!Noted \/ t = tx
    <3>1. PICK d \in Clients, n \in 1 .. TotalOp : t = <<d, n>>
      BY DEF U!Txs
    <3>2. t \in U!Noted <=> n <= sent[d] + (IF next[d] = "send" THEN 1 ELSE 0)
      BY <3>1 DEF U!Noted
    <3>3. t \in U!Noted' <=> n <= sent[d] + (IF next'[d] = "send" THEN 1 ELSE 0)
      BY <3>1 DEF U!Noted, U!NotePending
    <3>4. CASE d = c
      BY <1>p, <3>1, <3>2, <3>3, <3>4, Counters DEF U!NotePending
    <3>5. CASE d # c
      BY <1>p, <3>1, <3>2, <3>3, <3>5
    <3> QED
      BY <3>4, <3>5
  <2> QED
    BY <1>1, <2>1, <2>2 DEF U!Noted
<1> HIDE DEF tx
<1>6. UNCHANGED <<flying, blocks, U!monitorVars>> /\ pending' = pending \cup {tx}
  BY DEF U!NotePending, tx
<1>7. U!NotedInv'
  BY <1>5, <1>6, UParts DEF U!NotedInv, U!monitorVars
<1>8. U!ChainInv'
  BY <1>4, <1>6, UParts DEF U!ChainInv
<1>9. U!KnownInv'
  BY <1>6, UParts, Zenon DEF U!KnownInv, U!monitorVars
<1>10. U!CountedByResult' /\ U!NoMissing'
  <2>1. /\ UNCHANGED <<blocks, uHeight, committed, aborted, unknown>>
        /\ (committed' \cup aborted') \cap (txMap' \cup pending') = {}
    BY <1>6, <1>7, Zenon DEF U!NotedInv, U!monitorVars
  <2> QED
    BY <2>1, CountedFrame, UParts, Zenon DEF U!NoMissing
<1> QED
  BY <1>2, <1>3, <1>7, <1>8, <1>9, <1>10, Zenon DEF U!IInv

\* A client sends what it has noted, and nothing that was sent before.
LEMMA SendRequestStep ==
    ASSUME TotalOp \in Nat \ {0}, U!IInv, NEW c \in Clients, U!SendRequest(c)
    PROVE  U!IInv'
<1> DEFINE tx == <<c, sent[c] + 1>>
<1>1. tx \in U!Txs /\ sent[c] + 1 \in 0 .. TotalOp
  BY Counters DEF U!Txs, U!SendRequest
<1>p. ASSUME NEW d \in Clients
      PROVE  /\ next'[d] = (IF d = c THEN "wait" ELSE next[d])
             /\ sent'[d] = (IF d = c THEN sent[d] + 1 ELSE sent[d])
  BY UParts DEF U!TypeOK, U!SendRequest
<1>2. UNCHANGED <<permits, ticks, pending, blocks, U!monitorVars>> /\ flying' = flying \cup {tx}
  BY <1>p DEF U!SendRequest
<1>3. U!TypeOK'
  <2>1. /\ next' \in [Clients -> {"work", "send", "wait", "done"}]
        /\ sent' \in [Clients -> 0 .. TotalOp]
    BY <1>1, UParts DEF U!TypeOK, U!SendRequest
  <2> HIDE DEF tx
  <2> QED
    BY <1>1, <1>2, <2>1, UParts, Zenon DEF U!TypeOK, U!monitorVars
<1>4. U!PaceInv'
  <2> SUFFICES ASSUME NEW d \in Clients
               PROVE  /\ permits[d] + sent'[d] = ticks[d] + (IF next'[d] = "wait" THEN 1 ELSE 0)
                      /\ next'[d] \in {"work", "send"} => sent'[d] < TotalOp
                      /\ next'[d] = "wait" => sent'[d] > 0
    BY <1>2 DEF U!PaceInv
  <2>1. CASE d = c
    BY <1>p, <2>1, Counters DEF U!SendRequest
  <2>2. CASE d # c
    BY <1>p, <2>2, Counters
  <2> QED
    BY <2>1, <2>2
<1>5. ASSUME NEW t \in U!Txs
      PROVE  (t \in U!Noted' <=> t \in U!Noted) /\ (t \in U!Sent' <=> t \in U!Sent \/ t = tx)
  <2>1. PICK d \in Clients, n \in 1 .. TotalOp : t = <<d, n>>
    BY DEF U!Txs
  <2>2. /\ t \in U!Noted <=> n <= sent[d] + (IF next[d] = "send" THEN 1 ELSE 0)
        /\ t \in U!Sent <=> n <= sent[d]
    BY <2>1 DEF U!Noted, U!Sent
  <2>3. /\ t \in U!Noted' <=> n <= sent'[d] + (IF next'[d] = "send" THEN 1 ELSE 0)
        /\ t \in U!Sent' <=> n <= sent'[d]
    BY <2>1 DEF U!Noted, U!Sent
  <2>4. CASE d = c
    <3>1. next[d] = "send" /\ next'[d] = "wait" /\ sent'[d] = sent[d] + 1
      BY <1>p, <2>4 DEF U!SendRequest
    <3>2. sent[d] \in Nat
      BY <2>4, Counters
    <3>3. t = tx <=> n = sent[d] + 1
      BY <2>1, <2>4
    <3> HIDE DEF tx
    <3> QED
      BY <2>1, <2>2, <2>3, <3>1, <3>2, <3>3
  <2>5. CASE d # c
    BY <1>p, <2>1, <2>2, <2>3, <2>5
  <2> QED
    BY <2>4, <2>5
<1>6. tx \notin U!Sent
  BY Counters DEF U!Sent
<1> HIDE DEF tx
<1>7. U!Noted' = U!Noted /\ U!Sent' = U!Sent \cup {tx}
  BY <1>1, <1>5 DEF U!Noted, U!Sent
<1>8. U!NotedInv'
  BY <1>2, <1>7, UParts, Zenon DEF U!NotedInv, U!monitorVars
<1>9. U!ChainInv'
  <2>1. \A h \in 1 .. Len(blocks) :
            DOMAIN blocks[h] \subseteq U!Sent' /\ DOMAIN blocks[h] \cap flying' = {}
    BY <1>2, <1>6, <1>7, UParts, Zenon DEF U!ChainInv
  <2> QED
    BY <1>2, <1>7, <2>1, UParts, Zenon DEF U!ChainInv
<1>10. U!KnownInv'
  BY <1>2, UParts DEF U!KnownInv, U!monitorVars
<1>11. U!CountedByResult' /\ U!NoMissing'
  BY <1>2, UParts DEF U!CountedByResult, U!NoMissing, U!monitorVars
<1> QED
  BY <1>3, <1>4, <1>8, <1>9, <1>10, <1>11, Zenon DEF U!IInv

\* Pace and notes do not depend on the chain.
LEMMA ClientFrame ==
    ASSUME U!IInv, UNCHANGED <<U!clientVars, pending, U!monitorVars>>
    PROVE  U!PaceInv' /\ U!NotedInv' /\ U!Sent' = U!Sent /\ U!NoMissing'
<1>1. U!PaceInv' /\ U!NoMissing'
  BY UParts DEF U!PaceInv, U!NoMissing, U!clientVars, U!monitorVars
<1>2. U!Sent' = U!Sent /\ U!Noted' = U!Noted
  BY DEF U!Sent, U!Noted, U!clientVars
<1> QED
  BY <1>1, <1>2, UParts DEF U!NotedInv, U!monitorVars

\* What the monitor has counted is what the blocks below its height hold.
LEMMA Counted ==
    ASSUME U!CountedByResult
    PROVE  committed \cup aborted = UNION {DOMAIN blocks[h] : h \in 1 .. uHeight - 1}
BY DEF U!CountedByResult

\* A transaction on its way is not counted, and nor are those of the later blocks.
LEMMA NotCounted ==
    ASSUME U!IInv
    PROVE  /\ flying \subseteq txMap \cup pending
           /\ \A tx \in flying : tx \in U!Txs
<1>1. flying \subseteq U!Noted
  <2> SUFFICES ASSUME NEW tx \in U!Sent PROVE tx \in U!Noted
    BY UParts DEF U!ChainInv
  <2> QED
    BY UParts DEF U!Sent, U!Noted, U!Txs, U!TypeOK
<1>2. flying \cap (committed \cup aborted) = {}
  <2>1. \A h \in 1 .. uHeight - 1 : h \in 1 .. Len(blocks)
    BY UParts, BlockOf DEF U!TypeOK
  <2> QED
    BY <2>1, Counted, UParts DEF U!ChainInv
<1> QED
  BY <1>1, <1>2, UParts DEF U!NotedInv, U!TypeOK

LEMMA MakeBlockStep ==
    ASSUME U!IInv, NEW txs, U!MakeBlock(txs)
    PROVE  U!IInv'
<1> DEFINE B == UNION {[s -> U!Result] : s \in SUBSET U!Txs}
<1>1. PICK b \in [txs -> U!Result] : blocks' = Append(blocks, b)
  BY DEF U!MakeBlock
<1>2. txs \subseteq flying /\ txs \subseteq U!Txs /\ flying' = flying \ txs
      /\ UNCHANGED <<U!clientVars, pending, U!monitorVars>>
  BY NotCounted DEF U!MakeBlock
<1>3. blocks \in Seq(B) /\ b \in B /\ DOMAIN b = txs
  BY <1>1, <1>2, UParts DEF U!ChainInv
<1> HIDE DEF B
<1>4. /\ blocks' \in Seq(B) /\ Len(blocks) \in Nat /\ Len(blocks') = Len(blocks) + 1
      /\ \A h \in 1 .. Len(blocks) : blocks'[h] = blocks[h]
      /\ blocks'[Len(blocks) + 1] = b
  BY <1>1, <1>3
<1>5. U!PaceInv' /\ U!NotedInv' /\ U!Sent' = U!Sent /\ U!NoMissing'
  BY <1>2, ClientFrame
<1>6. U!TypeOK'
  <2>1. uTip' \in 0 .. Len(blocks') /\ uHeight' \in 1 .. Len(blocks') + 1
    <3>1. uTip' = uTip /\ uHeight' = uHeight
      BY <1>2, Zenon DEF U!monitorVars
    <3>2. uTip \in 0 .. Len(blocks) /\ uHeight \in 1 .. Len(blocks) + 1
      BY UParts, Zenon DEF U!TypeOK
    <3> QED
      BY <1>4, <3>1, <3>2
  <2>2. flying' \subseteq U!Txs
    BY <1>2, UParts DEF U!TypeOK
  <2> QED
    BY <1>2, <2>1, <2>2, UParts, Zenon DEF U!TypeOK, U!clientVars, U!monitorVars
<1>7. U!ChainInv'
  <2>1. \A h \in 1 .. Len(blocks') :
            \/ h \in 1 .. Len(blocks) /\ blocks'[h] = blocks[h]
            \/ h = Len(blocks) + 1 /\ blocks'[h] = b
    BY <1>4
  <2>2. \A h \in 1 .. Len(blocks') :
            DOMAIN blocks'[h] \subseteq U!Sent /\ DOMAIN blocks'[h] \cap flying' = {}
    BY <1>2, <1>3, <2>1, UParts DEF U!ChainInv
  <2>3. \A h, i \in 1 .. Len(blocks') : i # h => DOMAIN blocks'[h] \cap DOMAIN blocks'[i] = {}
    BY <1>2, <1>3, <2>1, UParts DEF U!ChainInv
  <2>4. flying' \subseteq U!Sent'
    BY <1>2, <1>5, UParts DEF U!ChainInv
  <2> QED
    BY <1>4, <1>5, <2>2, <2>3, <2>4 DEF U!ChainInv, B
<1>8. /\ uTip \in Nat /\ uTip <= Len(blocks)
      /\ uHeight \in Nat /\ uHeight - 1 <= Len(blocks) /\ uHeight >= 1
  BY <1>4, UParts DEF U!TypeOK
<1>9. U!KnownInv'
  <2>1. \A h \in uHeight .. Len(blocks') : DOMAIN blocks'[h] \subseteq txMap \cup pending
    <3> SUFFICES ASSUME NEW h \in uHeight .. Len(blocks')
                 PROVE  DOMAIN blocks'[h] \subseteq txMap \cup pending
      OBVIOUS
    <3>1. CASE h \in 1 .. Len(blocks)
      BY <1>4, <1>8, <3>1, UParts DEF U!KnownInv
    <3>2. CASE h = Len(blocks) + 1
      BY <1>2, <1>3, <1>4, <3>2, NotCounted
    <3> QED
      BY <1>4, <1>8, <3>1, <3>2
  <2>2. pc = "poll" => \A h \in uHeight .. uTip : DOMAIN blocks'[h] \subseteq txMap
    <3>1. \A h \in uHeight .. uTip : blocks'[h] = blocks[h]
      BY <1>4, <1>8
    <3> QED
      BY <3>1, UParts, Zenon DEF U!KnownInv
  <2> QED
    BY <1>2, <2>1, <2>2, UParts, Zenon DEF U!KnownInv, U!monitorVars
<1>10. U!CountedByResult'
  <2> DEFINE Bad(f) == {tx \in DOMAIN f : f[tx] = "ABORT"}
             Good(f) == {tx \in DOMAIN f : f[tx] # "ABORT"}
  <2>1. \A h \in 1 .. uHeight - 1 : blocks'[h] = blocks[h]
    BY <1>4, <1>8
  <2>2. UNCHANGED <<pending, txMap, uHeight, committed, aborted>>
    BY <1>2, Zenon DEF U!monitorVars
  <2>3. /\ aborted = UNION {Bad(blocks[h]) : h \in 1 .. uHeight - 1}
        /\ committed = UNION {Good(blocks[h]) : h \in 1 .. uHeight - 1}
        /\ (committed \cup aborted) \cap (txMap \cup pending) = {}
    BY UParts, Zenon DEF U!CountedByResult
  <2> HIDE DEF Bad, Good
  <2>4. /\ aborted = UNION {Bad(blocks'[h]) : h \in 1 .. uHeight - 1}
        /\ committed = UNION {Good(blocks'[h]) : h \in 1 .. uHeight - 1}
    BY <2>1, <2>3
  <2> QED
    BY <2>2, <2>3, <2>4, Zenon DEF U!CountedByResult, Bad, Good
<1> QED
  BY <1>5, <1>6, <1>7, <1>9, <1>10, Zenon DEF U!IInv

LEMMA LoseStep ==
    ASSUME U!IInv, NEW tx, U!Lose(tx)
    PROVE  U!IInv'
<1>1. U!PaceInv' /\ U!NotedInv' /\ U!Sent' = U!Sent /\ U!NoMissing'
  BY ClientFrame DEF U!Lose
<1>2. flying' \subseteq flying /\ UNCHANGED <<U!clientVars, pending, blocks, U!monitorVars>>
  BY DEF U!Lose
<1>3. U!TypeOK'
  BY <1>2, UParts, Zenon DEF U!TypeOK, U!clientVars, U!monitorVars
<1>4. U!ChainInv'
  BY <1>1, <1>2, UParts, Zenon DEF U!ChainInv
<1>5. U!KnownInv'
  BY <1>2, UParts, Zenon DEF U!KnownInv, U!monitorVars
<1>6. U!CountedByResult'
  BY <1>1, <1>2, CountedFrame, UParts, Zenon DEF U!NotedInv, U!monitorVars
<1> QED
  BY <1>1, <1>3, <1>4, <1>5, <1>6, Zenon DEF U!IInv

\* The chain and the clients do not depend on the monitor.
LEMMA ServerFrame ==
    ASSUME U!IInv, UNCHANGED <<U!clientVars, flying, blocks>>
    PROVE  U!PaceInv' /\ U!ChainInv' /\ U!Noted' = U!Noted
<1>1. U!Sent' = U!Sent /\ U!Noted' = U!Noted
  BY DEF U!Sent, U!Noted, U!clientVars
<1>2. U!PaceInv'
  BY UParts DEF U!PaceInv, U!clientVars
<1>3. U!ChainInv'
  BY <1>1, UParts DEF U!ChainInv
<1> QED
  BY <1>1, <1>2, <1>3

\* The monitor asks for the tip before it takes the notes over.
LEMMA LoopStep ==
    ASSUME U!IInv, U!AwaitServer \/ U!AskTip \/ U!TakenOver
    PROVE  U!IInv'
<1>1. UNCHANGED <<U!clientVars, pending, flying, blocks, uHeight, txMap, committed, aborted,
                  unknown>>
  BY DEF U!AwaitServer, U!AskTip, U!TakenOver
<1>2. U!PaceInv' /\ U!ChainInv' /\ U!Noted' = U!Noted
  BY <1>1, ServerFrame
<1>3. U!NotedInv' /\ U!NoMissing' /\ U!CountedByResult'
  <2>1. U!NotedInv' /\ U!NoMissing'
    BY <1>1, <1>2, UParts, Zenon DEF U!NotedInv, U!NoMissing
  <2>2. (committed' \cup aborted') \cap (txMap' \cup pending') = {}
    BY <2>1 DEF U!NotedInv
  <2> QED
    BY <1>1, <2>1, <2>2, UParts, CountedFrame
<1>4. Len(blocks) \in Nat /\ uHeight \in Nat /\ uTip \in Nat
  BY UParts, BlockOf
<1>5. U!TypeOK'
  <2>1. uTip' \in 0 .. Len(blocks) /\ pc' \in {"start", "loop", "drain", "poll", "done"}
    BY <1>4, UParts DEF U!TypeOK, U!AwaitServer, U!AskTip, U!TakenOver
  <2> QED
    BY <1>1, <2>1, UParts, Zenon DEF U!TypeOK, U!clientVars
<1>6. pc' \in {"drain", "poll"} => uHeight <= uTip'
  BY <1>4, UParts DEF U!KnownInv, U!AwaitServer, U!AskTip, U!TakenOver
<1>7. pc' = "poll" => \A h \in uHeight .. uTip' : DOMAIN blocks[h] \subseteq txMap
  <2> SUFFICES ASSUME pc' = "poll"
               PROVE  \A h \in uHeight .. uTip' : DOMAIN blocks[h] \subseteq txMap
    OBVIOUS
  <2>1. pending = {} /\ uTip' = uTip
    BY <1>4 DEF U!AwaitServer, U!AskTip, U!TakenOver
  <2>2. \A h \in uHeight .. uTip : h \in uHeight .. Len(blocks)
    BY <1>4, UParts DEF U!TypeOK
  <2> QED
    BY <2>1, <2>2, UParts DEF U!KnownInv
<1>8. U!KnownInv'
  BY <1>1, <1>6, <1>7, UParts DEF U!KnownInv
<1> QED
  BY <1>2, <1>3, <1>5, <1>8, Zenon DEF U!IInv

LEMMA TakeOverStep ==
    ASSUME U!IInv, U!TakeOver
    PROVE  U!IInv'
<1>1. PICK tx \in pending : pending' = pending \ {tx} /\ txMap' = txMap \cup {tx}
  BY DEF U!TakeOver
<1>2. UNCHANGED <<U!clientVars, flying, blocks, pc, uTip, uHeight, committed, aborted, unknown>>
      /\ pc = "drain"
  BY DEF U!TakeOver
<1>3. U!PaceInv' /\ U!ChainInv' /\ U!Noted' = U!Noted
  BY <1>2, ServerFrame
<1>4. pending' \cup txMap' = pending \cup txMap /\ pending' \cap txMap' = {}
  BY <1>1, UParts DEF U!NotedInv
<1>5. U!NotedInv' /\ U!NoMissing'
  BY <1>2, <1>3, <1>4, UParts, Zenon DEF U!NotedInv, U!NoMissing
<1>6. U!CountedByResult'
  BY <1>2, <1>5, UParts DEF U!CountedByResult, U!NotedInv
<1>7. U!KnownInv'
  BY <1>2, <1>4, UParts DEF U!KnownInv
<1>8. U!TypeOK'
  <2>1. pending' \subseteq U!Txs /\ txMap' \subseteq U!Txs
    BY <1>1, UParts DEF U!TypeOK
  <2> QED
    BY <1>2, <2>1, UParts, Zenon DEF U!TypeOK, U!clientVars
<1> QED
  BY <1>3, <1>5, <1>6, <1>7, <1>8, Zenon DEF U!IInv

\* The monitor knows every transaction of the block that it polls, and moves them all
\* from its map to the counted ones.
LEMMA PollStep ==
    ASSUME U!IInv, U!Poll
    PROVE  U!IInv'
<1> DEFINE b == blocks[uHeight]
           Bad(f) == {tx \in DOMAIN f : f[tx] = "ABORT"}
           Good(f) == {tx \in DOMAIN f : f[tx] # "ABORT"}
           bad == Bad(b)
           good == Good(b)
<1>p. pc = "poll"
  BY DEF U!Poll
<1>0. uHeight <= uTip /\ \A h \in uHeight .. uTip : DOMAIN blocks[h] \subseteq txMap
  BY <1>p, UParts, Zenon DEF U!KnownInv
<1>1. /\ Len(blocks) \in Nat /\ uTip \in Nat /\ uHeight \in Nat
      /\ uHeight >= 1 /\ uHeight <= uTip /\ uTip <= Len(blocks)
  <2>1. Len(blocks) \in Nat /\ uTip \in Nat /\ uHeight \in Nat
    BY UParts, BlockOf, Zenon
  <2>2. uTip \in 0 .. Len(blocks) /\ uHeight \in 1 .. Len(blocks) + 1
    BY UParts, Zenon DEF U!TypeOK
  <2> QED
    BY <1>0, <2>1, <2>2
<1>2. DOMAIN b \subseteq txMap
  <2>1. uHeight \in uHeight .. uTip
    BY <1>1
  <2> QED
    BY <1>0, <2>1, Zenon
<1>3. DOMAIN b \cap txMap = DOMAIN b /\ DOMAIN b \ txMap = {}
  BY <1>2
<1>4. /\ aborted' = aborted \cup bad /\ committed' = committed \cup good
      /\ unknown' = unknown /\ txMap' = txMap \ DOMAIN b
  BY <1>3, Zenon DEF U!Poll
<1>5. /\ uHeight' = uHeight + 1 /\ pc' = (IF uHeight + 1 <= uTip THEN "poll" ELSE "loop")
      /\ UNCHANGED <<U!clientVars, pending, flying, blocks, uTip>>
  BY Zenon DEF U!Poll
<1>6. bad \cup good = DOMAIN b
  OBVIOUS
<1>7. U!PaceInv' /\ U!ChainInv' /\ U!Noted' = U!Noted
  BY <1>5, ServerFrame
<1>8. \A h \in 1 .. Len(blocks) : h # uHeight => DOMAIN blocks[h] \cap DOMAIN b = {}
  BY <1>1, UParts DEF U!ChainInv
<1>9. U!NoMissing'
  BY <1>4, UParts DEF U!NoMissing
<1>10. U!CountedByResult'
  <2>1. 1 .. uHeight' - 1 = (1 .. uHeight - 1) \cup {uHeight}
    BY <1>1, <1>5
  <2>2. /\ aborted = UNION {Bad(blocks[h]) : h \in 1 .. uHeight - 1}
        /\ committed = UNION {Good(blocks[h]) : h \in 1 .. uHeight - 1}
    BY UParts, Zenon DEF U!CountedByResult
  <2>3. /\ aborted' = UNION {Bad(blocks[h]) : h \in 1 .. uHeight' - 1}
        /\ committed' = UNION {Good(blocks[h]) : h \in 1 .. uHeight' - 1}
    <3> HIDE DEF Bad, Good
    <3> QED
      BY <1>4, <2>1, <2>2
  <2>4. (committed' \cup aborted') \cap (txMap' \cup pending) = {}
    <3> HIDE DEF bad, good
    <3> QED
      BY <1>2, <1>4, <1>6, UParts DEF U!NotedInv
  <2> QED
    <3>1. blocks' = blocks /\ pending' = pending
      BY <1>5, Zenon
    <3> QED
      BY <2>3, <2>4, <3>1, SMT DEF U!CountedByResult
<1>11. U!KnownInv'
  <2> HIDE DEF b
  <2>0. \A h \in uHeight + 1 .. Len(blocks) :
            /\ h \in uHeight .. Len(blocks) /\ DOMAIN blocks[h] \cap DOMAIN b = {}
            /\ h <= uTip => h \in uHeight .. uTip
    BY <1>1, <1>8
  <2>1. \A h \in uHeight + 1 .. Len(blocks) : DOMAIN blocks[h] \subseteq txMap' \cup pending
    <3>1. \A h \in uHeight .. Len(blocks) : DOMAIN blocks[h] \subseteq txMap \cup pending
      BY UParts, Zenon DEF U!KnownInv
    <3> QED
      BY <1>4, <2>0, <3>1
  <2>2. \A h \in uHeight + 1 .. uTip : DOMAIN blocks[h] \subseteq txMap'
    <3>1. \A h \in uHeight + 1 .. uTip : h \in uHeight + 1 .. Len(blocks) /\ h <= uTip
      BY <1>1
    <3> QED
      BY <1>0, <1>4, <2>0, <3>1
  <2> QED
    <3>1. /\ uHeight' = uHeight + 1 /\ uTip' = uTip /\ blocks' = blocks /\ pending' = pending
          /\ pc' \in {"drain", "poll"} => uHeight' <= uTip'
      BY <1>5, SMT
    <3> QED
      BY <2>1, <2>2, <3>1, Zenon DEF U!KnownInv
<1>12. U!TypeOK'
  <2>1. uHeight' \in 1 .. Len(blocks) + 1 /\ pc' \in {"start", "loop", "drain", "poll", "done"}
    BY <1>1, <1>5
  <2>2. /\ txMap' \subseteq U!Txs /\ committed' \subseteq U!Txs
        /\ aborted' \subseteq U!Txs /\ unknown' \subseteq U!Txs
    BY <1>2, <1>4, UParts, Zenon DEF U!TypeOK
  <2> HIDE DEF bad, good, b
  <2> QED
    BY <1>5, <2>1, <2>2, UParts, Zenon DEF U!TypeOK, U!clientVars
<1>13. U!NotedInv'
  <2> HIDE DEF bad, good, b
  <2> QED
    BY <1>2, <1>4, <1>5, <1>6, <1>7, UParts DEF U!NotedInv
<1> QED
  BY <1>7, <1>9, <1>10, <1>11, <1>12, <1>13, Zenon DEF U!IInv

\* The user's inductive invariant.
THEOREM UserInvariantTheorem == TotalOp \in Nat \ {0} => (U!Spec => []U!IInv)
<1> SUFFICES ASSUME TotalOp \in Nat \ {0} PROVE U!Spec => []U!IInv
  OBVIOUS
<1>1. U!Init => U!IInv
  BY UserInit
<1>2. U!IInv /\ [U!Next]_(U!vars) => U!IInv'
  <2> SUFFICES ASSUME U!IInv, [U!Next]_(U!vars) PROVE U!IInv'
    OBVIOUS
  <2>1. ASSUME NEW c \in Clients, U!Tick(c) \/ U!Client(c) PROVE U!IInv'
    BY <2>1, TickStep, NotePendingStep, SendRequestStep, PaceStep, Zenon DEF U!Client
  <2>2. CASE U!Finish
    BY <2>2, FinishStep
  <2>3. ASSUME NEW txs \in SUBSET flying, U!MakeBlock(txs) PROVE U!IInv'
    BY <2>3, MakeBlockStep
  <2>4. ASSUME NEW tx \in flying, U!Lose(tx) PROVE U!IInv'
    BY <2>4, LoseStep
  <2>5. CASE U!Monitor
    BY <2>5, LoopStep, TakeOverStep, PollStep, Zenon DEF U!Monitor
  <2>6. CASE UNCHANGED U!vars
    <3>1. UNCHANGED <<U!clientVars, pending, flying, blocks, U!monitorVars>>
      BY <2>6 DEF U!vars
    <3>2. U!Sent' = U!Sent /\ U!Noted' = U!Noted
      BY <3>1 DEF U!Sent, U!Noted, U!clientVars
    <3>3. U!TypeOK' /\ U!PaceInv'
      BY <3>1, UParts DEF U!TypeOK, U!PaceInv, U!clientVars, U!monitorVars
    <3> QED
      BY <3>1, <3>2, <3>3, MonitorFrame DEF U!IInv
  <2> QED
    BY <2>1, <2>2, <2>3, <2>4, <2>5, <2>6 DEF U!Next
<1> QED
  BY <1>1, <1>2, PTL DEF U!Spec

\* The monitor counts every transaction of the blocks below its height, once and by its
\* result, and finds each of them in its map.
THEOREM CountedTheorem ==
    TotalOp \in Nat \ {0} => (U!Spec => [](U!TypeOK /\ U!CountedByResult /\ U!NoMissing))
<1>1. U!IInv => U!TypeOK /\ U!CountedByResult /\ U!NoMissing
  BY UParts
<1> QED
  BY <1>1, UserInvariantTheorem, PTL

\* A client is never more than one transaction ahead of its rate generator.
THEOREM RateTheorem == TotalOp \in Nat \ {0} => (U!Spec => []U!RateKept)
<1> SUFFICES ASSUME TotalOp \in Nat \ {0} PROVE U!Spec => []U!RateKept
  OBVIOUS
<1>1. U!IInv => U!RateKept
  <2> SUFFICES ASSUME U!IInv, NEW c \in Clients PROVE sent[c] <= ticks[c] + 1
    BY DEF U!RateKept
  <2>1. /\ sent[c] \in 0 .. TotalOp /\ permits[c] \in 0 .. TotalOp /\ ticks[c] \in 0 .. TotalOp
        /\ permits[c] + sent[c] = ticks[c] + (IF next[c] = "wait" THEN 1 ELSE 0)
    BY Counters, Zenon
  <2> QED
    BY <2>1
<1> QED
  BY <1>1, UserInvariantTheorem, PTL
=============================================================================
