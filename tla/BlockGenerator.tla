--------------------------- MODULE BlockGenerator ---------------------------
(***************************************************************************)
(* The block generator of a block server.  The coordinator's thread asks   *)
(* for one block after the other; a pool builds the bodies, in any order;  *)
(* one thread makes the headers, in order, and appends the blocks to the   *)
(* storage (a file for each block, and one with the number of the last; or *)
(* a map in memory); the other servers' signatures are verified against    *)
(* saved blocks; a user polls the tip and then the blocks up to it.  The   *)
(* server may crash and restart: only the files remain.                    *)
(*                                                                         *)
(* The data hash of a block is the epoch of its body and the incarnation   *)
(* of the server that built it.                                            *)
(***************************************************************************)
EXTENDS Integers, FiniteSets

CONSTANTS
    LastEpoch,      \* bound: blocks asked for
    PoolSize,       \* threads of the pool
    Peer,           \* the other block servers
    InMemory,       \* USING_MEMORY_BLOCK: BlockStorageToDB, a map in memory
    EarlyReturn,    \* enableEarlyReturn: users are told of bodies, not of blocks
    ResetEpoch,     \* resetEpoch: the storage starts again at every start
    MaxCrash,       \* bound: crashes
    NumberMayTear   \* whether a crash may hit the write of block_num.txt

ASSUME ConstantsAssumption ==
    /\ LastEpoch \in Nat /\ PoolSize \in Nat /\ MaxCrash \in Nat
    /\ {InMemory, EarlyReturn, ResetEpoch, NumberMayTear} \subseteq BOOLEAN

VARIABLES
    incarnation, \* how often the server has been started
    failed,      \* a CHECK has failed: the process has ended
    asked,       \* currentBlockEpoch of generateBlock
    task,        \* how far the pool is with the body of each epoch
    partial,     \* the epochs in partialBlockBuffer
    partialEpoch,
    blockBuffer, \* the epochs in blockBuffer
    hpc,         \* where the header thread is
    hepoch,      \* its currentBlockEpoch
    previous,    \* the static previousDataHash
    block,       \* the block it works on
    saved,       \* bufferedEpochFromFile
    file,        \* the block files, or the map db
    number,      \* block_num.txt, or dbEpoch
    vpc,         \* where each thread that verifies a peer's signatures is
    vepoch,      \* the epoch of the signature
    tip,         \* what the user knows
    height,      \* the next block the user asks for
    missed       \* the blocks the user did not get

vars == <<incarnation, failed, asked, task, partial, partialEpoch, blockBuffer, hpc,
          hepoch, previous, block, saved, file, number, vpc, vepoch, tip, height, missed>>

pool == <<task, partial, partialEpoch>>
header == <<hpc, hepoch, previous, block>>
disk == <<file, number>>
verifiers == <<vpc, vepoch>>
user == <<tip, height, missed>>
process == <<incarnation, failed>>

Epoch == 1 .. LastEpoch
NoHash == <<0, 0>>
NoBlock == [hash |-> NoHash, previous |-> NoHash]
Torn == [hash |-> NoHash, previous |-> <<0, 1>>]  \* a file that was not finished
Lost == -1                                        \* block_num.txt cannot be read

Init ==
    /\ incarnation = 1
    /\ failed = FALSE
    /\ asked = 0
    /\ task = [e \in Epoch |-> "none"]
    /\ partial = {}
    /\ partialEpoch = 0
    /\ blockBuffer = {}
    /\ hpc = "wait"
    /\ hepoch = 1
    /\ previous = NoHash
    /\ block = NoBlock
    /\ saved = 0
    /\ file = [e \in Epoch |-> NoBlock]
    /\ number = 0
    /\ vpc = [p \in Peer |-> "wait"]
    /\ vepoch = [p \in Peer |-> 1]
    /\ tip = 0
    /\ height = 1
    /\ missed = {}
-----------------------------------------------------------------------------
(* generateBlock and the pool. *)

\* The coordinator's thread has committed an epoch.
GenerateBlock ==
    /\ ~failed
    /\ asked < LastEpoch
    /\ asked' = asked + 1
    /\ task' = [task EXCEPT ![asked + 1] = "queued"]
    /\ UNCHANGED <<process, partial, partialEpoch, blockBuffer, header, saved, disk,
                   verifiers, user>>

\* The tasks that keep a thread of the pool busy.
Running == {e \in Epoch : task[e] \in {"running", "body", "built"}}

\* ThreadPool::run: a free thread takes the first task.
StartTask(e) ==
    /\ ~failed
    /\ task[e] = "queued"
    /\ \A d \in 1 .. e - 1 : task[d] # "queued"
    /\ Cardinality(Running) < PoolSize
    /\ task' = [task EXCEPT ![e] = "running"]
    /\ UNCHANGED <<process, asked, partial, partialEpoch, blockBuffer, header, saved,
                   disk, verifiers, user>>

\* generateBlockBody: what users get with early return.
BuildPartial(e) ==
    /\ ~failed
    /\ task[e] = "running"
    /\ partial' = partial \cup {e}
    /\ partialEpoch' = e
    /\ task' = [task EXCEPT ![e] = "body"]
    /\ UNCHANGED <<process, asked, blockBuffer, header, saved, disk, verifiers, user>>

\* The rest of generateBlockBody; the block goes into blockBuffer.
BuildBody(e) ==
    /\ ~failed
    /\ task[e] = "body"
    /\ blockBuffer' = blockBuffer \cup {e}
    /\ task' = [task EXCEPT ![e] = "built"]
    /\ UNCHANGED <<process, asked, partial, partialEpoch, header, saved, disk,
                   verifiers, user>>

\* CVWrapper::wait: a thread that is woken tests its predicate again.
AfterWakeup == "wait"

\* Mutant of AfterNotify: the signal is given without the mutex, and may be lost.
AfterNotifyLost(pc) == pc
\* A sleeping thread is woken.
AfterNotify(pc) == IF pc = "sleep" THEN AfterWakeup ELSE pc

\* blockBodyGeneratedSignal.notify_one, under its mutex.
NotifyHeader(e) ==
    /\ ~failed
    /\ task[e] = "built"
    /\ hpc' = AfterNotify(hpc)
    /\ task' = [task EXCEPT ![e] = "done"]
    /\ UNCHANGED <<process, asked, partial, partialEpoch, blockBuffer, hepoch, previous,
                   block, saved, disk, verifiers, user>>
-----------------------------------------------------------------------------
(* The header thread: BlockGeneratorImpl::run. *)

\* The wait for the body of the next epoch: the predicate is tested, and the
\* thread put to sleep, under the mutex of the signal.
WaitForBody ==
    /\ ~failed
    /\ hpc = "wait"
    /\ hepoch <= LastEpoch
    /\ hpc' = IF hepoch \in blockBuffer THEN "header" ELSE "sleep"
    /\ UNCHANGED <<process, asked, pool, blockBuffer, hepoch, previous, block, saved,
                   disk, verifiers, user>>

Hash(e) == <<incarnation, e>>

\* BlockStorageToFile::loadBlock: a file that is there is read and parsed.
LoadsFile(e) == e <= saved /\ e \in Epoch /\ file[e] \notin {NoBlock, Torn}
\* BlockStorageToDB::loadBlock looks up whatever is not after the last block.
LoadsDB(e) == e <= saved

\* deserializeBlock, without its two optional tests.
DeserializeBlock(e) == IF InMemory THEN LoadsDB(e) ELSE LoadsFile(e)

\* Mutant of PreviousMatches: the cached hash is not compared with the block's.
PreviousUnchecked == TRUE
\* The CHECKs of generateBlockHeader.
PreviousMatches == DeserializeBlock(saved) /\ file[saved].hash = previous

\* generateBlockHeader, and the CHECK that there is a block.
GenerateBlockHeader ==
    /\ ~failed
    /\ hpc = "header"
    /\ \/ /\ hepoch \in blockBuffer
          /\ saved > 0 => PreviousMatches
          /\ block' = [hash |-> Hash(hepoch), previous |-> IF saved > 0 THEN previous
                                                                      ELSE NoHash]
          /\ previous' = Hash(hepoch)
          /\ blockBuffer' = blockBuffer \ {hepoch}
          /\ hpc' = "insert"
          /\ UNCHANGED failed
       \/ /\ hepoch \notin blockBuffer \/ (saved > 0 /\ ~PreviousMatches)
          /\ failed' = TRUE
          /\ UNCHANGED <<block, previous, blockBuffer, hpc>>
    /\ UNCHANGED <<incarnation, asked, pool, hepoch, saved, disk, verifiers, user>>

\* Mutant of Number: the number of the last block that was asked for.
NumberAsked == asked
\* The header's number is the one after the last saved.
Number == saved + 1

\* insertBlock writes the file, then bufferedEpochFromFile.
Inserted == [file EXCEPT ![Number] = block]
\* BlockStorageToDB::insertBlock: the element is made, or assigned.
InsertedDB == [e \in Epoch |-> IF e = Number THEN block ELSE file[e]]

InsertBlock ==
    /\ ~failed
    /\ hpc = "insert"
    /\ file' = IF InMemory THEN InsertedDB ELSE Inserted
    /\ saved' = Number
    /\ hpc' = "number"
    /\ UNCHANGED <<process, asked, pool, blockBuffer, hepoch, previous, block, number,
                   verifiers, user>>

\* BlockStorageToDB::appendBlock, updateLatestSavedEpoch: the number is assigned, too.
NumberDB == saved

\* updateLatestSavedEpoch; addBlockToVerify sends our signature to the peers.
UpdateLatestSavedEpoch ==
    /\ ~failed
    /\ hpc = "number"
    /\ number' = IF InMemory THEN NumberDB ELSE saved
    /\ hpc' = "notify"
    /\ UNCHANGED <<process, asked, pool, blockBuffer, hepoch, previous, block, saved,
                   file, verifiers, user>>

\* blockReadySignal.notify_all.
WakesUp(p) == vpc[p] = "sleep"

NotifyVerifiers ==
    /\ ~failed
    /\ hpc = "notify"
    /\ vpc' = [p \in Peer |-> IF WakesUp(p) THEN "wait" ELSE vpc[p]]
    /\ hpc' = "wait"
    /\ hepoch' = hepoch + 1
    /\ UNCHANGED <<process, asked, pool, blockBuffer, previous, block, saved, disk,
                   vepoch, user>>
-----------------------------------------------------------------------------
(* The threads that get the peers' signatures, one epoch after the other. *)

\* The predicate of blockReadySignal.wait.
IsSaved(e) == saved >= e

\* A signature has come: wait until our block is saved.
WaitForBlock(p) ==
    /\ ~failed
    /\ vpc[p] = "wait"
    /\ vepoch[p] <= LastEpoch
    /\ vpc' = [vpc EXCEPT ![p] = IF IsSaved(vepoch[p]) THEN "verify" ELSE "sleep"]
    /\ UNCHANGED <<process, asked, pool, blockBuffer, header, saved, disk, vepoch, user>>

\* signatureValidate: the peer has signed the root of its own body of the epoch.
SignatureValidate(e) == file[e].hash[2] = e

\* signatureVerifyCallback loads the block (through blockCache) and verifies.
VerifySignature(p) ==
    /\ ~failed
    /\ vpc[p] = "verify"
    /\ failed' = ~(DeserializeBlock(vepoch[p]) /\ SignatureValidate(vepoch[p]))
    /\ vepoch' = [vepoch EXCEPT ![p] = @ + 1]
    /\ vpc' = [vpc EXCEPT ![p] = "wait"]
    /\ UNCHANGED <<incarnation, asked, pool, blockBuffer, header, saved, disk, user>>
-----------------------------------------------------------------------------
(* A user: StatusThread of the benchmark, and QueryController. *)

\* tip_query.
GetTip ==
    /\ ~failed
    /\ height > tip
    /\ tip' = IF EarlyReturn THEN partialEpoch ELSE saved
    /\ tip' # tip
    /\ UNCHANGED <<process, asked, pool, blockBuffer, header, saved, disk, verifiers,
                   height, missed>>

\* getPartialConstructedBlock.
HasPartial(e) == e \in partial

Answered(e) == IF EarlyReturn THEN HasPartial(e) ELSE DeserializeBlock(e)

\* block_query; whatever the answer, the user goes on to the next block.
PollBlock ==
    /\ ~failed
    /\ height <= tip
    /\ missed' = IF Answered(height) THEN missed ELSE missed \cup {height}
    /\ height' = height + 1
    /\ UNCHANGED <<process, asked, pool, blockBuffer, header, saved, disk, verifiers, tip>>
-----------------------------------------------------------------------------
(* A crash, or a failed CHECK, and a restart. *)

\* What a crash may leave of the file that is being written.
FilesAfterCrash ==
    {file} \cup (IF hpc = "insert" THEN {[file EXCEPT ![Number] = Torn]} ELSE {})
\* BlockStorageToDB::BlockStorageToDB: the map of the new process is empty.
EmptyDB == [e \in Epoch |-> NoBlock]

NumberAfterCrash ==
    {number} \cup (IF hpc = "number" /\ NumberMayTear THEN {Lost} ELSE {})

\* BlockStorageToFile::BlockStorageToFile.  When block_num.txt cannot be read, the
\* variable the number is read into keeps its indeterminate value.
EpochFromFile(n) ==
    IF ResetEpoch THEN {0} ELSE IF n = Lost THEN 0 .. LastEpoch ELSE {n}

Restart ==
    /\ incarnation <= MaxCrash
    /\ incarnation' = incarnation + 1
    /\ failed' = FALSE
    /\ file' \in IF InMemory THEN {EmptyDB} ELSE FilesAfterCrash
    /\ \E n \in NumberAfterCrash :
           /\ saved' \in IF InMemory THEN {0} ELSE EpochFromFile(n)
           /\ number' = IF ResetEpoch \/ InMemory THEN 0 ELSE n
    /\ asked' = saved'
    /\ task' = [e \in Epoch |-> "none"]
    /\ partial' = {}
    /\ partialEpoch' = 0
    /\ blockBuffer' = {}
    /\ hpc' = "wait"
    /\ hepoch' = saved' + 1
    /\ previous' = NoHash
    /\ block' = NoBlock
    /\ vpc' = [p \in Peer |-> "wait"]
    /\ vepoch' = [p \in Peer |-> saved' + 1]
    /\ UNCHANGED user
-----------------------------------------------------------------------------
PoolStep == \E e \in Epoch : StartTask(e) \/ BuildPartial(e) \/ BuildBody(e) \/ NotifyHeader(e)

HeaderStep ==
    \/ WaitForBody \/ GenerateBlockHeader \/ InsertBlock
    \/ UpdateLatestSavedEpoch \/ NotifyVerifiers

VerifierStep(p) == WaitForBlock(p) \/ VerifySignature(p)

\* Nothing more is asked for, or the process has ended.
Rest == (failed \/ (asked = LastEpoch /\ hepoch > LastEpoch)) /\ UNCHANGED vars

Next ==
    \/ GenerateBlock
    \/ PoolStep
    \/ HeaderStep
    \/ \E p \in Peer : VerifierStep(p)
    \/ GetTip
    \/ PollBlock
    \/ Restart
    \/ Rest

Spec == Init /\ [][Next]_vars

-----------------------------------------------------------------------------
Blocks == [hash : (0 .. MaxCrash + 1) \X (0 .. LastEpoch),
           previous : (0 .. MaxCrash + 1) \X (0 .. LastEpoch)]

\* Type invariant of the generator, the storage, the verifiers and a user.
TypeOK ==
    /\ incarnation \in 1 .. MaxCrash + 1
    /\ failed \in BOOLEAN
    /\ asked \in 0 .. LastEpoch
    /\ task \in [Epoch -> {"none", "queued", "running", "body", "built", "done"}]
    /\ Cardinality({e \in Epoch : task[e] \in {"running", "body", "built"}}) <= PoolSize
    /\ partial \subseteq 1 .. asked /\ partialEpoch \in partial \cup {0}
    /\ blockBuffer \subseteq 1 .. asked
    /\ hpc \in {"wait", "sleep", "header", "insert", "number", "notify"}
    /\ hepoch \in 1 .. LastEpoch + 1
    /\ previous \in (0 .. MaxCrash + 1) \X (0 .. LastEpoch)
    /\ block \in Blocks
    /\ saved \in 0 .. LastEpoch
    /\ file \in [Epoch -> Blocks]
    /\ number \in {Lost} \cup 0 .. LastEpoch
    /\ vpc \in [Peer -> {"wait", "sleep", "verify"}]
    /\ vepoch \in [Peer -> 1 .. LastEpoch + 1]
    /\ tip \in 0 .. LastEpoch /\ height \in 1 .. LastEpoch + 1
    /\ missed \subseteq Epoch

\* The body of an epoch is in the block with its number, though the pool finishes
\* the bodies in any order and the number is that of the storage.
BodyInItsBlock ==
    \A e \in 1 .. saved : e \in Epoch => file[e].hash[2] = e

\* No CHECK fails: every saved block can be loaded when a header or a signature
\* needs it, and the cached previousDataHash is that of the last block.
NoCheckFails == ~failed

\* What block_num.txt counts can be read after a crash at any moment; each of these
\* blocks holds the body of its epoch and has the hash of the one before: the file is
\* written before the number, and generateBlockHeader checks the link.
ChainOnDisk ==
    \A e \in 1 .. number :
        /\ file[e] \notin {NoBlock, Torn} /\ file[e].hash[2] = e
        /\ e > 1 => file[e].previous = file[e - 1].hash

\* A block that block_num.txt counts is never written again: not while the process lives,
\* and not after a restart either, unless this starts with an empty storage.
ChainKept ==
    [][incarnation' = incarnation \/ ~(ResetEpoch \/ InMemory) =>
           \A e \in 1 .. number : file'[e] = file[e]]_vars

\* getLatestSavedEpoch ("return max number of block chain"): the block is there.
LatestHasBlock == saved = 0 \/ file[saved] \notin {NoBlock, Torn}

\* A user who asks for the blocks up to the tip gets every one of them.
NoBlockMissed == missed = {}

=============================================================================
