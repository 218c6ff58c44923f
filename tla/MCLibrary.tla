--------------------------- MODULE MCLibrary --------------------------------
(***************************************************************************)
(* The building blocks and the chaincodes, side by side: the update buffer *)
(* of the database with its bucketed maps ("buffer"), the Merkle tree of a *)
(* block body, SHA-256 as the helper drives it, base64 of the signatures,  *)
(* the stream forms of a transaction, the LRU cache, the multi-version     *)
(* map, the multi-version reserve table (reserved by one worker in         *)
(* "reserve", by several in "race"), the adaptive workload size, epochs of *)
(* calls of the three chaincodes, each on a table of its own, and the      *)
(* worked example of MockComm.                                             *)
(***************************************************************************)
EXTENDS UpdateBuffer, Sequences, FiniteSets

CONSTANTS
    NoVersion,  \* of a key in the multi-version map
    Account,    \* accounts of small_bank
    Row,        \* rows of ycsb and of the test table
    Fields,     \* fields of ycsb
    NoRow       \* the value of a key that is not there

VARIABLES
    part,   \* which of them the behaviour is about
    level, leaves, mtResult, context, message, bits, raw, call, bytes, object, keys_,
    cache_, latest, used, maps, reads, writes, cells, rTodo, ref, rPc, dep, cacheEpoch,
    cacheCountList, minTxCount, maxTxCount, db, start, batch, rwset, result, cEpoch

merkle == <<level, leaves, mtResult>>
sha == <<context, message, bits, raw, call>>
base64 == <<bytes>>
transaction == <<object>>
cache == <<keys_, cache_, latest, used>>
versions == <<maps>>
table == <<reads, writes, cells, rTodo, ref, rPc, dep>>
sizes == <<cacheEpoch, cacheCountList, minTxCount, maxTxCount>>
calls == <<db, start, batch, rwset, result, cEpoch>>
MCvars == <<part, vars, merkle, sha, base64, transaction, cache, versions, table, sizes, calls>>

\* What create_data writes stands for a pseudo-random sequence.
MCCreated(k) == IF k[1] = "checking" THEN 0 ELSE 1

CC == INSTANCE Chaincodes WITH Amount <- {-1, 2}, BALANCE <- 2, Created <- MCCreated,
         FieldValue <- {0, 1}, Empty <- NoRow
TC == INSTANCE Chaincodes WITH Amount <- {}, BALANCE <- 0, Created <- MCCreated,
         FieldValue <- {}, Empty <- NoRow, Row <- 0 .. 9
M == INSTANCE MerkleTree WITH Tag <- {1, 2}, TREE_LEVELS <- 6, MaxLeaves <- 11,
         result <- mtResult
S == INSTANCE SHA256 WITH BlockSize <- 4, LowWord <- 16, HighWord <- 4, MaxBytes <- 10,
         Pieces <- {<<>>, <<0>>, <<128, 0>>, <<7, 0, 128>>, <<1, 2, 3, 4, 5>>},
         FinalBits <- {<<255, 3>>, <<1, 7>>, <<1, 0>>, <<1, 8>>}
B == INSTANCE Base64 WITH Bytes <- {0, 1, 62, 127, 128, 251, 252, 255}, MaxLength <- 4,
         Distance <- 3
X == INSTANCE MockTransaction WITH tx <- object, Base <- 4, HashSize <- 2,
         Tids <- {0, 1, 5, 17}, Epochs <- {1, 4},
         Digests <- {<<>>, <<1>>, <<5, 6>>}, Calls <- {<<>>, <<2, 7>>},
         RWSets <- {<<>>, <<3, 4, 0, 1, 2>>}
L == INSTANCE LRUCache WITH Keys <- 1 .. 5, Value <- {0, 1}, maxSize <- 2, elasticity <- 2
V == INSTANCE MVCCHashMap WITH Keys <- {1, 2}, Version <- 1 .. 4, Absent <- NoVersion,
         Ordered <- TRUE
R == INSTANCE MVCCReserveTable WITH Tids <- 1 .. 3, Keys <- {1, 2}, OneThread <- TRUE,
         todo <- rTodo, pc <- rPc
P == INSTANCE MVCCReserveTable WITH Tids <- 1 .. 3, Keys <- {1}, OneThread <- FALSE,
         todo <- rTodo, pc <- rPc
W == INSTANCE WorkloadSizeAdapter WITH Counts <- {10, 150}, aggregateServerCount <- 1,
         coreCount <- 2,
         recommendMinTx <- 50, recommendMaxTx <- 100, minTxThreadHold <- 5,
         initialCount <- 300, cacheSize <- 2, MaxEpoch <- 4, MaxCount <- 310
Bank == INSTANCE ChaincodeEpoch WITH
            Call <- CC!BankCall, Key <- CC!BankKey, Invoke <- CC!BankInvoke,
            Tids <- {1, 2}, MaxEpoch <- 2, epoch <- cEpoch, Empty <- NoRow
Ycsb == INSTANCE ChaincodeEpoch WITH
            Call <- CC!YcsbCall, Key <- Row, Invoke <- CC!YcsbInvoke,
            Tids <- {1, 2}, MaxEpoch <- 2, epoch <- cEpoch, Empty <- NoRow
Test == INSTANCE ChaincodeEpoch WITH
            Call <- CC!TestCall, Key <- CC!TestKey, Invoke <- CC!TestInvoke,
            Tids <- {1, 2, 3}, MaxEpoch <- 1, epoch <- cEpoch, Empty <- NoRow
Mock == INSTANCE ChaincodeEpoch WITH
            Call <- TC!TestCall, Key <- 0 .. 9, Invoke <- TC!TestInvoke,
            Tids <- 1 .. 6, MaxEpoch <- 2, epoch <- cEpoch, Empty <- NoRow

\* What a behaviour is not about is 0, or keeps the state it starts in.
NoMerkle == level = 0 /\ leaves = 0 /\ mtResult = 0
NoSHA == context = 0 /\ message = 0 /\ bits = 0 /\ raw = 0 /\ call = 0
NoBase64 == bytes = 0
NoTransaction == object = 0
NoCache == keys_ = 0 /\ cache_ = 0 /\ latest = 0 /\ used = 0
NoVersions == maps = 0
NoTable == reads = 0 /\ writes = 0 /\ cells = 0 /\ rTodo = 0 /\ ref = 0 /\ rPc = 0 /\ dep = 0
NoSizes == cacheEpoch = 0 /\ cacheCountList = 0 /\ minTxCount = 0 /\ maxTxCount = 0
NoCalls == db = 0 /\ start = 0 /\ batch = 0 /\ rwset = 0 /\ result = 0 /\ cEpoch = 0
NoBuffer == todo = Tids /\ Init

MCInit ==
    \/ part = "buffer" /\ Init /\ NoMerkle /\ NoSHA /\ NoBase64 /\ NoTransaction
       /\ NoCache /\ NoVersions /\ NoTable /\ NoSizes /\ NoCalls
    \/ part = "merkle" /\ M!Init /\ NoSHA /\ NoBase64 /\ NoTransaction /\ NoCache
       /\ NoVersions /\ NoTable /\ NoSizes /\ NoCalls /\ NoBuffer
    \/ part = "sha" /\ S!Init /\ NoMerkle /\ NoBase64 /\ NoTransaction /\ NoCache
       /\ NoVersions /\ NoTable /\ NoSizes /\ NoCalls /\ NoBuffer
    \/ part = "base64" /\ B!Init /\ NoMerkle /\ NoSHA /\ NoTransaction /\ NoCache
       /\ NoVersions /\ NoTable /\ NoSizes /\ NoCalls /\ NoBuffer
    \/ part = "transaction" /\ X!Init /\ NoMerkle /\ NoSHA /\ NoBase64 /\ NoCache
       /\ NoVersions /\ NoTable /\ NoSizes /\ NoCalls /\ NoBuffer
    \/ part = "cache" /\ L!Init /\ NoMerkle /\ NoSHA /\ NoBase64 /\ NoTransaction
       /\ NoVersions /\ NoTable /\ NoSizes /\ NoCalls /\ NoBuffer
    \/ part = "versions" /\ V!Init /\ NoMerkle /\ NoSHA /\ NoBase64 /\ NoTransaction
       /\ NoCache /\ NoTable /\ NoSizes /\ NoCalls /\ NoBuffer
    \/ part = "reserve" /\ R!Init /\ NoMerkle /\ NoSHA /\ NoBase64 /\ NoTransaction
       /\ NoCache /\ NoVersions /\ NoSizes /\ NoCalls /\ NoBuffer
    \/ part = "race" /\ P!Init /\ NoMerkle /\ NoSHA /\ NoBase64 /\ NoTransaction
       /\ NoCache /\ NoVersions /\ NoSizes /\ NoCalls /\ NoBuffer
    \/ part = "sizes" /\ W!Init /\ NoMerkle /\ NoSHA /\ NoBase64 /\ NoTransaction
       /\ NoCache /\ NoVersions /\ NoTable /\ NoCalls /\ NoBuffer
    \/ part = "small_bank" /\ Bank!Init /\ NoMerkle /\ NoSHA /\ NoBase64
       /\ NoTransaction /\ NoCache /\ NoVersions /\ NoTable /\ NoSizes /\ NoBuffer
    \/ part = "ycsb" /\ Ycsb!Init /\ NoMerkle /\ NoSHA /\ NoBase64 /\ NoTransaction
       /\ NoCache /\ NoVersions /\ NoTable /\ NoSizes /\ NoBuffer
    \/ part = "test" /\ Test!Init /\ NoMerkle /\ NoSHA /\ NoBase64 /\ NoTransaction
       /\ NoCache /\ NoVersions /\ NoTable /\ NoSizes /\ NoBuffer
    \/ part = "mock" /\ Mock!MockInit /\ NoMerkle /\ NoSHA /\ NoBase64
       /\ NoTransaction /\ NoCache /\ NoVersions /\ NoTable /\ NoSizes /\ NoBuffer

MCNext ==
    \/ part = "buffer" /\ Next /\ UNCHANGED <<part, merkle, sha, base64, transaction,
          cache, versions, table, sizes, calls>>
    \/ part = "merkle" /\ M!Next /\ UNCHANGED <<part, vars, sha, base64, transaction,
          cache, versions, table, sizes, calls>>
    \/ part = "sha" /\ S!Next /\ UNCHANGED <<part, vars, merkle, base64, transaction,
          cache, versions, table, sizes, calls>>
    \/ part = "base64" /\ B!Extend /\ UNCHANGED <<part, vars, merkle, sha, transaction,
          cache, versions, table, sizes, calls>>
    \/ part = "transaction" /\ X!Next /\ UNCHANGED <<part, vars, merkle, sha, base64,
          cache, versions, table, sizes, calls>>
    \/ part = "cache" /\ L!Next /\ UNCHANGED <<part, vars, merkle, sha, base64,
          transaction, versions, table, sizes, calls>>
    \/ part = "versions" /\ V!Next /\ UNCHANGED <<part, vars, merkle, sha, base64,
          transaction, cache, table, sizes, calls>>
    \/ part = "reserve" /\ R!Next /\ UNCHANGED <<part, vars, merkle, sha, base64,
          transaction, cache, versions, sizes, calls>>
    \/ part = "race" /\ P!Next /\ UNCHANGED <<part, vars, merkle, sha, base64,
          transaction, cache, versions, sizes, calls>>
    \/ part = "sizes" /\ W!Next /\ UNCHANGED <<part, vars, merkle, sha, base64,
          transaction, cache, versions, table, calls>>
    \/ part = "small_bank" /\ Bank!Next /\ UNCHANGED <<part, vars, merkle, sha, base64,
          transaction, cache, versions, table, sizes>>
    \/ part = "ycsb" /\ Ycsb!Next /\ UNCHANGED <<part, vars, merkle, sha, base64,
          transaction, cache, versions, table, sizes>>
    \/ part = "test" /\ Test!Next /\ UNCHANGED <<part, vars, merkle, sha, base64,
          transaction, cache, versions, table, sizes>>
    \/ part = "mock" /\ Mock!MockNext /\ UNCHANGED <<part, vars, merkle, sha, base64,
          transaction, cache, versions, table, sizes>>
    \/ part = "base64" /\ Len(bytes) = 4 /\ UNCHANGED MCvars
    \/ part = "sizes" /\ cacheEpoch = 4 /\ UNCHANGED MCvars

MCSpec == MCInit /\ [][MCNext]_MCvars
-----------------------------------------------------------------------------
\* What an epoch leaves is what its committed calls leave when they run one after
\* the other in some order, where each finds the values it has read and succeeds: the
\* read and write sets that the ORM records are all that commitList needs.  No chaincode
\* inserts a key twice, a payment of an account to itself included (the CHECK of
\* InsertImpl::set); what is committed removes no field of a row unless it drops the row
\* (ycsb's write and del); and the worked example has the outcome that the comments in
\* MockComm give.
SerialCalls ==
    /\ part = "small_bank" => Bank!TypeOK /\ Bank!SerialCalls /\ Bank!NoDuplicateInsert
    /\ part = "test" => Test!SerialCalls /\ Test!NoDuplicateInsert
    /\ part = "ycsb" => Ycsb!SerialCalls /\ Ycsb!NoDuplicateInsert
    /\ part = "ycsb" /\ Ycsb!Decided =>
           \A k \in Row :
               \/ DOMAIN CC!FieldsOf(start[k]) \subseteq DOMAIN CC!FieldsOf(db[k])
               \/ \E t \in Ycsb!Committed : batch[t].cc = "del" /\ batch[t].key = k
    /\ part = "mock" => Mock!ExampleResults

\* Money is moved, not made: what the accounts of small_bank hold after an epoch is what
\* they held before it, and what the committed deposits and checks bring in or take out.
\* No balance is ever negative, although every call of an epoch checks only the balance
\* that the epoch found.
MoneyPreserved ==
    /\ part = "small_bank" => \A k \in CC!BankKey : CC!Balance(db, k) >= 0
    /\ part = "small_bank" /\ Bank!Decided =>
           CC!Total(db) = CC!Total(start)
               + MapThenSumSet(LAMBDA t : CC!Brings(batch[t], start), Bank!Committed)

\* What is stored or sent can be checked and read back.  After every mt_add and mt_update,
\* which never fail, mt_get_root finds the hash of the tree over all leaves, the levels
\* are as if the leaves had been added from the start, and mt_verify accepts a leaf at
\* its own place only.  SHA256Result gives the digest of the whole message since the last
\* reset, padded as the standard says, in whatever pieces SHA256Input got it, and none
\* for a message that is too long; the calls stay inside Message_Block, also when the
\* length overflows, and SHA256Helper needs no reset between messages.  base64_decode
\* inverts both forms of base64_encode, deserializeFromString inverts serializeToString
\* whatever the object held before, and deserializeResultFromString leaves the rest of it
\* as it was.  A base64 form that was cut short never yields other bytes, and a
\* transaction's form that was cut short is refused by the return value, not by the
\* CHECK on the payload.
EncodedContent ==
    /\ part = "merkle" =>
           M!TypeOK /\ M!RootIsTreeHash /\ M!VerifiesItsLeaf /\ M!AllSucceed /\ M!SameAsAdded
    /\ part = "sha" => S!DigestOfMessage /\ S!InBounds /\ S!HelperNeverFails
    /\ part = "base64" => B!RoundTrip /\ B!CutShort /\ B!LineBreaks
    /\ part = "transaction" => X!RoundTrip /\ X!ResultRoundTrip /\ X!CutShortRefused

\* What dependencyAnalysis of the multi-version table finds is what the read and write
\* sets say, in whatever order one worker made the reservations; when several workers
\* make several cells for a key, every reservation is in one of them, or a smaller one
\* is.  The list of a key in the map under it decreases from its newest version,
\* whatever is removed, and get_key_version_prev finds the newest of the older ones.
DependenciesExact ==
    /\ part = "reserve" => R!TypeOK /\ R!DependenciesExact
    /\ part = "race" => P!ReservedSomewhere
    /\ part = "versions" => V!TypeOK /\ V!NewestFirst /\ V!PrevIsNewestOlder

\* What is bounded stays within its bounds.  What prune drops from the LRU cache is what
\* has not been used for longest; map and list hold the same keys, each once, below the
\* hard limit, and a value that tryGet finds is the one that was inserted last.  "the max
\* trs assigned to a worker": however many transactions an epoch has, a workload is not
\* larger than recommendMaxTx, and the least and the most transactions that
\* calculateBestWorkloadSize allows never cross nor fall below the threshold.
WithinMaximum ==
    /\ part = "cache" => L!TypeOK /\ L!LeastRecentlyUsed /\ L!MapMatchesList /\ L!NeverStale
    /\ part = "sizes" => W!TypeOK /\ W!WithinMaximum /\ W!SizesOrdered
=============================================================================
