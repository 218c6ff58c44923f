-------------------------- MODULE ConcurrentQueue ---------------------------
(***************************************************************************)
(* The lock-free queue under the blocking one.  Every producing thread has *)
(* a sub-queue, an ImplicitProducer: an unbounded array of elements cut    *)
(* into blocks, which consumers find through a block index, a ring that is *)
(* replaced by one of twice its size when it is full.  Consumers first     *)
(* count themselves in (dequeueOptimisticCount); one that counted itself   *)
(* in and then finds no element for it says so (dequeueOvercommit).  Every *)
(* atomic operation on a shared counter, on the index and on a block is a  *)
(* step, and they are taken to be sequentially consistent.  The free list  *)
(* of blocks, whose own steps are in module FreeList, is a set here.       *)
(* Indices do not wrap around: that takes 2^64 elements.                   *)
(***************************************************************************)
EXTENDS Integers, Sequences, FiniteSets, SequencesExt

CONSTANTS
    Producer,
    Consumer,
    Block,          \* the blocks there is memory for
    BlockSize,      \* BLOCK_SIZE
    IndexSize,      \* IMPLICIT_INITIAL_INDEX_SIZE
    MaxIndexSize,   \* the largest block index there is memory for
    MaxItems,       \* the elements a producer has to enqueue
    MaxBulk,        \* the most that one call enqueues or dequeues
    MaxOvercommit,  \* no call begins once this many have given up, a bound
    Null

VARIABLES
    tailIndex,      \* of each producer: the elements enqueued
    headIndex,      \* the elements claimed by consumers
    dequeueOptimisticCount,
    dequeueOvercommit,
    headers,        \* its block indices, the last one in use: the ring and its tail
    entries,        \* the entries of all of them: the first index of a block, and the block
    tailBlock,
    making,         \* what the producer is doing
    cell,           \* of each block: its elements, Null where none is constructed
    dequeued,       \* its elementsCompletelyDequeued
    free,           \* the blocks in the pool, on the free list or not allocated
    taking,         \* what each consumer is doing
    got             \* the elements each consumer has dequeued from each producer, in order

counters == <<tailIndex, headIndex, dequeueOptimisticCount, dequeueOvercommit>>
index == <<headers, entries>>
blocks == <<cell, dequeued, free>>
producing == <<tailBlock, making>>
consuming == <<taking, got>>
vars == <<tailIndex, headIndex, dequeueOptimisticCount, dequeueOvercommit, headers, entries,
          tailBlock, making, cell, dequeued, free, taking, got>>

InvalidBase == 1

\* The first index of the block that index i is in, and its place there.
Base(i) == i - (i % BlockSize)
Offset(i) == i % BlockSize

Lesser(a, b) == IF a < b THEN a ELSE b

NewEntry == [key |-> InvalidBase, value |-> Null]

Resting == [pc |-> "idle", count |-> 0, base |-> 0, chain |-> <<>>]

NotTaking ==
    [pc |-> "idle", p |-> Null, todo |-> {}, max |-> 0, have |-> 0, tail |-> 0, over |-> 0,
     want |-> 0, mine |-> 0, at |-> 0, end |-> 0, header |-> 0, pos |-> 0, block |-> Null]

Init ==
    /\ tailIndex = [p \in Producer |-> 0]
    /\ headIndex = [p \in Producer |-> 0]
    /\ dequeueOptimisticCount = [p \in Producer |-> 0]
    /\ dequeueOvercommit = [p \in Producer |-> 0]
    /\ headers = [p \in Producer |->
                    <<[tail |-> IndexSize - 1, ring |-> [i \in 1 .. IndexSize |-> i]]>>]
    /\ entries = [p \in Producer |-> [i \in 1 .. IndexSize |-> NewEntry]]
    /\ tailBlock = [p \in Producer |-> Null]
    /\ making = [p \in Producer |-> Resting]
    /\ cell = [b \in Block |-> [o \in 0 .. BlockSize - 1 |-> Null]]
    /\ dequeued = [b \in Block |-> 0]
    /\ free = Block
    /\ taking = [c \in Consumer |-> NotTaking]
    /\ got = [c \in Consumer |-> [p \in Producer |-> <<>>]]

-----------------------------------------------------------------------------
\* Enqueueing.  One element is enqueued as a bulk of one.

Current(p) == headers[p][Len(headers[p])]

Capacity(h) == Len(h.ring)

\* A ring is indexed from 0 in the code.
EntryAt(h, pos) == h.ring[(pos % Capacity(h)) + 1]

Making(p, pc) == making[p].pc = pc

MakingStep(p, pc) == making' = [making EXCEPT ![p].pc = pc]

\* The blocks that have to be allocated: those that begin at an index from
\* the tail on.
FirstNewBase(p) == Base(tailIndex[p] - 1) + BlockSize

LastBase(p) == Base(tailIndex[p] + making[p].count - 1)

Enqueue(p, n) ==
    /\ Making(p, "idle")
    /\ tailIndex[p] + n <= MaxItems
    /\ making' = [making EXCEPT ![p] =
                    [pc |-> "allocate", count |-> n, base |-> FirstNewBase(p), chain |-> <<>>]]
    /\ UNCHANGED <<counters, index, blocks, tailBlock, consuming>>

\* The next entry of the ring can be used if it has never been, or if its
\* block has been given back.
Usable(e) == e.key = InvalidBase \/ e.value = Null

\* insert_block_index_entry, first part: the key is stored.
InsertKey(p) ==
    LET e == EntryAt(Current(p), Current(p).tail + 1)
    IN  /\ Making(p, "allocate")
        /\ making[p].base <= LastBase(p)
        /\ Usable(entries[p][e])
        /\ entries' = [entries EXCEPT ![p][e].key = making[p].base]
        /\ MakingStep(p, "insert")
        /\ UNCHANGED <<counters, headers, blocks, tailBlock, consuming>>

\* The old ring is laid out from the entry after its tail on, so that the
\* oldest entry comes first.
Unrolled(h) == [i \in 1 .. Capacity(h) |-> EntryAt(h, h.tail + i)]

\* The index that replaces h: twice its size, with n entries made before.
Doubled(h, n) ==
    [tail |-> Capacity(h) - 1, ring |-> Unrolled(h) \o [i \in 1 .. Capacity(h) |-> n + i]]

\* new_block_index: the new half of the ring has new entries.
NewBlockIndex(p) ==
    LET h == Current(p)
        n == Capacity(h)
    IN  /\ Making(p, "allocate")
        /\ making[p].base <= LastBase(p)
        /\ ~Usable(entries[p][EntryAt(h, h.tail + 1)])
        /\ 2 * n <= MaxIndexSize
        /\ headers' = [headers EXCEPT ![p] = Append(@, Doubled(h, Len(entries[p])))]
        /\ entries' = [entries EXCEPT ![p] = @ \o [i \in 1 .. n |-> NewEntry]]
        /\ UNCHANGED <<counters, blocks, producing, consuming>>

\* An allocation has failed: those of the call are undone, from the first on.
StartRevert(p) ==
    making' = [making EXCEPT ![p].pc = "revert", ![p].base = FirstNewBase(p)]

\* new_block_index finds no memory.
NoBlockIndex(p) ==
    LET h == Current(p)
    IN  /\ Making(p, "allocate")
        /\ making[p].base <= LastBase(p)
        /\ ~Usable(entries[p][EntryAt(h, h.tail + 1)])
        /\ 2 * Capacity(h) > MaxIndexSize
        /\ StartRevert(p)
        /\ UNCHANGED <<counters, index, blocks, tailBlock, consuming>>

MoveTail(p, d) ==
    headers' = [headers EXCEPT ![p][Len(headers[p])].tail =
                    (@ + d) % Capacity(Current(p))]

\* insert_block_index_entry, second part: the tail is moved to the entry.
InsertTail(p) ==
    /\ Making(p, "insert")
    /\ MoveTail(p, 1)
    /\ MakingStep(p, "block")
    /\ UNCHANGED <<counters, entries, blocks, tailBlock, consuming>>

\* requisition_block, reset_empty, and the block put in the index.
Requisition(p) ==
    /\ Making(p, "block")
    /\ \E b \in free :
        /\ free' = free \ {b}
        /\ dequeued' = [dequeued EXCEPT ![b] = 0]
        /\ entries' = [entries EXCEPT ![p][EntryAt(Current(p), Current(p).tail)].value = b]
        /\ making' = [making EXCEPT ![p].pc = "allocate", ![p].chain = Append(@, b),
                                    ![p].base = @ + BlockSize]
    /\ UNCHANGED <<counters, headers, cell, tailBlock, consuming>>

\* create<Block> finds no memory: the entry is taken back.
NoBlock(p) ==
    /\ Making(p, "block")
    /\ free = {}
    /\ entries' = [entries EXCEPT ![p][EntryAt(Current(p), Current(p).tail)].value = Null]
    /\ MoveTail(p, -1)
    /\ StartRevert(p)
    /\ UNCHANGED <<counters, blocks, tailBlock, consuming>>

\* Where the entry of the block that begins at base is in the ring h, as
\* seen from the entry at pos, whose key is tailBase.
IndexIndex(h, pos, tailBase, base) ==
    (pos + ((base - tailBase) \div BlockSize)) % Capacity(h)

\* A block of the call is taken out of the index again.
RevertEntry(p) ==
    LET h == Current(p)
        tailBase == entries[p][EntryAt(h, h.tail)].key
        e == EntryAt(h, IndexIndex(h, h.tail, tailBase, making[p].base))
    IN  /\ Making(p, "revert")
        /\ making[p].base < FirstNewBase(p) + BlockSize * Len(making[p].chain)
        /\ entries' = [entries EXCEPT ![p][e].value = Null]
        /\ MoveTail(p, -1)
        /\ making' = [making EXCEPT ![p].base = @ + BlockSize]
        /\ UNCHANGED <<counters, blocks, tailBlock, consuming>>

\* The blocks are given back, and the call returns false.
GiveBack(p) ==
    /\ Making(p, "revert")
    /\ making[p].base = FirstNewBase(p) + BlockSize * Len(making[p].chain)
    /\ free' = free \cup Range(making[p].chain)
    /\ making' = [making EXCEPT ![p] = [Resting EXCEPT !.pc = "done"]]
    /\ UNCHANGED <<counters, index, cell, dequeued, tailBlock, consuming>>

\* The block that element i of the call goes to.
BlockFor(p, i) ==
    IF i < FirstNewBase(p) THEN tailBlock[p]
    ELSE making[p].chain[((Base(i) - FirstNewBase(p)) \div BlockSize) + 1]

\* The elements are constructed in their blocks.
Construct(p) ==
    LET items == tailIndex[p] .. tailIndex[p] + making[p].count - 1
    IN  /\ Making(p, "allocate")
        /\ making[p].base > LastBase(p)
        /\ cell' = [b \in Block |-> [o \in 0 .. BlockSize - 1 |->
                        IF \E i \in items : BlockFor(p, i) = b /\ Offset(i) = o
                        THEN <<p, CHOOSE i \in items : BlockFor(p, i) = b /\ Offset(i) = o>>
                        ELSE cell[b][o]]]
        /\ MakingStep(p, "publish")
        /\ UNCHANGED <<counters, index, dequeued, free, tailBlock, consuming>>

\* The tail is stored, and the call returns true.
Publish(p) ==
    /\ Making(p, "publish")
    /\ tailIndex' = [tailIndex EXCEPT ![p] = @ + making[p].count]
    /\ tailBlock' = [tailBlock EXCEPT ![p] = BlockFor(p, tailIndex[p] + making[p].count - 1)]
    /\ making' = [making EXCEPT ![p] = [Resting EXCEPT !.pc = "done", !.count = making[p].count]]
    /\ UNCHANGED <<headIndex, dequeueOptimisticCount, dequeueOvercommit, index, blocks, consuming>>

Enqueued(p) ==
    /\ Making(p, "done")
    /\ making' = [making EXCEPT ![p] = Resting]
    /\ UNCHANGED <<counters, index, blocks, tailBlock, consuming>>

EnqueueStep(p) ==
    \/ InsertKey(p) \/ NewBlockIndex(p) \/ NoBlockIndex(p) \/ InsertTail(p)
    \/ Requisition(p) \/ NoBlock(p) \/ RevertEntry(p) \/ GiveBack(p)
    \/ Construct(p) \/ Publish(p)

-----------------------------------------------------------------------------
\* Dequeueing.  A consumer is at a producer p, with others still to do.

At(c, pc) == taking[c].pc = pc

\* The consumer's step changes nothing but its own variables.
Local(c, t) ==
    /\ taking' = [taking EXCEPT ![c] = t]
    /\ UNCHANGED <<counters, index, blocks, producing, got>>

MayBegin(c) ==
    /\ At(c, "idle")
    /\ \A p \in Producer : dequeueOvercommit[p] < MaxOvercommit

\* try_dequeue begins by looking for the fullest sub-queue.
TryDequeue(c) ==
    /\ MayBegin(c)
    /\ Local(c, [NotTaking EXCEPT !.pc = "scan", !.max = 1, !.todo = Producer])

\* size_approx of one of them; which of two is fuller is left open.
Scan(c) ==
    /\ At(c, "scan")
    /\ \E p \in taking[c].todo :
        \/ /\ headIndex[p] < tailIndex[p]
           /\ Local(c, [taking[c] EXCEPT !.todo = @ \ {p}, !.p = p])
        \/ /\ headIndex[p] >= tailIndex[p] \/ taking[c].p # Null
           /\ Local(c, [taking[c] EXCEPT !.todo = @ \ {p}])

\* It tries that one, then all others; if all seemed empty, none.
Best(c) ==
    /\ At(c, "scan") /\ taking[c].todo = {}
    /\ IF taking[c].p = Null
       THEN Local(c, [NotTaking EXCEPT !.pc = "done"])
       ELSE Local(c, [taking[c] EXCEPT !.pc = "tail", !.todo = Producer \ {taking[c].p}])

\* try_dequeue_bulk takes them in turn.
TryDequeueBulk(c, n) ==
    /\ MayBegin(c)
    /\ Local(c, [NotTaking EXCEPT !.pc = "next", !.max = n, !.todo = Producer])

NextProducer(c) ==
    /\ At(c, "next")
    /\ \/ \E p \in taking[c].todo :
            /\ taking[c].have < taking[c].max
            /\ Local(c, [NotTaking EXCEPT !.pc = "tail", !.p = p, !.todo = taking[c].todo \ {p},
                                          !.max = taking[c].max, !.have = taking[c].have])
       \/ /\ taking[c].todo = {} \/ taking[c].have = taking[c].max
          /\ Local(c, [NotTaking EXCEPT !.pc = "done", !.have = taking[c].have])

\* ImplicitProducer::dequeue and dequeue_bulk.
LoadTail(c) ==
    /\ At(c, "tail")
    /\ Local(c, [taking[c] EXCEPT !.pc = "overcommit", !.tail = tailIndex[taking[c].p]])

LoadOvercommit(c) ==
    /\ At(c, "overcommit")
    /\ Local(c, [taking[c] EXCEPT !.pc = "count", !.over = dequeueOvercommit[taking[c].p]])

\* The elements that tail leaves to a consumer that comes after count others,
\* over of which found none.
Left(tail, count, over) == tail - (count - over)

LoadCount(c) ==
    LET desired == Left(taking[c].tail, dequeueOptimisticCount[taking[c].p], taking[c].over)
    IN  /\ At(c, "count")
        /\ IF desired > 0
           THEN Local(c, [taking[c] EXCEPT !.pc = "enter", !.tail = 0,
                            !.want = Lesser(desired, taking[c].max - taking[c].have)])
           ELSE Local(c, [taking[c] EXCEPT !.pc = "next"])

\* It counts itself in.
Enter(c) ==
    LET p == taking[c].p
    IN  /\ At(c, "enter")
        /\ dequeueOptimisticCount' = [dequeueOptimisticCount EXCEPT ![p] = @ + taking[c].want]
        /\ taking' = [taking EXCEPT ![c].pc = "check", ![c].mine = dequeueOptimisticCount[p]]
        /\ UNCHANGED <<tailIndex, headIndex, dequeueOvercommit, index, blocks, producing, got>>

\* The tail is read again: how many there are now for this consumer.
Allowed(c) == Left(tailIndex[taking[c].p], taking[c].mine, taking[c].over)

\* end is how many it may claim; the others it gives up.
Check(c) ==
    LET n == IF Allowed(c) > 0 THEN Lesser(taking[c].want, Allowed(c)) ELSE 0
    IN  /\ At(c, "check")
        /\ Local(c, [taking[c] EXCEPT !.pc = IF n < taking[c].want THEN "giveup" ELSE "claim",
                        !.want = @ - n, !.end = n, !.over = 0, !.mine = 0])

\* Mutant: one is given up, whatever it wanted.
GivenUpOne(c) == 1

\* What it counted itself in for and does not claim.
GivenUp(c) == taking[c].want

GiveUp(c) ==
    LET p == taking[c].p
    IN  /\ At(c, "giveup")
        /\ dequeueOvercommit' = [dequeueOvercommit EXCEPT ![p] = @ + GivenUp(c)]
        /\ taking' = [taking EXCEPT ![c].pc = IF taking[c].end > 0 THEN "claim" ELSE "next"]
        /\ UNCHANGED <<tailIndex, headIndex, dequeueOptimisticCount, index, blocks, producing, got>>

\* It claims the elements from at up to end.
Claim(c) ==
    LET p == taking[c].p
        n == taking[c].end
    IN  /\ At(c, "claim")
        /\ headIndex' = [headIndex EXCEPT ![p] = @ + n]
        /\ taking' = [taking EXCEPT ![c].pc = "header", ![c].want = 0, ![c].have = @ + n,
                                    ![c].at = headIndex[p], ![c].end = headIndex[p] + n]
        /\ UNCHANGED <<tailIndex, dequeueOptimisticCount, dequeueOvercommit, index, blocks,
                       producing, got>>

\* get_block_index_index_for_index: the index, its tail, and the key there.
LoadHeader(c) ==
    /\ At(c, "header")
    /\ Local(c, [taking[c] EXCEPT !.pc = "indextail", !.header = Len(headers[taking[c].p])])

Header(c) == headers[taking[c].p][taking[c].header]

LoadIndexTail(c) ==
    /\ At(c, "indextail")
    /\ Local(c, [taking[c] EXCEPT !.pc = "key", !.pos = Header(c).tail])

LoadKey(c) ==
    LET tailBase == entries[taking[c].p][EntryAt(Header(c), taking[c].pos)].key
    IN  /\ At(c, "key")
        /\ Local(c, [taking[c] EXCEPT !.pc = "value",
                        !.pos = IndexIndex(Header(c), @, tailBase, Base(taking[c].at))])

LoadValue(c) ==
    /\ At(c, "value")
    /\ Local(c, [taking[c] EXCEPT !.pc = "take",
                    !.block = entries[taking[c].p][EntryAt(Header(c), taking[c].pos)].value])

\* The index after the last it takes from this block.
Stop(c) == Lesser(taking[c].end, Base(taking[c].at) + BlockSize)

\* The index of the i-th element it moves out of the block.
Moved(c, i) == taking[c].at + i - 1

\* The elements of the block are moved out and destroyed.
Take(c) ==
    LET t == taking[c]
        read == [i \in 1 .. Stop(c) - t.at |->
                    IF t.block = Null THEN Null ELSE cell[t.block][Offset(Moved(c, i))]]
    IN  /\ At(c, "take")
        /\ got' = [got EXCEPT ![c][t.p] = @ \o read]
        /\ cell' = [b \in Block |-> [o \in 0 .. BlockSize - 1 |->
                        IF b = t.block /\ o \in {Offset(i) : i \in t.at .. Stop(c) - 1}
                        THEN Null ELSE cell[b][o]]]
        /\ taking' = [taking EXCEPT ![c].pc = "empty"]
        /\ UNCHANGED <<counters, index, dequeued, free, producing>>

\* set_many_empty: was that the last of the block?
NowEmpty(prev, n) == prev + n = BlockSize

\* On to the next block, or to the next producer.
Onward(c) ==
    LET t == taking[c]
    IN  IF Stop(c) < t.end
        THEN [t EXCEPT !.pc = "value", !.at = Stop(c), !.pos = (@ + 1) % Capacity(Header(c)),
                       !.block = Null]
        ELSE [NotTaking EXCEPT !.pc = "next", !.todo = t.todo, !.max = t.max, !.have = t.have]

SetEmpty(c) ==
    LET b == taking[c].block
        n == Stop(c) - taking[c].at
    IN  /\ At(c, "empty")
        /\ dequeued' = [dequeued EXCEPT ![b] = @ + n]
        /\ taking' = [taking EXCEPT ![c] =
                        IF NowEmpty(dequeued[b], n) THEN [@ EXCEPT !.pc = "clear"] ELSE Onward(c)]
        /\ UNCHANGED <<counters, index, cell, free, producing, got>>

\* The empty block is taken out of the index ...
ClearEntry(c) ==
    LET p == taking[c].p
    IN  /\ At(c, "clear")
        /\ entries' = [entries EXCEPT ![p][EntryAt(Header(c), taking[c].pos)].value = Null]
        /\ taking' = [taking EXCEPT ![c].pc = "free"]
        /\ UNCHANGED <<counters, headers, blocks, producing, got>>

\* ... and goes to the free list.
FreeBlock(c) ==
    /\ At(c, "free")
    /\ free' = free \cup {taking[c].block}
    /\ taking' = [taking EXCEPT ![c] = Onward(c)]
    /\ UNCHANGED <<counters, index, cell, dequeued, producing, got>>

Dequeued(c) ==
    /\ At(c, "done")
    /\ Local(c, NotTaking)

DequeueStep(c) ==
    \/ Scan(c) \/ Best(c) \/ NextProducer(c)
    \/ LoadTail(c) \/ LoadOvercommit(c) \/ LoadCount(c)
    \/ Enter(c) \/ Check(c) \/ GiveUp(c) \/ Claim(c)
    \/ LoadHeader(c) \/ LoadIndexTail(c) \/ LoadKey(c) \/ LoadValue(c)
    \/ Take(c) \/ SetEmpty(c) \/ ClearEntry(c) \/ FreeBlock(c)

Next ==
    \/ \E p \in Producer :
        \/ \E n \in 1 .. MaxBulk : Enqueue(p, n)
        \/ EnqueueStep(p)
        \/ Enqueued(p)
    \/ \E c \in Consumer :
        \/ TryDequeue(c)
        \/ \E n \in 1 .. MaxBulk : TryDequeueBulk(c, n)
        \/ DequeueStep(c)
        \/ Dequeued(c)

Spec == Init /\ [][Next]_vars

-----------------------------------------------------------------------------
Item == Producer \X (0 .. MaxItems - 1)

Taken == UNION {Range(got[c][p]) : c \in Consumer, p \in Producer}

\* Every variable keeps its type; the reference held by a consumer is to a
\* block that exists.
TypeOK ==
    /\ \A p \in Producer :
        /\ tailIndex[p] \in 0 .. MaxItems
        /\ headIndex[p] \in 0 .. MaxItems
        /\ dequeueOptimisticCount[p] \in Nat
        /\ dequeueOvercommit[p] \in Nat
        /\ tailBlock[p] \in Block \cup {Null}
        /\ \A i \in 1 .. Len(entries[p]) :
            entries[p][i].key \in Nat /\ entries[p][i].value \in Block \cup {Null}
        /\ \A i \in 1 .. Len(headers[p]) :
            /\ headers[p][i].tail \in 0 .. Capacity(headers[p][i]) - 1
            /\ Range(headers[p][i].ring) \subseteq 1 .. Len(entries[p])
    /\ \A b \in Block :
        /\ \A o \in 0 .. BlockSize - 1 : cell[b][o] \in Item \cup {Null}
        /\ dequeued[b] \in 0 .. BlockSize
    /\ free \subseteq Block
    /\ Taken \subseteq Item

\* What a consumer has claimed and not yet moved out.
Claimed(c) ==
    IF taking[c].pc \in {"header", "indextail", "key", "value", "take"}
    THEN {<<taking[c].p, i>> : i \in taking[c].at .. taking[c].end - 1}
    ELSE IF taking[c].pc \in {"empty", "clear", "free"}
    THEN {<<taking[c].p, i>> : i \in Stop(c) .. taking[c].end - 1}
    ELSE {}

\* Every element below the head has been moved out by one consumer, once, or
\* is claimed by one; every element from the head to the tail by none.
ExactlyOnce ==
    /\ Taken \cup UNION {Claimed(c) : c \in Consumer}
            = UNION {{<<p, i>> : i \in 0 .. headIndex[p] - 1} : p \in Producer}
    /\ \A c \in Consumer : Claimed(c) \cap Taken = {}
    /\ \A c, d \in Consumer : c # d => Claimed(c) \cap Claimed(d) = {}
    /\ \A c \in Consumer, p \in Producer : IsInjective(got[c][p])
    /\ \A x, y \in Consumer \X Producer :
        x # y => Range(got[x[1]][x[2]]) \cap Range(got[y[1]][y[2]]) = {}

\* A consumer gets the elements of a producer in the order they were
\* enqueued in.
InOrder ==
    \A c \in Consumer, p \in Producer : \A i, j \in DOMAIN got[c][p] :
        i < j => got[c][p][i][2] < got[c][p][j][2]

\* Consumers never claim more than has been enqueued, whatever order their
\* counting in and giving up come in.
HeadBehindTail == \A p \in Producer : headIndex[p] <= tailIndex[p]

\* The assertion of get_block_index_index_for_index: the entry found is that
\* of the block looked for, and the block is there, although the producer
\* may have moved the tail, reused entries or replaced the index meanwhile.
LookupFinds ==
    \A c \in Consumer : At(c, "value") =>
        LET e == entries[taking[c].p][EntryAt(Header(c), taking[c].pos)]
        IN  e.key = Base(taking[c].at) /\ e.value # Null

\* A block that is free is in no index, and no element is left in it; no
\* block is in use twice.
BlocksOwned ==
    LET held == {e \in Producer \X (1 .. 2 * MaxIndexSize) :
                    e[2] \in DOMAIN entries[e[1]] /\ entries[e[1]][e[2]].value # Null}
        value(e) == entries[e[1]][e[2]].value
    IN  /\ \A e, f \in held : value(e) = value(f) => e = f
        /\ \A e \in held : value(e) \notin free
        /\ \A b \in free : \A o \in 0 .. BlockSize - 1 : cell[b][o] = Null

\* An element is constructed only where none is.
ConstructsInEmpty ==
    \A p \in Producer : Making(p, "allocate") /\ making[p].base > LastBase(p) =>
        \A i \in tailIndex[p] .. tailIndex[p] + making[p].count - 1 :
            cell[BlockFor(p, i)][Offset(i)] = Null

\* When nobody is dequeueing, those counted in are those that gave up and
\* those that claimed, so that the next consumer finds what is there.
CountsSettle ==
    (\A c \in Consumer : taking[c].pc \in {"idle", "done"}) =>
        \A p \in Producer : dequeueOptimisticCount[p] - dequeueOvercommit[p] = headIndex[p]
=============================================================================
