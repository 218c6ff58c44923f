------------------------------ MODULE FreeList ------------------------------
(***************************************************************************)
(* The lock-free list of free blocks of the concurrent queue.  A node has  *)
(* a reference count, one for the list and one for each thread that is     *)
(* about to take it, and a flag saying that it should be on the list: a    *)
(* thread that cannot add a node, because others still refer to it, leaves *)
(* that to the last of them.  Every atomic operation is a step; they are   *)
(* taken to be sequentially consistent.                                    *)
(***************************************************************************)
EXTENDS Integers, FiniteSets

CONSTANTS Thread, Node, Null

VARIABLES
    freeListHead,
    freeListRefs,   \* of each node: the count, and SHOULD_BE_ON_FREELIST
    freeListNext,
    taken,          \* the nodes that try_get has returned and nobody has added
    pc,             \* where each thread is
    head,           \* its head, in try_get or in add_knowing_refcount_is_zero
    prevHead,       \* its prevHead, in try_get
    refs,           \* its refs
    next,           \* its next
    node,           \* the node it adds
    back            \* where it goes from add_knowing_refcount_is_zero

list == <<freeListHead, freeListRefs, freeListNext>>
getting == <<prevHead, refs, next>>
vars == <<freeListHead, freeListRefs, freeListNext, taken, pc, head, prevHead, refs, next,
          node, back>>

Zero == [count |-> 0, flag |-> FALSE]

\* At first the list is empty: the nodes are in use.
Init ==
    /\ freeListHead = Null
    /\ freeListRefs = [n \in Node |-> Zero]
    /\ freeListNext = [n \in Node |-> Null]
    /\ taken = Node
    /\ pc = [t \in Thread |-> "idle"]
    /\ head = [t \in Thread |-> Null]
    /\ prevHead = [t \in Thread |-> Null]
    /\ refs = [t \in Thread |-> Zero]
    /\ next = [t \in Thread |-> Null]
    /\ node = [t \in Thread |-> Null]
    /\ back = [t \in Thread |-> "idle"]

Goto(t, l) == pc' = [pc EXCEPT ![t] = l]

\* A thread that returns forgets its variables.
Return(t) ==
    /\ Goto(t, "idle")
    /\ head' = [head EXCEPT ![t] = Null]
    /\ prevHead' = [prevHead EXCEPT ![t] = Null]
    /\ refs' = [refs EXCEPT ![t] = Zero]
    /\ next' = [next EXCEPT ![t] = Null]
    /\ node' = [node EXCEPT ![t] = Null]
    /\ back' = [back EXCEPT ![t] = "idle"]

-----------------------------------------------------------------------------
(* try_get *)

\* The loop's condition, for a head that was just loaded.
LoadHead(t) ==
    /\ pc[t] \in {"idle", "load"}
    /\ head' = [head EXCEPT ![t] = freeListHead]
    /\ Goto(t, IF freeListHead = Null THEN "none" ELSE "refs")
    /\ UNCHANGED <<list, taken, getting, node, back>>

\* try_get returns nullptr.
ReturnNone(t) ==
    /\ pc[t] = "none"
    /\ Return(t)
    /\ UNCHANGED <<list, taken>>

LoadRefs(t) ==
    /\ pc[t] = "refs"
    /\ prevHead' = [prevHead EXCEPT ![t] = head[t]]
    /\ refs' = [refs EXCEPT ![t] = freeListRefs[head[t]]]
    /\ Goto(t, IF freeListRefs[head[t]].count = 0 THEN "load" ELSE "hold")
    /\ UNCHANGED <<list, taken, head, next, node, back>>

\* Whether the compare and exchange of the reference count succeeds.
HoldsHead(t) == freeListRefs[head[t]] = refs[t]

IncreaseRefs(t) ==
    /\ pc[t] = "hold"
    /\ IF HoldsHead(t)
       THEN /\ freeListRefs' = [freeListRefs EXCEPT ![head[t]].count = @ + 1]
            /\ Goto(t, "next")
       ELSE Goto(t, "load") /\ UNCHANGED freeListRefs
    /\ UNCHANGED <<freeListHead, freeListNext, taken, head, getting, node, back>>

LoadNext(t) ==
    /\ pc[t] = "next"
    /\ next' = [next EXCEPT ![t] = freeListNext[head[t]]]
    /\ Goto(t, "take")
    /\ UNCHANGED <<list, taken, head, prevHead, refs, node, back>>

\* The compare and exchange of the head; when it fails it loads the head.
TakeHead(t) ==
    /\ pc[t] = "take"
    /\ IF freeListHead = head[t]
       THEN freeListHead' = next[t] /\ Goto(t, "got") /\ UNCHANGED head
       ELSE /\ head' = [head EXCEPT ![t] = freeListHead]
            /\ Goto(t, "release")
            /\ UNCHANGED freeListHead
    /\ UNCHANGED <<freeListRefs, freeListNext, taken, getting, node, back>>

\* The references of the list and of the thread; the node is returned.
GetNode(t) ==
    /\ pc[t] = "got"
    /\ freeListRefs' = [freeListRefs EXCEPT ![head[t]].count = @ - 2]
    /\ taken' = taken \cup {head[t]}
    /\ Return(t)
    /\ UNCHANGED <<freeListHead, freeListNext>>

\* Mutant of LastReference: the flag is not looked at.
LastReferenceAny(r) == FALSE
\* The last reference to a node that should be on the list.
LastReference(r) == r.flag /\ r.count = 1

\* The head had changed: the reference is given back, and the node added to the
\* list when that was left to this thread.
ReleaseRef(t) ==
    /\ pc[t] = "release"
    /\ freeListRefs' = [freeListRefs EXCEPT ![prevHead[t]].count = @ - 1]
    /\ LET again == IF head[t] = Null THEN "none" ELSE "refs"
       IN  IF LastReference(freeListRefs[prevHead[t]])
           THEN /\ node' = [node EXCEPT ![t] = prevHead[t]]
                /\ back' = [back EXCEPT ![t] = again]
                /\ Goto(t, "addhead")
           ELSE Goto(t, again) /\ UNCHANGED <<node, back>>
    /\ UNCHANGED <<freeListHead, freeListNext, taken, head, getting>>

-----------------------------------------------------------------------------
(* add *)

\* fetch_add returned zero.
MayAdd(r) == r = Zero

Add(t, n) ==
    /\ pc[t] = "idle"
    /\ n \in taken
    /\ taken' = taken \ {n}
    /\ freeListRefs' = [freeListRefs EXCEPT ![n].flag = TRUE]
    /\ IF MayAdd(freeListRefs[n])
       THEN Goto(t, "addhead") /\ node' = [node EXCEPT ![t] = n]
       ELSE UNCHANGED <<pc, node>>
    /\ UNCHANGED <<freeListHead, freeListNext, head, getting, back>>

\* What a thread that adds a node remembers of the loop of try_get: its head.
Resume(t) ==
    IF back[t] = "idle" THEN Return(t)
    ELSE /\ Goto(t, back[t])
         /\ node' = [node EXCEPT ![t] = Null]
         /\ back' = [back EXCEPT ![t] = "idle"]
         /\ UNCHANGED <<head, getting>>

\* add_knowing_refcount_is_zero; next is its head.
AddLoadHead(t) ==
    /\ pc[t] = "addhead"
    /\ next' = [next EXCEPT ![t] = freeListHead]
    /\ Goto(t, "addnext")
    /\ UNCHANGED <<list, taken, head, prevHead, refs, node, back>>

AddStoreNext(t) ==
    /\ pc[t] = "addnext"
    /\ freeListNext' = [freeListNext EXCEPT ![node[t]] = next[t]]
    /\ Goto(t, "addrefs")
    /\ UNCHANGED <<freeListHead, freeListRefs, taken, head, getting, node, back>>

AddStoreRefs(t) ==
    /\ pc[t] = "addrefs"
    /\ freeListRefs' = [freeListRefs EXCEPT ![node[t]] = [count |-> 1, flag |-> FALSE]]
    /\ Goto(t, "addcas")
    /\ UNCHANGED <<freeListHead, freeListNext, taken, head, getting, node, back>>

AddCas(t) ==
    /\ pc[t] = "addcas"
    /\ IF freeListHead = next[t]
       THEN freeListHead' = node[t] /\ Resume(t)
       ELSE /\ next' = [next EXCEPT ![t] = freeListHead]
            /\ Goto(t, "addfail")
            /\ UNCHANGED <<freeListHead, head, prevHead, refs, node, back>>
    /\ UNCHANGED <<freeListRefs, freeListNext, taken>>

\* fetch_add(SHOULD_BE_ON_FREELIST - 1).
KeepsMark(r) == [count |-> r.count - 1, flag |-> TRUE]

\* The list's reference becomes the flag; with no other the add is tried again.
AddFailed(t) ==
    /\ pc[t] = "addfail"
    /\ freeListRefs' = [freeListRefs EXCEPT ![node[t]] = KeepsMark(@)]
    /\ IF freeListRefs[node[t]].count = 1
       THEN Goto(t, "addnext") /\ UNCHANGED <<head, getting, node, back>>
       ELSE Resume(t)
    /\ UNCHANGED <<freeListHead, freeListNext, taken>>

Step(t) ==
    \/ LoadHead(t) \/ ReturnNone(t) \/ LoadRefs(t) \/ IncreaseRefs(t) \/ LoadNext(t)
    \/ TakeHead(t) \/ GetNode(t) \/ ReleaseRef(t)
    \/ \E n \in Node : Add(t, n)
    \/ AddLoadHead(t) \/ AddStoreNext(t) \/ AddStoreRefs(t) \/ AddCas(t) \/ AddFailed(t)

Next == \E t \in Thread : Step(t)

Spec == Init /\ [][Next]_vars

-----------------------------------------------------------------------------
\* The nodes on the list: those reached from the head in at most that many steps.
OnList ==
    LET reach[k \in 0 .. Cardinality(Node)] ==
            IF k = 0 THEN {freeListHead} \ {Null}
            ELSE reach[k - 1] \cup ({freeListNext[n] : n \in reach[k - 1]} \ {Null})
    IN  reach[Cardinality(Node)]

TypeOK ==
    /\ freeListHead \in Node \cup {Null}
    /\ \A n \in Node : freeListRefs[n].count \in 0 .. Cardinality(Thread) + 1
    /\ freeListNext \in [Node -> Node \cup {Null}]
    /\ taken \subseteq Node

\* A block is given to one thread at a time: the block that try_get is about to
\* return is neither on the list, nor in use, nor about to be returned to another
\* thread; and no block in use is on the list.
TakenOnce ==
    /\ taken \cap OnList = {}
    /\ \A t \in Thread : pc[t] = "got" =>
           /\ head[t] \notin taken \cup OnList
           /\ \A u \in Thread \ {t} : pc[u] = "got" => head[u] # head[t]

\* The assertion in try_get: a node that was on the list is not marked to be added.
AssertUnmarked == \A t \in Thread : pc[t] = "got" => ~freeListRefs[head[t]].flag

\* No block is lost: with no call in progress, a block is in use or on the list.
\* (The last thread to refer to a block adds it where another one could not.)
NoneLost == (\A t \in Thread : pc[t] = "idle") => taken \cup OnList = Node

\* The list ends: it has no cycle, whatever blocks return to it in between.
ListEnds == OnList # {} => \E n \in OnList : freeListNext[n] = Null
=============================================================================
