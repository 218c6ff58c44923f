---------------------------- MODULE BlockingQueue ---------------------------
(***************************************************************************)
(* BlockingMPMCQueue: the bounded queue between the threads of a server    *)
(* (pendingTransactions, broadcastTransactions, the raft queues, the       *)
(* results of other servers).  A lock-free ring of slots, each with a turn *)
(* that says who may use it next, and a semaphore that counts the items.   *)
(* The semaphore is the one of CountingSemaphore, which                    *)
(* LightweightSemaphore implements.                                        *)
(***************************************************************************)
EXTENDS Naturals, FiniteSets

CONSTANTS
    Producer,   \* threads that push
    Consumer,   \* threads that pop
    Capacity,   \* capacity_
    MaxPush,    \* bound: items pushed by each producer
    MaxBulk     \* bound: items wanted by wait_dequeue_bulk_timed

VARIABLES
    head, tail, \* head_, tail_: the next tickets to push and to pop
    turn,       \* the turn of each slot
    storage,    \* the item of each slot, or None
    permits,    \* sema
    ppc,        \* where each producer is
    pticket,    \* the ticket it has taken
    pushed,     \* how many items it has pushed
    cpc,        \* where each consumer is
    cticket,    \* the ticket it has taken, or has read
    due,        \* items it has a permit for and has not popped
    popped,     \* what each consumer has popped last
    taken       \* the items popped, with the ticket of the pop

pvars == <<ppc, pticket, pushed>>
cvars == <<cpc, cticket, due, popped, taken>>
vars == <<head, tail, turn, storage, permits, pvars, cvars>>

\* Items: the k-th one of a producer.
Item == Producer \X (1 .. MaxPush)

None == <<>>

Idx(i) == i % Capacity
Turn(i) == i \div Capacity

Slot == 0 .. Capacity - 1

Init ==
    /\ head = 0 /\ tail = 0
    /\ turn = [i \in Slot |-> 0]
    /\ storage = [i \in Slot |-> None]
    /\ permits = 0
    /\ ppc = [p \in Producer |-> "idle"]
    /\ pticket = [p \in Producer |-> 0]
    /\ pushed = [p \in Producer |-> 0]
    /\ cpc = [c \in Consumer |-> "idle"]
    /\ cticket = [c \in Consumer |-> 0]
    /\ due = [c \in Consumer |-> 0]
    /\ popped = [c \in Consumer |-> None]
    /\ taken = {}
-----------------------------------------------------------------------------
(* push: emplace, then signal. *)

\* head_.fetch_add.
TakeHead(p) ==
    /\ ppc[p] = "idle"
    /\ pushed[p] < MaxPush
    /\ pticket' = [pticket EXCEPT ![p] = head]
    /\ head' = head + 1
    /\ ppc' = [ppc EXCEPT ![p] = "spin"]
    /\ UNCHANGED <<tail, turn, storage, permits, pushed, cvars>>

\* The slot is free for this ticket.
MayPush(i) == turn[Idx(i)] = Turn(i) * 2

\* The slot is ours: construct.
Construct(p) ==
    /\ ppc[p] = "spin"
    /\ MayPush(pticket[p])
    /\ pushed' = [pushed EXCEPT ![p] = @ + 1]
    /\ storage' = [storage EXCEPT ![Idx(pticket[p])] = <<p, pushed'[p]>>]
    /\ ppc' = [ppc EXCEPT ![p] = "store"]
    /\ UNCHANGED <<head, tail, turn, permits, pticket, cvars>>

\* slot.turn.store.
StoreOdd(p) ==
    /\ ppc[p] = "store"
    /\ turn' = [turn EXCEPT ![Idx(pticket[p])] = Turn(pticket[p]) * 2 + 1]
    /\ ppc' = [ppc EXCEPT ![p] = "signal"]
    /\ UNCHANGED <<head, tail, storage, permits, pticket, pushed, cvars>>

\* sema.signal.
Signal(p) ==
    /\ ppc[p] = "signal"
    /\ permits' = permits + 1
    /\ ppc' = [ppc EXCEPT ![p] = "idle"]
    /\ UNCHANGED <<head, tail, turn, storage, pticket, pushed, cvars>>
-----------------------------------------------------------------------------
(* pop, try_pop and wait_dequeue_bulk_timed. *)

\* pop: sema.wait, then queue.pop.
Pop(c) ==
    /\ cpc[c] = "idle"
    /\ permits > 0
    /\ permits' = permits - 1
    /\ due' = [due EXCEPT ![c] = 1]
    /\ cpc' = [cpc EXCEPT ![c] = "fetch"]
    /\ UNCHANGED <<head, tail, turn, storage, pvars, cticket, popped, taken>>

\* try_pop and wait_dequeue_bulk_timed: some permits, then queue.try_pop for each.
TryPop(c) ==
    /\ cpc[c] = "idle"
    /\ \E n \in 1 .. MaxBulk :
           /\ n <= permits
           /\ permits' = permits - n
           /\ due' = [due EXCEPT ![c] = n]
    /\ cpc' = [cpc EXCEPT ![c] = "load"]
    /\ UNCHANGED <<head, tail, turn, storage, pvars, cticket, popped, taken>>

\* queue.pop: tail_.fetch_add.
TakeTail(c) ==
    /\ cpc[c] = "fetch"
    /\ cticket' = [cticket EXCEPT ![c] = tail]
    /\ tail' = tail + 1
    /\ cpc' = [cpc EXCEPT ![c] = "spin"]
    /\ UNCHANGED <<head, turn, storage, permits, pvars, due, popped, taken>>

\* Mutant of MayPop: the slot is not looked at, as there is a permit.
MayPopAny(i) == TRUE
\* The item of this ticket is there.
MayPop(i) == turn[Idx(i)] = Turn(i) * 2 + 1

\* queue.pop: the spinning ends.
SpinEnds(c) ==
    /\ cpc[c] = "spin"
    /\ MayPop(cticket[c])
    /\ cpc' = [cpc EXCEPT ![c] = "move"]
    /\ UNCHANGED <<head, tail, turn, storage, permits, pvars, cticket, due, popped, taken>>

\* queue.try_pop: tail_.load.
LoadTail(c) ==
    /\ cpc[c] = "load"
    /\ cticket' = [cticket EXCEPT ![c] = tail]
    /\ cpc' = [cpc EXCEPT ![c] = "test"]
    /\ UNCHANGED <<head, tail, turn, storage, permits, pvars, due, popped, taken>>

\* queue.try_pop: the slot is looked at.  If its item is not there, try_pop fails or
\* reads the tail again, and the caller tries again in both cases.
TestSlot(c) ==
    /\ cpc[c] = "test"
    /\ cpc' = [cpc EXCEPT ![c] = IF MayPop(cticket[c]) THEN "cas" ELSE "load"]
    /\ UNCHANGED <<head, tail, turn, storage, permits, pvars, cticket, due, popped, taken>>

\* queue.try_pop: compare_exchange_strong on tail_, which reads it on failure.
CasTail(c) ==
    /\ cpc[c] = "cas"
    /\ IF tail = cticket[c]
       THEN /\ tail' = tail + 1
            /\ cpc' = [cpc EXCEPT ![c] = "move"]
            /\ UNCHANGED cticket
       ELSE /\ cticket' = [cticket EXCEPT ![c] = tail]
            /\ cpc' = [cpc EXCEPT ![c] = "test"]
            /\ UNCHANGED tail
    /\ UNCHANGED <<head, turn, storage, permits, pvars, due, popped, taken>>

\* slot.move, slot.destroy.
Move(c) ==
    /\ cpc[c] = "move"
    /\ LET i == Idx(cticket[c])
       IN  /\ popped' = [popped EXCEPT ![c] = storage[i]]
           /\ taken' = taken \cup {<<cticket[c], storage[i]>>}
           /\ storage' = [storage EXCEPT ![i] = None]
    /\ cpc' = [cpc EXCEPT ![c] = "store"]
    /\ UNCHANGED <<head, tail, turn, permits, pvars, cticket, due>>

\* The turn that gives the slot to the next producer.
NextTurn(i) == Turn(i) * 2 + 2

\* slot.turn.store; a bulk dequeue goes on with the next item.
StoreEven(c) ==
    /\ cpc[c] = "store"
    /\ turn' = [turn EXCEPT ![Idx(cticket[c])] = NextTurn(cticket[c])]
    /\ due' = [due EXCEPT ![c] = @ - 1]
    /\ cpc' = [cpc EXCEPT ![c] = IF due[c] > 1 THEN "load" ELSE "idle"]
    /\ UNCHANGED <<head, tail, storage, permits, pvars, cticket, popped, taken>>
-----------------------------------------------------------------------------
\* Everything has been pushed and popped: the consumers wait.
AllWait ==
    /\ \A p \in Producer : ppc[p] = "idle" /\ pushed[p] = MaxPush
    /\ \A c \in Consumer : cpc[c] = "idle"
    /\ permits = 0
    /\ UNCHANGED vars

Next ==
    \/ \E p \in Producer : TakeHead(p) \/ Construct(p) \/ StoreOdd(p) \/ Signal(p)
    \/ \E c \in Consumer :
           \/ Pop(c) \/ TryPop(c) \/ TakeTail(c) \/ SpinEnds(c) \/ LoadTail(c)
           \/ TestSlot(c) \/ CasTail(c) \/ Move(c) \/ StoreEven(c)
    \/ AllWait

Spec == Init /\ [][Next]_vars

-----------------------------------------------------------------------------
\* Type invariant.
TypeOK ==
    /\ head \in Nat /\ tail \in Nat /\ permits \in Nat
    /\ turn \in [Slot -> Nat]
    /\ storage \in [Slot -> Item \cup {None}]
    /\ ppc \in [Producer -> {"idle", "spin", "store", "signal"}]
    /\ pticket \in [Producer -> Nat]
    /\ pushed \in [Producer -> 0 .. MaxPush]
    /\ cpc \in [Consumer -> {"idle", "fetch", "spin", "load", "test", "cas", "move", "store"}]
    /\ cticket \in [Consumer -> Nat]
    /\ due \in [Consumer -> 0 .. MaxBulk]
    /\ popped \in [Consumer -> Item \cup {None}]
    /\ taken \subseteq Nat \X (Item \cup {None})

\* A slot is never constructed, moved from or destroyed by two threads at a time.
SlotExclusive ==
    \A x, y \in (Producer \X {"p"}) \cup (Consumer \X {"c"}) :
        LET Uses(z, i) ==
                IF z[2] = "p" THEN ppc[z[1]] = "store" /\ Idx(pticket[z[1]]) = i
                              ELSE cpc[z[1]] \in {"move", "store"} /\ Idx(cticket[z[1]]) = i
        IN  \A i \in Slot : Uses(x, i) /\ Uses(y, i) => x = y

\* Every item is popped once, and never an empty or overwritten slot is.
PoppedOnce ==
    /\ \A a \in taken : a[2] # None
    /\ \A a, b \in taken : a[1] = b[1] \/ a[2] = b[2] => a = b

\* First in, first out: the items of a producer are popped in the order in which it
\* has pushed them.
FirstInFirstOut ==
    \A a, b \in taken :
        (None \notin {a[2], b[2]} /\ a[2][1] = b[2][1] /\ a[2][2] < b[2][2]) => a[1] < b[1]

\* Nobody takes a ticket to pop for which nobody will push: the permits, and the
\* pops that are under way, are as many as the items that are there or on their way.
NoTicketTooMany == tail <= head

=============================================================================
