------------------------- MODULE CountingSemaphore --------------------------
(***************************************************************************)
(* What a semaphore promises: permits are made by signal, and what a wait  *)
(* returns is taken from them, so that nobody gets one that has not been   *)
(* made and none is lost.                                                  *)
(***************************************************************************)
EXTENDS Integers

CONSTANT Waiter     \* the threads that wait

VARIABLES
    made,       \* signalled in all
    permits,    \* signalled and not taken
    got         \* what the current or the last wait of each thread got

vars == <<made, permits, got>>

Init == made = 0 /\ permits = 0 /\ got = [t \in Waiter |-> 0]

\* A wait begins.
Begin(t) ==
    /\ got' = [got EXCEPT ![t] = 0]
    /\ UNCHANGED <<made, permits>>

\* A signal of one or more permits.
Signal ==
    /\ made' \in Nat /\ made' > made
    /\ permits' = permits + (made' - made)
    /\ UNCHANGED got

\* A wait takes one or more of them.
Acquire(t) ==
    /\ permits' \in Nat /\ permits' < permits
    /\ got' = [got EXCEPT ![t] = @ + (permits - permits')]
    /\ UNCHANGED made

Next == Signal \/ \E t \in Waiter : Begin(t) \/ Acquire(t)

Spec == Init /\ [][Next]_vars
=============================================================================
