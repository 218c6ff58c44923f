---------------------------- MODULE SerialEpoch ----------------------------
(***************************************************************************)
(* What executing an epoch promises: in one step, some of the epoch's      *)
(* transactions are run one after the other, in some order, each on the    *)
(* state the one before it left; the others have no effect.                *)
(***************************************************************************)
EXTENDS Transactions, FiniteSets

VARIABLES
    batch,      \* the epoch's transactions
    state,      \* the database
    committed,  \* the transactions that took effect
    over        \* the epoch has been executed

Init ==
    /\ batch \in Batches
    /\ state = Snapshot
    /\ committed = {}
    /\ over = FALSE

\* One transaction runs alone.
Run(s, t) == Store(s, Writes(t, batch[t], s))

\* The states the database goes through when n transactions run in this order.
Through(order, n) ==
    LET s[i \in 0 .. n] == IF i = 0 THEN state ELSE Run(s[i - 1], order[i]) IN s

RunEpoch ==
    /\ ~over
    /\ \E c \in SUBSET {t \in Tid : batch[t].ok} :
       \E order \in [1 .. Cardinality(c) -> c] :
          /\ c = {order[i] : i \in DOMAIN order}
          /\ state' = Through(order, Cardinality(c))[Cardinality(c)]
          /\ committed' = c
    /\ over' = TRUE
    /\ UNCHANGED batch

Spec == Init /\ [][RunEpoch]_<<batch, state, committed, over>>
=============================================================================
