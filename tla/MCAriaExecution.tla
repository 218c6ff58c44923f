-------------------------- MODULE MCAriaExecution --------------------------
(* Model values and bounds for AriaExecution. *)
EXTENDS AriaExecution, FiniteSets, TLC

CONSTANTS
    k1, k2, w1, w2,                     \* model values
    MaxReads, MaxWrites, MaxFailed      \* bounds on the batches

Symmetric == Permutations(Key) \cup Permutations(Worker)

MCTid3 == {1, 2, 3}

Small(n) == {s \in SUBSET Key : Cardinality(s) <= n}

\* Every batch within the bounds that gives the smallest and the largest
\* transaction to different workers (so that both workers have one).
MCBatches ==
    {b \in [Tid -> [read : Small(MaxReads), write : Small(MaxWrites),
                    ok : BOOLEAN, worker : Worker]] :
        /\ Cardinality({t \in Tid : ~b[t].ok}) <= MaxFailed
        /\ \A t, u \in Tid : (\A v \in Tid : t <= v /\ v <= u) => b[t].worker # b[u].worker}

=============================================================================
