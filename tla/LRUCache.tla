------------------------------ MODULE LRUCache ------------------------------
(***************************************************************************)
(* The least-recently-used cache (lru11::Cache) that holds the blocks      *)
(* whose signatures are being verified.  keys_ is the list of entries, the *)
(* one used last in front; cache_ finds the entry of a key.  Every         *)
(* operation holds the lock, so it is one step.                            *)
(***************************************************************************)
EXTENDS Integers, Sequences, SequencesExt, FiniteSetsExt

CONSTANTS
    Keys,       \* keys
    Value,      \* values
    maxSize,    \* soft limit; 0 for an unbounded cache
    elasticity  \* what the cache may grow beyond the soft limit

VARIABLES
    keys_,      \* entries <<key, value>>
    cache_,     \* the keys that the map has
    latest,     \* history: the value inserted last for each key
    used        \* history: the keys used and not removed since, the last one in front

vars == <<keys_, cache_, latest, used>>

Init ==
    /\ keys_ = <<>>
    /\ cache_ = {}
    /\ latest \in [Keys -> Value]
    /\ used = <<>>

Without(list, k) == SelectSeq(list, LAMBDA e : e[1] # k)

Use(k) == <<k>> \o SelectSeq(used, LAMBDA u : u # k)

Entry(k) == SelectSeq(keys_, LAMBDA e : e[1] = k)[1]

\* prune: at the hard limit the cache is cut back to the soft limit.
Pruned(list) ==
    IF maxSize = 0 \/ Len(list) < maxSize + elasticity THEN list
    ELSE SubSeq(list, 1, IF Len(list) > maxSize THEN maxSize ELSE Len(list))

\* insert: the entry of a key that is there is changed and moved to the front.
insert(k, v) ==
    /\ latest' = [latest EXCEPT ![k] = v]
    /\ used' = Use(k)
    /\ IF k \in cache_
       THEN /\ keys_' = <<<<k, v>>>> \o Without(keys_, k)
            /\ UNCHANGED cache_
       ELSE /\ keys_' = Pruned(<<<<k, v>>>> \o keys_)
            /\ cache_' = {keys_'[i][1] : i \in DOMAIN keys_'}

\* tryGet, get and getCopy of a key that is there.
get(k) ==
    /\ k \in cache_
    /\ keys_' = <<Entry(k)>> \o Without(keys_, k)
    /\ used' = Use(k)
    /\ UNCHANGED <<cache_, latest>>

remove(k) ==
    /\ k \in cache_
    /\ keys_' = Without(keys_, k)
    /\ cache_' = cache_ \ {k}
    /\ used' = SelectSeq(used, LAMBDA u : u # k)
    /\ UNCHANGED latest

clear ==
    /\ keys_' = <<>>
    /\ cache_' = {}
    /\ used' = <<>>
    /\ UNCHANGED latest

Next ==
    \/ \E k \in Keys : get(k) \/ remove(k) \/ \E v \in Value : insert(k, v)
    \/ clear

Spec == Init /\ [][Next]_vars
-----------------------------------------------------------------------------
Listed == {keys_[i][1] : i \in DOMAIN keys_}

\* Type invariant.
TypeOK ==
    /\ Range(keys_) \subseteq Keys \X Value
    /\ cache_ \subseteq Keys
    /\ latest \in [Keys -> Value]
    /\ Range(used) \subseteq Keys

\* The map and the list hold the same keys, each once, and prune keeps the list below
\* the hard limit.
MapMatchesList ==
    /\ cache_ = Listed
    /\ Cardinality(Listed) = Len(keys_)
    /\ maxSize > 0 => Len(keys_) <= Max({maxSize, maxSize + elasticity - 1})

\* What is dropped is what has not been used for longest: the keys of the cache are
\* the ones used last, in that order (remove and clear aside).
LeastRecentlyUsed == [i \in DOMAIN keys_ |-> keys_[i][1]] = SubSeq(used, 1, Len(keys_))

\* A value that is found is the one that was inserted last.
NeverStale == \A i \in DOMAIN keys_ : keys_[i][2] = latest[keys_[i][1]]
=============================================================================
