----------------------------- MODULE MVCCHashMap ----------------------------
(***************************************************************************)
(* The multi-version hash map: every key has a list of versions, the       *)
(* newest in front.  An operation works on the list of one key under the   *)
(* lock of its bucket, so it is one step.  A value is told by its version. *)
(***************************************************************************)
EXTENDS Integers, Sequences, SequencesExt, FiniteSetsExt

CONSTANTS
    Keys,       \* keys
    Version,    \* versions
    Absent,     \* the list of a key that is not in the map
    Ordered     \* whether callers insert a version only when it is newer than the newest

VARIABLE maps

vars == <<maps>>

Init == maps = [k \in Keys |-> Absent]

List(k) == IF maps[k] = Absent THEN <<>> ELSE maps[k]

contains_key(k) == maps[k] # Absent /\ maps[k] # <<>>

contains_key_version(k, v) == v \in Range(List(k))

version_count(k) == Len(List(k))

\* The first version in the list that is older than v.
get_key_version_prev(k, v) ==
    LET older == SelectSeq(List(k), LAMBDA u : u < v)
    IN  IF older = <<>> THEN Absent ELSE Head(older)

\* A new version in front, whatever the newest version is.  The bound: callers insert
\* no version that the key has.
insert_key_version_holder(k, v) ==
    /\ Ordered => \A u \in Range(List(k)) : u < v
    /\ v \notin Range(List(k))
    /\ maps' = [maps EXCEPT ![k] = <<v>> \o List(k)]

remove_key(k) == maps' = [maps EXCEPT ![k] = Absent]

remove_key_version(k, v) ==
    /\ contains_key_version(k, v)
    /\ maps' = [maps EXCEPT ![k] = Remove(@, v)]

\* The list after the vacuum: from its end on, versions are removed until v is met.
Vacuumed(list, v) ==
    LET at == {i \in DOMAIN list : list[i] = v}
    IN  IF at = {} THEN <<>> ELSE SubSeq(list, 1, Max(at))

vacuum_key_versions(k, v) ==
    /\ maps[k] # Absent
    /\ maps' = [maps EXCEPT ![k] = Vacuumed(@, v)]

vacuum_key_keep_latest(k) ==
    /\ contains_key(k)
    /\ maps' = [maps EXCEPT ![k] = <<Head(@)>>]

Next == \E k \in Keys :
    \/ remove_key(k)
    \/ vacuum_key_keep_latest(k)
    \/ \E v \in Version : \/ insert_key_version_holder(k, v)
                          \/ remove_key_version(k, v)
                          \/ vacuum_key_versions(k, v)

Spec == Init /\ [][Next]_vars
-----------------------------------------------------------------------------
Versions(k) == Range(List(k))

\* Type invariant; version_count counts versions, none twice.
TypeOK == \A k \in Keys :
    /\ Versions(k) \subseteq Version
    /\ version_count(k) = Cardinality(Versions(k))

\* The newest version is in front and the list decreases, whatever is removed.
NewestFirst == \A k \in Keys : \A i, j \in DOMAIN List(k) : i < j => List(k)[i] > List(k)[j]

\* get_key_version_prev finds the newest of the versions that are older, when there is one.
PrevIsNewestOlder == \A k \in Keys, v \in Version :
    LET older == {u \in Versions(k) : u < v}
    IN  get_key_version_prev(k, v) = IF older = {} THEN Absent ELSE Max(older)

=============================================================================
