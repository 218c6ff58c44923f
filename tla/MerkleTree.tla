----------------------------- MODULE MerkleTree -----------------------------
(***************************************************************************)
(* The Merkle tree whose root stands for the transactions of a block in    *)
(* its header and its signature.  One array list per level; a node without *)
(* a right sibling is not stored on the next level, but stands for itself  *)
(* until the parent that it gets is stored further up.                     *)
(*                                                                         *)
(* The hash of two hashes is the pair of them, so that hashes are equal    *)
(* when what they were made of is: SHA-256 is taken to have no collisions. *)
(***************************************************************************)
EXTENDS Naturals, Sequences

CONSTANTS
    Tag,            \* hashes of transactions
    TREE_LEVELS,    \* levels, level 0 are the leaves
    MaxLeaves       \* bound: transactions of a block

VARIABLES
    level,  \* the array lists
    leaves, \* the tags that were added, as they were updated
    result  \* what the last operation returned

vars == <<level, leaves, result>>

Leaf(tag) == <<tag>>

\* mt_hash.
Hash(left, right) == <<left, right>>

Null == <<>>

\* mt_al_get.
Get(al, offset) == IF offset < Len(al) THEN al[offset + 1] ELSE Null

\* mt_al_update, mt_al_update_if_exists.
UpdateIfExists(al, hash, offset) ==
    IF offset < Len(al) THEN [al EXCEPT ![offset + 1] = hash] ELSE al

\* mt_al_add_or_update, for an offset that is not beyond the end.
AddOrUpdate(al, hash, offset) ==
    IF offset = Len(al) THEN Append(al, hash) ELSE UpdateIfExists(al, hash, offset)

Init ==
    /\ level = [l \in 0 .. TREE_LEVELS - 1 |-> <<>>]
    /\ leaves = <<>>
    /\ result = "MT_SUCCESS"

Elems == Len(leaves)
-----------------------------------------------------------------------------
(* mt_add. *)

\* mt_right, mt_left.
Right(q) == q % 2 = 1

\* The loop of mt_add: up from node q of level l, whose hash is digest.  The node is
\* stored with a left sibling only.  Returns the levels, and what the assertion at
\* the end or a failing call makes of the result.
RECURSIVE AddFrom(_, _, _, _)
AddFrom(lv, digest, q, l) ==
    IF q = 0 \/ l = TREE_LEVELS
    THEN [level |-> lv, result |-> IF digest = Get(lv[l], q) THEN "MT_SUCCESS" ELSE "assert"]
    ELSE IF ~Right(q)
         THEN AddFrom(lv, digest, q \div 2, l + 1)
         ELSE LET h == Hash(Get(lv[l], q - 1), digest)
              IN  IF q \div 2 > Len(lv[l + 1])
                  THEN [level |-> lv, result |-> "MT_ERR_ILLEGAL_PARAM"]
                  ELSE AddFrom([lv EXCEPT ![l + 1] = AddOrUpdate(@, h, q \div 2)],
                               h, q \div 2, l + 1)

\* mt_add.
Add(tag) ==
    /\ Elems < MaxLeaves
    /\ LET first == [level EXCEPT ![0] = Append(@, Leaf(tag))]
           all == AddFrom(first, Leaf(tag), Elems, 0)
       IN  IF Elems = 0
           THEN level' = first /\ result' = "MT_SUCCESS"
           ELSE level' = all.level /\ result' = all.result
    /\ leaves' = Append(leaves, tag)
-----------------------------------------------------------------------------
(* mt_update, mt_verify, mt_get_root. *)

\* Mutant of HasNextLevelExceptRoot: the levels are counted without the top one.
HasNextLevelButTwo(l) ==
    l + 1 < TREE_LEVELS - 3 /\ level[l + 1] # <<>>
HasNextLevelExceptRoot(l) ==
    l + 1 < TREE_LEVELS - 1 /\ level[l + 1] # <<>>

\* The right sibling, which may stand on a lower level.
RECURSIVE FindRightNeighbor(_, _, _)
FindRightNeighbor(lv, offset, l) ==
    IF offset < Len(lv[l]) THEN Get(lv[l], offset)
    ELSE IF l = 0 THEN Null ELSE FindRightNeighbor(lv, offset * 2, l - 1)

\* One step up: the hash of the parent of node q of level l, whose hash is digest.
Parent(lv, digest, q, l) ==
    IF Right(q) THEN Hash(Get(lv[l], q - 1), digest)
    ELSE LET right == FindRightNeighbor(lv, q + 1, l)
         IN  IF right = Null THEN digest ELSE Hash(digest, right)

\* The loop of mt_verify.
RECURSIVE VerifyFrom(_, _, _)
VerifyFrom(digest, q, l) ==
    IF HasNextLevelExceptRoot(l)
    THEN VerifyFrom(Parent(level, digest, q, l), q \div 2, l + 1)
    ELSE digest = Get(level[l], q)

\* mt_verify.
Verify(tag, offset) == VerifyFrom(Leaf(tag), offset, 0)

\* The loop of mt_update.  Whether there is a next level does not change in it.
RECURSIVE UpdateFrom(_, _, _, _)
UpdateFrom(lv, digest, q, l) ==
    IF HasNextLevelExceptRoot(l)
    THEN LET h == Parent(lv, digest, q, l)
         IN  UpdateFrom([lv EXCEPT ![l + 1] = UpdateIfExists(@, h, q \div 2)], h, q \div 2, l + 1)
    ELSE [level |-> lv, result |-> IF digest = Get(lv[l], q) THEN "MT_SUCCESS" ELSE "assert"]

\* mt_update; the offset is below the number of elements.
Update(tag, offset) ==
    /\ offset < Elems
    /\ LET all == UpdateFrom([level EXCEPT ![0] = UpdateIfExists(@, Leaf(tag), offset)],
                             Leaf(tag), offset, 0)
       IN  level' = all.level /\ result' = all.result
    /\ leaves' = [leaves EXCEPT ![offset + 1] = tag]

\* The loop of mt_get_root.
RECURSIVE Top(_)
Top(l) == IF HasNextLevelExceptRoot(l) THEN Top(l + 1) ELSE l

\* mt_get_root; there is an element.
Root == Get(level[Top(0)], 0)
-----------------------------------------------------------------------------
Next ==
    \/ \E tag \in Tag : Add(tag)
    \/ \E tag \in Tag : \E offset \in 0 .. MaxLeaves - 1 : Update(tag, offset)

Spec == Init /\ [][Next]_vars
-----------------------------------------------------------------------------
\* What the root is to be: the hash of the tree that is split at the largest power of
\* two below the number of its leaves.
RECURSIVE TreeHash(_)
TreeHash(s) ==
    IF Len(s) = 1 THEN Leaf(s[1])
    ELSE LET k == CHOOSE n \in 1 .. Len(s) - 1 :
                      \E i \in 0 .. TREE_LEVELS : n = 2 ^ i /\ 2 * n >= Len(s)
         IN  Hash(TreeHash(SubSeq(s, 1, k)), TreeHash(SubSeq(s, k + 1, Len(s))))

\* Type invariant: the shape of the levels.
TypeOK ==
    /\ leaves \in Seq(Tag) /\ Elems <= MaxLeaves
    /\ DOMAIN level = 0 .. TREE_LEVELS - 1
    /\ level[0] = [i \in 1 .. Elems |-> Leaf(leaves[i])]
    /\ result \in {"MT_SUCCESS", "MT_ERR_ILLEGAL_PARAM", "assert"}

\* The root represents the block body: after every add and update, the root that
\* mt_get_root finds is the hash of the tree over all leaves.
RootIsTreeHash == Elems > 0 => Root = TreeHash(leaves)

\* A leaf is accepted at its own place only.
VerifiesItsLeaf ==
    \A offset \in 0 .. Elems - 1 : \A tag \in Tag :
        Verify(tag, offset) <=> tag = leaves[offset + 1]

\* No assertion of mt_add and mt_update fails, and no call of theirs does.
AllSucceed == result = "MT_SUCCESS"

\* Which transactions are under the root does not depend on how they got there: an
\* update leaves the nodes that adding the new leaves would have made.
SameAsAdded ==
    \A l \in 0 .. TREE_LEVELS - 2 : \A i \in 1 .. Len(level[l + 1]) :
        LET first == (i - 1) * 2 ^ (l + 1) + 1
            last == IF i * 2 ^ (l + 1) < Elems THEN i * 2 ^ (l + 1) ELSE Elems
        IN  level[l + 1][i] = TreeHash(SubSeq(leaves, first, last))
=============================================================================
