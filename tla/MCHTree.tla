------------------------------ MODULE MCHTree ------------------------------
(***************************************************************************)
(* HTree for TLC: four buckets of three levels with two children each.     *)
(***************************************************************************)
EXTENDS HTree

\* Two hashes in one leaf and one in another leaf of their bucket, the one that
\* this node serves.
FewKeys == {<<1, 0, 0, 1, 0>>, <<1, 0, 0, 1, 1>>, <<1, 0, 1, 0, 1>>}
ItsBuckets == {<<1, 0>>}
\* A tree file that no bucket will be opened from any more makes no difference.
View == <<leaf, node, state, IF restarts = MaxRestarts THEN {} ELSE file, dump, lister, upper,
          content, mixed, ops, restarts>>
\* An item and a tombstone.
LiveAndDeleted == {-2, 1}
=============================================================================
