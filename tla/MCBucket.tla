------------------------------ MODULE MCBucket ------------------------------
(***************************************************************************)
(* Bucket for TLC.                                                         *)
(***************************************************************************)
EXTENDS Bucket

OneKey == {1}
TwoKeys == {1, 2}
DistinctHash == [k \in Keys |-> k]
SharedHash == [k \in Keys |-> 7]

Blob(v) == [val |-> v, counter |-> FALSE]
\* Two values and a third with the hash of the first.
Blobs == {Blob(1), Blob(2), Blob(3)}
TwoBlobs == {Blob(1), Blob(2)}
ValueHash(p) == 1 + (p.val % 2)
\* The hash of blob 2 is zero, as that of one value in 65536 is.
ZeroHash(p) == p.val % 2

AnyRev == {-1, 0, 3}
NextRev == {-1, 0}
TopRev == {0, VerMax}
=============================================================================
