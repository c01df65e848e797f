--------------------------- MODULE VersionedStore ---------------------------
(***************************************************************************)
(* What a bucket promises for set and delete: one version and one value    *)
(* per key, changed by one atomic step per request that Bucket.checkAndSet *)
(* (store/bucket.go) accepts.                                              *)
(***************************************************************************)
EXTENDS Versions

VARIABLE kv

NoValue == [val |-> 0, counter |-> FALSE]
Absent == [ver |-> 0, pay |-> NoValue]

Init == kv = [k \in Keys |-> Absent]

\* The value stays, its version becomes the one asked for.
Revise(k, p, rev) ==
    /\ SameValue(kv[k].ver, Vhash(kv[k].pay), p, rev)
    /\ rev # 0
    /\ kv' = [kv EXCEPT ![k].ver = rev]

Put(k, p, rev) ==
    /\ ~SameValue(kv[k].ver, Vhash(kv[k].pay), p, rev)
    /\ ~Refused(kv[k].ver, rev)
    /\ kv' = [kv EXCEPT ![k] = [ver |-> NewVersion(kv[k].ver, rev), pay |-> p]]

Next ==
    \E k \in Keys, p \in Payloads, rev \in Revs : Revise(k, p, rev) \/ Put(k, p, rev)

Spec == Init /\ [][Next]_kv
=============================================================================
