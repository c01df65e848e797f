------------------------------ MODULE Versions ------------------------------
(***************************************************************************)
(* The version rules of a bucket: checkAndUpdateVerison and the tests of   *)
(* checkAndSet in store/bucket.go.  A positive version is a live value, a  *)
(* negative one a deleted key, zero a key never written.                   *)
(***************************************************************************)
EXTENDS Integers

CONSTANTS
    Keys,
    Payloads,    \* values, each [val |-> a number, counter |-> written by incr]
    Vhash(_),    \* the 16-bit hash of a value
    Revs,        \* the revisions clients ask for; 0: the next one, -1: delete
    VerMax,      \* the largest version: 2^31 - 1
    CheckVHash   \* Conf.CheckVHash: a value with the hash of the old one is not stored

ASSUME VersionsAssumption ==
    /\ Keys # {}
    /\ Payloads \subseteq [val : Nat, counter : BOOLEAN]
    /\ VerMax \in Nat \ {0}
    /\ Revs \subseteq -VerMax .. VerMax
    /\ CheckVHash \in BOOLEAN
    /\ \A p \in Payloads : Vhash(p) \in Nat

Vers == -VerMax - 1 .. VerMax

\* A plausible bug: versions are computed in a wider type than they are kept in.
NoWrap(n) == n

\* int32 arithmetic, for results that leave the range by less than its size.
Wrap(n) ==
    IF n > VerMax THEN n - 2 * (VerMax + 1)
    ELSE IF n < -VerMax - 1 THEN n + 2 * (VerMax + 1)
    ELSE n
AbsVer(n) == IF n < 0 THEN Wrap(-n) ELSE n

\* A plausible bug: an equal revision is taken for a newer one.
ValidOrEqual(oldv, rev) == rev <= 0 \/ AbsVer(rev) >= AbsVer(oldv)

\* checkAndUpdateVerison: is the revision acceptable, and what becomes of it.
ValidVersion(oldv, rev) == rev <= 0 \/ AbsVer(rev) > AbsVer(oldv)

NewVersion(oldv, rev) ==
    IF rev = 0 THEN Wrap((IF oldv >= 0 THEN oldv ELSE Wrap(-oldv)) + 1)
    ELSE IF rev < 0 THEN Wrap(-AbsVer(oldv) - 1)
    ELSE rev

\* The value hash of a request: checkAndSet computes none for a delete.
RequestHash(p, rev) == IF rev < 0 THEN 0 ELSE Vhash(p)

\* The request is answered without a record of its own.
SameValue(oldv, oldhash, p, rev) ==
    CheckVHash /\ oldv > 0 /\ RequestHash(p, rev) = oldhash

\* The request is turned down: an old revision, or a delete of a key that is
\* not there.
Refused(oldv, rev) ==
    \/ ~ValidVersion(oldv, rev)
    \/ NewVersion(oldv, rev) < 0 /\ oldv <= 0
=============================================================================
