------------------------------ MODULE MCServer ------------------------------
(***************************************************************************)
(* Server for TLC.                                                         *)
(***************************************************************************)
EXTENDS Server, TLC

CONSTANTS c1, c2
TwoConns == {c1, c2}
\* Each connection has its own address, or both have the same.
OwnAddr == [c \in TwoConns |-> c]
OneAddr == [c \in TwoConns |-> 0]
Symmetry == Permutations(TwoConns)

\* Kinds that balance their counters, one for each path of a request; a set goes
\* the way of setq and is answered like unfit (ServerLive.cfg has it).
BalancedKinds == {"get", "getbad", "setq", "unfit", "short", "quit"}
SetKind == {"set"}
=============================================================================
