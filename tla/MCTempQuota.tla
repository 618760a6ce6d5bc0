---------------------------- MODULE MCTempQuota ----------------------------
(***************************************************************************)
(* Model-checking instances of TempQuota: two processes, which share a     *)
(* root that has no room for all that they ask for.                        *)
(***************************************************************************)
EXTENDS TempQuota

CONSTANTS p1, p2, r1, r2

\* The first directory belongs to the first process: the other case is symmetric.
Served == {p1, p2}
Staged == {r1, r2}
Made   == [r \in Staged |-> IF r = r1 THEN {p1} ELSE {p1, p2}]
=============================================================================
