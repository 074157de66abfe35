--------------------------- MODULE MCDuplicateHold ---------------------------
(* Three identical requests, and one with another key whose acquire sweeps   *)
(* the table on their behalf.                                                *)
EXTENDS DuplicateHold, TLC

CONSTANTS r1, r2, r3, r4, r5, k1, k2

MCRequests == {r1, r2, r3, r4, r5}
MCKeyOf == [r \in MCRequests |-> IF r = r4 THEN k2 ELSE IF r = r5 THEN NoKey ELSE k1]
Identical == Permutations({r1, r2, r3})
=============================================================================
