--------------------------- MODULE MCSessionState ---------------------------
(* Requests of one session, and what can evict it.                           *)
EXTENDS SessionState, TLC

CONSTANTS r1, r2, r3, r4, s1, s2

(* Three requests of s1 that overlap, and one of s2 to evict it. *)
ThreeOfOne == [r \in {r1, r2, r3, r4} |-> IF r = r4 THEN s2 ELSE s1]
SymmetricThree == Permutations({r1, r2, r3})
=============================================================================
