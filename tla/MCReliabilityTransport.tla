------------------------ MODULE MCReliabilityTransport ------------------------
(* Two identical requests through the whole transport. *)
EXTENDS ReliabilityTransport, TLC

CONSTANT k1

MCKeyOf == [r \in Requests |-> k1]
SameRequests == Permutations(Requests)
=============================================================================
