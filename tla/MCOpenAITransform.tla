------------------------- MODULE MCOpenAITransform -------------------------
(* Short conversations by both endpoints.                                    *)
EXTENDS OpenAITransform

CONSTANTS t1, t2

(* Call ids are only compared. *)
Renamings == Permutations({t1, t2})
=============================================================================
