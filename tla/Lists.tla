-------------------------------- MODULE Lists --------------------------------
(***************************************************************************)
(* Two loops over a list, as functions of how far the loop is.             *)
(***************************************************************************)
EXTENDS Naturals, Sequences

(* The elements at the chosen places, in their order. *)
Picked(s, chosen) ==
  LET upto[n \in 0 .. Len(s)] ==
        IF n = 0 THEN <<>>
        ELSE IF n \in chosen THEN Append(upto[n - 1], s[n]) ELSE upto[n - 1]
  IN upto[Len(s)]

(* What the numbers add up to. *)
Total(w) ==
  LET upto[n \in 0 .. Len(w)] == IF n = 0 THEN 0 ELSE upto[n - 1] + w[n]
  IN upto[Len(w)]
=============================================================================
