--------------------------- MODULE MCRenderCache ---------------------------
(* Lookups of one text in several styles, which share a fingerprint.         *)
EXTENDS RenderCache

CONSTANTS c1, c2, c3, c4, c5, c6, plain, bold, large, huge

(* The plain text is looked up three times, everything else once. *)
PlainThrice == [c \in {c1, c2, c3, c4, c5, c6} |->
                  CASE c = c4 -> bold [] c = c5 -> large [] c = c6 -> huge [] OTHER -> plain]

OneText == [k \in {plain, bold, large, huge} |-> 7]
OneSlot == [f \in {7} |-> 1]

(* large takes the room of two others; huge has none. *)
Sizes == [k \in {plain, bold, large, huge} |->
            CASE k = large -> 2 [] k = huge -> 4 [] OTHER -> 1]
=============================================================================
