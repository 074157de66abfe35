----------------------------- MODULE GptHistory -----------------------------
(***************************************************************************)
(* What the two GPT history planners have in common: gptHistoryOptions,    *)
(* and a conversation as both of them lower it.  An item is a record       *)
(*                                                                         *)
(*   kind     "message", and for Responses also "call", "output", "other"  *)
(*            and "reference"                                              *)
(*   role     of a message; "none" otherwise                               *)
(*   opens    ids of the tool calls in it                                  *)
(*   closes   ids of the tool results in it                                *)
(*   ref      the item it refers to, or 0                                  *)
(*   size     the tokens of its text, 0 if it has none                     *)
(*   images   its images                                                   *)
(*                                                                         *)
(* Items are counted from one.  Text is measured in tokens throughout, and *)
(* a page holds PageTokens of them.                                        *)
(***************************************************************************)
EXTENDS Integers, Sequences, FiniteSets, SequencesExt, FiniteSetsExt

CONSTANTS
  KeepTail, MinCollapsePrefix, MinCollapseTokens,
  CollapseChunk, FreezeChunk, SectionTokens, MaxImages,
  ProviderImageCap,  \* profile.ProviderImageCap, 0 for none
  PageTokens

ASSUME GptAssumption ==
  /\ {KeepTail, MinCollapsePrefix, MinCollapseTokens, CollapseChunk,
      FreezeChunk, SectionTokens, MaxImages, ProviderImageCap} \subseteq Nat
  /\ PageTokens \in Nat \ {0}

Larger(a, b) == IF a > b THEN a ELSE b
Smaller(a, b) == IF a < b THEN a ELSE b

Item(kind, role, opens, closes, ref, size, images) ==
  [kind |-> kind, role |-> role, opens |-> opens, closes |-> closes, ref |-> ref,
   size |-> size, images |-> images]

SizeOf(items, chosen) == MapThenSumSet(LAMBDA i : items[i].size, chosen)

PagesOf(items, chosen) == (SizeOf(items, chosen) + PageTokens - 1) \div PageTokens
ImagesOf(items) == MapThenSumSet(LAMBDA i : items[i].images, DOMAIN items)

(* evalOpenAIGate, reduced to a size from which text is dearer than images.  *)
Profitable(size, gate) == size >= gate

(* Mutant: the images that are there already are not deducted. *)
HistoryImagesUndeducted(existing) ==
  IF ProviderImageCap > 0 THEN Smaller(MaxImages, ProviderImageCap) ELSE MaxImages

(* What gptHistoryOptsFor leaves for history images.                         *)
HistoryImages(existing) ==
  Larger(0, IF ProviderImageCap > 0 THEN Smaller(MaxImages, ProviderImageCap - existing)
                                    ELSE MaxImages - existing)

(* What a planner hands back.  Each segment stands for a set of items and    *)
(* takes their place; pin is the request kept as text between them, or 0.    *)
Segment(items, chosen) == [turns |-> chosen, images |-> PagesOf(items, chosen)]
Plan(segments, removed, pin) == [segments |-> segments, removed |-> removed, pin |-> pin]
NoPlan == Plan(<<>>, {}, 0)
=============================================================================
