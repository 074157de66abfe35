------------------------- MODULE AnthropicTransform -------------------------
(***************************************************************************)
(* TransformRequest: what the proxy does to one Messages request before it *)
(* is sent.  The passes run in this order, each on what the one before     *)
(* left: pins are folded and their commands stripped; the static part of   *)
(* the system prompt and the tool documentation become the pages of the    *)
(* slab, in front of the first turn of the user; old turns become pages of *)
(* history; long tool results become images; the pins are said last.  All  *)
(* of them draw on one budget of images and one of bytes, of which the     *)
(* client's own images have already taken their part.                      *)
(*                                                                         *)
(* What text costs is chosen: whether a pass pays, on how many pages and   *)
(* bytes, and how much of the history closes (HistoryCollapse has the      *)
(* rules).  A turn has the number "at" it had in the conversation.         *)
(***************************************************************************)
EXTENDS Pins

CONSTANTS
  MaxImages,        \* AnthropicMaxImages
  SafetyMargin,     \* historyImageSafetyMargin
  HistoryImages,    \* AnthropicHistoryImageBudget
  MaxBytes,         \* MaxImageBytes
  Renderings        \* what a text may render to: records of pages and bytes

ASSUME ImageAssumption ==
  /\ MaxImages \in Nat /\ SafetyMargin \in Nat /\ MaxBytes \in Nat
  /\ HistoryImages \in Nat \ {0}
  /\ Renderings \subseteq [pages : Nat \ {0}, bytes : Nat \ {0}]

VARIABLES
  pc,       \* the pass that is next
  req,      \* the request as it stands: messages, system, tools
  images,   \* info.ImageCount
  bytes,    \* info.ImageBytes
  native,   \* info.NativeImages, which is also their bytes
  pins,     \* the list in force
  results   \* the tool results that have not been looked at

transformVars == <<pc, req, images, bytes, native, pins, results>>

Greater(a, b) == IF a > b THEN a ELSE b
Lesser(a, b) == IF a < b THEN a ELSE b

-----------------------------------------------------------------------------
(* Blocks: pins and texts, images of the client and of the proxy (holds: the *)
(* items on them), tool calls and results.                                   *)

Rendered(holds, cc) == [type |-> "page", holds |-> holds, cc |-> cc]
IntroText == [type |-> "intro", cc |-> NoMark]
EndOfContext == [type |-> "boundary", cc |-> NoMark]

IsImage(b) == b.type \in {"image", "page"}

AsPages(holds, n, cc) == [i \in 1 .. n |-> Rendered(holds, IF i = n THEN cc ELSE NoMark)]

(* countNativeImages: both levels of nesting.                                *)
ImagesOf(b) ==
  IF IsImage(b) THEN 1
  ELSE IF b.type # "result" THEN 0
  ELSE Total([p \in DOMAIN b.parts |-> IF IsImage(b.parts[p]) THEN 1 ELSE 0])

ImagesIn(blocks) == Total([k \in DOMAIN blocks |-> ImagesOf(blocks[k])])

CountImages(messages) == Total([i \in DOMAIN messages |-> ImagesIn(messages[i].blocks)])

(* Mutant: the client's images are not counted. *)
HeadroomOfOwn(count, theirs) == Greater(0, MaxImages - SafetyMargin - count)

HeadroomOfAll(count, theirs) == Greater(0, MaxImages - SafetyMargin - count - theirs)

(* imageHeadroom, imageByteHeadroom *)
Headroom(count, theirs) == HeadroomOfAll(count, theirs)
ImageHeadroom == Headroom(images, native)
ByteHeadroom == Greater(0, MaxBytes - bytes - native)

TakeBoth(r) == images' = images + r.pages /\ bytes' = bytes + r.bytes

Take(r) == TakeBoth(r)

(* demoteRelocatedCacheControl: a marker of global scope that is moved out   *)
(* of its place is refused by the provider.                                  *)
Demoted(cc) == IF cc = "global" THEN "local" ELSE cc

-----------------------------------------------------------------------------
(* Step 0: pins. *)

StripPass ==
  /\ pc = "strip"
  /\ pc' = "slab"
  /\ IF CanAppendPinBlock(req.messages)
     THEN /\ pins' = FoldPins(req.messages, req.system)
          /\ req' = [req EXCEPT !.messages = StripPinCommands(@), !.system = StripSystem(@)]
     ELSE UNCHANGED <<req, pins>>
  /\ UNCHANGED <<images, bytes, native, results>>

-----------------------------------------------------------------------------
(* Step 1: the system prompt.  A block has the kinds of text found in it.    *)

HasMark(b) == b.cc # NoMark

(* extractSystemText: the marked blocks if there are any, else all of them.  *)
InSlabText(system, b) == HasMark(b) \/ \A k \in DOMAIN system : ~HasMark(system[k])

SlabKinds(system) == UNION {system[k].has : k \in {j \in DOMAIN system : InSlabText(system, system[j])}}

(* liftIdentityBlock and stripBillingLine on the blocks that stay.           *)
IsIdentity(b) == b.has = {"identity"}

Unbilled(b) == [b EXCEPT !.has = @ \ {"billing"}]

WithText(blocks) == Picked(blocks, {k \in DOMAIN blocks : blocks[k].has # {}})

Remainder(system) ==
  LET left == Picked(system, {k \in DOMAIN system : ~InSlabText(system, system[k])})
      identities == {k \in DOMAIN left : IsIdentity(left[k])}
      first == {k \in identities : \A j \in identities : k <= j}
      rest == Picked(left, DOMAIN left \ first)
  IN WithText([k \in DOMAIN rest |-> Unbilled(rest[k])])

Lifted(system) ==
  IF \E k \in DOMAIN system : ~InSlabText(system, system[k]) /\ IsIdentity(system[k])
  THEN {"identity"} ELSE {}

(* Volatile text stays text; the identity line must open the prompt.         *)
VolatileTail(system, kinds) ==
  [k \in 1 .. 3 |-> [has |-> <<(kinds \cup Lifted(system)) \cap {"identity"},
                               kinds \cap {"dynamic"}, kinds \cap {"env"}>>[k],
                     lines |-> <<>>, cc |-> NoMark, type |-> "text", rem |-> FALSE, head |-> <<>>]]

(* Mutant: only the volatile text of the marked blocks stays. *)
TailOfMarked(system) ==
  WithText(VolatileTail(system, SlabKinds(system)))

TailOfAll(system) ==
  WithText(VolatileTail(system, SlabKinds(system))) \o Remainder(system)

SystemTail(system) == TailOfAll(system)

(* lastStaticSystemCacheControl: a block of volatile tags only has no say.   *)
HasStatic(b) == b.has \cap {"static", "identity", "env"} # {}

SystemMark(system) ==
  LET marked == {k \in DOMAIN system : HasMark(system[k]) /\ HasStatic(system[k])}
  IN IF marked = {} THEN NoMark
     ELSE system[CHOOSE k \in marked : \A j \in marked : j <= k].cc

(* Step 2: full descriptions are moved, except those the model cannot miss.  *)
Moves(tool) == tool.custom /\ ~tool.deferred

SlabItems(r) ==
  ({0} \X (SlabKinds(r.system) \cap {"static"}))
    \cup {<<0, r.tools[k].name>> : k \in {j \in DOMAIN r.tools : Moves(r.tools[j])}}

Stubbed(tools) == [k \in DOMAIN tools |-> IF Moves(tools[k]) THEN [tools[k] EXCEPT !.doc = "stub"]
                                           ELSE tools[k]]

FirstUser(messages) == {i \in Users(messages) : \A j \in Users(messages) : i <= j}

(* Step 4: the pages go before what the user said first.                     *)
WithSlab(r, n) ==
  LET pages == AsPages(SlabItems(r), n, Demoted(SystemMark(r.system)))
  IN [messages |-> [i \in DOMAIN r.messages |->
                      IF i \in FirstUser(r.messages)
                      THEN [r.messages[i] EXCEPT !.blocks = pages \o <<EndOfContext>> \o @]
                      ELSE r.messages[i]],
      system |-> SystemTail(r.system),
      tools |-> Stubbed(r.tools)]

Slab(rendering) ==
  /\ pc = "slab"
  /\ SlabItems(req) # {}
  /\ rendering.pages <= ImageHeadroom /\ rendering.bytes <= ByteHeadroom
  /\ req' = WithSlab(req, rendering.pages)
  /\ Take(rendering)
  /\ pc' = "history"
  /\ UNCHANGED <<native, pins, results>>

(* Too short, no headroom, not profitable, or over a budget: finalizeEarly.  *)
NoSlab ==
  /\ pc = "slab"
  /\ pc' = "early"
  /\ UNCHANGED <<req, images, bytes, native, pins, results>>

-----------------------------------------------------------------------------
(* Step 6: history, before the tool results are imaged.                      *)

(* The head that stays: up to the slab, or an opening reminder.              *)
ProtectedHead ==
  IF pc = "history" THEN Cardinality({i \in DOMAIN req.messages :
                                        \E j \in FirstUser(req.messages) : i <= j})
  ELSE IF \E k \in DOMAIN req.messages[1].blocks :
            req.messages[1].blocks[k].type = "text" /\ req.messages[1].blocks[k].rem THEN 1
  ELSE 0

CallsOpen(m) == \E k \in DOMAIN m.blocks : m.blocks[k].type = "call"

(* What the serializer sees of a turn: of an image only that there was one.  *)
TextOf(m) ==
  {<<m.at, "text">> : k \in {j \in DOMAIN m.blocks : m.blocks[j].type = "text"}}
    \cup {<<m.at, "result">> :
            k \in {j \in DOMAIN m.blocks : /\ m.blocks[j].type = "result"
                                           /\ \E p \in DOMAIN m.blocks[j].parts :
                                                m.blocks[j].parts[p].type = "text"}}

(* messageCacheControl: a marked turn keeps one marker, on its last page.    *)
MarkOf(m) ==
  LET marked == {k \in DOMAIN m.blocks : HasMark(m.blocks[k])}
  IN IF marked = {} THEN NoMark ELSE m.blocks[CHOOSE k \in marked : \A j \in marked : j <= k].cc

(* Pages for turns from + 1 .. to: the marked turns end a chunk.             *)
HistoryPages(messages, from, to, n) ==
  LET all == [i \in 1 .. to - from |-> MarkOf(messages[from + i])]
      marks == Picked(all, {i \in DOMAIN all : all[i] # NoMark})
      items == UNION {TextOf(messages[i]) : i \in from + 1 .. to}
  IN [p \in 1 .. n |-> Rendered(items, IF p <= Len(marks) THEN marks[p] ELSE NoMark)]

Synthetic(pages) == [role |-> "user", at |-> 0, blocks |-> <<IntroText>> \o pages]

Collapsed(messages, from, to, pages) ==
  SubSeq(messages, 1, from) \o <<Synthetic(pages)>> \o SubSeq(messages, to + 1, Len(messages))

(* relocateAnchorToHistoryImage: the slab's marker goes to the last page of  *)
(* the history that the next request will repeat.                            *)
PagesBeforeBoundary(m) ==
  {k \in DOMAIN m.blocks :
     /\ m.blocks[k].type = "page" /\ HasMark(m.blocks[k])
     /\ \E j \in DOMAIN m.blocks : j > k /\ m.blocks[j].type = "boundary"}

SlabAnchors(messages) ==
  UNION {{i} \X PagesBeforeBoundary(messages[i]) : i \in DOMAIN messages}

WithMark(messages, i, k, cc) == [messages EXCEPT ![i].blocks[k].cc = cc]

SlabAnchor(messages) ==
  CHOOSE a \in SlabAnchors(messages) : \A b \in SlabAnchors(messages) : b[2] <= a[2]

OnHistory(messages, from, carry) ==
  LET slab == SlabAnchor(messages)
  IN WithMark(messages, from + 1, carry + 1, Demoted(messages[slab[1]].blocks[slab[2]].cc))

(* Mutant: the slab keeps its marker. *)
CopiedAnchor(messages, from, carry) ==
  IF SlabAnchors(messages) = {} THEN messages ELSE OnHistory(messages, from, carry)

MovedAnchor(messages, from, carry) ==
  IF SlabAnchors(messages) = {} THEN messages
  ELSE LET slab == SlabAnchor(messages)
       IN WithMark(OnHistory(messages, from, carry), slab[1], slab[2], NoMark)

Anchored(messages, from, carry) == MovedAnchor(messages, from, carry)

AfterHistory == IF pc = "history" THEN "results" ELSE "pins"

(* The shared budget, and the history's own.                                 *)
HistoryBudget == Greater(1, Lesser(HistoryImages, ImageHeadroom))

(* runHistoryCollapse: carry is the page the next request repeats, or 0.     *)
CollapseHistory(to, rendering, carry) ==
  /\ pc \in {"history", "early"}
  /\ req.messages # <<>> /\ ImageHeadroom > 0
  /\ LET from == ProtectedHead
     IN /\ to \in from + 1 .. Len(req.messages) - 1
        /\ ~CallsOpen(req.messages[to])
        /\ rendering.pages <= HistoryBudget /\ rendering.bytes <= ByteHeadroom
        /\ Cardinality({i \in from + 1 .. to : MarkOf(req.messages[i]) # NoMark}) <= rendering.pages
        /\ carry \in 0 .. rendering.pages
        /\ LET layout == Collapsed(req.messages, from, to,
                                   HistoryPages(req.messages, from, to, rendering.pages))
           IN req' = [req EXCEPT !.messages =
                        IF pc = "history" /\ carry > 0 THEN Anchored(layout, from, carry) ELSE layout]
  /\ Take(rendering)
  /\ pc' = AfterHistory
  /\ UNCHANGED <<native, pins, results>>

(* Nothing closes, does not pay, or its images do not fit.                   *)
KeepHistory ==
  /\ pc \in {"history", "early"}
  /\ pc' = AfterHistory
  /\ UNCHANGED <<req, images, bytes, native, pins, results>>

-----------------------------------------------------------------------------
(* Step 5b: the tool results of the live tail.                               *)

(* One text of a result; errors and images are left alone.                   *)
TextParts(b) ==
  IF b.type = "result" /\ ~b.error THEN {p \in DOMAIN b.parts : b.parts[p].type = "text"} ELSE {}

Candidates(messages) ==
  UNION {UNION {{<<i, k, p>> : p \in TextParts(messages[i].blocks[k])}
                : k \in DOMAIN messages[i].blocks} : i \in Users(messages)}

(* They are looked at in their order. *)
Before(a, b) ==
  \/ a[1] < b[1]
  \/ a[1] = b[1] /\ (a[2] < b[2] \/ (a[2] = b[2] /\ a[3] < b[3]))

FindResults ==
  /\ pc = "results"
  /\ results' = Candidates(req.messages)
  /\ pc' = IF Candidates(req.messages) = {} THEN "pins" ELSE "image"
  /\ UNCHANGED <<req, images, bytes, native, pins>>

IsNext(c) == c \in results /\ \A d \in results : ~Before(d, c)

(* The parts after an imaged one move by the pages it became. *)
Moved(d, c, n) == IF d[1] = c[1] /\ d[2] = c[2] THEN <<d[1], d[2], d[3] + n - 1>> ELSE d

NextResult(c, n) ==
  /\ results' = {Moved(d, c, n) : d \in results \ {c}}
  /\ pc' = IF results = {c} THEN "pins" ELSE "image"

Imaged(b, p, n) ==
  [b EXCEPT !.parts = SubSeq(@, 1, p - 1)
                        \o AsPages({<<b.at, "result">>}, n, Demoted(@[p].cc))
                        \o SubSeq(@, p + 1, Len(@))]

(* compressToolResults, for one text that is long and pays.                  *)
ImageResult(rendering) ==
  /\ pc = "image" /\ ImageHeadroom > 0
  /\ rendering.pages <= ImageHeadroom /\ rendering.bytes <= ByteHeadroom
  /\ \E c \in results :
       /\ IsNext(c)
       /\ req' = [req EXCEPT !.messages[c[1]].blocks[c[2]] = Imaged(@, c[3], rendering.pages)]
       /\ NextResult(c, rendering.pages)
  /\ Take(rendering)
  /\ UNCHANGED <<native, pins>>

(* Kept sharp, too short, not profitable, or over a budget.                  *)
KeepResult ==
  /\ pc = "image"
  /\ \E c \in results : IsNext(c) /\ NextResult(c, 1)
  /\ UNCHANGED <<req, images, bytes, native, pins>>

-----------------------------------------------------------------------------
(* applyPins. *)
PinPass ==
  /\ pc = "pins"
  /\ req' = [req EXCEPT !.messages = SayPins(@, pins)]
  /\ pc' = "done"
  /\ UNCHANGED <<images, bytes, native, pins, results>>

TransformStep ==
  \/ StripPass
  \/ \E r \in Renderings : Slab(r)
  \/ NoSlab
  \/ \E r \in Renderings, to \in DOMAIN req.messages, carry \in 0 .. HistoryImages :
       CollapseHistory(to, r, carry)
  \/ KeepHistory
  \/ FindResults
  \/ \E r \in Renderings : ImageResult(r)
  \/ KeepResult
  \/ PinPass
=============================================================================
