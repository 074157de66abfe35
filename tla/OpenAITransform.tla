-------------------------- MODULE OpenAITransform --------------------------
(***************************************************************************)
(* TransformOpenAIChatCompletions and TransformOpenAIResponses on a        *)
(* conversation that grows: the static context (instructions and tool      *)
(* documentation) becomes a slab of images in front of the first user      *)
(* message, and the history becomes images in place.  Nothing is kept from *)
(* one request to the next.                                                *)
(***************************************************************************)
EXTENDS ChatHistory, ResponsesHistory

CONSTANTS
  Protocols,  \* a subset of {"chat", "pairs", "mixed"}
  ToolIds,    \* call ids
  Sizes,      \* lengths of what the assistant says
  Slabs,      \* images of the static context; 0 if it stays as it is
  Gates,      \* sizes from which images pay
  Recent,     \* values of KeepRecentPairs
  MaxChat,    \* bounds on the conversation, for model checking only
  MaxInput

VARIABLES
  protocol,   \* the endpoint, and the profile's ResponsesMode
  input,      \* req["messages"] or req["input"]
  sent        \* the request that was sent last

openaiVars == <<protocol, input, sent>>

(* items: with the slab, before the history was collapsed.                   *)
Request(items, slab, plan) == [items |-> items, slab |-> slab, plan |-> plan]
Unchanged == Request(input, 0, NoPlan)

OpenAIInit ==
  /\ protocol \in Protocols
  /\ input = <<>>
  /\ sent = Request(<<>>, 0, NoPlan)

-----------------------------------------------------------------------------
(* The client.                                                               *)

Message(role, opens, closes, size, images) ==
  Item("message", role, opens, closes, 0, size, images)

UserSays == {Message("user", {}, {}, 1, 0), Message("user", {}, {}, 1, 1),
             Message("user", {}, {}, 0, 0)}
AssistantSays == {Message("assistant", {}, {}, n, 0) : n \in Sizes}

(* Chat: nobody speaks twice in a row, calls are answered one by one, and    *)
(* the user may interrupt.                                                   *)
ChatTurns ==
  LET open == Open(input, 0, Len(input))
      last == input[Len(input)]
  IN IF input = <<>> THEN UserSays
     ELSE (IF last.role = "user" THEN {} ELSE UserSays)
          \cup {Message("tool", {}, {id}, 1, 0) : id \in open}
          \cup (IF last.role = "assistant" \/ open # {} THEN {}
                ELSE AssistantSays
                     \cup {Message("assistant", ids, {}, 1, 0) : ids \in SUBSET ToolIds \ {{}}})

(* Responses: items come in any order, as the model and the client emit      *)
(* them.  For model checking only one of them is odd: an image, an empty     *)
(* message, a call without id or a reference to an earlier item.             *)
OddItems ==
  {Message("user", {}, {}, 1, 1), Message("user", {}, {}, 0, 0),
   Item("call", "none", {NoId}, {}, 0, 1, 0)}
    \cup {Item("reference", "none", {}, {}, r, 0, 0) : r \in DOMAIN input}

IsOdd(item) == item.kind = "reference" \/ item.size = 0 \/ item.images > 0 \/ item.opens = {NoId}

ResponsesItems ==
  {Message(role, {}, {}, 1, 0) : role \in {"user", "assistant"}}
    \cup {Item("call", "none", {id}, {}, 0, 1, 0) : id \in ToolIds}
    \cup {Item("output", "none", {}, {id}, 0, 1, 0) : id \in ToolIds}
    \cup (IF \E i \in DOMAIN input : IsOdd(input[i]) THEN {} ELSE OddItems)

Say ==
  /\ protocol = "chat" /\ Len(input) < MaxChat
  /\ \E turn \in ChatTurns : input' = Append(input, turn)
  /\ UNCHANGED <<protocol, sent>>

(* No property relates two Responses requests, so there is only one.         *)
AddItem ==
  /\ protocol # "chat" /\ Len(input) < MaxInput /\ sent.items = <<>>
  /\ \E item \in ResponsesItems : input' = Append(input, item)
  /\ UNCHANGED <<protocol, sent>>

-----------------------------------------------------------------------------
(* The transform.                                                            *)

Users == {i \in DOMAIN input : input[i].role = "user"}

(* The slab comes in front of the first user message, items behind it move.  *)
WithSlab(slab) ==
  LET at    == Min(Users)
      moved == [i \in DOMAIN input |-> [input[i] EXCEPT !.ref = IF @ >= at THEN @ + 1 ELSE @]]
  IN SubSeq(moved, 1, at - 1) \o <<Message("user", {}, {}, 0, slab)>>
       \o SubSeq(moved, at, Len(input))

HistoryPages(plan) == MapThenSumSet(LAMBDA n : plan.segments[n].images, DOMAIN plan.segments)

(* applyChatHistoryCollapse.  The images there are already count against     *)
(* the limit.  What is before and at the place of the first user message is  *)
(* protected: the message itself, or the slab in front of it.                *)
ChatPlan(items, gate) ==
  PlanGptCollapse(items, Min(Users), HistoryImages(ImagesOf(items)), gate)

WithChatHistory(items, slab, gate) == Request(items, slab, ChatPlan(items, gate))

(* The provider's limit on images.  Rather than exceed it with a slab beside *)
(* the history images, do without the slab; rather than exceed it at all,    *)
(* without both.                                                             *)
OverCap(images) == ProviderImageCap > 0 /\ images > ProviderImageCap

DropsSlab(history, slab) ==
  history.plan.segments # <<>> /\ OverCap(ImagesOf(input) + HistoryPages(history.plan) + slab)

TransformChat(history, slab, gate) ==
  IF Users = {} THEN Unchanged
  ELSE IF slab = 0 \/ DropsSlab(history, slab) THEN history
  ELSE IF OverCap(ImagesOf(input) + slab) THEN Unchanged
  ELSE WithChatHistory(WithSlab(slab), slab, gate)

(* applyResponsesHistoryCollapse.  Only the slab's images count, and the     *)
(* provider's limit is not looked at again.                                  *)
WithResponsesHistory(items, slab, keep, gate) ==
  Request(items, slab, PlanResponsesCollapse(items, protocol, keep, HistoryImages(slab), gate))

TransformResponses(slab, keep, gate) ==
  IF Users = {} THEN Unchanged
  ELSE WithResponsesHistory(IF slab = 0 THEN input ELSE WithSlab(slab), slab, keep, gate)

SendChat ==
  /\ protocol = "chat"
  /\ \E slab \in Slabs, gate \in Gates :
       sent' = TransformChat(WithChatHistory(input, 0, gate), slab, gate)
  /\ UNCHANGED <<protocol, input>>

SendResponses ==
  /\ protocol # "chat" /\ sent.items = <<>>
  /\ \E slab \in Slabs, keep \in Recent, gate \in Gates :
       sent' = TransformResponses(slab, keep, gate)
  /\ UNCHANGED <<protocol, input>>

OpenAINext == Say \/ AddItem \/ SendChat \/ SendResponses

OpenAISpec == OpenAIInit /\ [][OpenAINext]_openaiVars

-----------------------------------------------------------------------------
(* Properties. *)

Items == [kind : {"message", "call", "output", "reference"},
          role : {"user", "assistant", "tool", "none"},
          opens : SUBSET (ToolIds \cup {NoId}), closes : SUBSET ToolIds,
          ref : Nat, size : Nat, images : Nat]

OpenAITypeOK ==
  /\ protocol \in Protocols
  /\ input \in Seq(Items) /\ sent.items \in Seq(Items)
  /\ sent.plan.removed \subseteq DOMAIN sent.items
  /\ \A n \in DOMAIN sent.plan.segments : sent.plan.segments[n].images \in Nat \ {0}

Removed == sent.plan.removed
Segments == sent.plan.segments
Pin == sent.plan.pin
ResultsOf(i, id) == {j \in i + 1 .. Len(sent.items) : id \in sent.items[j].closes}

(* A call becomes an image together with its result, or neither does: the    *)
(* provider refuses a result whose call it does not see.                     *)
CallsKeepResults ==
  \A i \in DOMAIN sent.items : \A id \in sent.items[i].opens :
    LET results == ResultsOf(i, id)
    IN IF i \in Removed THEN results # {} /\ Min(results) \in Removed
       ELSE results = {} \/ Min(results) \notin Removed

Showing(i) ==
  {n \in DOMAIN Segments : i \in Segments[n].turns}
    \cup (IF i = Pin THEN {0} ELSE {}) \cup (IF i \in Removed THEN {} ELSE {Len(Segments) + 1})

Span(n) == Min(Segments[n].turns) .. Max(Segments[n].turns)

(* What was said is said once, as text, in an image or as the pinned         *)
(* request; and in its order: nothing but empty messages stays in the place  *)
(* of an image, and images follow each other as their items did.             *)
TranscriptFaithful ==
  /\ \A i \in DOMAIN sent.items : sent.items[i].size > 0 => Cardinality(Showing(i)) = 1
  /\ \A n \in DOMAIN Segments :
       /\ \A i \in Span(n) \ Segments[n].turns : i \notin Removed /\ IsContentless(sent.items[i])
       /\ n > 1 => Max(Segments[n - 1].turns) < Min(Segments[n].turns)

Requests == {i \in DOMAIN sent.items : IsRequest(sent.items[i])}

(* The user's latest request stays text: it is live or pinned.  (In chat, a  *)
(* request that came before the result of an open call is history when the   *)
(* conversation has gone on.)                                                *)
RequestStaysText ==
  Requests # {} => LET latest == Max(Requests)
                   IN \/ latest \notin Removed \/ latest = Pin
                      \/ protocol = "chat" /\ Open(sent.items, 0, latest - 1) # {}

(* Images are only made as long as the provider's limit, counting those of   *)
(* the caller, is kept in chat; and the planner's, for slab and history, in  *)
(* Responses.                                                                *)
ImagesWithinCap ==
  LET made   == sent.slab + HistoryPages(sent.plan)
      native == ImagesOf(sent.items) - sent.slab
  IN IF protocol = "chat"
     THEN ProviderImageCap > 0 => made = 0 \/ native + made <= ProviderImageCap
     ELSE HistoryPages(sent.plan) > 0 => made <= HistoryImages(0)

(* The counters reported for a Responses request account for every call and  *)
(* every output once.                                                        *)
EveryItemCounted ==
  protocol # "chat" =>
    Cardinality({i \in DOMAIN input : input[i].kind \in {"call", "output"}})
      = 2 * PairsIn(Rounds(input), 1, Len(Rounds(input)))
          + OpenCalls(input) + OrphanOutputs(input) + MalformedItems(input)

PinIn(items) ==
  LET from == Min(Users)
  IN PinOf(items, from, FindClosedBoundary(items, from, ChatCutoff(items, from)))

(* Append-only, token-length sectioning: while the latest request keeps its  *)
(* place and no image is added by the caller, a longer conversation has the  *)
(* sections of the shorter one, so their images are found in the cache.      *)
SectionsRepeat ==
  [][(/\ protocol = "chat" /\ sent' # sent /\ Segments # <<>> /\ Segments' # <<>>
      /\ sent'.slab = sent.slab /\ PinIn(sent'.items) = PinIn(sent.items)
      /\ ImagesOf(sent'.items) = ImagesOf(sent.items))
       => IsPrefix(Segments, Segments')]_openaiVars

(* What was said is said once and in its order, the request in force as      *)
(* text, and every call and output is accounted for.                         *)
NothingLost == TranscriptFaithful /\ RequestStaysText /\ EveryItemCounted

(* Images are made only within the limits, and of the right things.          *)
ImagesAllowed == OpenAITypeOK /\ ImagesWithinCap
=============================================================================
