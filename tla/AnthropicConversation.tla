----------------------- MODULE AnthropicConversation -----------------------
(***************************************************************************)
(* A client talks to the provider through the proxy: it sends the whole    *)
(* conversation with every turn, the proxy answers a turn of pin commands  *)
(* itself and transforms every other request, and whatever answers is the  *)
(* next turn of the conversation.  What the proxy changed is not: the      *)
(* client never sees it.                                                   *)
(***************************************************************************)
EXTENDS AnthropicTransform

CONSTANTS
  Systems,   \* system prompts, as sequences of blocks
  Tools,     \* lists of tools
  Turns,     \* what a user may say: sequences of blocks
  Answers,   \* parts of a tool result
  MaxTurns   \* bound on the conversation, for model checking only

(* A number is for unpinning, a marker of global scope for the system prompt,*)
(* and a text of any kind is more than commands.                             *)
Lines ==
  {line \in [verb : {"say", "pin", "unpin"}, arg : PinTexts \cup {NoText, "all"}, n : Nat] :
     line.n > 0 => line.verb = "unpin" /\ line.arg = NoText}
TextBlocks ==
  {b \in [type : {"text"}, rem : BOOLEAN, head : Seq(Lines), lines : Seq(Lines), cc : {NoMark, "local"}] :
     b.rem <=> b.head # <<>>}
Images == [type : {"image"}, cc : {NoMark, "local"}]
SystemBlocks ==
  {b \in [type : {"text"}, rem : BOOLEAN, head : Seq(Lines), lines : Seq(Lines),
          has : SUBSET {"static", "dynamic", "env", "identity", "billing"},
          cc : {NoMark, "local", "global"}] :
     b.has # {} => StripLines(b.lines) # <<>>}

ASSUME ConversationAssumption ==
  /\ Turns \subseteq Seq(TextBlocks \cup Images)
  /\ Answers \subseteq Seq([type : {"text", "image"}, cc : {NoMark, "local"}])
  /\ Systems \subseteq Seq(SystemBlocks)
  /\ Tools \subseteq Seq([name : STRING, custom : BOOLEAN, deferred : BOOLEAN, doc : {"full"}])

VARIABLES
  conv,      \* the messages, as the client has them
  setup      \* its system prompt and tools

conversationVars == <<conv, setup, transformVars>>

Idle == [messages |-> <<>>, system |-> <<>>, tools |-> <<>>]

ConversationInit ==
  /\ conv = <<>>
  /\ setup \in [system : Systems, tools : Tools]
  /\ pc = "client" /\ req = Idle
  /\ images = 0 /\ bytes = 0 /\ native = 0 /\ pins = <<>> /\ results = {}

-----------------------------------------------------------------------------
Message(role, blocks) == [role |-> role, at |-> Len(conv) + 1, blocks |-> blocks]

ToolResult(parts, error) ==
  [type |-> "result", at |-> Len(conv) + 1, parts |-> parts, error |-> error, cc |-> NoMark]

(* A call is answered in the next turn. *)
UserTurns ==
  IF conv # <<>> /\ CallsOpen(conv[Len(conv)])
  THEN {<<ToolResult(parts, error)>> : parts \in Answers, error \in BOOLEAN}
  ELSE Turns

Original == [messages |-> conv, system |-> setup.system, tools |-> setup.tools]

(* ServeHTTP: pinCommandResponse, or the transform.                          *)
Received(messages) ==
  IF IsPinOnlyRequest(messages)
  THEN /\ conv' = Append(messages, [role |-> "assistant", at |-> Len(messages) + 1,
                                    blocks |-> <<Text(<<>>, <<PinReply>>, NoMark)>>])
       /\ UNCHANGED transformVars
  ELSE /\ conv' = messages
       /\ req' = [messages |-> messages, system |-> setup.system, tools |-> setup.tools]
       /\ native' = CountImages(messages)
       /\ images' = 0 /\ bytes' = 0 /\ pins' = <<>> /\ results' = {}
       /\ pc' = "strip"

Speak ==
  /\ pc = "client" /\ Len(conv) < MaxTurns
  /\ \E blocks \in UserTurns : Received(Append(conv, Message("user", blocks)))
  /\ UNCHANGED setup

Transform == TransformStep /\ UNCHANGED <<conv, setup>>

(* A renderer that fails: the request goes out as it came.                   *)
Fail ==
  /\ pc \in {"slab", "history", "early", "image"}
  /\ req' = Original
  /\ pc' = "done" /\ pins' = <<>> /\ results' = {} /\ images' = 0 /\ bytes' = 0
  /\ UNCHANGED <<native, conv, setup>>

Answered(blocks) ==
  /\ pc = "done" /\ Len(conv) < MaxTurns
  /\ conv' = Append(conv, Message("assistant", blocks))
  /\ pc' = "client" /\ req' = Idle
  /\ images' = 0 /\ bytes' = 0 /\ native' = 0 /\ pins' = <<>> /\ results' = {}
  /\ UNCHANGED setup

Answer ==
  \/ Answered(<<Text(<<>>, <<Said>>, NoMark)>>)
  \/ setup.tools # <<>> /\ Answered(<<[type |-> "call", cc |-> NoMark]>>)

ConversationNext == Speak \/ Transform \/ Fail \/ Answer

ConversationSpec == ConversationInit /\ [][ConversationNext]_conversationVars

-----------------------------------------------------------------------------
(* Properties. *)

(* The images and bytes that the proxy adds leave room for those the client  *)
(* sent: a request that was within the provider's limits stays within them,  *)
(* and one that was not is not made worse.  Each pass has its own check.     *)
BudgetsKept ==
  /\ images + native <= Greater(native, MaxImages - SafetyMargin)
  /\ bytes + native <= Greater(native, MaxBytes)

(* What the passes count is what goes out: no pass adds an image that the    *)
(* budget does not know of, at either level of nesting.                      *)
WireCounted == CountImages(req.messages) <= images + native

MarksOf(b) ==
  (IF HasMark(b) THEN 1 ELSE 0)
    + (IF b.type = "result" THEN Total([p \in DOMAIN b.parts |-> IF HasMark(b.parts[p]) THEN 1 ELSE 0])
       ELSE 0)
MarksIn(blocks) == Total([k \in DOMAIN blocks |-> MarksOf(blocks[k])])
AllMarks(r) ==
  MarksIn(r.system) + Total([i \in DOMAIN r.messages |-> MarksIn(r.messages[i].blocks)])

(* The provider takes four cache markers and refuses one of global scope     *)
(* outside the system prompt.  The passes merge, move and drop blocks that   *)
(* carry markers; a request never has more of them than the client's, and    *)
(* no page carries one of global scope.                                      *)
MarkersBounded ==
  pc = "done" =>
    /\ AllMarks(req) <= AllMarks(Original)
    /\ \A i \in DOMAIN req.messages : \A k \in DOMAIN req.messages[i].blocks :
         req.messages[i].blocks[k].type = "page" => req.messages[i].blocks[k].cc # "global"

PageItems(blocks) ==
  UNION {IF blocks[k].type = "page" THEN blocks[k].holds ELSE {} : k \in DOMAIN blocks}
Shown(m) ==
  TextOf(m) \cup PageItems(m.blocks)
    \cup UNION {IF m.blocks[k].type = "result" THEN PageItems(m.blocks[k].parts) ELSE {}
                : k \in DOMAIN m.blocks}
ShownIn(r) == UNION {Shown(r.messages[i]) : i \in DOMAIN r.messages}
SystemKinds(system) ==
  {0} \X ((UNION {system[k].has : k \in DOMAIN system}) \ {"billing"})

(* What the client sent reaches the provider, as text or on a page: every    *)
(* turn but the commands and their answers, every tool result (a result that *)
(* is on a page must not be serialized again as a mere image), every part of *)
(* the system prompt and every tool's documentation.                         *)
NothingLost ==
  pc = "done" =>
    LET kept == StripPinCommands(conv)
    IN /\ UNION {TextOf(kept[i]) : i \in DOMAIN kept} \subseteq ShownIn(req)
       /\ SystemKinds(setup.system) \subseteq SystemKinds(req.system) \cup ShownIn(req)
       /\ \A k \in DOMAIN req.tools :
            req.tools[k].doc = "full" \/ <<0, req.tools[k].name>> \in ShownIn(req)

Commands(m) == {k \in DOMAIN m.blocks : m.role = "user" /\ HasCommand(m.blocks[k])}
PinBlocks(messages) ==
  UNION {{i} \X {k \in DOMAIN messages[i].blocks : messages[i].blocks[k].type = "pins"}
         : i \in DOMAIN messages}
LastBlock(m) == m.blocks[Len(m.blocks)]

(* The list in force is said once, after everything else and so after every  *)
(* cache marker, whatever the passes did to the turns that set it; and no    *)
(* command is left beside it but in a block that stays for its marker.  For  *)
(* the OpenAI endpoints this holds whenever there is a list to say.          *)
PinsSaidOnce ==
  /\ (pc = "done" /\ req # Original) =>
       LET said == PinBlock(FoldPins(conv, setup.system))
       IN /\ said # <<>> => LastBlock(req.messages[Len(req.messages)]) = PinsBlock(said)
          /\ Cardinality(PinBlocks(req.messages)) = (IF said = <<>> THEN 0 ELSE 1)
          /\ \A i \in DOMAIN req.messages : \A k \in Commands(req.messages[i]) :
               IsBlank(req.messages[i].blocks[k]) /\ HasMark(req.messages[i].blocks[k])
  /\ (pc = "strip" /\ PinBlock(FoldPins(conv, setup.system)) # <<>>) =>
       LET wire == RelocateOpenAIPins(conv, setup.system)
       IN /\ Cardinality(PinBlocks(wire)) = 1
          /\ \A i \in DOMAIN wire : Commands(wire[i]) = {}

ListedAt(i) == Listing(FoldPins(SubSeq(conv, 1, i), setup.system))

OnlyUnpins(m) ==
  /\ IsCommandOnlyTurn(m, TRUE) /\ Len(m.blocks) = 1
  /\ LET b == m.blocks[1]
     IN Len(b.lines) = 1 /\ b.lines[1].n > 0 /\ StripLines(b.head) = b.head

(* "unpin n" lifts the pin that the last answer of the proxy showed as n,    *)
(* although that number is counted again from the whole conversation and     *)
(* pins of files stand in the same list; a number that it did not show lifts *)
(* nothing.                                                                  *)
UnpinHitsListed ==
  \A i \in DOMAIN conv :
    i > 2 /\ IsPinReply(conv[i - 1]) /\ OnlyUnpins(conv[i])
    => LET shown == ListedAt(i - 2)
           n == conv[i].blocks[1].lines[1].n
       IN ListedAt(i) = IF n \in DOMAIN shown THEN RemoveAt(shown, n) ELSE shown

(* What the provider cached of a request is there again in the next ones:    *)
(* stripping never depends on turns that had not been said yet.              *)
StripRepeats ==
  pc = "strip" =>
    \A j \in Users(conv) :
      ~IsPinOnlyRequest(SubSeq(conv, 1, j))
      => IsPrefix(StripPinCommands(SubSeq(conv, 1, j)), StripPinCommands(conv))

(* Every pass that makes images counts what it makes, and together they stay *)
(* within what the provider takes.                                           *)
ImagesAccounted == BudgetsKept /\ WireCounted

(* Everything the client sent arrives, and so does the list of pins, once.   *)
SaidOnce == NothingLost /\ PinsSaidOnce
=============================================================================
