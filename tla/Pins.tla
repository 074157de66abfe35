-------------------------------- MODULE Pins --------------------------------
(***************************************************************************)
(* Pins: instructions the user keeps in force with "@pxpipe pin" and lifts *)
(* with "@pxpipe unpin".  Nothing is stored: every request folds the       *)
(* commands of the whole conversation into the list in force, strips them  *)
(* from the copy that goes to the provider, and says the list once, in the *)
(* last block of the last message.  A turn of commands only is answered by *)
(* the proxy itself with the numbered list.                                *)
(*                                                                         *)
(* A text block is a leading system reminder (rem, its lines in head) and  *)
(* lines of its own; a line is a command or something said.                *)
(***************************************************************************)
EXTENDS Integers, Sequences, FiniteSets, SequencesExt, Lists

CONSTANTS
  PinTexts,    \* instructions a user may pin
  Begins,      \* pairs <<s, t>>: the text t begins with s
  Length,      \* the length of each text
  PinMax,      \* pinMaxChars
  PinTotalMax  \* pinTotalMaxChars

ASSUME PinAssumption ==
  /\ Begins \subseteq PinTexts \X PinTexts
  /\ \A t \in PinTexts : <<t, t>> \in Begins
  /\ Length \in [PinTexts -> Nat] /\ PinMax \in Nat /\ PinTotalMax \in Nat

\* What a command without a text has for one.
NoText == "none"

Said == [verb |-> "say", arg |-> NoText, n |-> 0]
Pin(t) == [verb |-> "pin", arg |-> t, n |-> 0]
Unpin(t) == [verb |-> "unpin", arg |-> t, n |-> 0]
UnpinNumber(n) == [verb |-> "unpin", arg |-> NoText, n |-> n]
UnpinAll == [verb |-> "unpin", arg |-> "all", n |-> 0]

(* matchPinCmd *)
IsCommand(line) == line.verb \in {"pin", "unpin"}

NoMark == "none"

Text(head, lines, cc) ==
  [type |-> "text", rem |-> head # <<>>, head |-> head, lines |-> lines, cc |-> cc]

-----------------------------------------------------------------------------
(* foldPins.                                                                 *)

FromSession(pins) == {i \in DOMAIN pins : pins[i].source = "session"}

(* Session pins are numbered from one, over the pins of files between them.  *)
SessionPin(pins, n) == {i \in FromSession(pins) : Cardinality(FromSession(pins) \cap (1 .. i)) = n}

(* Mutant: every pin of the list is counted. *)
AnyPin(pins, n) == {i \in FromSession(pins) : i = n}

Numbered(pins, n) == SessionPin(pins, n)

(* A pin over pinMaxChars is cut, and no longer equal to its own text.       *)
IsCut(t) == Length[t] > PinMax

ByText(pins, t) ==
  LET exact == {i \in FromSession(pins) : pins[i].text = t /\ ~pins[i].cut}
      begun == {i \in FromSession(pins) :
                  <<t, pins[i].text>> \in Begins /\ (pins[i].cut => Length[t] <= PinMax)}
  IN IF exact # {} THEN exact ELSE begun

Targets(pins, line) == IF line.n > 0 THEN Numbered(pins, line.n) ELSE ByText(pins, line.arg)

(* applyUnpin: the pins of a file can only be changed in the file.           *)
ApplyUnpin(pins, line) ==
  IF line.arg = "all" THEN Picked(pins, DOMAIN pins \ FromSession(pins))
  ELSE LET targets == Targets(pins, line)
       IN IF targets = {} THEN pins
          ELSE RemoveAt(pins, CHOOSE i \in targets : \A j \in targets : i <= j)

SameText(p, t) == p.text = t /\ p.cut = IsCut(t)

(* applyPinLine: a session pins a text once; a file may repeat itself.       *)
ApplyPinLine(pins, line, source) ==
  IF ~IsCommand(line) THEN pins
  ELSE IF line.verb = "unpin" THEN ApplyUnpin(pins, line)
  ELSE IF source = "session" /\ \E i \in DOMAIN pins : SameText(pins[i], line.arg) THEN pins
  ELSE Append(pins, [text |-> line.arg, cut |-> IsCut(line.arg), source |-> source])

FoldLines(pins, lines, source) ==
  LET upto[n \in 0 .. Len(lines)] ==
        IF n = 0 THEN pins ELSE ApplyPinLine(upto[n - 1], lines[n], source)
  IN upto[Len(lines)]

(* Only the reminders that open the first message are files.                 *)
InLeadingRun(m, idx, k) ==
  idx = 1 /\ \A j \in 1 .. k : m.blocks[j].type = "text"
                                 => m.blocks[j].rem /\ (j < k => m.blocks[j].lines = <<>>)

FoldBlock(pins, m, idx, k) ==
  LET b == m.blocks[k]
  IN IF b.type # "text" THEN pins
     ELSE FoldLines(FoldLines(pins, b.head, IF InLeadingRun(m, idx, k) THEN "file" ELSE "session"),
                    b.lines, "session")

(* messagePinLines *)
FoldMessage(pins, m, idx) ==
  LET upto[k \in 0 .. Len(m.blocks)] ==
        IF k = 0 THEN pins ELSE FoldBlock(upto[k - 1], m, idx, k)
  IN IF m.role # "user" THEN pins ELSE upto[Len(m.blocks)]

FoldSystem(system) ==
  LET upto[k \in 0 .. Len(system)] ==
        IF k = 0 THEN <<>> ELSE FoldLines(upto[k - 1], system[k].lines, "file")
  IN upto[Len(system)]

FoldPins(messages, system) ==
  LET upto[i \in 0 .. Len(messages)] ==
        IF i = 0 THEN FoldSystem(system) ELSE FoldMessage(upto[i - 1], messages[i], i)
  IN upto[Len(messages)]

-----------------------------------------------------------------------------
(* The live turn, and the proxy's own answer to it.                          *)

(* isCommandOnlyTurn: a live turn may stand beside reminders of the client.  *)
IsCommandOnlyTurn(m, live) ==
  /\ m.role = "user" /\ m.blocks # <<>>
  /\ \A k \in DOMAIN m.blocks :
       /\ m.blocks[k].type = "text"
       /\ live \/ ~m.blocks[k].rem
       /\ \A i \in DOMAIN m.blocks[k].lines : IsCommand(m.blocks[k].lines[i])
  /\ \E k \in DOMAIN m.blocks : m.blocks[k].lines # <<>>

(* livePinTurn: system messages after the turn are passed over.              *)
LiveTurns(messages) == {i \in DOMAIN messages : messages[i].role # "system"}

IsPinOnlyRequest(messages) ==
  \E i \in LiveTurns(messages) :
    /\ \A j \in LiveTurns(messages) : j <= i
    /\ IsCommandOnlyTurn(messages[i], TRUE)

(* pinReplyText: what "unpin n" of a later turn refers to.                   *)
Listing(pins) == Picked(pins, FromSession(pins))

PinReply == [verb |-> "reply", arg |-> NoText, n |-> 0]

IsPinReply(m) ==
  /\ m.role = "assistant" /\ Len(m.blocks) = 1
  /\ m.blocks[1].type = "text" /\ PinReply \in {m.blocks[1].lines[i] : i \in DOMAIN m.blocks[1].lines}

-----------------------------------------------------------------------------
(* stripPinCommands.                                                         *)

StripLines(lines) == Picked(lines, {i \in DOMAIN lines : ~IsCommand(lines[i])})

HasCommand(b) ==
  b.type = "text" /\ (StripLines(b.lines) # b.lines \/ StripLines(b.head) # b.head)

Cleaned(b) == [b EXCEPT !.lines = StripLines(@), !.head = StripLines(@)]

IsBlank(b) == ~b.rem /\ StripLines(b.lines) = <<>>

(* The marker of a block that goes moves to the block before it; a marked    *)
(* block that is the first stays as it is.                                   *)
StripBlock(kept, b) ==
  IF ~HasCommand(b) THEN Append(kept, b)
  ELSE IF ~IsBlank(b) THEN Append(kept, Cleaned(b))
  ELSE IF b.cc = NoMark THEN kept
  ELSE IF kept = <<>> THEN <<b>>
  ELSE [kept EXCEPT ![Len(kept)].cc = b.cc]

StripBlocks(blocks) ==
  LET upto[n \in 0 .. Len(blocks)] == IF n = 0 THEN <<>> ELSE StripBlock(upto[n - 1], blocks[n])
  IN upto[Len(blocks)]

(* stripDroppedAll *)
NothingLeft(m) ==
  m.role = "user" /\ m.blocks # <<>> /\ StripBlocks(m.blocks) = <<>>

(* A turn of commands goes together with its answer, and only with it.       *)
GoesWithAnswer(messages, i) ==
  /\ i < Len(messages)
  /\ \/ IsCommandOnlyTurn(messages[i], FALSE) /\ IsPinReply(messages[i + 1])
     \/ NothingLeft(messages[i]) /\ messages[i + 1].role = "assistant"

(* Mutant: every turn with a command goes with its answer. *)
GoesWhenTouched(messages, i) ==
  /\ i < Len(messages) /\ messages[i + 1].role = "assistant" /\ messages[i].role = "user"
  /\ \E k \in DOMAIN messages[i].blocks : HasCommand(messages[i].blocks[k])

PairGoes(messages, i) == GoesWithAnswer(messages, i)

StripMessage(m) ==
  IF m.role = "user" /\ ~NothingLeft(m) THEN [m EXCEPT !.blocks = StripBlocks(@)] ELSE m

StripPinCommands(messages) ==
  LET gone == {i \in DOMAIN messages : PairGoes(messages, i)}
  IN Picked([i \in DOMAIN messages |-> StripMessage(messages[i])],
            DOMAIN messages \ (gone \cup {i + 1 : i \in gone}))

StripSystem(system) == StripBlocks(system)

-----------------------------------------------------------------------------
(* The block that says the pins.                                             *)

(* pinBlockText: a pin that no longer fits is left out, a shorter one after  *)
(* it may still fit.                                                         *)
SaidLength(p) == IF p.cut THEN PinMax ELSE Length[p.text]

AddIfFits(block, p) ==
  IF block.left < SaidLength(p) THEN block
  ELSE [left |-> block.left - SaidLength(p), pins |-> Append(block.pins, p)]

PinBlock(pins) ==
  LET upto[n \in 0 .. Len(pins)] ==
        IF n = 0 THEN [left |-> PinTotalMax, pins |-> <<>>] ELSE AddIfFits(upto[n - 1], pins[n])
  IN upto[Len(pins)].pins

(* canAppendPinBlock *)
CanAppendPinBlock(messages) == messages # <<>> /\ messages[Len(messages)].role = "user"

PinsBlock(pins) == [type |-> "pins", pins |-> pins, cc |-> NoMark]

(* appendPinBlock *)
AppendPinBlock(messages, pins) ==
  IF PinBlock(pins) = <<>> \/ ~CanAppendPinBlock(messages) THEN messages
  ELSE [messages EXCEPT ![Len(messages)].blocks = Append(@, PinsBlock(PinBlock(pins)))]

SayPins(messages, pins) == AppendPinBlock(messages, pins)

-----------------------------------------------------------------------------
(* relocateOpenAIPins: the commands go only when there is a list to say; the *)
(* turns stay, with the texts that are left of them, and the list is said in *)
(* the last turn of the user.                                                *)

Users(messages) == {i \in DOMAIN messages : messages[i].role = "user"}

StripInPlace(m) ==
  IF m.role = "assistant" THEN m
  ELSE [m EXCEPT !.blocks =
          [k \in DOMAIN @ |-> IF @[k].type = "text" THEN Cleaned(@[k]) ELSE @[k]]]

RelocateOpenAIPins(messages, system) ==
  LET said   == PinBlock(FoldPins(messages, system))
      target == CHOOSE i \in Users(messages) : \A j \in Users(messages) : j <= i
      clean  == [i \in DOMAIN messages |-> StripInPlace(messages[i])]
  IN IF said = <<>> \/ Users(messages) = {} THEN messages
     ELSE [clean EXCEPT ![target].blocks = Append(@, PinsBlock(said))]
=============================================================================
