-------------------------- MODULE HistoryCollapse --------------------------
(***************************************************************************)
(* collapseHistory: which part of a conversation becomes one synthetic     *)
(* user message of page images, cut into which chunks.  The cut must not   *)
(* come between a tool call and its result; the chunks are cut on a grid   *)
(* so that a longer conversation repeats the images of a shorter one; and  *)
(* what the user typed is carried as text, or as images of its own.        *)
(*                                                                         *)
(* A message is a record of its role, whether its content is an array, the *)
(* ids of its tool_use and tool_result blocks, the length of its body and  *)
(* of what the user typed in it.  Messages are counted from one, so the    *)
(* number of a message is the length of the prefix that ends with it.      *)
(***************************************************************************)
EXTENDS Integers, Sequences, FiniteSets, SequencesExt, FiniteSetsExt

CONSTANTS
  KeepTail,      \* keepTail
  MinPrefix,     \* minCollapsePrefix
  CollapseChunk, \* collapseChunk
  FreezeChunk,   \* freezeChunk
  Protected,     \* protectedPrefix
  PageChars,     \* pageChars
  TypedMax       \* userTextMaxChars

ASSUME CollapseAssumption ==
  /\ KeepTail \in Nat /\ MinPrefix \in Nat /\ Protected \in Nat /\ TypedMax \in Nat
  /\ CollapseChunk \in Nat \ {0} /\ FreezeChunk \in Nat \ {0} /\ PageChars \in Nat \ {0}

Larger(a, b) == IF a > b THEN a ELSE b
Smaller(a, b) == IF a < b THEN a ELSE b

(* ceilDiv(chars, pageChars) *)
Pages(chars) == (chars + PageChars - 1) \div PageChars

ProtectedIn(messages) == Smaller(Protected, Len(messages))

-----------------------------------------------------------------------------
(* findClosedPrefixBoundary.                                                 *)

Uses(m) == IF m.role = "assistant" /\ m.array THEN m.uses ELSE {}
Results(m) == IF m.role = "user" /\ m.array THEN m.results ELSE {}

(* Message i is read: a round of tool calls is over when all of them are     *)
(* answered and a message without calls follows.                             *)
ScanMessage(scan, m, i) ==
  LET over  == scan.round /\ scan.open = {} /\ Uses(m) = {}
      open  == (scan.open \cup Uses(m)) \ Results(m)
      round == (scan.round /\ ~over) \/ Uses(m) # {}
  IN [open   |-> open,
      round  |-> round,
      closed |-> IF open = {} /\ ~round THEN i ELSE scan.closed]

Scan(messages, limit) ==
  LET scan[i \in 0 .. limit] ==
        IF i = 0 THEN [open |-> {}, round |-> FALSE, closed |-> 0]
        ELSE ScanMessage(scan[i - 1], messages[i], i)
  IN scan[limit]

NextContinues(messages, limit) == limit < Len(messages) /\ Uses(messages[limit + 1]) # {}

(* Mutant: the message after the limit is not looked at. *)
NextUnseen(messages, limit) == FALSE

RoundGoesOn(messages, limit) == NextContinues(messages, limit)

(* The length of the longest closed prefix of at most cutoff messages. *)
ClosedPrefix(messages, cutoff) ==
  LET limit == Smaller(cutoff, Len(messages))
      scan  == Scan(messages, limit)
  IN IF cutoff <= 0 THEN 0
     ELSE IF scan.round /\ scan.open = {} /\ ~RoundGoesOn(messages, limit) THEN limit
     ELSE scan.closed

(* Mutant: a prefix is closed wherever no call is open or not. *)
ClosedAnywhere(messages, cutoff) == Larger(0, Smaller(cutoff, Len(messages)))

CollapsiblePrefix(messages, cutoff) == ClosedPrefix(messages, cutoff)

(* The live tail stays, and the cutoff moves in steps of CollapseChunk.      *)
Cutoff(messages) ==
  LET raw     == Len(messages) - KeepTail
      snapped == Larger((raw \div CollapseChunk) * CollapseChunk,
                        MinPrefix + ProtectedIn(messages))
  IN IF snapped < raw THEN snapped ELSE raw

-----------------------------------------------------------------------------
(* Costs: a message has its body in the transcript's images; what the user   *)
(* typed is text up to TypedMax and has images of its own beyond.            *)

IsLong(m) == m.typed > TypedMax
TextCost(m) == m.text
ImageCost(m) == IF IsLong(m) THEN m.typed ELSE 0

(* Running totals: entry i is the cost of the first i messages. *)
Totals(costs) ==
  LET total[i \in 0 .. Len(costs)] == IF i = 0 THEN 0 ELSE total[i - 1] + costs[i]
  IN total

TextTotals(messages) == Totals([i \in DOMAIN messages |-> TextCost(messages[i])])
ImageTotals(messages) == Totals([i \in DOMAIN messages |-> ImageCost(messages[i])])

(* rangeTotal, of messages from + 1 .. to. *)
TextTotal(messages, from, to) == TextTotals(messages)[to] - TextTotals(messages)[from]
ImageTotal(messages, from, to) == ImageTotals(messages)[to] - ImageTotals(messages)[from]

(* The prefix the image budget has room for if pages fill up. *)
AffordablePrefix(messages, from, to, budget) ==
  Max({k \in from .. to :
         TextTotal(messages, from, k) + ImageTotal(messages, from, k) <= budget * PageChars})

(* A range on as few pages as there can be. *)
PerfectPages(messages, from, to) ==
  Pages(TextTotal(messages, from, to)) + Pages(ImageTotal(messages, from, to))

-----------------------------------------------------------------------------
(* The freeze grid.                                                          *)

(* The base step doubled, up to the first step that spans the range. *)
Doubled(rangeLen) ==
  LET step[j \in 0 .. rangeLen] == IF j = 0 THEN FreezeChunk ELSE 2 * step[j - 1]
  IN {step[j] : j \in 0 .. rangeLen}

GridSteps(rangeLen) == Doubled(rangeLen)

ChunkStarts(from, to, step) == {a \in from .. to - 1 : (a - from) % step = 0}

GridPages(messages, from, to, step) ==
  MapThenSumSet(LAMBDA a : PerfectPages(messages, a, Smaller(a + step, to)),
                ChunkStarts(from, to, step))

(* A cold cache is repacked to a page more than it needs. *)
Goal(messages, from, to, budget, packFill) ==
  LET packed == Larger(1, Pages(TextTotal(messages, from, to)))
  IN IF packFill THEN Smaller(budget, packed + 1) ELSE budget

LeastStep(rangeLen, floor) ==
  Min({s \in GridSteps(rangeLen) : s >= floor \/ s >= rangeLen})

(* marks are the messages in the range that carry a cache_control. *)
FreezeStep(messages, from, to, marks, floor, goal) ==
  Min({s \in GridSteps(to - from) :
         /\ s >= LeastStep(to - from, floor)
         /\ s >= to - from \/ GridPages(messages, from, to, s) + Cardinality(marks) <= goal})

GridEnds(from, to, step) == {e \in from + 1 .. to - 1 : (e - from) % step = 0}

ChunkEnds(from, to, step, marks) == GridEnds(from, to, step) \cup marks \cup {to}

(* The last grid boundary before the open chunk, or 0. *)
CarryOverEnd(from, to, step) ==
  IF GridEnds(from, to, step) = {} THEN 0 ELSE Max(GridEnds(from, to, step))

-----------------------------------------------------------------------------
(* The synthetic message.                                                    *)

Page(turns, part, marked) == [kind |-> "page", turns |-> turns, part |-> part, marked |-> marked]
Words(turns) == [kind |-> "words", turns |-> turns, part |-> 0, marked |-> FALSE]
LongTurns(turns, part) == [kind |-> "long", turns |-> turns, part |-> part, marked |-> FALSE]
Pointer(turn, kind) == [kind |-> kind, turns |-> {turn}, part |-> 0, marked |-> FALSE]

IsImage(block) == block.kind \in {"page", "long"}

TranscriptBlocks(messages, turns, marks) ==
  LET total == Pages(TextTotal(messages, Min(turns) - 1, Max(turns)))
  IN [part \in 1 .. total |-> Page(turns, part, part = total /\ Max(turns) \in marks)]

(* userTurnBlocks: short turns in one text block, long ones in their images. *)
UserTurnBlocks(messages, turns) ==
  LET typed == {i \in turns : messages[i].role = "user" /\ messages[i].typed > 0}
      long  == {i \in typed : IsLong(messages[i])}
      short == typed \ long
  IN (IF short = {} THEN <<>> ELSE <<Words(short)>>)
       \o [part \in 1 .. Pages(ImageTotal(messages, Min(turns) - 1, Max(turns)))
           |-> LongTurns(long, part)]

(* Mutant: a chunk without a transcript is passed over. *)
ChunkBlocksOfText(messages, turns, marks) ==
  IF TextTotal(messages, Min(turns) - 1, Max(turns)) = 0 THEN <<>>
  ELSE TranscriptBlocks(messages, turns, marks) \o UserTurnBlocks(messages, turns)

ChunkBlocks(messages, turns, marks) ==
  TranscriptBlocks(messages, turns, marks) \o UserTurnBlocks(messages, turns)

(* The latest typed turn that was collapsed: a preview if it is in full in   *)
(* the synthetic message, else (its head is demoted to a preview) verbatim.  *)
LatestUserPointer(messages, from, to) ==
  LET typed == {i \in 1 .. to : messages[i].role = "user" /\ messages[i].typed > 0}
      latest == Max(typed)
  IN IF typed = {} THEN <<>>
     ELSE <<Pointer(latest, IF latest > from THEN "preview" ELSE "verbatim")>>

(* The chunk that ends with e begins after the end before it. *)
ChunkEndingAt(from, ends, e) == Max({from} \cup {a \in ends : a < e}) + 1 .. e

(* The loop over sortedEnds: entry e has the blocks of the chunks that end   *)
(* by e.                                                                     *)
BlocksUpTo(messages, from, to, ends, marks) ==
  LET upto[e \in 0 .. to] ==
        IF e = 0 THEN <<>>
        ELSE IF e \in ends
             THEN upto[e - 1] \o ChunkBlocks(messages, ChunkEndingAt(from, ends, e), marks)
             ELSE upto[e - 1]
  IN upto

Blocks(messages, from, to, step, marks) ==
  BlocksUpTo(messages, from, to, ChunkEnds(from, to, step, marks), marks)[to]
    \o LatestUserPointer(messages, from, to)

(* Mutant: the carry-over is the last image, whatever its chunk. *)
CarryOverLast(blocks, end) ==
  Max({0} \cup {n \in DOMAIN blocks : blocks[n].kind = "page"})

(* carryOverOrdinal: the last page of the chunk before the open one; 0 if    *)
(* that chunk has no page.                                                   *)
CarryOver(blocks, end) ==
  Max({0} \cup {n \in DOMAIN blocks : blocks[n].kind = "page" /\ Max(blocks[n].turns) = end})

-----------------------------------------------------------------------------
(* collapseHistory.                                                          *)

NotCollapsed(reason) == [reason |-> reason, len |-> 0, step |-> 0, blocks |-> <<>>, carry |-> 0]

Layout(messages, to, marks, floor, budget, packFill) ==
  LET from     == ProtectedIn(messages)
      inRange  == marks \cap (from + 1 .. to)
      step     == FreezeStep(messages, from, to, inRange, floor,
                             Goal(messages, from, to, budget, packFill))
      blocks   == Blocks(messages, from, to, step, inRange)
  IN [reason |-> "", len |-> to, step |-> step, blocks |-> blocks,
      carry |-> CarryOver(blocks, CarryOverEnd(from, to, step))]

(* The prefix to collapse: the closed one, trimmed if it cannot fit.         *)
TrimmedPrefix(messages, closed, budget) ==
  LET from == ProtectedIn(messages)
  IN IF PerfectPages(messages, from, closed) <= budget THEN closed
     ELSE CollapsiblePrefix(messages, AffordablePrefix(messages, from, closed, budget))

(* The profitability gate, which can also refuse, is left out. *)
Collapse(messages, marks, floor, budget, packFill) ==
  LET from   == ProtectedIn(messages)
      closed == CollapsiblePrefix(messages, Cutoff(messages))
      len    == TrimmedPrefix(messages, closed, budget)
  IN IF messages = <<>> THEN NotCollapsed("no_history")
     ELSE IF closed = 0 THEN NotCollapsed("no_closed_prefix")
     ELSE IF closed - from < MinPrefix THEN NotCollapsed("prefix_too_short")
     ELSE IF len - from < MinPrefix THEN NotCollapsed("over_budget")
     ELSE IF TextTotal(messages, from, len) = 0 THEN NotCollapsed("render_empty")
     ELSE Layout(messages, len, marks, floor, budget, packFill)

Images(layout) == Cardinality({n \in DOMAIN layout.blocks : IsImage(layout.blocks[n])})
=============================================================================
