--------------------------- MODULE HistoryGrowth ---------------------------
(***************************************************************************)
(* A conversation grows by a message at a time; now and then it is sent,   *)
(* and what is sent is collapsed as a whole (runHistoryCollapse).  Nothing *)
(* is kept from one request to the next but the freeze step, which comes   *)
(* back as the floor.  The provider caches prefixes, so what matters is    *)
(* how the layouts of two requests of one conversation relate.             *)
(*                                                                         *)
(* The client keeps the protocol: a call is answered by the next message,  *)
(* and nobody speaks twice in a row.                                       *)
(***************************************************************************)
EXTENDS HistoryCollapse

CONSTANTS
  ToolIds,   \* ids of tool calls
  Lengths,   \* lengths of what the user types
  Budgets,   \* values of tuning.imageBudget
  MaxLen     \* bound on the conversation, for model checking only

(* The last messages stay live (keepTail is 4): a request is collapsed when  *)
(* it is known how the conversation goes on after the cut.  A budget of 0    *)
(* would be none at all; resolveHistoryGridTuning sets at least 1.           *)
ASSUME GrowthAssumption ==
  /\ KeepTail # 0
  /\ Lengths \subseteq Nat \ {0} /\ Budgets \subseteq Nat \ {0}

VARIABLES
  messages,  \* the conversation
  floor,     \* freezeStep of the session's record
  last,      \* the layout of the last request that was collapsed
  marks,     \* the messages that carried a cache_control in that request
  budget     \* its image budget

growthVars == <<messages, floor, last, marks, budget>>

GrowthInit ==
  /\ messages = <<>>
  /\ floor = 0
  /\ last = NotCollapsed("none") /\ marks = {} /\ budget = 0

-----------------------------------------------------------------------------
Message(role, array, uses, results, text, typed) ==
  [role |-> role, array |-> array, uses |-> uses, results |-> results, text |-> text,
   typed |-> typed]

(* A string of the user is all typed; an assistant's is all transcript. *)
UserSays == {Message("user", FALSE, {}, {}, 0, n) : n \in Lengths}
UserAnswers(ids) == {Message("user", TRUE, {}, ids, 1, n) : n \in {0} \cup Lengths}
AssistantSays == {Message("assistant", FALSE, {}, {}, 1, 0)}
AssistantCalls == {Message("assistant", TRUE, ids, {}, 1, 0) : ids \in SUBSET ToolIds \ {{}}}

Turns ==
  IF messages = <<>> THEN UserSays
  ELSE LET m == messages[Len(messages)]
       IN IF m.role = "user" THEN AssistantSays \cup AssistantCalls
          ELSE IF Uses(m) # {} THEN UserAnswers(Uses(m)) ELSE UserSays

Say ==
  /\ Len(messages) < MaxLen
  /\ \E m \in Turns : messages' = Append(messages, m)
  /\ UNCHANGED <<floor, last, marks, budget>>

(* A client marks at most one message: the rolling breakpoint. *)
Breakpoints == {{}} \cup {{i} : i \in DOMAIN messages}

(* recordFreezeStep *)
Recorded(step) == Larger(floor, step)

(* The layout is taken if its images fit; otherwise the request goes out as  *)
(* it came, and nothing is recorded.                                         *)
Request(layout, breakpoints, images) ==
  /\ layout.reason = "" /\ Images(layout) <= images
  /\ floor' = Recorded(layout.step)
  /\ last' = layout /\ marks' = breakpoints /\ budget' = images
  /\ UNCHANGED messages

Send ==
  \E breakpoints \in Breakpoints, images \in Budgets, packFill \in BOOLEAN :
    Request(Collapse(messages, breakpoints, floor, images, packFill), breakpoints, images)

GrowthNext == Say \/ Send

GrowthSpec == GrowthInit /\ [][GrowthNext]_growthVars

-----------------------------------------------------------------------------
(* Properties. *)

GrowthTypeOK ==
  /\ messages \in Seq([role : {"user", "assistant"}, array : BOOLEAN, uses : SUBSET ToolIds,
                       results : SUBSET ToolIds, text : Nat, typed : Nat])
  /\ floor \in Nat /\ last.step <= floor
  /\ last.len \in 0 .. Len(messages)
  /\ marks \subseteq DOMAIN messages
  /\ last.carry \in 0 .. Len(last.blocks)

Answered(i) == Uses(messages[i]) \subseteq Results(messages[i + 1])

(* The cut never separates a call from its answer: every call that is        *)
(* collapsed is collapsed with its result.                                   *)
CutIsClosed == \A i \in 1 .. last.len : Uses(messages[i]) # {} => i < last.len /\ Answered(i)

Transcribed(i) == {b \in {last.blocks[n] : n \in DOMAIN last.blocks} :
                     b.kind = "page" /\ i \in b.turns}
Carried(i) == {n \in DOMAIN last.blocks : last.blocks[n].kind \in {"words", "long"}
                                          /\ i \in last.blocks[n].turns
                                          /\ last.blocks[n].part <= 1}

(* Nothing the user typed is lost, also in a chunk without a transcript: a   *)
(* turn of the collapsed range is in full in one place, and the latest one   *)
(* is in full even if it is in the head, where only a preview of it stays.   *)
TypedTurnsKept ==
  /\ \A i \in ProtectedIn(messages) + 1 .. last.len :
       messages[i].typed > 0 => Cardinality(Carried(i)) = 1
  /\ \A i \in 1 .. last.len :
       (messages[i].typed > 0 /\ \A j \in i + 1 .. last.len : messages[j].typed = 0)
         => Carried(i) # {} \/ \E n \in DOMAIN last.blocks :
                                  last.blocks[n] = Pointer(i, "verbatim")

(* The next request of a growing conversation builds on the images of the    *)
(* one before.  With the same budget or a larger one the collapsed part      *)
(* never gets shorter: live text that became images stays images.  And no    *)
(* grid boundary is new in the old range: chunks are merged with their       *)
(* neighbours, never cut.                                                    *)
ImagesBuildUp ==
  [][last.reason = "" /\ last' # last =>
       /\ budget' >= budget => last'.len >= last.len
       /\ LET from == ProtectedIn(messages)
          IN GridEnds(from, Smaller(last.len, last'.len), last'.step)
               \subseteq GridEnds(from, last.len, last.step)]_growthVars

(* What the carry-over image marks as cached is there again, image by image, *)
(* in the next request that uses the same step and carries the same marks    *)
(* among those turns.                                                        *)
CarryOverRepeats ==
  [][(/\ last.reason = "" /\ last' # last /\ last.carry > 0
      /\ last'.step = last.step /\ budget' >= budget
      /\ LET end == Max(last.blocks[last.carry].turns)
         IN marks \cap (1 .. end) = marks' \cap (1 .. end))
       => SubSeq(last.blocks, 1, last.carry) = SubSeq(last'.blocks, 1, last.carry)]_growthVars

(* A collapse loses nothing the user typed: its types, and every typed turn  *)
(* in full in one place.                                                     *)
CollapseComplete == GrowthTypeOK /\ TypedTurnsKept
=============================================================================
