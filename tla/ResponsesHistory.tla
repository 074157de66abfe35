-------------------------- MODULE ResponsesHistory --------------------------
(***************************************************************************)
(* planResponsesPairCollapse and planResponsesMixedCollapse: which items   *)
(* of a Responses input become images.  Calls and outputs are items of     *)
(* their own that pair by call_id and may come in any order; only rounds   *)
(* of calls directly followed by their outputs are taken.  Of the last     *)
(* pairs, and in mixed mode of the last messages, nothing is taken.        *)
(***************************************************************************)
EXTENDS GptHistory

(* The call_id of an item that has none. *)
CONSTANT NoId

CallId(item) == CHOOSE id \in item.opens \cup item.closes : TRUE

CallsOf(items, id) == {i \in DOMAIN items : items[i].kind = "call" /\ CallId(items[i]) = id}
OutputsOf(items, id) == {i \in DOMAIN items : items[i].kind = "output" /\ CallId(items[i]) = id}

CallIds(items) ==
  {CallId(items[i]) : i \in {j \in DOMAIN items : items[j].kind \in {"call", "output"}}} \ {NoId}

(* One call, one output, in this order. *)
Pairs(items, id) ==
  /\ Cardinality(CallsOf(items, id)) = 1 /\ Cardinality(OutputsOf(items, id)) = 1
  /\ Min(CallsOf(items, id)) < Min(OutputsOf(items, id))

PairCalls(items) ==
  UNION {CallsOf(items, id) : id \in {x \in CallIds(items) : Pairs(items, x)}}
OutputOf(items, call) == Min(OutputsOf(items, CallId(items[call])))

-----------------------------------------------------------------------------
(* classifyResponsesPairs.                                                   *)

(* The calls from item i on, without a gap. *)
RoundCalls(pairCalls, i) == {c \in pairCalls : i .. c \subseteq pairCalls /\ c >= i}

(* Those of their outputs that follow without a gap. *)
RoundOutputs(items, calls) ==
  LET outputs == {OutputOf(items, c) : c \in calls}
  IN {o \in outputs : Max(calls) + 1 .. o \subseteq outputs}

IsRound(calls, outputs) == calls # {} /\ Cardinality(outputs) = Cardinality(calls)

(* The search goes on behind a round. *)
NextRound(s, calls, outputs) ==
  IF IsRound(calls, outputs)
  THEN [rounds |-> Append(s.rounds, calls \cup outputs), until |-> Max(calls \cup outputs)]
  ELSE s

RoundsAmong(items, pairCalls) ==
  LET at(s, i, calls) ==
        IF i <= s.until THEN s ELSE NextRound(s, calls, RoundOutputs(items, calls))
      scan[i \in 0 .. Len(items)] ==
        IF i = 0 THEN [rounds |-> <<>>, until |-> 0]
        ELSE at(scan[i - 1], i, RoundCalls(pairCalls, i))
  IN scan[Len(items)].rounds

(* The rounds, each as the set of its items. *)
Rounds(items) == RoundsAmong(items, PairCalls(items))

PairsIn(rounds, from, to) ==
  MapThenSumSet(LAMBDA n : Cardinality(rounds[n]) \div 2, from .. to)

(* All rounds but the last ones that hold keepRecentPairs pairs. *)
AllButRecent(rounds, keep) ==
  SubSeq(rounds, 1,
         Max({0} \cup {k \in 0 .. Len(rounds) : PairsIn(rounds, k + 1, Len(rounds)) >= keep}))

OldRounds(items, keep) == ToSet(AllButRecent(Rounds(items), keep))

OpenCalls(items) ==
  MapThenSumSet(LAMBDA id : IF OutputsOf(items, id) = {} THEN Cardinality(CallsOf(items, id)) ELSE 0,
                CallIds(items))
OrphanOutputs(items) ==
  MapThenSumSet(LAMBDA id : IF CallsOf(items, id) = {} THEN Cardinality(OutputsOf(items, id)) ELSE 0,
                CallIds(items))

(* Items without id, ids that do not pair, and pairs in no round. *)
MalformedItems(items) ==
  LET mixed == {id \in CallIds(items) : /\ ~Pairs(items, id)
                                        /\ CallsOf(items, id) # {} /\ OutputsOf(items, id) # {}}
      loose == PairCalls(items) \ UNION ToSet(Rounds(items))
  IN Cardinality(CallsOf(items, NoId) \cup OutputsOf(items, NoId))
       + MapThenSumSet(LAMBDA id : Cardinality(CallsOf(items, id) \cup OutputsOf(items, id)), mixed)
       + 2 * Cardinality(loose)

-----------------------------------------------------------------------------
(* Runs: units that nothing stands between.                                  *)

IsMessage(item) == item.kind = "message" /\ item.role \in {"user", "assistant"}
IsText(item) == IsMessage(item) /\ item.size > 0 /\ item.images = 0
IsContentless(item) == IsMessage(item) /\ item.size = 0 /\ item.images = 0

Referenced(items) == {items[i].ref : i \in DOMAIN items}

ProtectedMessages(items) ==
  LET texts == {i \in DOMAIN items : IsText(items[i])}
      users == {i \in texts : items[i].role = "user"}
  IN {i \in texts : Cardinality({j \in texts : j > i}) < KeepTail}
       \cup (IF users = {} THEN {} ELSE {Max(users)})

(* Rounds, and in mixed mode messages, that can be taken.                    *)
PairUnits(rounds) == rounds

MixedMessages(items) ==
  {i \in DOMAIN items : IsText(items[i])} \ (ProtectedMessages(items) \cup Referenced(items))

MixedUnits(items, rounds) ==
  {r \in rounds : r \cap Referenced(items) = {}} \cup {{i} : i \in MixedMessages(items)}

Units(items, mode, rounds) == IF mode = "mixed" THEN MixedUnits(items, rounds) ELSE PairUnits(rounds)

(* What ends a run; in mixed mode a message without content does not.        *)
Barriers(items, mode, units) ==
  {i \in DOMAIN items \ UNION units :
     mode = "mixed" => ~IsContentless(items[i]) \/ i \in Referenced(items)}

Joined(s, unit) ==
  [going |-> TRUE,
   runs  |-> IF s.going THEN Append(Front(s.runs), Append(Last(s.runs), unit))
                        ELSE Append(s.runs, <<unit>>)]

Runs(units, barriers, length) ==
  LET at(s, i, starting) ==
        IF i \in barriers THEN [s EXCEPT !.going = FALSE]
        ELSE IF starting = {} THEN s ELSE Joined(s, CHOOSE u \in starting : TRUE)
      scan[i \in 0 .. length] ==
        IF i = 0 THEN [runs |-> <<>>, going |-> FALSE]
        ELSE at(scan[i - 1], i, {u \in units : Min(u) = i})
  IN scan[length].runs

-----------------------------------------------------------------------------
(* The first units of a run that fit on the pages left. *)
Fitting(items, run, pages) ==
  Max({k \in 0 .. Len(run) : PagesOf(items, UNION ToSet(SubSeq(run, 1, k))) <= pages})

RoomLeft(s, segment) == s.room - segment.images

(* One run: nothing more after one that does not fit as a whole; one that    *)
(* does not pay is passed over.                                              *)
CollapseSegment(s, items, segment, whole, gate) ==
  IF ~Profitable(SizeOf(items, segment.turns), gate) THEN s
  ELSE [segments |-> Append(s.segments, segment),
        room     |-> RoomLeft(s, segment),
        full     |-> ~whole]

CollapseRun(s, items, run, gate) ==
  LET taken(k) ==
        IF s.full \/ s.room = 0 \/ k = 0 THEN [s EXCEPT !.full = TRUE]
        ELSE CollapseSegment(s, items, Segment(items, UNION ToSet(SubSeq(run, 1, k))),
                             k = Len(run), gate)
  IN taken(Fitting(items, run, s.room))

Taking(segments) == Plan(segments, UNION {segments[n].turns : n \in DOMAIN segments}, 0)

CollapseRuns(items, runs, images, gate) ==
  LET scan[n \in 0 .. Len(runs)] ==
        IF n = 0 THEN [segments |-> <<>>, room |-> images, full |-> FALSE]
        ELSE CollapseRun(scan[n - 1], items, runs[n], gate)
  IN Taking(scan[Len(runs)].segments)

CollapseUnits(items, mode, units, images, gate) ==
  IF units = {} \/ SizeOf(items, UNION units) < MinCollapseTokens \/ images = 0
  THEN NoPlan
  ELSE CollapseRuns(items, Runs(units, Barriers(items, mode, units), Len(items)), images, gate)

PlanResponsesCollapse(items, mode, keep, images, gate) ==
  CollapseUnits(items, mode, Units(items, mode, OldRounds(items, keep)), images, gate)
=============================================================================
