---------------------------- MODULE ChatHistory ----------------------------
(***************************************************************************)
(* planGptCollapse: which messages of a Chat Completions conversation      *)
(* become images.  The part behind the protected head is cut where no call *)
(* is open, and into sections by length; the user's latest request is kept *)
(* as text between the sections if it falls among them.                    *)
(***************************************************************************)
EXTENDS GptHistory

Opaque(turn) == turn.images > 0
IsRequest(turn) == turn.role = "user" /\ turn.size > 0

(* Ids opened in from + 1 .. to and not closed since.                        *)
Open(turns, from, to) ==
  UNION {turns[i].opens \ UNION {turns[j].closes : j \in i + 1 .. to} : i \in from + 1 .. to}

IsClosedPrefix(turns, from, to) ==
  Open(turns, from, to) = {} /\ \A i \in from + 1 .. to : ~Opaque(turns[i])

FindClosedBoundary(turns, from, cutoff) ==
  Max({from} \cup {to \in from + 1 .. Smaller(cutoff, Len(turns)) :
                     IsClosedPrefix(turns, from, to)})

ChatCutoff(turns, from) ==
  LET raw == Len(turns) - KeepTail
  IN IF CollapseChunk = 0 THEN raw
     ELSE Smaller(raw, Larger(from + MinCollapsePrefix,
                              from + ((raw - from) \div CollapseChunk) * CollapseChunk))

(* The latest request, if it is in the range and does not interrupt a call.  *)
PinOf(turns, from, end) ==
  LET latest == Max({0} \cup {i \in from + 1 .. Len(turns) : IsRequest(turns[i])})
  IN IF latest > 0 /\ latest <= end /\ IsClosedPrefix(turns, from, latest - 1)
     THEN latest ELSE 0

-----------------------------------------------------------------------------
(* Sections.                                                                 *)

(* What is left before the pin joins the section it adjoins.                 *)
CloseAtPin(s, pin) ==
  LET joins == s.cut # <<>> /\ s.acc < SectionTokens /\ Max(Last(s.cut)) = s.start
  IN [start |-> pin, acc |-> 0,
      cut |-> IF s.start + 1 > pin - 1 THEN s.cut
              ELSE IF joins THEN Append(Front(s.cut), Last(s.cut) \cup (s.start + 1 .. pin - 1))
              ELSE Append(s.cut, s.start + 1 .. pin - 1)]

(* Mutant: the pinned request is also at the head of the next section. *)
CloseBeforePin(s, pin) == [CloseAtPin(s, pin) EXCEPT !.start = pin - 1]

AtPin(s, pin) == CloseAtPin(s, pin)

(* Mutant: a section is closed as soon as it is long enough. *)
LongEnough(s, turns, from, i) == s.acc + turns[i].size >= SectionTokens

SectionEnds(s, turns, from, i) ==
  s.acc + turns[i].size >= SectionTokens /\ Open(turns, from, i) = {}

(* Mutant: what is left at the end is a section, too. *)
CutWithRest(s, end) ==
  IF s.start < end THEN Append(s.cut, s.start + 1 .. end) ELSE s.cut

(* What is left at the end stays live. *)
CutSections(s, end) == s.cut

Sections(turns, from, end, pin) ==
  LET scan[i \in from .. end] ==
        IF i = from THEN [start |-> from, acc |-> 0, cut |-> <<>>]
        ELSE LET s == scan[i - 1]
             IN IF i = pin THEN AtPin(s, pin)
                ELSE IF SectionEnds(s, turns, from, i)
                     THEN [start |-> i, acc |-> 0, cut |-> Append(s.cut, s.start + 1 .. i)]
                     ELSE [s EXCEPT !.acc = @ + turns[i].size]
  IN CutSections(scan[end], end)

(* Without a freeze chunk: what is before the pin, and what is after it.     *)
TwoSections(from, end, pin) ==
  SelectSeq(<<from + 1 .. pin - 1, Larger(from, pin) + 1 .. end>>, LAMBDA s : s # {})

(* Sections without text are passed over; the first that does not fit in the *)
(* images allowed ends the range.                                            *)
RenderedSections(turns, sections, images) ==
  LET some == SelectSeq(sections, LAMBDA s : SizeOf(turns, s) > 0)
      upTo(k) == MapThenSumSet(LAMBDA n : PagesOf(turns, some[n]), 1 .. k)
  IN SubSeq(some, 1, Max({k \in 0 .. Len(some) : upTo(k) <= images}))

ChatLayout(turns, from, rendered, pin) ==
  LET end == Max(Last(rendered))
  IN Plan([n \in DOMAIN rendered |-> Segment(turns, rendered[n])], from + 1 .. end,
          IF pin <= end THEN pin ELSE 0)

CutRange(turns, from, end, pin) ==
  IF FreezeChunk = 0 THEN TwoSections(from, end, pin) ELSE Sections(turns, from, end, pin)

LayoutIfAny(turns, from, rendered, pin) ==
  IF rendered = <<>> THEN NoPlan ELSE ChatLayout(turns, from, rendered, pin)

(* The messages from + 1 .. end, but for the pin. *)
CollapseRange(turns, from, end, pin, images, gate) ==
  LET text == SizeOf(turns, (from + 1 .. end) \ {pin})
  IN IF \/ Len(turns) - KeepTail - from < MinCollapsePrefix
        \/ end - from < MinCollapsePrefix
        \/ text = 0 \/ text < MinCollapseTokens
        \/ ~Profitable(text, gate)
     THEN NoPlan
     ELSE LayoutIfAny(turns, from,
                      RenderedSections(turns, CutRange(turns, from, end, pin), images), pin)

PlanGptCollapse(turns, protectedPrefix, images, gate) ==
  LET from     == Smaller(protectedPrefix, Len(turns))
      upTo(end) == CollapseRange(turns, from, end, PinOf(turns, from, end), images, gate)
  IN upTo(FindClosedBoundary(turns, from, ChatCutoff(turns, from)))
=============================================================================
