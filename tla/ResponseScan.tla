----------------------------- MODULE ResponseScan -----------------------------
(***************************************************************************)
(* The accounting of one Anthropic response (response_accounting.go, and   *)
(* the ModifyResponse of handler.go that decides what is accounted): the   *)
(* body passes through byte for byte while a scanner picks the usage out   *)
(* of it, in chunks cut wherever the network cut them.                     *)
(*                                                                         *)
(* A body is a sequence of symbols: CR and LF, DATA for the "data:" that   *)
(* starts a line, the members of Reports for JSON values with usage in     *)
(* them, Refusal for text the size pattern matches, and anything else for  *)
(* other text.  Lengths count symbols.                                     *)
(***************************************************************************)
EXTENDS Naturals, Sequences, FiniteSets

CONSTANTS
    CR, LF, DATA, Refusal,
    Reports,        \* the JSON values with usage in them
    Gives,          \* the fields each sets: a function into records over Fields
    Text,           \* other text
    Unset,
    MaxEvent,       \* maxAnthropicSSEEvent
    MaxJSON,        \* maxAnthropicJSONResponse
    MaxError,       \* maxAnthropicErrorBody
    MaxBody, MaxChunk   \* bounds on the body and on one read

\* The symbols are different ones, and an event has room for a symbol.
ASSUME ScanAssumption ==
    /\ CR # LF /\ DATA \notin {CR, LF}
    /\ ({Refusal, Text} \union Reports) \intersect {CR, LF, DATA} = {}
    /\ Refusal # Text
    /\ MaxEvent \in Nat \ {0} /\ MaxJSON \in Nat /\ MaxError \in Nat
    /\ MaxChunk \in Nat

VARIABLES
    response,       \* the headers, and whether the request had a session
    body,           \* every symbol read so far
    scanner,
    reading,        \* "open", "failed", "closed" or "ended"
    noted,          \* what was told to the session store, in order
    notified        \* what OnResponseComplete was given, in order

vars == <<response, body, scanner, reading, noted, notified>>

Fields == {"cache", "output"}

\* parsedAnthropicUsage: a field nobody set counts zero in a usage that was
\* seen.
NoUsage == [seen |-> FALSE, count |-> [f \in Fields |-> 0]]

\* What the session store is told: noteCacheOutcome, markCacheDead.
CacheOutcome(usage) == [kind |-> "outcome", count |-> usage.count]
CacheDead == [kind |-> "dead", count |-> NoUsage.count]

\* anthropicUsageFields.merge: the fields that are set replace what was there.
Merged(old, report) ==
    [seen |-> old.seen \/ \E f \in Fields : Gives[report][f] # Unset,
     count |-> [f \in Fields |-> IF Gives[report][f] = Unset THEN old.count[f]
                                                             ELSE Gives[report][f]]]

\* The JSON value at the only one of these places, if that is what is there.
OnlyValue(all, places) ==
    {report \in Reports : \E i \in places : places = {i} /\ all[i] = report}

\* mergeAnthropicEnvelope: data that is not one JSON value, alone or among
\* line breaks, changes nothing.
MergeEnvelope(data, usage) ==
    LET value == OnlyValue(data, {i \in DOMAIN data : data[i] # LF})
    IN  IF value = {} THEN usage ELSE Merged(usage, CHOOSE report \in value : TRUE)

-----------------------------------------------------------------------------
(* anthropicResponseScanner                                                *)

NewScanner ==
    [text |-> <<>>, overflow |-> FALSE,                    \* jsonBody, errorBody
     line |-> <<>>, data |-> <<>>, dropped |-> FALSE, hasData |-> FALSE,
     afterCR |-> FALSE, usage |-> NoUsage]

EndEvent(s) ==
    [s EXCEPT !.usage = IF s.hasData /\ ~s.dropped THEN MergeEnvelope(s.data, s.usage)
                                                   ELSE s.usage,
              !.line = <<>>, !.data = <<>>, !.dropped = FALSE, !.hasData = FALSE]

AddData(s, data) ==
    LET joined == IF s.hasData THEN Append(s.data, LF) \o data ELSE data
    IN  IF Len(joined) > MaxEvent
        THEN [s EXCEPT !.data = <<>>, !.dropped = TRUE]
        ELSE [s EXCEPT !.data = joined, !.hasData = TRUE]

EndLine(s) ==
    IF s.line = <<>> THEN EndEvent(s)
    ELSE LET read == IF ~s.dropped /\ s.line[1] = DATA THEN AddData(s, Tail(s.line)) ELSE s
         IN  [read EXCEPT !.line = <<>>]

\* Mutant of AddSymbol: every CR and every LF ends a line.
EveryBreakEnds(s, c) ==
    IF c \in {CR, LF} THEN EndLine(s)
    ELSE IF Len(s.line) < MaxEvent THEN [s EXCEPT !.line = Append(@, c)]
    ELSE [s EXCEPT !.dropped = TRUE]

\* One byte of an SSE body: the LF of a CR LF pair ends nothing, in whichever
\* chunk it arrives.
AddSymbol(s, c) ==
    LET at == [s EXCEPT !.afterCR = FALSE]
    IN  CASE s.afterCR /\ c = LF -> at
          [] c = CR              -> [EndLine(at) EXCEPT !.afterCR = TRUE]
          [] c = LF /\ ~s.afterCR -> EndLine(at)
          [] OTHER -> IF Len(at.line) < MaxEvent
                      THEN [at EXCEPT !.line = Append(@, c)]
                      ELSE [at EXCEPT !.dropped = TRUE]

\* A JSON body over its limit is dropped as a whole.
KeepJSON(s, chunk) ==
    IF s.overflow THEN s
    ELSE IF Len(s.text) + Len(chunk) > MaxJSON
         THEN [s EXCEPT !.text = <<>>, !.overflow = TRUE]
         ELSE [s EXCEPT !.text = @ \o chunk]

\* Of an error body, what its limit leaves room for.
KeepError(s, chunk) ==
    [s EXCEPT !.text = @ \o SubSeq(chunk, 1, IF Len(chunk) < MaxError - Len(@)
                                             THEN Len(chunk) ELSE MaxError - Len(@))]

\* The symbols of one read, in their order.
AddAll(s, chunk) ==
    LET read[i \in 0..Len(chunk)] ==
            IF i = 0 THEN s ELSE AddSymbol(read[i - 1], chunk[i])
    IN  read[Len(chunk)]

OK == response.status = 200

Write(s, chunk) ==
    CASE response.status = 400 -> KeepError(s, chunk)
      [] OK /\ ~response.sse   -> KeepJSON(s, chunk)
      [] OK /\ response.sse    -> AddAll(s, chunk)
      [] OTHER                 -> s

\* finish: a last line without its break still counts.
Finished(s) ==
    LET lined == IF s.line # <<>> THEN EndLine(s) ELSE s
        ended == IF lined.hasData \/ lined.dropped THEN EndEvent(lined) ELSE lined
    IN  CASE OK /\ response.sse -> ended.usage
          [] OK /\ ~response.sse /\ ~s.overflow -> MergeEnvelope(s.text, NoUsage)
          [] OTHER -> NoUsage

-----------------------------------------------------------------------------
(* ModifyResponse and the body the proxy reads                             *)

Statuses == {200, 400, 413, 500}

Observed ==
    /\ response.anthropic /\ ~response.encoded /\ response.status \in {200, 400}

Init ==
    /\ response \in [status : Statuses, sse : BOOLEAN, encoded : BOOLEAN,
                     anthropic : BOOLEAN, session : BOOLEAN]
    /\ body = <<>> /\ scanner = NewScanner /\ reading = "open"
    /\ noted = IF response.anthropic /\ response.status = 413 /\ response.session
               THEN <<CacheDead>> ELSE <<>>
    /\ notified = <<>>

Symbols ==
    IF response.status = 200
    THEN IF response.sse THEN {CR, LF, DATA} \union Reports ELSE Reports \union {Text}
    ELSE {Refusal, Text}

\* Read returns a chunk.
Read ==
    /\ reading = "open"
    /\ \E n \in 1..MaxChunk : \E chunk \in [1..n -> Symbols] :
          /\ Len(body) + n <= MaxBody
          /\ body' = body \o chunk
          /\ scanner' = IF Observed THEN Write(scanner, chunk) ELSE scanner
    /\ UNCHANGED <<response, reading, noted, notified>>

\* accountAnthropicResponse: usage that is missing is not usage of zero.
Outcome ==
    LET usage == Finished(scanner)
    IN  IF OK /\ usage.seen THEN <<CacheOutcome(usage)>>
        ELSE IF response.status = 400 /\ \E i \in DOMAIN scanner.text : scanner.text[i] = Refusal
             THEN <<CacheDead>>
             ELSE <<>>

\* Read returns io.EOF: the observer, or the plain completion, is run.
EndOfFile ==
    /\ reading = "open"
    /\ reading' = "ended"
    /\ noted' = IF Observed /\ response.session THEN noted \o Outcome ELSE noted
    /\ notified' = Append(notified, IF Observed THEN Finished(scanner) ELSE NoUsage)
    /\ UNCHANGED <<response, body, scanner>>

\* Mutant of Interrupted: closing the body runs the observer as well.
CloseCompletes ==
    /\ reading = "open"
    /\ reading' \in {"failed", "closed"}
    /\ notified' = Append(notified, Finished(scanner))
    /\ UNCHANGED <<response, body, scanner, noted>>

\* The upstream fails, or the client goes away: nothing is accounted.
Interrupted ==
    /\ reading = "open"
    /\ reading' \in {"failed", "closed"}
    /\ UNCHANGED <<response, body, scanner, noted, notified>>

Next == Read \/ EndOfFile \/ Interrupted

Spec == Init /\ [][Next]_vars

-----------------------------------------------------------------------------
(* The reference: the whole body at once, by the places of its symbols     *)

Breaks(all) == {i \in DOMAIN all : all[i] \in {CR, LF}}

\* No line ends at any place from i to j.
OneLine(all, i, j) == \A k \in i..j : k \notin Breaks(all)

LineStarts(all, i) == i = 1 \/ i - 1 \in Breaks(all)

SecondOfPair(all, i) == i > 1 /\ all[i - 1] = CR /\ all[i] = LF

EmptyLines(all) ==
    {i \in Breaks(all) : LineStarts(all, i) /\ ~SecondOfPair(all, i)}

\* The event that an empty line at "end" would end: the places since the
\* empty line before it.
Event(all, end) ==
    LET empty == EmptyLines(all)
    IN  {i \in DOMAIN all : i < end /\ \A e \in empty : e < end => e < i}

\* Where its data lines start.
DataLines(all, end) == {i \in Event(all, end) : LineStarts(all, i) /\ all[i] = DATA}

\* The places of its data, without the breaks that join the lines.
Payload(all, end) ==
    LET lines == DataLines(all, end)
    IN  {i \in Event(all, end) : \E j \in lines : j < i /\ OneLine(all, j, i)}

LinesFit(all, end) ==
    \A i \in Event(all, end) : i > MaxEvent => ~OneLine(all, i - MaxEvent, i)

DataFits(all, end) ==
    Cardinality(Payload(all, end)) + Cardinality(DataLines(all, end)) <= MaxEvent + 1

\* The JSON value an event within its limits is, if it is one.
Told(all, end) ==
    IF LinesFit(all, end) /\ DataFits(all, end)
    THEN OnlyValue(all, Payload(all, end)) ELSE {}

\* Of what the events with these ends told the last that sets a field counts.
SetsField(reports, field) == \E report \in reports : Gives[report][field] # Unset

LastSetting(told, field) ==
    {report \in Reports : \E end \in DOMAIN told :
        /\ report \in told[end] /\ Gives[report][field] # Unset
        /\ \A later \in DOMAIN told : later > end => ~SetsField(told[later], field)}

UsageTold(told) ==
    [seen  |-> \E end \in DOMAIN told, f \in Fields : SetsField(told[end], f),
     count |-> [f \in Fields |->
        IF LastSetting(told, f) = {} THEN 0
        ELSE Gives[CHOOSE report \in LastSetting(told, f) : TRUE][f]]]

ToldBy(all, ends) == [end \in ends |-> Told(all, end)]

\* The end of the body ends the last event as well.
UsageOf(all) ==
    IF response.sse THEN UsageTold(ToldBy(all, EmptyLines(all) \union {Len(all) + 1}))
    ELSE IF Len(all) <= MaxJSON THEN MergeEnvelope(all, NoUsage) ELSE NoUsage

-----------------------------------------------------------------------------
\* At most one outcome is noted and at most
\* one completion notified for a response, both only at a clean end (a 413
\* is noted when its headers arrive).
AccountedOnce ==
    /\ body \in Seq({CR, LF, DATA, Refusal, Text} \union Reports)
    /\ reading \in {"open", "failed", "closed", "ended"}
    /\ Len(noted) <= 1 /\ Len(notified) = (IF reading = "ended" THEN 1 ELSE 0)
    /\ noted # <<>> => reading = "ended" \/ response.status = 413

\* The session's cache is called dead only for a refusal of the request's
\* size, found in the part of the body that is kept.
DeadIsARefusal ==
    noted = <<CacheDead>> =>
        \/ response.status = 413
        \/ /\ response.status = 400
           /\ \E i \in DOMAIN body : i <= MaxError /\ body[i] = Refusal

\* Every response has at most one outcome, at its clean end, and a refusal of
\* its size is the only one that calls the cache dead.
OutcomeJustified == AccountedOnce /\ DeadIsARefusal

\* The usage noted and notified is the usage of the body taken whole: lines
\* end at CR, LF or CR LF however the body was cut, the fields of the last
\* event that set them win, an event or a body over its limit counts for
\* nothing, and a response that says nothing of usage is never noted.
UsageIsOfTheBody ==
    reading = "ended" /\ Observed /\ OK =>
        LET usage == UsageOf(body)
        IN  /\ notified = <<usage>>
            /\ noted = IF response.session /\ usage.seen THEN <<CacheOutcome(usage)>> ELSE <<>>
=============================================================================
