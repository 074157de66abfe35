-------------------------- MODULE ResponseScanProofs --------------------------
(***************************************************************************)
(* The accounting of a response, proved for every body, every cut of it    *)
(* into reads and every limit.                                             *)
(*                                                                         *)
(* The argument is by places of the body.  What the scanner holds is a     *)
(* function of what was read so far (StreamInv): the usage is that of the  *)
(* events whose empty line was read; the line and the data, or that they   *)
(* were dropped, are those of the event that has not ended.  One symbol    *)
(* keeps it so (SymbolAdded); so a read does, however long (ChunkAdded),   *)
(* and nothing depends on where the network cut the body.  At the end of   *)
(* the body, finish ends the event that is left (StreamFinished).          *)
(***************************************************************************)
EXTENDS ResponseScan, FiniteSetTheorems, SequenceTheorems, WellFoundedInduction, TLAPS

(* What a body is made of. *)
AllSymbols == {CR, LF, DATA, Refusal, Text} \union Reports

(* What no line ends with. *)
Inside == AllSymbols \ {CR, LF}

(* The last line begins after b. *)
LastBreak(all, b) == (b = 0 \/ b \in Breaks(all)) /\ \A k \in Breaks(all) : k <= b

(* The line the scanner holds is what came after b, up to the limit. *)
LineIs(all, b, line) ==
  /\ line \in Seq(Inside)
  /\ Len(line) = IF Len(all) - b <= MaxEvent THEN Len(all) - b ELSE MaxEvent
  /\ \A i \in 1 .. Len(line) : line[i] = all[b + i]

(* The symbols of an event's data, and one for each line of it: what the     *)
(* joined data and its breaks come to, plus one.                             *)
SizeOf(all, at) == Cardinality(Payload(all, at)) + Cardinality(DataLines(all, at))

(* Data without the breaks between its lines. *)
NotBreaks(data) == {i \in DOMAIN data : data[i] # LF}

(* The scanner holds the data of the event that the empty line at "end"      *)
(* would end, of its lines before "at"; or it was dropped, because a line or *)
(* the data is over the limit.                                               *)
DataIs(all, at, end, s) ==
  /\ s.dropped <=> ~LinesFit(all, end) \/ SizeOf(all, at) > MaxEvent + 1
  /\ ~s.dropped =>
       /\ s.data \in Seq(AllSymbols)
       /\ s.hasData <=> DataLines(all, at) # {}
       /\ Len(s.data) + (IF s.hasData THEN 1 ELSE 0) = SizeOf(all, at)
       /\ NotBreaks(s.data) = {} <=> Payload(all, at) = {}
       /\ OnlyValue(s.data, NotBreaks(s.data)) = OnlyValue(all, Payload(all, at))

(* The scanner is in step with what was read: the usage is of the events     *)
(* that ended, and the line and the data are of the event that did not.      *)
StreamInv(all, s) ==
  /\ s.afterCR <=> Len(all) > 0 /\ all[Len(all)] = CR
  /\ s.usage = UsageTold(ToldBy(all, EmptyLines(all)))
  /\ \E b \in 0 .. Len(all) :
       /\ LastBreak(all, b) /\ LineIs(all, b, s.line)
       /\ DataIs(all, b + 1, Len(all) + 1, s)

(* Of a JSON body it holds the whole, or that it was too long. *)
ScanInv ==
  Observed /\ OK =>
    IF response.sse THEN StreamInv(body, scanner)
    ELSE IF scanner.overflow THEN Len(body) > MaxJSON
         ELSE Len(body) <= MaxJSON /\ scanner.text = body

(* Induction up to a bound. *)
LEMMA UpTo ==
  ASSUME NEW n \in Nat, NEW T, 0 \in T, \A i \in 1 .. n : i - 1 \in T => i \in T
  PROVE  n \in T
<1> SUFFICES ASSUME n \notin T PROVE FALSE
  OBVIOUS
<1> DEFINE U == {i \in 0 .. n : i \notin T}
<1>1. PICK m \in U : \A y \in U : ~ (<<y, m>> \in OpToRel(<, Nat))
  <2>1. U \subseteq Nat /\ n \in U
    OBVIOUS
  <2> HIDE DEF U
  <2> QED
    BY <2>1, NatLessThanWellFounded, WFMin
<1>2. m \in 1 .. n /\ m - 1 \in 0 .. n /\ m - 1 < m /\ m - 1 \in Nat /\ m \in Nat
  OBVIOUS
<1>3. m - 1 \notin U
  BY <1>1, <1>2 DEF OpToRel
<1> QED
  BY <1>2, <1>3

-----------------------------------------------------------------------------
(* Places.                                                                   *)

(* A body that may have been read. *)
Body(all) == all \in Seq(AllSymbols)

(* A break is no other symbol. *)
LEMMA BreakApart ==
  /\ CR # LF /\ DATA # CR /\ DATA # LF
  /\ \A report \in Reports : report # CR /\ report # LF /\ report # DATA
BY ScanAssumption

(* The longer body begins as the shorter one. *)
Begins(all, more) ==
  /\ Body(all) /\ Body(more) /\ Len(all) <= Len(more)
  /\ \A i \in 1 .. Len(all) : more[i] = all[i]

(* What stands within the shorter body is a break there or not, in both. *)
LEMMA BreaksOfMore ==
  ASSUME NEW all, NEW more, Begins(all, more)
  PROVE  /\ \A i \in 1 .. Len(all) : i \in Breaks(more) <=> i \in Breaks(all)
         /\ \A i \in 1 .. Len(all) + 1 : LineStarts(more, i) <=> LineStarts(all, i)
         /\ \A i \in 1 .. Len(all) : SecondOfPair(more, i) <=> SecondOfPair(all, i)
BY DEF Begins, Body, Breaks, LineStarts, SecondOfPair

(* And an empty line there or not, in both. *)
LEMMA EmptyOfMore ==
  ASSUME NEW all, NEW more, Begins(all, more)
  PROVE  \A i \in 1 .. Len(all) : i \in EmptyLines(more) <=> i \in EmptyLines(all)
<1>1. Len(all) \in Nat
  BY DEF Begins, Body
<1> QED
  BY <1>1, BreaksOfMore DEF EmptyLines

(* Breaks and empty lines are places of the body. *)
LEMMA EmptyIn ==
  ASSUME NEW all, Body(all)
  PROVE  EmptyLines(all) \subseteq 1 .. Len(all) /\ Breaks(all) \subseteq 1 .. Len(all)
BY DEF EmptyLines, Breaks, Body

(* An event that ends within the shorter body is the same in both. *)
LEMMA EventOfMore ==
  ASSUME NEW all, NEW more, Begins(all, more), NEW end \in 1 .. Len(all) + 1
  PROVE  Event(more, end) = Event(all, end)
<1>1. Len(all) \in Nat /\ Len(more) \in Nat /\ Len(all) <= Len(more)
      /\ DOMAIN all = 1 .. Len(all) /\ DOMAIN more = 1 .. Len(more)
  BY DEF Begins, Body
<1>2. EmptyLines(more) \subseteq 1 .. Len(more) /\ EmptyLines(all) \subseteq 1 .. Len(all)
  BY EmptyIn DEF Begins
<1>3. \A e \in Nat : e < end => (e \in EmptyLines(more) <=> e \in EmptyLines(all))
  BY <1>1, <1>2, EmptyOfMore
<1>4. \A i : i \in Event(more, end) <=>
               /\ i \in 1 .. Len(more) /\ i < end
               /\ \A e \in Nat : e < end /\ e \in EmptyLines(more) => e < i
  BY <1>1, <1>2 DEF Event
<1>5. \A i : i \in Event(all, end) <=>
               /\ i \in 1 .. Len(all) /\ i < end
               /\ \A e \in Nat : e < end /\ e \in EmptyLines(all) => e < i
  BY <1>1, <1>2 DEF Event
<1>6. \A i \in 1 .. Len(more) : i < end => i \in 1 .. Len(all)
  BY <1>1
<1>7. \A i : i \in Event(more, end) <=> i \in Event(all, end)
  BY <1>1, <1>3, <1>4, <1>5, <1>6
<1> QED
  BY <1>7

(* The places of an event are places before its end. *)
LEMMA EventBefore ==
  ASSUME NEW all, Body(all), NEW end \in 1 .. Len(all) + 1
  PROVE  /\ Event(all, end) \subseteq 1 .. Len(all)
         /\ \A i \in Event(all, end) : i < end
         /\ DataLines(all, end) \subseteq Event(all, end)
         /\ Payload(all, end) \subseteq Event(all, end)
BY DEF Event, DataLines, Payload, Body

(* Two places of the shorter body are on one line in both or in neither. *)
LEMMA OneLineOfMore ==
  ASSUME NEW all, NEW more, Begins(all, more), NEW i \in Int, i >= 1, NEW k \in 1 .. Len(all)
  PROVE  OneLine(more, i, k) <=> OneLine(all, i, k)
<1>1. Len(all) \in Nat
  BY DEF Begins, Body
<1>2. \A j \in i .. k : j \in 1 .. Len(all)
  BY <1>1
<1> QED
  BY <1>2, BreaksOfMore DEF OneLine

(* What an event of the shorter body says does not change as it grows. *)
LEMMA DataOfMore ==
  ASSUME NEW all, NEW more, Begins(all, more), NEW end \in 1 .. Len(all) + 1
  PROVE  DataLines(more, end) = DataLines(all, end) /\ Payload(more, end) = Payload(all, end)
<1>1. Event(more, end) = Event(all, end)
  BY EventOfMore
<1>2. Event(all, end) \subseteq 1 .. Len(all) /\ Len(all) \in Nat
  BY EventBefore DEF Begins, Body
<1>3. \A i \in 1 .. Len(all) : more[i] = all[i] /\ i \in 1 .. Len(all) + 1
  BY <1>2 DEF Begins
<1>4. DataLines(more, end) = DataLines(all, end)
  BY <1>1, <1>2, <1>3, BreaksOfMore DEF DataLines
<1>5. \A j, i \in 1 .. Len(all) : OneLine(more, j, i) <=> OneLine(all, j, i)
  BY <1>2, OneLineOfMore
<1>6. DataLines(all, end) \subseteq 1 .. Len(all)
  BY <1>2 DEF DataLines
<1>7. Payload(more, end) = Payload(all, end)
  BY <1>1, <1>2, <1>4, <1>5, <1>6 DEF Payload
<1> QED
  BY <1>4, <1>7

(* Nor does whether its lines are within the limit. *)
LEMMA LinesFitMore ==
  ASSUME NEW all, NEW more, Begins(all, more), NEW end \in 1 .. Len(all) + 1
  PROVE  LinesFit(more, end) <=> LinesFit(all, end)
<1>1. Event(more, end) = Event(all, end)
  BY EventOfMore
<1>2. Event(all, end) \subseteq 1 .. Len(all) /\ Len(all) \in Nat
  BY EventBefore DEF Begins, Body
<1>3. \A i \in 1 .. Len(all) : i > MaxEvent =>
        (OneLine(more, i - MaxEvent, i) <=> OneLine(all, i - MaxEvent, i))
  BY <1>2, OneLineOfMore, ScanAssumption
<1> QED
  BY <1>1, <1>2, <1>3 DEF LinesFit

(* So what it told stays told. *)
LEMMA ToldOfMore ==
  ASSUME NEW all, NEW more, Begins(all, more), NEW end \in 1 .. Len(all) + 1
  PROVE  Told(more, end) = Told(all, end)
<1>1. DataLines(more, end) = DataLines(all, end)
  BY DataOfMore
<1>2. Payload(more, end) = Payload(all, end)
  BY DataOfMore
<1>3. LinesFit(more, end) <=> LinesFit(all, end)
  BY LinesFitMore
<1>4. Payload(all, end) \subseteq 1 .. Len(all)
  BY EventBefore DEF Begins
<1>5. \A i \in Payload(all, end) : more[i] = all[i]
  BY <1>4 DEF Begins
<1>6. OnlyValue(more, Payload(all, end)) = OnlyValue(all, Payload(all, end))
  BY <1>5 DEF OnlyValue
<1> QED
  BY <1>1, <1>2, <1>3, <1>6 DEF Told, DataFits

(* What was told of events that are over is not told otherwise later. *)
LEMMA ToldByMore ==
  ASSUME NEW all, NEW more, Begins(all, more), NEW ends, ends \subseteq 1 .. Len(all) + 1
  PROVE  ToldBy(more, ends) = ToldBy(all, ends)
<1>1. \A end \in ends : Told(more, end) = Told(all, end)
  BY ToldOfMore
<1> QED
  BY <1>1 DEF ToldBy

-----------------------------------------------------------------------------
(* What a body grows by.                                                     *)

(* A body with one more symbol begins as it did. *)
LEMMA BeginsItself ==
  ASSUME NEW all, Body(all), NEW c \in AllSymbols
  PROVE  /\ Begins(all, Append(all, c)) /\ Body(Append(all, c))
         /\ Len(Append(all, c)) = Len(all) + 1 /\ Append(all, c)[Len(all) + 1] = c
         /\ Len(all) \in Nat
BY DEF Begins, Body

(* The breaks grow by the symbol, when it is one. *)
LEMMA BreaksGrow ==
  ASSUME NEW all, Body(all), NEW c \in AllSymbols
  PROVE  Breaks(Append(all, c)) = Breaks(all) \union {i \in {Len(all) + 1} : c \in {CR, LF}}
<1> DEFINE more == Append(all, c)
<1>1. /\ Begins(all, more) /\ Body(more) /\ Len(more) = Len(all) + 1
      /\ more[Len(all) + 1] = c /\ Len(all) \in Nat
  BY BeginsItself
<1> HIDE DEF more
<1>2. Breaks(more) \subseteq 1 .. Len(all) + 1 /\ Breaks(all) \subseteq 1 .. Len(all)
  BY <1>1, EmptyIn
<1>3. Len(all) + 1 \in Breaks(more) <=> c \in {CR, LF}
  BY <1>1 DEF Breaks, Body
<1>4. \A i \in 1 .. Len(all) + 1 :
        i \in Breaks(more) <=> i \in Breaks(all) \/ (i = Len(all) + 1 /\ c \in {CR, LF})
  BY <1>1, <1>2, <1>3, BreaksOfMore
<1>5. Breaks(more) = Breaks(all) \union {i \in {Len(all) + 1} : c \in {CR, LF}}
  BY <1>1, <1>2, <1>4
<1> QED
  BY <1>5 DEF more

(* The symbol that ends a line with nothing in it. *)
EndsEmptyLine(all, c) ==
  /\ c \in {CR, LF}
  /\ Len(all) = 0 \/ all[Len(all)] \in {CR, LF}
  /\ ~(Len(all) > 0 /\ all[Len(all)] = CR /\ c = LF)

(* The empty lines grow by the symbol, when it ends one. *)
LEMMA EmptyGrow ==
  ASSUME NEW all, Body(all), NEW c \in AllSymbols
  PROVE  EmptyLines(Append(all, c)) =
           EmptyLines(all) \union {i \in {Len(all) + 1} : EndsEmptyLine(all, c)}
<1> DEFINE more == Append(all, c)
           n == Len(all) + 1
<1>1. /\ Begins(all, more) /\ Body(more) /\ Len(more) = n
      /\ more[n] = c /\ Len(all) \in Nat
  BY BeginsItself
<1> HIDE DEF more
<1>2. EmptyLines(more) \subseteq 1 .. n /\ EmptyLines(all) \subseteq 1 .. Len(all)
  BY <1>1, EmptyIn
<1>3. n \in Breaks(more) <=> c \in {CR, LF}
  BY <1>1 DEF Breaks, Body
<1>4. Len(all) > 0 => more[n - 1] = all[Len(all)]
  BY <1>1 DEF Begins
<1>5. LineStarts(more, n) <=> Len(all) = 0 \/ all[Len(all)] \in {CR, LF}
  <2>1. Len(all) > 0 => (Len(all) \in Breaks(all) <=> all[Len(all)] \in {CR, LF})
    BY <1>1 DEF Breaks, Body
  <2>2. Len(all) > 0 => (Len(all) \in Breaks(more) <=> Len(all) \in Breaks(all))
    BY <1>1, BreaksOfMore
  <2>3. Len(all) = 0 => LineStarts(more, n)
    BY DEF LineStarts
  <2>4. Len(all) > 0 => (LineStarts(more, n) <=> Len(all) \in Breaks(more))
    BY <1>1 DEF LineStarts
  <2> QED
    BY <1>1, <2>1, <2>2, <2>3, <2>4
<1>6. SecondOfPair(more, n) <=> Len(all) > 0 /\ all[Len(all)] = CR /\ c = LF
  BY <1>1, <1>4 DEF SecondOfPair
<1>7. n \in EmptyLines(more) <=> EndsEmptyLine(all, c)
  BY <1>3, <1>5, <1>6 DEF EmptyLines, EndsEmptyLine
<1>8. \A i \in 1 .. n :
        i \in EmptyLines(more) <=> i \in EmptyLines(all) \/ (i = n /\ EndsEmptyLine(all, c))
  BY <1>1, <1>2, <1>7, EmptyOfMore
<1>9. EmptyLines(more) = EmptyLines(all) \union {i \in {n} : EndsEmptyLine(all, c)}
  BY <1>1, <1>2, <1>8
<1> QED
  BY <1>9 DEF more

(* After an empty line nothing of the next event is there yet. *)
LEMMA NothingYet ==
  ASSUME NEW all, Body(all), NEW c \in AllSymbols, EndsEmptyLine(all, c)
  PROVE  /\ Event(Append(all, c), Len(all) + 2) = {}
         /\ DataLines(Append(all, c), Len(all) + 2) = {}
         /\ Payload(Append(all, c), Len(all) + 2) = {}
         /\ LinesFit(Append(all, c), Len(all) + 2)
<1> DEFINE more == Append(all, c)
<1>1. Body(more) /\ Len(more) = Len(all) + 1 /\ Len(all) \in Nat
  BY BeginsItself
<1>2. Len(all) + 1 \in EmptyLines(more)
  BY EmptyGrow
<1> HIDE DEF more
<1>3. Event(more, Len(all) + 2) = {}
  BY <1>1, <1>2 DEF Event, Body
<1>4. DataLines(more, Len(all) + 2) = {} /\ Payload(more, Len(all) + 2) = {}
  BY <1>3 DEF DataLines, Payload
<1>5. LinesFit(more, Len(all) + 2)
  BY <1>3 DEF LinesFit
<1> QED
  BY <1>3, <1>4, <1>5 DEF more

(* Any other symbol is one more place of the event. *)
LEMMA EventGrows ==
  ASSUME NEW all, Body(all), NEW c \in AllSymbols, ~EndsEmptyLine(all, c)
  PROVE  Event(Append(all, c), Len(all) + 2) = Event(all, Len(all) + 1) \union {Len(all) + 1}
<1> DEFINE more == Append(all, c)
<1>1. Body(more) /\ Len(more) = Len(all) + 1 /\ Len(all) \in Nat
  BY BeginsItself
<1>2. EmptyLines(more) = EmptyLines(all) /\ EmptyLines(all) \subseteq 1 .. Len(all)
  <2>1. EmptyLines(more) = EmptyLines(all) \union {}
    BY EmptyGrow
  <2> QED
    BY <2>1, EmptyIn
<1> HIDE DEF more
<1>3. DOMAIN more = 1 .. Len(all) + 1 /\ DOMAIN all = 1 .. Len(all)
  BY <1>1 DEF Body
<1>4. \A i : i \in Event(more, Len(all) + 2) <=>
               i \in 1 .. Len(all) + 1 /\ \A e \in EmptyLines(all) : e < i
  BY <1>1, <1>2, <1>3 DEF Event
<1>5. \A i : i \in Event(all, Len(all) + 1) <=>
               i \in 1 .. Len(all) /\ \A e \in EmptyLines(all) : e < i
  BY <1>1, <1>2, <1>3 DEF Event
<1>6. \A i : i \in Event(more, Len(all) + 2) <=>
               i \in Event(all, Len(all) + 1) \/ i = Len(all) + 1
  BY <1>1, <1>2, <1>4, <1>5
<1> QED
  BY <1>6 DEF more

(* A break that ends no empty line adds nothing to the data.                 *)
LEMMA BreakAddsNothing ==
  ASSUME NEW all, Body(all), NEW c \in {CR, LF}, ~EndsEmptyLine(all, c)
  PROVE  /\ DataLines(Append(all, c), Len(all) + 2) = DataLines(all, Len(all) + 1)
         /\ Payload(Append(all, c), Len(all) + 2) = Payload(all, Len(all) + 1)
         /\ LinesFit(Append(all, c), Len(all) + 2) <=> LinesFit(all, Len(all) + 1)
<1> DEFINE more == Append(all, c)
           n == Len(all) + 1
<1>0. c \in AllSymbols
  BY DEF AllSymbols
<1>1. Begins(all, more) /\ Body(more) /\ Len(more) = n /\ more[n] = c /\ Len(all) \in Nat
  BY <1>0, BeginsItself
<1>2. Event(more, Len(all) + 2) = Event(all, n) \union {n}
  BY <1>0, EventGrows
<1>3. n \in Breaks(more)
  BY <1>0, BreaksGrow
<1> HIDE DEF more
<1>4. Event(all, n) \subseteq 1 .. Len(all)
  BY <1>1, EventBefore
<1>5. \A i \in 1 .. Len(all) : more[i] = all[i]
  BY <1>1 DEF Begins
<1>6. \A i \in 1 .. Len(all) : LineStarts(more, i) <=> LineStarts(all, i)
  BY <1>1, BreaksOfMore
<1>7. more[n] # DATA
  BY <1>1, BreakApart
<1>8. DataLines(more, Len(all) + 2) = DataLines(all, n)
  BY <1>2, <1>4, <1>5, <1>6, <1>7 DEF DataLines
<1>9. \A j, i \in 1 .. Len(all) : OneLine(more, j, i) <=> OneLine(all, j, i)
  BY <1>1, OneLineOfMore
<1>10. \A j \in Int : j <= n => ~OneLine(more, j, n)
  BY <1>1, <1>3 DEF OneLine
<1>11. DataLines(all, n) \subseteq 1 .. Len(all)
  BY <1>4 DEF DataLines
<1>12. Payload(more, Len(all) + 2) = Payload(all, n)
  <2>1. \A i \in 1 .. Len(all) : (\E j \in DataLines(all, n) : j < i /\ OneLine(more, j, i))
                             <=> (\E j \in DataLines(all, n) : j < i /\ OneLine(all, j, i))
    BY <1>9, <1>11
  <2>2. ~\E j \in DataLines(all, n) : j < n /\ OneLine(more, j, n)
    BY <1>10, <1>11
  <2>3. Payload(more, Len(all) + 2) =
          {i \in Event(more, Len(all) + 2) :
              \E j \in DataLines(all, n) : j < i /\ OneLine(more, j, i)}
    BY <1>8 DEF Payload
  <2>4. Payload(all, n) =
          {i \in Event(all, n) : \E j \in DataLines(all, n) : j < i /\ OneLine(all, j, i)}
    BY DEF Payload
  <2> QED
    BY <1>2, <1>4, <2>1, <2>2, <2>3, <2>4
<1>13. LinesFit(more, Len(all) + 2) <=> LinesFit(all, n)
  <2>1. \A i \in 1 .. Len(all) : i > MaxEvent =>
          (OneLine(more, i - MaxEvent, i) <=> OneLine(all, i - MaxEvent, i))
    BY <1>1, OneLineOfMore, ScanAssumption
  <2>2. ~OneLine(more, n - MaxEvent, n)
    BY <1>1, <1>10, ScanAssumption
  <2> QED
    BY <1>2, <1>4, <2>1, <2>2 DEF LinesFit
<1> QED
  BY <1>8, <1>12, <1>13 DEF more

(* What stands after the last break is on one line. *)

(* A place of the last line is on one line with those after the last break. *)
LEMMA OneLineAfterBreak ==
  ASSUME NEW all, Body(all), NEW b \in 0 .. Len(all), LastBreak(all, b),
         NEW j \in 1 .. Len(all), NEW i \in b + 1 .. Len(all), j <= i
  PROVE  OneLine(all, j, i) <=> b < j
<1>1. Len(all) \in Nat /\ Breaks(all) \subseteq 1 .. Len(all)
  BY EmptyIn DEF Body
<1>2. CASE b < j
  <2>1. \A k \in j .. i : k \notin Breaks(all)
    BY <1>1, <1>2 DEF LastBreak
  <2> QED
    BY <1>2, <2>1 DEF OneLine
<1>3. CASE ~(b < j)
  <2>1. b \in j .. i /\ b \in Breaks(all)
    BY <1>1, <1>3 DEF LastBreak
  <2> QED
    BY <1>3, <2>1 DEF OneLine
<1> QED
  BY <1>2, <1>3

(* The symbols since the last break belong to the event that is not over.    *)
LEMMA EventAfter ==
  ASSUME NEW all, Body(all), NEW b \in 0 .. Len(all), LastBreak(all, b)
  PROVE  Event(all, Len(all) + 1) = Event(all, b + 1) \union b + 1 .. Len(all)
<1>1. Len(all) \in Nat /\ DOMAIN all = 1 .. Len(all)
  BY DEF Body
<1>2. \A e \in EmptyLines(all) : e \in 1 .. Len(all) /\ e <= b
  BY EmptyIn DEF LastBreak, EmptyLines
<1>3. \A i : i \in Event(all, Len(all) + 1) <=>
               i \in 1 .. Len(all) /\ \A e \in EmptyLines(all) : e < i
  BY <1>1, <1>2 DEF Event
<1>4. \A i : i \in Event(all, b + 1) <=>
               i \in 1 .. Len(all) /\ i < b + 1 /\ \A e \in EmptyLines(all) : e < i
  BY <1>1, <1>2 DEF Event
<1>5. \A i \in b + 1 .. Len(all) : i \in 1 .. Len(all) /\ \A e \in EmptyLines(all) : e < i
  BY <1>1, <1>2
<1>6. \A i \in 1 .. Len(all) : i < b + 1 \/ i \in b + 1 .. Len(all)
  BY <1>1
<1> QED
  BY <1>3, <1>4, <1>5, <1>6

(* The last line is one of the data lines, or none. *)
IsData(all, b) == b < Len(all) /\ all[b + 1] = DATA

(* The data lines are those up to the last break, and perhaps the last line. *)
LEMMA DataLinesAfter ==
  ASSUME NEW all, Body(all), NEW b \in 0 .. Len(all), LastBreak(all, b)
  PROVE  DataLines(all, Len(all) + 1) = DataLines(all, b + 1) \union {i \in {b + 1} : IsData(all, b)}
<1>1. Len(all) \in Nat /\ Breaks(all) \subseteq 1 .. Len(all)
  BY EmptyIn DEF Body
<1>2. Event(all, Len(all) + 1) = Event(all, b + 1) \union b + 1 .. Len(all)
  BY EventAfter
<1>3. LineStarts(all, b + 1)
  BY <1>1 DEF LineStarts, LastBreak
<1>4. \A i \in b + 2 .. Len(all) : ~LineStarts(all, i)
  BY <1>1 DEF LineStarts, LastBreak
<1>5. \A i \in b + 1 .. Len(all) :
        LineStarts(all, i) /\ all[i] = DATA <=> i = b + 1 /\ IsData(all, b)
  <2>1. \A i \in b + 1 .. Len(all) : i = b + 1 \/ i \in b + 2 .. Len(all)
    BY <1>1
  <2>2. \A i \in b + 2 .. Len(all) : i # b + 1
    BY <1>1
  <2>3. b + 1 \in b + 1 .. Len(all) => b < Len(all)
    BY <1>1
  <2> QED
    BY <1>3, <1>4, <2>1, <2>2, <2>3 DEF IsData
<1>6. IsData(all, b) => b + 1 \in b + 1 .. Len(all)
  BY <1>1 DEF IsData
<1> QED
  BY <1>2, <1>5, <1>6 DEF DataLines

(* The data is that up to the last break, and perhaps that of the last line. *)
LEMMA PayloadAfter ==
  ASSUME NEW all, Body(all), NEW b \in 0 .. Len(all), LastBreak(all, b)
  PROVE  Payload(all, Len(all) + 1) =
           Payload(all, b + 1) \union {i \in b + 2 .. Len(all) : IsData(all, b)}
<1> DEFINE n == Len(all) + 1
           InData(end, i) == \E j \in DataLines(all, end) : j < i /\ OneLine(all, j, i)
<1>1. Len(all) \in Nat
  BY DEF Body
<1>2. Event(all, n) = Event(all, b + 1) \union b + 1 .. Len(all)
  BY EventAfter
<1>3. DataLines(all, n) = DataLines(all, b + 1) \union {i \in {b + 1} : IsData(all, b)}
  BY DataLinesAfter
<1>4. \A i \in Event(all, b + 1) \union DataLines(all, b + 1) : i \in 1 .. Len(all) /\ i <= b
  BY <1>1, EventBefore
<1>5. \A i \in Event(all, b + 1) : InData(n, i) <=> InData(b + 1, i)
  BY <1>1, <1>3, <1>4
<1>6. \A i \in b + 1 .. Len(all) : InData(n, i) <=> i \in b + 2 .. Len(all) /\ IsData(all, b)
  <2> SUFFICES ASSUME NEW i \in b + 1 .. Len(all)
               PROVE  InData(n, i) <=> i \in b + 2 .. Len(all) /\ IsData(all, b)
    OBVIOUS
  <2>1. \A j \in DataLines(all, b + 1) : ~OneLine(all, j, i)
    <3> TAKE j \in DataLines(all, b + 1)
    <3>1. j \in 1 .. Len(all) /\ j <= b /\ j <= i
      BY <1>1, <1>4
    <3> QED
      BY <1>1, <3>1, OneLineAfterBreak
  <2>2. IsData(all, b) => (b + 1 < i => OneLine(all, b + 1, i))
    <3>1. b + 1 \in 1 .. Len(all) /\ b + 1 <= i /\ b < b + 1
      BY <1>1
    <3> QED
      BY <1>1, <3>1, OneLineAfterBreak
  <2>3. i \in b + 2 .. Len(all) <=> b + 1 < i
    BY <1>1
  <2>4. InData(n, i) <=> \E j \in {k \in {b + 1} : IsData(all, b)} : j < i /\ OneLine(all, j, i)
    BY <1>3, <2>1
  <2> QED
    BY <2>2, <2>3, <2>4
<1>7. Payload(all, n) = {i \in Event(all, n) : InData(n, i)}
      /\ Payload(all, b + 1) = {i \in Event(all, b + 1) : InData(b + 1, i)}
  BY DEF Payload
<1>8. \A i \in b + 2 .. Len(all) : i \in b + 1 .. Len(all)
  BY <1>1
<1> HIDE DEF InData
<1> QED
  BY <1>2, <1>5, <1>6, <1>7, <1>8

(* A line is too long as soon as it has more symbols than an event may have. *)
LEMMA LineFits ==
  ASSUME NEW all, Body(all), NEW b \in 0 .. Len(all), LastBreak(all, b),
         LinesFit(all, Len(all) + 1)
  PROVE  Len(all) - b <= MaxEvent
<1> SUFFICES ASSUME Len(all) - b > MaxEvent PROVE FALSE
  BY ScanAssumption DEF Body
<1> DEFINE n == Len(all)
           j == n - MaxEvent
<1>1. n \in Nat /\ MaxEvent \in Nat /\ MaxEvent > 0
  BY ScanAssumption DEF Body
<1>2. j \in 1 .. n /\ n \in b + 1 .. n /\ j <= n /\ b < j /\ n > MaxEvent
  BY <1>1
<1>3. OneLine(all, j, n)
  BY <1>2, OneLineAfterBreak
<1>4. n \in Event(all, n + 1)
  BY <1>2, EventAfter
<1> QED
  BY <1>2, <1>3, <1>4 DEF LinesFit

(* A symbol that is no break lengthens the last line, up to the limit. *)
LEMMA TextKeepsLines ==
  ASSUME NEW all, Body(all), NEW c \in Inside, NEW b \in 0 .. Len(all), LastBreak(all, b)
  PROVE  /\ EmptyLines(Append(all, c)) = EmptyLines(all)
         /\ LastBreak(Append(all, c), b)
         /\ LinesFit(Append(all, c), Len(all) + 2) <=>
              LinesFit(all, Len(all) + 1) /\ Len(all) - b < MaxEvent
<1> DEFINE more == Append(all, c)
           n == Len(all) + 1
<1>0. c \in AllSymbols /\ c \notin {CR, LF} /\ ~EndsEmptyLine(all, c)
  BY DEF Inside, EndsEmptyLine
<1>1. Begins(all, more) /\ Body(more) /\ Len(more) = n /\ more[n] = c /\ Len(all) \in Nat
  BY <1>0, BeginsItself
<1>2. Event(more, Len(all) + 2) = Event(all, n) \union {n}
  BY <1>0, EventGrows
<1>3. Breaks(more) = Breaks(all)
  <2>1. Breaks(more) = Breaks(all) \union {i \in {n} : c \in {CR, LF}}
    BY <1>0, BreaksGrow
  <2> QED
    BY <2>1, <1>0
<1>4. EmptyLines(more) = EmptyLines(all)
  <2>1. EmptyLines(more) = EmptyLines(all) \union {i \in {n} : EndsEmptyLine(all, c)}
    BY <1>0, EmptyGrow
  <2> QED
    BY <2>1, <1>0
<1>5. LastBreak(more, b)
  BY <1>3 DEF LastBreak
<1> HIDE DEF more
<1>6. MaxEvent \in Nat /\ MaxEvent > 0
  BY ScanAssumption
<1>7. n > MaxEvent => (OneLine(more, n - MaxEvent, n) <=> b < n - MaxEvent)
  <2> SUFFICES ASSUME n > MaxEvent PROVE OneLine(more, n - MaxEvent, n) <=> b < n - MaxEvent
    OBVIOUS
  <2>1. n - MaxEvent \in 1 .. Len(more) /\ n \in b + 1 .. Len(more) /\ n - MaxEvent <= n
        /\ b \in 0 .. Len(more)
    BY <1>1, <1>6
  <2> QED
    BY <1>1, <1>5, <2>1, OneLineAfterBreak
<1>8. n > MaxEvent /\ b < n - MaxEvent <=> ~(Len(all) - b < MaxEvent)
  BY <1>1, <1>6
<1>9. \A i \in Event(all, n) : i > MaxEvent =>
        (OneLine(more, i - MaxEvent, i) <=> OneLine(all, i - MaxEvent, i))
  BY <1>1, <1>6, EventBefore, OneLineOfMore
<1>10. LinesFit(more, Len(all) + 2) <=> LinesFit(all, n) /\ Len(all) - b < MaxEvent
  BY <1>2, <1>7, <1>8, <1>9 DEF LinesFit
<1> QED
  BY <1>4, <1>5, <1>10 DEF more

(* The sizes of an event before and with its last line. *)
LEMMA DataFinite ==
  ASSUME NEW all, Body(all), NEW end \in 1 .. Len(all) + 1
  PROVE  /\ IsFiniteSet(Payload(all, end)) /\ IsFiniteSet(DataLines(all, end))
         /\ Cardinality(Payload(all, end)) \in Nat /\ Cardinality(DataLines(all, end)) \in Nat
         /\ SizeOf(all, end) \in Nat
<1>1. Payload(all, end) \subseteq 1 .. Len(all) /\ DataLines(all, end) \subseteq 1 .. Len(all)
  BY EventBefore
<1>2. IsFiniteSet(1 .. Len(all))
  BY FS_Interval DEF Body
<1>3. IsFiniteSet(Payload(all, end)) /\ IsFiniteSet(DataLines(all, end))
  BY <1>1, <1>2, FS_Subset
<1>4. Cardinality(Payload(all, end)) \in Nat /\ Cardinality(DataLines(all, end)) \in Nat
  BY <1>3, FS_CardinalityType
<1> QED
  BY <1>3, <1>4 DEF SizeOf

(* The size of the data grows by the length of the last line, if that is     *)
(* data.                                                                     *)
LEMMA SizeAfter ==
  ASSUME NEW all, Body(all), NEW b \in 0 .. Len(all), LastBreak(all, b)
  PROVE  SizeOf(all, Len(all) + 1) =
           SizeOf(all, b + 1) + (IF IsData(all, b) THEN Len(all) - b ELSE 0)
<1> DEFINE n == Len(all)
           P == Payload(all, b + 1)
           D == DataLines(all, b + 1)
<1>1. n \in Nat /\ b + 1 \in 1 .. n + 1
  BY DEF Body
<1>2. IsFiniteSet(P) /\ IsFiniteSet(D) /\ Cardinality(P) \in Nat /\ Cardinality(D) \in Nat
  BY <1>1, DataFinite
<1>3. \A i \in P \union D : i < b + 1 /\ i \in Nat
  BY <1>1, EventBefore
<1>4. Payload(all, n + 1) = P \union {i \in b + 2 .. n : IsData(all, b)}
  BY PayloadAfter
<1>5. DataLines(all, n + 1) = D \union {i \in {b + 1} : IsData(all, b)}
  BY DataLinesAfter
<1> HIDE DEF P, D
<1>6. CASE ~IsData(all, b)
  <2>1. Payload(all, n + 1) = P /\ DataLines(all, n + 1) = D
    BY <1>4, <1>5, <1>6
  <2>2. SizeOf(all, n + 1) = SizeOf(all, b + 1)
    BY <2>1 DEF SizeOf, P, D
  <2>3. SizeOf(all, b + 1) \in Nat
    BY <1>1, DataFinite
  <2> QED
    BY <1>6, <2>2, <2>3
<1>7. CASE IsData(all, b)
  <2>1. Payload(all, n + 1) = P \union b + 2 .. n /\ DataLines(all, n + 1) = D \union {b + 1}
    BY <1>4, <1>5, <1>7
  <2>2. b + 1 \notin D
    BY <1>3
  <2>3. Cardinality(D \union {b + 1}) = Cardinality(D) + 1
    BY <1>2, <2>2, FS_AddElement
  <2>4. b < n
    BY <1>7 DEF IsData
  <2>5. IsFiniteSet(b + 2 .. n) /\ Cardinality(b + 2 .. n) = n - b - 1
    <3>1. b + 2 \in Int /\ n \in Int
      BY <1>1
    <3>2. Cardinality(b + 2 .. n) = IF b + 2 > n THEN 0 ELSE n - (b + 2) + 1
      BY <3>1, FS_Interval
    <3>3. IsFiniteSet(b + 2 .. n)
      BY <3>1, FS_Interval
    <3> QED
      BY <1>1, <2>4, <3>2, <3>3
  <2>6. P \intersect (b + 2 .. n) = {}
    BY <1>1, <1>3
  <2>7. Cardinality(P \union b + 2 .. n) = Cardinality(P) + Cardinality(b + 2 .. n)
    <3>1. Cardinality(P \intersect (b + 2 .. n)) = 0
      BY <2>6, FS_EmptySet
    <3>2. Cardinality(P \union b + 2 .. n) =
            Cardinality(P) + Cardinality(b + 2 .. n) - Cardinality(P \intersect (b + 2 .. n))
      BY <1>2, <2>5, FS_Union
    <3> QED
      BY <1>1, <1>2, <2>4, <2>5, <3>1, <3>2
  <2>8. SizeOf(all, n + 1) = Cardinality(P) + (n - b - 1) + (Cardinality(D) + 1)
    BY <2>1, <2>3, <2>5, <2>7 DEF SizeOf
  <2>9. SizeOf(all, b + 1) = Cardinality(P) + Cardinality(D)
    BY DEF SizeOf, P, D
  <2> QED
    BY <1>1, <1>2, <1>7, <2>4, <2>8, <2>9
<1> QED
  BY <1>6, <1>7

(* The only value of two groups of places is the only one of the group that  *)
(* has places.                                                               *)
LEMMA OnlyOfUnion ==
  ASSUME NEW all, NEW P, NEW Q, P \intersect Q = {}
  PROVE  OnlyValue(all, P \union Q) = IF Q = {} THEN OnlyValue(all, P)
                                      ELSE IF P = {} THEN OnlyValue(all, Q) ELSE {}
<1>1. CASE Q = {}
  <2>1. P \union Q = P
    BY <1>1
  <2> QED
    BY <1>1, <2>1
<1>2. CASE Q # {} /\ P = {}
  <2>1. P \union Q = Q
    BY <1>2
  <2> QED
    BY <1>2, <2>1
<1>3. CASE Q # {} /\ P # {}
  <2>1. \A i : P \union Q # {i}
    BY <1>3
  <2> QED
    BY <1>3, <2>1 DEF OnlyValue
<1> QED
  BY <1>1, <1>2, <1>3

-----------------------------------------------------------------------------
(* The scanner.                                                              *)

(* A scanner has its fields. *)
Scanner(s) ==
  /\ s = [text |-> s.text, overflow |-> s.overflow, line |-> s.line, data |-> s.data,
          dropped |-> s.dropped, hasData |-> s.hasData, afterCR |-> s.afterCR,
          usage |-> s.usage]
  /\ s.dropped \in BOOLEAN /\ s.hasData \in BOOLEAN /\ s.afterCR \in BOOLEAN

(* The fields of a scanner. *)
ScannerFields == {"text", "overflow", "line", "data", "dropped", "hasData", "afterCR", "usage"}

(* A scanner is a record of its fields. *)
LEMMA ScannerDomain ==
  ASSUME NEW s, Scanner(s)
  PROVE  DOMAIN s = ScannerFields /\ s = [x \in ScannerFields |-> s[x]]
BY DEF Scanner, ScannerFields

(* What EndEvent leaves of a scanner. *)
LEMMA EventEnded ==
  ASSUME NEW s, Scanner(s)
  PROVE  /\ Scanner(EndEvent(s))
         /\ EndEvent(s).line = <<>> /\ EndEvent(s).data = <<>>
         /\ ~EndEvent(s).dropped /\ ~EndEvent(s).hasData
         /\ EndEvent(s).afterCR = s.afterCR
         /\ EndEvent(s).usage = IF s.hasData /\ ~s.dropped THEN MergeEnvelope(s.data, s.usage)
                                                           ELSE s.usage
<1> DEFINE u == IF s.hasData /\ ~s.dropped THEN MergeEnvelope(s.data, s.usage) ELSE s.usage
<1>1. EndEvent(s) = [s EXCEPT !.usage = u, !.line = <<>>, !.data = <<>>,
                              !.dropped = FALSE, !.hasData = FALSE]
  BY DEF EndEvent
<1> HIDE DEF u
<1>2. /\ Scanner(EndEvent(s))
      /\ EndEvent(s).line = <<>> /\ EndEvent(s).data = <<>>
      /\ ~EndEvent(s).dropped /\ ~EndEvent(s).hasData
      /\ EndEvent(s).afterCR = s.afterCR
      /\ EndEvent(s).usage = u
  BY <1>1 DEF Scanner
<1> QED
  BY <1>2 DEF u

(* A line that holds no data is forgotten. *)
LEMMA LineForgotten ==
  ASSUME NEW s, Scanner(s), s.line # <<>>, s.dropped \/ s.line[1] # DATA
  PROVE  /\ Scanner(EndLine(s)) /\ EndLine(s).line = <<>>
         /\ EndLine(s).data = s.data /\ EndLine(s).dropped = s.dropped
         /\ EndLine(s).hasData = s.hasData /\ EndLine(s).afterCR = s.afterCR
         /\ EndLine(s).usage = s.usage
<1>1. EndLine(s) = [s EXCEPT !.line = <<>>]
  BY DEF EndLine
<1> QED
  BY <1>1 DEF Scanner

(* The data when the line, a data line, is added to it. *)
Joined(s) == IF s.hasData THEN Append(s.data, LF) \o Tail(s.line) ELSE Tail(s.line)

(* What EndLine leaves of it after a data line that has room. *)
LEMMA LineJoined ==
  ASSUME NEW s, Scanner(s), s.line # <<>>, ~s.dropped, s.line[1] = DATA,
         Joined(s) \in Seq(AllSymbols), Len(Joined(s)) <= MaxEvent
  PROVE  /\ Scanner(EndLine(s)) /\ EndLine(s).line = <<>>
         /\ EndLine(s).data = Joined(s) /\ ~EndLine(s).dropped
         /\ EndLine(s).hasData /\ EndLine(s).afterCR = s.afterCR
         /\ EndLine(s).usage = s.usage
<1>0. ~(Len(Joined(s)) > MaxEvent)
  BY ScanAssumption
<1>1. EndLine(s) = [[s EXCEPT !.data = Joined(s), !.hasData = TRUE] EXCEPT !.line = <<>>]
  BY <1>0 DEF EndLine, AddData, Joined
<1> QED
  BY <1>1 DEF Scanner

(* And after one that has none. *)
LEMMA LineDropped ==
  ASSUME NEW s, Scanner(s), s.line # <<>>, ~s.dropped, s.line[1] = DATA,
         Len(Joined(s)) > MaxEvent
  PROVE  /\ Scanner(EndLine(s)) /\ EndLine(s).line = <<>>
         /\ EndLine(s).dropped /\ EndLine(s).afterCR = s.afterCR
         /\ EndLine(s).usage = s.usage
<1>1. EndLine(s) = [[s EXCEPT !.data = <<>>, !.dropped = TRUE] EXCEPT !.line = <<>>]
  BY DEF EndLine, AddData, Joined
<1> QED
  BY <1>1 DEF Scanner

-----------------------------------------------------------------------------
(* The usage of one event more.                                              *)

(* Of the events with the ends E and of one more, which ends later.          *)
OneMore(E, q, told, more) ==
  /\ E \subseteq Nat /\ q \in Nat /\ \A e \in E : e < q
  /\ DOMAIN told = E /\ DOMAIN more = E \union {q} /\ \A e \in E : more[e] = told[e]

(* One more event that does not set a field leaves the last one that did. *)
LEMMA SettingKept ==
  ASSUME NEW E, NEW q, NEW told, NEW more, OneMore(E, q, told, more),
         NEW f, ~SetsField(more[q], f)
  PROVE  LastSetting(more, f) = LastSetting(told, f)
<1>1. \A end \in E :
        ((\A later \in E \union {q} : later > end => ~SetsField(more[later], f))
           <=> (\A later \in E : later > end => ~SetsField(told[later], f)))
  BY DEF OneMore
<1>2. \A report : report \in more[q] => Gives[report][f] = Unset
  BY DEF SetsField
<1>3. \A report \in Reports : report \in LastSetting(more, f) <=> report \in LastSetting(told, f)
  BY <1>1, <1>2 DEF LastSetting, OneMore
<1> QED
  BY <1>3 DEF LastSetting

(* One that does set it becomes the last one that did. *)
LEMMA SettingReplaced ==
  ASSUME NEW E, NEW q, NEW told, NEW more, OneMore(E, q, told, more),
         NEW report \in Reports, more[q] = {report},
         NEW f, Gives[report][f] # Unset
  PROVE  LastSetting(more, f) = {report}
<1>1. SetsField(more[q], f)
  BY DEF SetsField
<1>2. \A e \in E : q > e
  BY DEF OneMore
<1>3. \A later \in E \union {q} : ~(later > q)
  BY DEF OneMore
<1>4. report \in LastSetting(more, f)
  BY <1>3 DEF LastSetting, OneMore
<1>5. \A other \in LastSetting(more, f) : other = report
  BY <1>1, <1>2 DEF LastSetting, OneMore
<1> QED
  BY <1>4, <1>5

(* An event that tells nothing changes nothing. *)
LEMMA UsageKept ==
  ASSUME NEW E, NEW q, NEW told, NEW more, OneMore(E, q, told, more), more[q] = {}
  PROVE  UsageTold(more) = UsageTold(told)
<1>1. \A f : ~SetsField(more[q], f)
  BY DEF SetsField
<1>2. \A f \in Fields : LastSetting(more, f) = LastSetting(told, f)
  BY <1>1, SettingKept
<1>3. (\E end \in DOMAIN more, f \in Fields : SetsField(more[end], f))
        <=> (\E end \in DOMAIN told, f \in Fields : SetsField(told[end], f))
  BY <1>1 DEF OneMore
<1> DEFINE Count(t, f) == IF LastSetting(t, f) = {} THEN 0
                          ELSE Gives[CHOOSE r \in LastSetting(t, f) : TRUE][f]
           Seen(t) == \E end \in DOMAIN t, f \in Fields : SetsField(t[end], f)
<1>4. \A t : UsageTold(t) = [seen |-> Seen(t), count |-> [f \in Fields |-> Count(t, f)]]
  BY DEF UsageTold
<1>5. ASSUME NEW f \in Fields PROVE Count(more, f) = Count(told, f)
  <2>1. LastSetting(more, f) = LastSetting(told, f)
    BY <1>2
  <2> QED
    BY <2>1
<1>6. Seen(more) = Seen(told)
  BY <1>3
<1> HIDE DEF Count, Seen
<1> QED
  BY <1>4, <1>5, <1>6

(* So the usage told by one event more is the usage so far, merged with it. *)
LEMMA UsageMerged ==
  ASSUME NEW E, NEW q, NEW told, NEW more, OneMore(E, q, told, more),
         NEW report \in Reports, more[q] = {report}
  PROVE  UsageTold(more) = Merged(UsageTold(told), report)
<1> DEFINE Count(t, f) == IF LastSetting(t, f) = {} THEN 0
                          ELSE Gives[CHOOSE r \in LastSetting(t, f) : TRUE][f]
<1>1. \A f : SetsField(more[q], f) <=> Gives[report][f] # Unset
  BY DEF SetsField
<1>2. ASSUME NEW f \in Fields, Gives[report][f] = Unset PROVE Count(more, f) = Count(told, f)
  <2>1. LastSetting(more, f) = LastSetting(told, f)
    BY <1>1, <1>2, SettingKept
  <2> QED
    BY <2>1
<1>3. ASSUME NEW f \in Fields, Gives[report][f] # Unset PROVE Count(more, f) = Gives[report][f]
  <2>1. LastSetting(more, f) = {report}
    BY <1>3, SettingReplaced
  <2> QED
    BY <2>1
<1>4. (\E end \in DOMAIN more, f \in Fields : SetsField(more[end], f))
        <=> \/ \E end \in DOMAIN told, f \in Fields : SetsField(told[end], f)
            \/ \E f \in Fields : Gives[report][f] # Unset
  BY <1>1 DEF OneMore
<1>5. UsageTold(more) =
        [seen  |-> \E end \in DOMAIN more, f \in Fields : SetsField(more[end], f),
         count |-> [f \in Fields |-> Count(more, f)]]
  BY DEF UsageTold
<1>6. UsageTold(told).count = [f \in Fields |-> Count(told, f)]
      /\ UsageTold(told).seen = \E end \in DOMAIN told, f \in Fields : SetsField(told[end], f)
  BY DEF UsageTold
<1> HIDE DEF Count
<1>7. [f \in Fields |-> Count(more, f)] =
        [f \in Fields |-> IF Gives[report][f] = Unset THEN UsageTold(told).count[f]
                                                      ELSE Gives[report][f]]
  BY <1>2, <1>3, <1>6
<1> QED
  BY <1>4, <1>5, <1>6, <1>7 DEF Merged

(* There is at most one only value. *)
LEMMA OneValue ==
  ASSUME NEW all, NEW P, OnlyValue(all, P) # {}
  PROVE  \E report \in Reports : OnlyValue(all, P) = {report}
<1>1. PICK report \in OnlyValue(all, P) : TRUE
  OBVIOUS
<1>2. report \in Reports
  BY <1>1 DEF OnlyValue
<1>3. \A other \in OnlyValue(all, P) : other = report
  BY <1>1 DEF OnlyValue
<1> QED
  BY <1>1, <1>2, <1>3

(* Data that is no JSON value is not merged. *)
LEMMA NothingMerged ==
  ASSUME NEW data, NEW usage, OnlyValue(data, NotBreaks(data)) = {}
  PROVE  MergeEnvelope(data, usage) = usage
BY DEF MergeEnvelope, NotBreaks

(* Data that is one is merged. *)
LEMMA ValueMerged ==
  ASSUME NEW data, NEW usage, NEW report, OnlyValue(data, NotBreaks(data)) = {report}
  PROVE  MergeEnvelope(data, usage) = Merged(usage, report)
<1>1. (CHOOSE r \in {report} : TRUE) = report
  OBVIOUS
<1> DEFINE value == OnlyValue(data, NotBreaks(data))
<1>2. MergeEnvelope(data, usage) =
        IF value = {} THEN usage ELSE Merged(usage, CHOOSE r \in value : TRUE)
  BY DEF MergeEnvelope, NotBreaks
<1>3. value = {report} /\ value # {}
  OBVIOUS
<1> HIDE DEF value
<1> QED
  BY <1>1, <1>2, <1>3

(* What the scanner makes of an event that ends.                             *)
LEMMA EventTold ==
  ASSUME NEW all, Body(all), NEW end \in 1 .. Len(all) + 1,
         NEW s, Scanner(s), DataIs(all, end, end, s),
         NEW E, E \subseteq Nat, \A e \in E : e < end,
         s.usage = UsageTold(ToldBy(all, E))
  PROVE  /\ EndEvent(s).usage = UsageTold(ToldBy(all, E \union {end}))
         /\ ~s.hasData /\ ~s.dropped => s.usage = UsageTold(ToldBy(all, E \union {end}))
<1> DEFINE told == ToldBy(all, E)
           more == ToldBy(all, E \union {end})
           used == IF s.hasData /\ ~s.dropped THEN MergeEnvelope(s.data, s.usage) ELSE s.usage
<1>1. OneMore(E, end, told, more) /\ more[end] = Told(all, end)
  BY DEF OneMore, ToldBy, Body
<1>2. EndEvent(s).usage = used
  BY EventEnded
<1>3. s.usage = UsageTold(told)
  OBVIOUS
<1> HIDE DEF told, more
<1>4. DataFits(all, end) <=> ~(SizeOf(all, end) > MaxEvent + 1)
  BY DataFinite, ScanAssumption DEF DataFits, SizeOf
<1>5. CASE s.dropped
  <2>1. Told(all, end) = {}
    BY <1>4, <1>5 DEF Told, DataIs
  <2>2. UsageTold(more) = UsageTold(told)
    BY <1>1, <2>1, UsageKept
  <2> QED
    BY <1>2, <1>3, <1>5, <2>2 DEF more
<1>6. CASE ~s.dropped /\ ~s.hasData
  <2>1. DataLines(all, end) = {}
    BY <1>6 DEF DataIs
  <2>2. Payload(all, end) = {}
    BY <2>1 DEF Payload
  <2>3. Told(all, end) = {}
    BY <2>2 DEF Told, OnlyValue
  <2>4. UsageTold(more) = UsageTold(told)
    BY <1>1, <2>3, UsageKept
  <2> QED
    BY <1>2, <1>3, <1>6, <2>4 DEF more
<1>7. CASE ~s.dropped /\ s.hasData
  <2>1. LinesFit(all, end) /\ DataFits(all, end)
    BY <1>4, <1>7 DEF DataIs
  <2>2. Told(all, end) = OnlyValue(s.data, NotBreaks(s.data))
    BY <1>7, <2>1 DEF DataIs, Told
  <2>3. used = MergeEnvelope(s.data, s.usage)
    BY <1>7
  <2> HIDE DEF used
  <2>4. CASE Told(all, end) = {}
    <3>1. UsageTold(more) = UsageTold(told)
      BY <1>1, <2>4, UsageKept
    <3>2. used = s.usage
      BY <2>2, <2>3, <2>4, NothingMerged
    <3> QED
      BY <1>2, <1>3, <1>7, <3>1, <3>2 DEF more
  <2>5. CASE Told(all, end) # {}
    <3>1. PICK report \in Reports : Told(all, end) = {report}
      BY <2>2, <2>5, OneValue
    <3>2. UsageTold(more) = Merged(UsageTold(told), report)
      BY <1>1, <3>1, UsageMerged
    <3>3. used = Merged(s.usage, report)
      BY <2>2, <2>3, <3>1, ValueMerged
    <3> QED
      BY <1>2, <1>3, <1>7, <3>2, <3>3 DEF more
  <2> QED
    BY <2>4, <2>5
<1> QED
  BY <1>5, <1>6, <1>7

-----------------------------------------------------------------------------
(* The end of a line.                                                        *)

(* The symbols of a line of data.                                            *)
LEMMA TailOfLine ==
  ASSUME NEW all, Body(all), NEW b \in 0 .. Len(all), NEW line, LineIs(all, b, line),
         b < Len(all), Len(all) - b <= MaxEvent
  PROVE  /\ line # <<>> /\ line[1] = all[b + 1] /\ Len(line) = Len(all) - b
         /\ Tail(line) \in Seq(Inside) /\ Len(Tail(line)) = Len(all) - b - 1
         /\ \A i \in 1 .. Len(Tail(line)) : Tail(line)[i] = all[b + 1 + i]
<1>1. line \in Seq(Inside) /\ Len(line) = Len(all) - b /\ Len(all) \in Nat /\ Len(line) >= 1
  BY DEF LineIs, Body
<1>2. line # <<>>
  BY <1>1
<1>3. line[1] = all[b + 1]
  BY <1>1 DEF LineIs
<1>4. Tail(line) \in Seq(Inside) /\ Len(Tail(line)) = Len(all) - b - 1
  BY <1>1, <1>2
<1>5. \A i \in 1 .. Len(Tail(line)) : Tail(line)[i] = line[i + 1]
  BY <1>1, <1>2, <1>4
<1>6. \A i \in 1 .. Len(Tail(line)) :
        i + 1 \in 1 .. Len(line) /\ b + (i + 1) = b + 1 + i
  BY <1>1, <1>4
<1>7. \A i \in 1 .. Len(line) : line[i] = all[b + i]
  BY DEF LineIs
<1>8. \A i \in 1 .. Len(Tail(line)) : Tail(line)[i] = all[b + 1 + i]
  BY <1>5, <1>6, <1>7
<1> QED
  BY <1>1, <1>2, <1>3, <1>4, <1>8

(* n places after a. *)
Run(a, n) == {a + k : k \in 1 .. n}

(* The places of joined data that hold no break. *)
LEMMA PlacesJoined ==
  ASSUME NEW data \in Seq(AllSymbols), NEW tail \in Seq(Inside)
  PROVE  NotBreaks(Append(data, LF) \o tail) =
           NotBreaks(data) \union Run(Len(data) + 1, Len(tail))
<1> DEFINE x == Append(data, LF) \o tail
           n == Len(data) + 1
<1>1. LF \in AllSymbols /\ tail \in Seq(AllSymbols)
  BY DEF AllSymbols, Inside
<1>2. x \in Seq(AllSymbols) /\ Len(x) = n + Len(tail) /\ Len(data) \in Nat /\ Len(tail) \in Nat
  BY <1>1
<1>3. \A i \in 1 .. Len(data) : x[i] = data[i]
  BY <1>1
<1>4. x[n] = LF
  BY <1>1
<1>5. \A i \in 1 .. Len(tail) : x[n + i] = tail[i]
  BY <1>1
<1>6. \A i \in 1 .. Len(tail) : tail[i] # LF
  BY DEF Inside
<1> HIDE DEF x
<1>7. \A i : i \in NotBreaks(x) <=> i \in 1 .. n + Len(tail) /\ x[i] # LF
  BY <1>2 DEF NotBreaks
<1>8. \A i : i \in NotBreaks(data) <=> i \in 1 .. Len(data) /\ data[i] # LF
  BY DEF NotBreaks
<1>9. \A i \in 1 .. n + Len(tail) :
        i \in 1 .. Len(data) \/ i = n \/ (i - n \in 1 .. Len(tail) /\ i = n + (i - n))
  BY <1>2
<1>10. ASSUME NEW i PROVE i \in NotBreaks(x) <=>
               i \in NotBreaks(data) \union {n + k : k \in 1 .. Len(tail)}
  <2>1. ASSUME i \in NotBreaks(x) PROVE i \in NotBreaks(data) \union {n + k : k \in 1 .. Len(tail)}
    BY <1>3, <1>4, <1>7, <1>8, <1>9, <2>1
  <2>2. ASSUME i \in NotBreaks(data) PROVE i \in NotBreaks(x)
    BY <1>2, <1>3, <1>7, <1>8, <2>2
  <2>3. ASSUME NEW k \in 1 .. Len(tail) PROVE n + k \in NotBreaks(x)
    <3>1. n + k \in 1 .. n + Len(tail)
      BY <1>2
    <3> QED
      BY <1>5, <1>6, <1>7, <3>1
  <2> QED
    BY <2>1, <2>2, <2>3
<1>11. NotBreaks(x) = NotBreaks(data) \union {n + k : k \in 1 .. Len(tail)}
  BY <1>10
<1> QED
  BY <1>11 DEF x, Run

(* The value of a run of n places whose first is i. *)
AloneAt(all, n, i) == {report \in Reports : n = 1 /\ all[i] = report}

(* A run of no places is empty. *)
LEMMA RunEmpty ==
  ASSUME NEW a \in Int, NEW n \in Nat
  PROVE  Run(a, n) = {} <=> n = 0
<1>1. n > 0 => a + 1 \in Run(a, n)
  BY DEF Run
<1>2. n = 0 => Run(a, n) = {}
  BY DEF Run
<1> QED
  BY <1>1, <1>2

(* A run of places has a value when it is a single place. *)
LEMMA OnlyOfRun ==
  ASSUME NEW all, NEW a \in Int, NEW n \in Nat
  PROVE  OnlyValue(all, Run(a, n)) = AloneAt(all, n, a + 1)
<1> DEFINE P == Run(a, n)
<1>1. n > 0 => a + 1 \in P
  BY DEF Run
<1>2. n > 1 => a + 2 \in P
  BY DEF Run
<1>3. n = 1 => P = {a + 1}
  BY DEF Run
<1>4. n = 0 => P = {}
  BY DEF Run
<1> HIDE DEF P
<1>5. \A i : P = {i} => n = 1 /\ i = a + 1
  <2> SUFFICES ASSUME NEW i, P = {i} PROVE n = 1 /\ i = a + 1
    OBVIOUS
  <2>1. n # 0
    BY <1>4
  <2>2. a + 1 = i
    BY <1>1, <2>1
  <2>3. n > 1 => a + 2 = i
    BY <1>2
  <2> QED
    BY <2>1, <2>2, <2>3
<1>7. \A report : report \in OnlyValue(all, P) <=>
                    report \in Reports /\ n = 1 /\ all[a + 1] = report
  BY <1>3, <1>5 DEF OnlyValue
<1>8. OnlyValue(all, P) = AloneAt(all, n, a + 1)
  BY <1>7 DEF AloneAt, OnlyValue
<1> QED
  BY <1>8 DEF P

(* The data with the last line joined to it is the data of the longer event. *)
LEMMA JoinedIs ==
  ASSUME NEW all, Body(all), NEW b \in 0 .. Len(all), LastBreak(all, b), IsData(all, b),
         Len(all) - b <= MaxEvent,
         NEW s, Scanner(s), LineIs(all, b, s.line), ~s.dropped,
         DataIs(all, b + 1, Len(all) + 1, s)
  PROVE  /\ Joined(s) \in Seq(AllSymbols)
         /\ Len(Joined(s)) + 1 = SizeOf(all, Len(all) + 1)
         /\ NotBreaks(Joined(s)) = {} <=> Payload(all, Len(all) + 1) = {}
         /\ OnlyValue(Joined(s), NotBreaks(Joined(s))) = OnlyValue(all, Payload(all, Len(all) + 1))
<1> DEFINE n == Len(all)
           tail == Tail(s.line)
           P == Payload(all, b + 1)
           Q == Run(b + 1, Len(tail))
<1>1. n \in Nat /\ b < n
  BY DEF IsData, Body
<1>2. /\ tail \in Seq(Inside) /\ Len(tail) = n - b - 1 /\ Len(tail) \in Nat
      /\ \A i \in 1 .. Len(tail) : tail[i] = all[b + 1 + i]
  BY <1>1, TailOfLine
<1>0. Joined(s) = IF s.hasData THEN Append(s.data, LF) \o tail ELSE tail
  BY DEF Joined
<1>13. b + 1 \in Int /\ Len(tail) \in Nat
  BY <1>1, <1>2
<1>14. Len(tail) = 1 => tail[1] = all[b + 1 + 1]
  <2> HIDE DEF tail
  <2>1. Len(tail) = 1 => 1 \in 1 .. Len(tail)
    BY <1>13
  <2>2. \A i \in 1 .. Len(tail) : tail[i] = all[b + 1 + i]
    BY <1>2
  <2> QED
    BY <2>1, <2>2
<1> HIDE DEF tail
<1>3. Inside \subseteq AllSymbols
  BY DEF Inside
<1>4. /\ s.data \in Seq(AllSymbols)
      /\ s.hasData <=> DataLines(all, b + 1) # {}
      /\ Len(s.data) + (IF s.hasData THEN 1 ELSE 0) = SizeOf(all, b + 1)
      /\ NotBreaks(s.data) = {} <=> P = {}
      /\ OnlyValue(s.data, NotBreaks(s.data)) = OnlyValue(all, P)
  BY DEF DataIs
<1>5. SizeOf(all, n + 1) = SizeOf(all, b + 1) + (n - b)
  BY SizeAfter
<1>6. Payload(all, n + 1) = P \union Q
  <2>1. Payload(all, n + 1) = P \union {i \in b + 2 .. n : IsData(all, b)}
    BY PayloadAfter
  <2>2. \A i \in b + 2 .. n : i \in Q
    <3> TAKE i \in b + 2 .. n
    <3>1. i - (b + 1) \in 1 .. Len(tail) /\ i = b + 1 + (i - (b + 1))
      BY <1>1, <1>2
    <3> QED
      BY <3>1 DEF Run
  <2>3. \A k \in 1 .. Len(tail) : b + 1 + k \in b + 2 .. n
    BY <1>1, <1>2
  <2> QED
    BY <2>1, <2>2, <2>3 DEF Run
<1>7. P \intersect Q = {}
  <2>1. \A i \in P : i < b + 1
    BY <1>1, EventBefore
  <2>2. \A k \in 1 .. Len(tail) : b + 1 + k > b + 1
    BY <1>1, <1>2
  <2> QED
    BY <2>1, <2>2, EventBefore, <1>1 DEF Run
<1>8. Q = {} <=> Len(tail) = 0
  BY <1>13, RunEmpty
<1>9. OnlyValue(all, Q) = AloneAt(all, Len(tail), b + 1 + 1)
  BY <1>13, OnlyOfRun
<1>10. OnlyValue(all, P \union Q) = IF Q = {} THEN OnlyValue(all, P)
                                   ELSE IF P = {} THEN OnlyValue(all, Q) ELSE {}
  BY <1>7, OnlyOfUnion
<1>11. CASE s.hasData
  <2> DEFINE x == Append(s.data, LF) \o tail
             m == Len(s.data) + 1
             R == Run(m, Len(tail))
  <2>1. Joined(s) = x
    BY <1>0, <1>11
  <2>2. LF \in AllSymbols /\ tail \in Seq(AllSymbols)
    BY <1>2, <1>3 DEF AllSymbols
  <2>3. x \in Seq(AllSymbols) /\ Len(x) = m + Len(tail) /\ Len(s.data) \in Nat
    BY <1>4, <2>2
  <2>15. m \in Int
    BY <2>3
  <2>4. NotBreaks(x) = NotBreaks(s.data) \union R
    BY <1>2, <1>4, PlacesJoined
  <2>5. NotBreaks(s.data) \intersect R = {}
    <3>1. \A i \in NotBreaks(s.data) : i <= Len(s.data)
      BY <1>4 DEF NotBreaks
    <3>2. \A i \in R : i > Len(s.data)
      BY <1>13, <2>3 DEF Run
    <3> QED
      BY <2>3, <3>1, <3>2, <1>4 DEF NotBreaks
  <2>6. R = {} <=> Len(tail) = 0
    BY <1>13, <2>15, RunEmpty
  <2>7. Len(tail) = 1 => x[m + 1] = all[b + 1 + 1]
    <3>1. \A i \in 1 .. Len(tail) : x[m + i] = tail[i]
      BY <1>4, <2>2
    <3>2. Len(tail) = 1 => 1 \in 1 .. Len(tail)
      BY <1>13
    <3> HIDE DEF x
    <3> QED
      BY <1>14, <3>1, <3>2
  <2>8. OnlyValue(x, R) = AloneAt(x, Len(tail), m + 1)
    BY <1>13, <2>15, OnlyOfRun
  <2>9. OnlyValue(x, R) = OnlyValue(all, Q)
    BY <1>9, <2>7, <2>8 DEF AloneAt
  <2>10. OnlyValue(x, NotBreaks(s.data)) = OnlyValue(s.data, NotBreaks(s.data))
    <3>1. \A i \in NotBreaks(s.data) : x[i] = s.data[i]
      BY <1>4, <2>2 DEF NotBreaks
    <3> HIDE DEF x
    <3> QED
      BY <3>1 DEF OnlyValue
  <2> HIDE DEF x, R
  <2>11. OnlyValue(x, NotBreaks(s.data) \union R) =
           IF R = {} THEN OnlyValue(x, NotBreaks(s.data))
           ELSE IF NotBreaks(s.data) = {} THEN OnlyValue(x, R) ELSE {}
    BY <2>5, OnlyOfUnion
  <2>12. OnlyValue(x, NotBreaks(x)) = OnlyValue(all, P \union Q)
    BY <1>4, <1>8, <1>10, <2>4, <2>6, <2>9, <2>10, <2>11
  <2>13. NotBreaks(x) = {} <=> P \union Q = {}
    BY <1>4, <1>8, <2>4, <2>6
  <2>14. Len(x) + 1 = SizeOf(all, n + 1)
    BY <1>1, <1>2, <1>4, <1>5, <1>11, <2>3
  <2> QED
    BY <1>6, <2>1, <2>3, <2>12, <2>13, <2>14
<1>12. CASE ~s.hasData
  <2>1. Joined(s) = tail
    BY <1>0, <1>12
  <2>2. DataLines(all, b + 1) = {}
    BY <1>4, <1>12
  <2>3. P = {}
    BY <2>2 DEF Payload
  <2>4. SizeOf(all, b + 1) = 0
    <3>1. Cardinality(Payload(all, b + 1)) = 0 /\ Cardinality(DataLines(all, b + 1)) = 0
      BY <2>2, <2>3, FS_EmptySet
    <3> QED
      BY <3>1 DEF SizeOf
  <2>5. NotBreaks(tail) = Run(0, Len(tail))
    <3>1. \A i \in 1 .. Len(tail) : tail[i] # LF /\ 0 + i = i
      BY <1>2 DEF Inside
    <3>2. DOMAIN tail = 1 .. Len(tail)
      BY <1>2
    <3> QED
      BY <3>1, <3>2 DEF NotBreaks, Run
  <2>6. NotBreaks(tail) = {} <=> Len(tail) = 0
    BY <1>2, <2>5, RunEmpty
  <2>7. OnlyValue(tail, NotBreaks(tail)) = AloneAt(tail, Len(tail), 1)
    <3>1. OnlyValue(tail, Run(0, Len(tail))) = AloneAt(tail, Len(tail), 0 + 1)
      BY <1>13, OnlyOfRun
    <3> QED
      BY <2>5, <3>1
  <2>9. OnlyValue(tail, NotBreaks(tail)) = OnlyValue(all, Q)
    BY <1>9, <1>14, <2>7 DEF AloneAt
  <2>10. OnlyValue(all, P \union Q) = OnlyValue(all, Q)
    BY <2>3
  <2>11. P \union Q = {} <=> Len(tail) = 0
    BY <1>8, <2>3
  <2>12. tail \in Seq(AllSymbols)
    BY <1>2, <1>3
  <2>13. Len(tail) + 1 = SizeOf(all, n + 1)
    BY <1>1, <1>2, <1>5, <2>4
  <2> QED
    BY <1>6, <2>1, <2>6, <2>9, <2>10, <2>11, <2>12, <2>13
<1> QED
  BY <1>4, <1>11, <1>12

(* The line so far is empty just after a break. *)
LEMMA LineThere ==
  ASSUME NEW all, Body(all), NEW b \in 0 .. Len(all), NEW line, LineIs(all, b, line)
  PROVE  line = <<>> <=> b = Len(all)
<1>1. line \in Seq(Inside) /\ Len(all) \in Nat /\ MaxEvent \in Nat /\ MaxEvent > 0
      /\ Len(line) = IF Len(all) - b <= MaxEvent THEN Len(all) - b ELSE MaxEvent
  BY ScanAssumption DEF LineIs, Body
<1>2. line = <<>> <=> Len(line) = 0
  BY <1>1
<1> QED
  BY <1>1, <1>2

(* A last line that is no data adds nothing to the event. *)
LEMMA DataPlaces ==
  ASSUME NEW all, NEW b, ~IsData(all, b), Body(all), b \in 0 .. Len(all), LastBreak(all, b)
  PROVE  /\ DataLines(all, Len(all) + 1) = DataLines(all, b + 1)
         /\ Payload(all, Len(all) + 1) = Payload(all, b + 1)
         /\ SizeOf(all, Len(all) + 1) = SizeOf(all, b + 1)
<1>1. DataLines(all, Len(all) + 1) = DataLines(all, b + 1)
  <2>1. DataLines(all, Len(all) + 1) = DataLines(all, b + 1) \union {i \in {b + 1} : IsData(all, b)}
    BY DataLinesAfter
  <2> QED
    BY <2>1
<1>2. Payload(all, Len(all) + 1) = Payload(all, b + 1)
  <2>1. Payload(all, Len(all) + 1) =
          Payload(all, b + 1) \union {i \in b + 2 .. Len(all) : IsData(all, b)}
    BY PayloadAfter
  <2> QED
    BY <2>1
<1> QED
  BY <1>1, <1>2 DEF SizeOf

(* The end of a line that is not empty.                                      *)
LEMMA LineEnded ==
  ASSUME NEW all, Body(all), NEW b \in 0 .. Len(all), LastBreak(all, b), b < Len(all),
         NEW s, Scanner(s), LineIs(all, b, s.line), DataIs(all, b + 1, Len(all) + 1, s)
  PROVE  /\ Scanner(EndLine(s)) /\ EndLine(s).line = <<>>
         /\ EndLine(s).usage = s.usage /\ EndLine(s).afterCR = s.afterCR
         /\ DataIs(all, Len(all) + 1, Len(all) + 1, EndLine(s))
<1> DEFINE n == Len(all)
           t == EndLine(s)
<1>1. n \in Nat /\ b + 1 \in 1 .. n + 1 /\ n + 1 \in 1 .. n + 1 /\ s.line # <<>>
  BY LineThere DEF Body
<1>2. s.dropped <=> ~LinesFit(all, n + 1) \/ SizeOf(all, b + 1) > MaxEvent + 1
  BY DEF DataIs
<1>3. SizeOf(all, b + 1) \in Nat /\ SizeOf(all, n + 1) \in Nat /\ MaxEvent \in Nat
  BY <1>1, DataFinite, ScanAssumption
<1>4. SizeOf(all, n + 1) = SizeOf(all, b + 1) + (IF IsData(all, b) THEN n - b ELSE 0)
  BY SizeAfter
<1>5. CASE s.dropped
  <2>1. /\ Scanner(t) /\ t.line = <<>> /\ t.dropped
        /\ t.usage = s.usage /\ t.afterCR = s.afterCR
    BY <1>1, <1>5, LineForgotten
  <2>2. ~LinesFit(all, n + 1) \/ SizeOf(all, n + 1) > MaxEvent + 1
    BY <1>1, <1>2, <1>3, <1>4, <1>5
  <2>3. DataIs(all, n + 1, n + 1, t)
    BY <2>1, <2>2 DEF DataIs
  <2> QED
    BY <2>1, <2>3
<1>6. ASSUME ~s.dropped PROVE n - b <= MaxEvent /\ LinesFit(all, n + 1)
  BY <1>2, <1>6, LineFits
<1>7. ~s.dropped => (IsData(all, b) <=> s.line[1] = DATA)
  <2>1. ~s.dropped => s.line[1] = all[b + 1]
    BY <1>6, TailOfLine
  <2> QED
    BY <2>1 DEF IsData
<1>8. CASE ~s.dropped /\ ~IsData(all, b)
  <2>1. /\ Scanner(t) /\ t.line = <<>> /\ t.data = s.data /\ t.dropped = s.dropped
        /\ t.hasData = s.hasData /\ t.afterCR = s.afterCR /\ t.usage = s.usage
    BY <1>1, <1>7, <1>8, LineForgotten
  <2>2. /\ DataLines(all, n + 1) = DataLines(all, b + 1)
        /\ Payload(all, n + 1) = Payload(all, b + 1)
        /\ SizeOf(all, n + 1) = SizeOf(all, b + 1)
    BY <1>8, DataPlaces
  <2> HIDE DEF t
  <2>3. DataIs(all, n + 1, n + 1, t)
    BY <2>1, <2>2 DEF DataIs
  <2> QED
    BY <2>1, <2>3 DEF t
<1>9. CASE ~s.dropped /\ IsData(all, b)
  <2>1. /\ Joined(s) \in Seq(AllSymbols)
        /\ Len(Joined(s)) + 1 = SizeOf(all, n + 1)
        /\ NotBreaks(Joined(s)) = {} <=> Payload(all, n + 1) = {}
        /\ OnlyValue(Joined(s), NotBreaks(Joined(s))) = OnlyValue(all, Payload(all, n + 1))
    BY <1>6, <1>9, JoinedIs
  <2>2. DataLines(all, n + 1) # {}
    BY <1>9, DataLinesAfter
  <2>3. Len(Joined(s)) \in Nat
    BY <2>1
  <2>4. CASE Len(Joined(s)) <= MaxEvent
    <3>1. /\ Scanner(t) /\ t.line = <<>> /\ t.data = Joined(s) /\ ~t.dropped
          /\ t.hasData /\ t.afterCR = s.afterCR /\ t.usage = s.usage
      BY <1>1, <1>7, <1>9, <2>1, <2>4, LineJoined
    <3>2. ~(SizeOf(all, n + 1) > MaxEvent + 1)
      BY <1>3, <2>1, <2>3, <2>4
    <3>3. LinesFit(all, n + 1)
      BY <1>6, <1>9
    <3>4. Len(t.data) + (IF t.hasData THEN 1 ELSE 0) = SizeOf(all, n + 1)
      BY <2>1, <3>1
    <3> HIDE DEF t
    <3>5. DataIs(all, n + 1, n + 1, t)
      BY <2>1, <2>2, <3>1, <3>2, <3>3, <3>4 DEF DataIs
    <3> QED
      BY <3>1, <3>5 DEF t
  <2>5. CASE Len(Joined(s)) > MaxEvent
    <3>1. /\ Scanner(t) /\ t.line = <<>> /\ t.dropped
          /\ t.afterCR = s.afterCR /\ t.usage = s.usage
      BY <1>1, <1>7, <1>9, <2>5, LineDropped
    <3>2. SizeOf(all, n + 1) > MaxEvent + 1
      BY <1>3, <2>1, <2>3, <2>5
    <3>3. DataIs(all, n + 1, n + 1, t)
      BY <3>1, <3>2 DEF DataIs
    <3> QED
      BY <3>1, <3>3
  <2> QED
    BY <1>3, <2>3, <2>4, <2>5
<1> QED
  BY <1>5, <1>8, <1>9

-----------------------------------------------------------------------------
(* One symbol.                                                               *)

(* The value at some places of the shorter body is the same in both. *)
LEMMA ValueOfMore ==
  ASSUME NEW all, NEW more, Begins(all, more), NEW end \in 1 .. Len(all) + 1
  PROVE  OnlyValue(more, Payload(all, end)) = OnlyValue(all, Payload(all, end))
<1>1. Payload(all, end) \subseteq 1 .. Len(all)
  BY EventBefore DEF Begins
<1>2. \A i \in Payload(all, end) : more[i] = all[i]
  BY <1>1 DEF Begins
<1> QED
  BY <1>2 DEF OnlyValue

(* A break that ends no empty line leaves what is known of the event.        *)
LEMMA BreakCarries ==
  ASSUME NEW all, Body(all), NEW c \in {CR, LF}, ~EndsEmptyLine(all, c),
         NEW s, DataIs(all, Len(all) + 1, Len(all) + 1, s)
  PROVE  DataIs(Append(all, c), Len(all) + 2, Len(all) + 2, s)
<1> DEFINE more == Append(all, c)
<1>0. c \in AllSymbols
  BY DEF AllSymbols
<1>1. Begins(all, more) /\ Len(all) \in Nat /\ Len(all) + 1 \in 1 .. Len(all) + 1
  BY <1>0, BeginsItself
<1>2. DataLines(more, Len(all) + 2) = DataLines(all, Len(all) + 1)
  BY BreakAddsNothing
<1>3. Payload(more, Len(all) + 2) = Payload(all, Len(all) + 1)
  BY BreakAddsNothing
<1>4. LinesFit(more, Len(all) + 2) <=> LinesFit(all, Len(all) + 1)
  BY BreakAddsNothing
<1> HIDE DEF more
<1>5. SizeOf(more, Len(all) + 2) = SizeOf(all, Len(all) + 1)
  BY <1>2, <1>3 DEF SizeOf
<1>6. OnlyValue(more, Payload(all, Len(all) + 1)) = OnlyValue(all, Payload(all, Len(all) + 1))
  BY <1>1, ValueOfMore
<1>7. DataIs(more, Len(all) + 2, Len(all) + 2, s)
  BY <1>2, <1>3, <1>4, <1>5, <1>6 DEF DataIs
<1> QED
  BY <1>7 DEF more

(* And the usage. *)
LEMMA UsageCarries ==
  ASSUME NEW all, Body(all), NEW c \in AllSymbols
  PROVE  ToldBy(Append(all, c), EmptyLines(Append(all, c))) =
           ToldBy(all, EmptyLines(all) \union {i \in {Len(all) + 1} : EndsEmptyLine(all, c)})
<1> DEFINE more == Append(all, c)
           ends == EmptyLines(all) \union {i \in {Len(all) + 1} : EndsEmptyLine(all, c)}
<1>1. Begins(all, more) /\ Len(all) \in Nat
  BY BeginsItself
<1>2. EmptyLines(more) = ends
  BY EmptyGrow
<1>3. ends \subseteq 1 .. Len(all) + 1
  BY <1>1, EmptyIn
<1>4. ToldBy(more, ends) = ToldBy(all, ends)
  BY <1>1, <1>3, ToldByMore
<1> QED
  BY <1>2, <1>4

(* A break that was added is the last, and the line after it is empty. *)
LEMMA BreakIsLast ==
  ASSUME NEW all, Body(all), NEW c \in {CR, LF}
  PROVE  /\ LastBreak(Append(all, c), Len(all) + 1)
         /\ LineIs(Append(all, c), Len(all) + 1, <<>>)
<1> DEFINE more == Append(all, c)
<1>0. c \in AllSymbols
  BY DEF AllSymbols
<1>1. Body(more) /\ Len(more) = Len(all) + 1 /\ more[Len(all) + 1] = c /\ Len(all) \in Nat
  BY <1>0, BeginsItself
<1> HIDE DEF more
<1>2. LastBreak(more, Len(all) + 1)
  <2>1. Len(all) + 1 \in Breaks(more)
    BY <1>1 DEF Breaks, Body
  <2>2. \A k \in Breaks(more) : k <= Len(all) + 1
    BY <1>1, EmptyIn
  <2> QED
    BY <2>1, <2>2 DEF LastBreak
<1>3. LineIs(more, Len(all) + 1, <<>>)
  BY <1>1, ScanAssumption DEF LineIs
<1> QED
  BY <1>2, <1>3 DEF more

(* A symbol that ends no empty line leaves what was told. *)
LEMMA UsageAfterText ==
  ASSUME NEW all, Body(all), NEW c \in AllSymbols, ~EndsEmptyLine(all, c)
  PROVE  ToldBy(Append(all, c), EmptyLines(Append(all, c))) = ToldBy(all, EmptyLines(all))
<1>1. EmptyLines(all) \union {i \in {Len(all) + 1} : EndsEmptyLine(all, c)} = EmptyLines(all)
  OBVIOUS
<1> QED
  BY <1>1, UsageCarries

(* Between two symbols, after the first the scanner is in step with the body. *)
LEMMA BreakDone ==
  ASSUME NEW all, Body(all), NEW c \in {CR, LF}, ~EndsEmptyLine(all, c),
         NEW t, t.line = <<>>, DataIs(all, Len(all) + 1, Len(all) + 1, t),
         t.usage = UsageTold(ToldBy(all, EmptyLines(all))), t.afterCR <=> c = CR
  PROVE  StreamInv(Append(all, c), t)
<1> DEFINE more == Append(all, c)
<1>0. c \in AllSymbols
  BY DEF AllSymbols
<1>1. Body(more) /\ Len(more) = Len(all) + 1 /\ more[Len(all) + 1] = c /\ Len(all) \in Nat
  BY <1>0, BeginsItself
<1>2. LastBreak(more, Len(all) + 1) /\ LineIs(more, Len(all) + 1, t.line)
  BY BreakIsLast
<1>3. DataIs(more, Len(all) + 2, Len(all) + 2, t)
  BY BreakCarries
<1>4. t.usage = UsageTold(ToldBy(more, EmptyLines(more)))
  BY <1>0, UsageAfterText
<1> HIDE DEF more
<1>5. t.afterCR <=> Len(more) > 0 /\ more[Len(more)] = CR
  BY <1>1
<1>6. Len(all) + 1 \in 0 .. Len(more) /\ Len(all) + 1 + 1 = Len(all) + 2
      /\ Len(more) + 1 = Len(all) + 2
  BY <1>1
<1>7. \E b \in 0 .. Len(more) :
        LastBreak(more, b) /\ LineIs(more, b, t.line) /\ DataIs(more, b + 1, Len(more) + 1, t)
  BY <1>2, <1>3, <1>6
<1>8. StreamInv(more, t)
  BY <1>4, <1>5, <1>7 DEF StreamInv
<1> QED
  BY <1>8 DEF more

(* After an empty line the scanner begins the next event. *)
LEMMA EmptyDone ==
  ASSUME NEW all, Body(all), NEW c \in {CR, LF}, EndsEmptyLine(all, c),
         NEW t, t.line = <<>>, t.data = <<>>, ~t.dropped, ~t.hasData,
         t.usage = UsageTold(ToldBy(all, EmptyLines(all) \union {Len(all) + 1})),
         t.afterCR <=> c = CR
  PROVE  StreamInv(Append(all, c), t)
<1> DEFINE more == Append(all, c)
           n == Len(all) + 1
<1>0. c \in AllSymbols
  BY DEF AllSymbols
<1>1. Body(more) /\ Len(more) = n /\ more[n] = c /\ Len(all) \in Nat
  BY <1>0, BeginsItself
<1>2. LastBreak(more, n) /\ LineIs(more, n, t.line)
  BY BreakIsLast
<1>3. /\ DataLines(more, Len(all) + 2) = {} /\ Payload(more, Len(all) + 2) = {}
      /\ LinesFit(more, Len(all) + 2)
  BY <1>0, NothingYet
<1>4. ToldBy(more, EmptyLines(more)) = ToldBy(all, EmptyLines(all) \union {n})
  <2>1. EmptyLines(all) \union {i \in {n} : EndsEmptyLine(all, c)} = EmptyLines(all) \union {n}
    OBVIOUS
  <2> QED
    BY <1>0, <2>1, UsageCarries
<1> HIDE DEF more
<1>5. DataIs(more, Len(all) + 2, Len(all) + 2, t)
  <2>1. Cardinality(Payload(more, Len(all) + 2)) = 0
        /\ Cardinality(DataLines(more, Len(all) + 2)) = 0
    BY <1>3, FS_EmptySet
  <2>2. SizeOf(more, Len(all) + 2) = 0
    BY <2>1 DEF SizeOf
  <2>3. NotBreaks(t.data) = {}
    BY DEF NotBreaks
  <2>4. OnlyValue(t.data, {}) = {} /\ OnlyValue(more, {}) = {}
    BY DEF OnlyValue
  <2>5. t.data \in Seq(AllSymbols) /\ Len(t.data) = 0
    OBVIOUS
  <2>6. ~(SizeOf(more, Len(all) + 2) > MaxEvent + 1)
    BY <2>2, ScanAssumption
  <2>7. Len(t.data) + (IF t.hasData THEN 1 ELSE 0) = SizeOf(more, Len(all) + 2)
    BY <2>2, <2>5
  <2> QED
    BY <1>3, <2>3, <2>4, <2>5, <2>6, <2>7 DEF DataIs
<1>6. t.afterCR <=> Len(more) > 0 /\ more[Len(more)] = CR
  BY <1>1
<1>7. n \in 0 .. Len(more) /\ n + 1 = Len(all) + 2 /\ Len(more) + 1 = Len(all) + 2
  BY <1>1
<1>8. \E b \in 0 .. Len(more) :
        LastBreak(more, b) /\ LineIs(more, b, t.line) /\ DataIs(more, b + 1, Len(more) + 1, t)
  BY <1>2, <1>5, <1>7
<1>9. StreamInv(more, t)
  BY <1>4, <1>6, <1>8 DEF StreamInv
<1> QED
  BY <1>9 DEF more

(* A symbol that ends no line. *)
TextAdded(s, c) ==
  IF Len(s.line) < MaxEvent THEN [[s EXCEPT !.afterCR = FALSE] EXCEPT !.line = Append(@, c)]
                            ELSE [[s EXCEPT !.afterCR = FALSE] EXCEPT !.dropped = TRUE]

(* The scanner after a symbol that its line has room for. *)
LEMMA TextKept ==
  ASSUME NEW s, Scanner(s), NEW c, Len(s.line) < MaxEvent
  PROVE  LET t == TextAdded(s, c)
         IN  /\ Scanner(t) /\ t.line = Append(s.line, c) /\ t.data = s.data
             /\ t.dropped = s.dropped /\ t.hasData = s.hasData /\ ~t.afterCR
             /\ t.usage = s.usage
BY DEF TextAdded, Scanner

(* And after one that it has no room for. *)
LEMMA TextDropped ==
  ASSUME NEW s, Scanner(s), NEW c, ~(Len(s.line) < MaxEvent)
  PROVE  LET t == TextAdded(s, c)
         IN  /\ Scanner(t) /\ t.line = s.line /\ t.dropped /\ ~t.afterCR /\ t.usage = s.usage
BY DEF TextAdded, Scanner

(* A symbol within a line keeps the scanner in step with the body. *)
LEMMA TextDone ==
  ASSUME NEW all, Body(all), NEW c \in Inside, NEW s, Scanner(s), StreamInv(all, s)
  PROVE  Scanner(TextAdded(s, c)) /\ StreamInv(Append(all, c), TextAdded(s, c))
<1> DEFINE more == Append(all, c)
           n == Len(all) + 1
           t == TextAdded(s, c)
<1>0. c \in AllSymbols /\ c \notin {CR, LF} /\ ~EndsEmptyLine(all, c)
  BY DEF Inside, EndsEmptyLine
<1>1. Begins(all, more) /\ Body(more) /\ Len(more) = n /\ more[n] = c /\ Len(all) \in Nat
  BY <1>0, BeginsItself
<1>2. PICK b \in 0 .. Len(all) : /\ LastBreak(all, b) /\ LineIs(all, b, s.line)
                                 /\ DataIs(all, b + 1, Len(all) + 1, s)
  BY DEF StreamInv
<1>3. /\ EmptyLines(more) = EmptyLines(all) /\ LastBreak(more, b)
      /\ LinesFit(more, Len(all) + 2) <=> LinesFit(all, n) /\ Len(all) - b < MaxEvent
  BY <1>2, TextKeepsLines
<1>4. ToldBy(more, EmptyLines(more)) = ToldBy(all, EmptyLines(all))
  BY <1>0, UsageAfterText
<1> HIDE DEF more
<1>5. b + 1 \in 1 .. Len(all) + 1 /\ MaxEvent \in Nat
  BY <1>1, ScanAssumption
<1>6. DataLines(more, b + 1) = DataLines(all, b + 1)
  BY <1>1, <1>5, DataOfMore
<1>7. Payload(more, b + 1) = Payload(all, b + 1)
  BY <1>1, <1>5, DataOfMore
<1>8. SizeOf(more, b + 1) = SizeOf(all, b + 1)
  BY <1>6, <1>7 DEF SizeOf
<1>9. OnlyValue(more, Payload(all, b + 1)) = OnlyValue(all, Payload(all, b + 1))
  BY <1>1, <1>5, ValueOfMore
<1>10. s.line \in Seq(Inside) /\ (Len(s.line) < MaxEvent <=> Len(all) - b < MaxEvent)
       /\ (Len(s.line) < MaxEvent => Len(s.line) = Len(all) - b)
       /\ (~(Len(s.line) < MaxEvent) => Len(s.line) = MaxEvent)
  BY <1>1, <1>2, <1>5 DEF LineIs
<1>11. s.dropped <=> ~LinesFit(all, n) \/ SizeOf(all, b + 1) > MaxEvent + 1
  BY <1>2 DEF DataIs
<1>12. ASSUME Len(s.line) < MaxEvent
       PROVE  /\ Scanner(t) /\ ~t.afterCR /\ t.usage = s.usage
              /\ LineIs(more, b, t.line) /\ DataIs(more, b + 1, Len(all) + 2, t)
  <2>1. /\ Scanner(t) /\ t.line = Append(s.line, c) /\ t.data = s.data
        /\ t.dropped = s.dropped /\ t.hasData = s.hasData /\ ~t.afterCR
        /\ t.usage = s.usage
    BY <1>12, TextKept
  <2> HIDE DEF t
  <2>2. LineIs(more, b, t.line)
    <3>1. t.line \in Seq(Inside) /\ Len(t.line) = Len(s.line) + 1
          /\ (\A i \in 1 .. Len(s.line) : t.line[i] = s.line[i])
          /\ t.line[Len(s.line) + 1] = c /\ Len(s.line) \in Nat
      BY <1>10, <2>1
    <3>2. \A i \in 1 .. Len(s.line) : s.line[i] = all[b + i]
      BY <1>2 DEF LineIs
    <3>3. \A i \in 1 .. Len(s.line) : b + i \in 1 .. Len(all)
      BY <1>1, <1>10, <1>12
    <3>4. \A i \in 1 .. Len(all) : more[i] = all[i]
      BY <1>1 DEF Begins
    <3>9. Len(s.line) = Len(all) - b
      BY <1>10, <1>12
    <3>5. b + (Len(s.line) + 1) = n
      BY <1>1, <3>9
    <3>6. \A i \in 1 .. Len(t.line) : i \in 1 .. Len(s.line) \/ i = Len(s.line) + 1
      BY <3>1
    <3>7. \A i \in 1 .. Len(t.line) : t.line[i] = more[b + i]
      BY <1>1, <3>1, <3>2, <3>3, <3>4, <3>5, <3>6
    <3>8. Len(t.line) = IF Len(more) - b <= MaxEvent THEN Len(more) - b ELSE MaxEvent
      BY <1>1, <1>5, <1>12, <3>1, <3>9
    <3> QED
      BY <3>1, <3>7, <3>8 DEF LineIs
  <2>3. DataIs(more, b + 1, Len(all) + 2, t)
    <3>1. LinesFit(more, Len(all) + 2) <=> LinesFit(all, n)
      BY <1>3, <1>10, <1>12
    <3> QED
      BY <1>2, <1>6, <1>7, <1>8, <1>9, <2>1, <3>1 DEF DataIs
  <2> QED
    BY <2>1, <2>2, <2>3
<1>13. ASSUME ~(Len(s.line) < MaxEvent)
       PROVE  /\ Scanner(t) /\ ~t.afterCR /\ t.usage = s.usage
              /\ LineIs(more, b, t.line) /\ DataIs(more, b + 1, Len(all) + 2, t)
  <2>1. Scanner(t) /\ t.line = s.line /\ t.dropped /\ ~t.afterCR /\ t.usage = s.usage
    BY <1>13, TextDropped
  <2> HIDE DEF t
  <2>2. LineIs(more, b, t.line)
    <3>2. \A i \in 1 .. Len(s.line) : s.line[i] = all[b + i]
      BY <1>2 DEF LineIs
    <3>3. \A i \in 1 .. Len(s.line) : b + i \in 1 .. Len(all)
      BY <1>1, <1>5, <1>10, <1>13
    <3>4. \A i \in 1 .. Len(all) : more[i] = all[i]
      BY <1>1 DEF Begins
    <3>5. Len(s.line) = IF Len(more) - b <= MaxEvent THEN Len(more) - b ELSE MaxEvent
      BY <1>1, <1>5, <1>10, <1>13
    <3> QED
      BY <1>10, <2>1, <3>2, <3>3, <3>4, <3>5 DEF LineIs
  <2>3. DataIs(more, b + 1, Len(all) + 2, t)
    <3>1. ~LinesFit(more, Len(all) + 2)
      BY <1>3, <1>10, <1>13
    <3> QED
      BY <2>1, <3>1 DEF DataIs
  <2> QED
    BY <2>1, <2>2, <2>3
<1>14. /\ Scanner(t) /\ ~t.afterCR /\ t.usage = s.usage
       /\ LineIs(more, b, t.line) /\ DataIs(more, b + 1, Len(all) + 2, t)
  BY <1>12, <1>13
<1> HIDE DEF t
<1>15. StreamInv(more, t)
  <2>1. ~(Len(more) > 0 /\ more[Len(more)] = CR)
    BY <1>0, <1>1
  <2>2. b \in 0 .. Len(more) /\ Len(more) + 1 = Len(all) + 2
    BY <1>1
  <2>3. t.usage = UsageTold(ToldBy(more, EmptyLines(more)))
    BY <1>4, <1>14 DEF StreamInv
  <2> QED
    BY <1>3, <1>14, <2>1, <2>2, <2>3 DEF StreamInv
<1> QED
  BY <1>14, <1>15 DEF more, t


(* The scanner that has forgotten the CR before. *)
Cleared(s) == [s EXCEPT !.afterCR = FALSE]

(* Forgetting the CR changes nothing else. *)
LEMMA PairForgotten ==
  ASSUME NEW s, Scanner(s)
  PROVE  /\ Scanner(Cleared(s)) /\ Cleared(s).line = s.line /\ Cleared(s).data = s.data
         /\ Cleared(s).dropped = s.dropped /\ Cleared(s).hasData = s.hasData
         /\ ~Cleared(s).afterCR /\ Cleared(s).usage = s.usage
<1>1. /\ Cleared(s).line = s.line /\ Cleared(s).data = s.data
      /\ Cleared(s).dropped = s.dropped /\ Cleared(s).hasData = s.hasData
      /\ ~Cleared(s).afterCR /\ Cleared(s).usage = s.usage
  BY DEF Scanner, Cleared
<1>2. Cleared(s) = [x \in ScannerFields |-> IF x = "afterCR" THEN FALSE ELSE s[x]]
  BY ScannerDomain DEF Cleared, ScannerFields
<1>4. s.dropped \in BOOLEAN /\ s.hasData \in BOOLEAN
  BY DEF Scanner
<1>3. Scanner(Cleared(s))
  BY <1>2, <1>4 DEF Scanner, ScannerFields
<1> QED
  BY <1>1, <1>3

(* Every symbol keeps the scanner in step with the body. *)
LEMMA SymbolAdded ==
  ASSUME NEW all, Body(all), NEW c \in AllSymbols, NEW s, Scanner(s), StreamInv(all, s)
  PROVE  Scanner(AddSymbol(s, c)) /\ StreamInv(Append(all, c), AddSymbol(s, c))
<1> DEFINE n == Len(all)
           at == Cleared(s)
<1>1. n \in Nat /\ n + 1 \in 1 .. n + 1 /\ n \in 0 .. n
  BY DEF Body
<1>2. PICK b \in 0 .. n : /\ LastBreak(all, b) /\ LineIs(all, b, s.line)
                          /\ DataIs(all, b + 1, n + 1, s)
  BY DEF StreamInv
<1>3. s.afterCR <=> n > 0 /\ all[n] = CR
  BY DEF StreamInv
<1>4. s.usage = UsageTold(ToldBy(all, EmptyLines(all)))
  BY DEF StreamInv
<1>5. /\ Scanner(at) /\ at.line = s.line /\ at.data = s.data /\ at.dropped = s.dropped
      /\ at.hasData = s.hasData /\ ~at.afterCR /\ at.usage = s.usage
  BY PairForgotten
<1>6. n > 0 => (n \in Breaks(all) <=> all[n] \in {CR, LF})
  BY <1>1 DEF Breaks, Body
<1>7. n > 0 /\ all[n] \in {CR, LF} => b = n
  BY <1>1, <1>2, <1>6 DEF LastBreak
<1>8. s.line = <<>> <=> b = n
  BY <1>2, LineThere
<1> HIDE DEF at
<1>9. DataIs(all, b + 1, n + 1, at)
  BY <1>2, <1>5 DEF DataIs
<1>10. CASE s.afterCR /\ c = LF
  <2>1. AddSymbol(s, c) = at
    BY <1>10, BreakApart DEF AddSymbol, at, Cleared
  <2>2. ~EndsEmptyLine(all, c)
    BY <1>3, <1>10 DEF EndsEmptyLine
  <2>3. b = n
    BY <1>3, <1>7, <1>10
  <2>4. at.line = <<>> /\ DataIs(all, n + 1, n + 1, at)
    BY <1>5, <1>8, <1>9, <2>3
  <2>5. at.afterCR <=> c = CR
    BY <1>5, <1>10, BreakApart
  <2>6. at.usage = UsageTold(ToldBy(all, EmptyLines(all)))
    BY <1>4, <1>5
  <2>7. c \in {CR, LF}
    BY <1>10
  <2>8. StreamInv(Append(all, c), at)
    BY <2>2, <2>4, <2>5, <2>6, <2>7, BreakDone
  <2> QED
    BY <1>5, <2>1, <2>8
<1>11. CASE c \in {CR, LF} /\ ~(s.afterCR /\ c = LF)
  <2> DEFINE t == EndLine(at)
             u == AddSymbol(s, c)
  <2>1. u = [t EXCEPT !.afterCR = TRUE] \/ (u = t /\ c = LF)
    BY <1>11, BreakApart DEF AddSymbol, at, Cleared
  <2>2. c = CR => u = [t EXCEPT !.afterCR = TRUE]
    BY <1>11, BreakApart DEF AddSymbol, at, Cleared
  <2>3. c = LF => u = t
    BY <1>11, BreakApart DEF AddSymbol, at, Cleared
  <2>4. ASSUME Scanner(t), ~t.afterCR
        PROVE  /\ Scanner(u) /\ u.line = t.line /\ u.data = t.data /\ u.dropped = t.dropped
               /\ u.hasData = t.hasData /\ u.usage = t.usage /\ (u.afterCR <=> c = CR)
    <3> HIDE DEF t, u
    <3>1. CASE c = CR
      BY <2>2, <2>4, <3>1 DEF Scanner
    <3>2. CASE c = LF
      BY <2>3, <2>4, <3>2, BreakApart DEF Scanner
    <3> QED
      BY <1>11, <3>1, <3>2
  <2>5. CASE s.line = <<>>
    <3>1. t = EndEvent(at)
      BY <1>5, <2>5 DEF EndLine
    <3>2. DataIs(all, n + 1, n + 1, at)
      BY <1>8, <1>9, <2>5
    <3>3. EmptyLines(all) \subseteq Nat /\ \A e \in EmptyLines(all) : e < n + 1
      BY <1>1, EmptyIn
    <3>4. at.usage = UsageTold(ToldBy(all, EmptyLines(all)))
      BY <1>4, <1>5
    <3>5. EndEvent(at).usage = UsageTold(ToldBy(all, EmptyLines(all) \union {n + 1}))
      BY <1>1, <1>5, <3>2, <3>3, <3>4, EventTold
    <3>6. /\ Scanner(t) /\ t.line = <<>> /\ t.data = <<>> /\ ~t.dropped /\ ~t.hasData
          /\ ~t.afterCR
      BY <1>5, <3>1, EventEnded
    <3>7. EndsEmptyLine(all, c)
      <4>1. n = 0 \/ all[n] \in {CR, LF}
        BY <1>1, <1>2, <1>6, <1>8, <2>5 DEF LastBreak
      <4> QED
        BY <1>3, <1>11, <4>1 DEF EndsEmptyLine
    <3>8. /\ Scanner(u) /\ u.line = <<>> /\ u.data = <<>> /\ ~u.dropped /\ ~u.hasData
          /\ u.usage = UsageTold(ToldBy(all, EmptyLines(all) \union {n + 1}))
          /\ (u.afterCR <=> c = CR)
      <4> HIDE DEF t, u
      <4> QED
        BY <2>4, <3>1, <3>5, <3>6
    <3> HIDE DEF u
    <3>9. StreamInv(Append(all, c), u)
      BY <1>11, <3>7, <3>8, EmptyDone
    <3> QED
      BY <3>8, <3>9 DEF u
  <2>6. CASE s.line # <<>>
    <3>1. b < n
      BY <1>1, <1>8, <2>6
    <3>2. LineIs(all, b, at.line)
      BY <1>2, <1>5
    <3>3. /\ Scanner(t) /\ t.line = <<>> /\ t.usage = at.usage /\ t.afterCR = at.afterCR
          /\ DataIs(all, n + 1, n + 1, t)
      BY <1>2, <1>5, <1>9, <3>1, <3>2, LineEnded
    <3>4. ~EndsEmptyLine(all, c)
      BY <1>1, <1>7, <3>1 DEF EndsEmptyLine
    <3> HIDE DEF t
    <3>5. /\ Scanner(u) /\ u.line = <<>> /\ u.data = t.data /\ u.dropped = t.dropped
          /\ u.hasData = t.hasData /\ u.usage = t.usage /\ (u.afterCR <=> c = CR)
      BY <1>5, <2>4, <3>3
    <3> HIDE DEF u
    <3>6. DataIs(all, n + 1, n + 1, u)
      BY <3>3, <3>5 DEF DataIs
    <3>7. u.usage = UsageTold(ToldBy(all, EmptyLines(all)))
      BY <1>4, <1>5, <3>3, <3>5
    <3>8. StreamInv(Append(all, c), u)
      BY <1>11, <3>4, <3>5, <3>6, <3>7, BreakDone
    <3> QED
      BY <3>5, <3>8 DEF u
  <2> QED
    BY <2>5, <2>6
<1>12. CASE c \notin {CR, LF}
  <2>1. c \in Inside
    BY <1>12 DEF Inside
  <2>2. AddSymbol(s, c) = TextAdded(s, c)
    BY <1>5, <1>12 DEF AddSymbol, TextAdded, at, Cleared
  <2> QED
    BY <2>1, <2>2, TextDone
<1> QED
  BY <1>10, <1>11, <1>12

-----------------------------------------------------------------------------
(* One read, and the end.                                                    *)

(* f holds the states of the scanner over the first k symbols of a read. *)
Adds(f, s, chunk, k) ==
  f = [i \in 0 .. k |-> IF i = 0 THEN s ELSE AddSymbol(f[i - 1], chunk[i])]

(* A read adds its symbols one by one: the function that does it exists. *)
LEMMA AddsExist ==
  ASSUME NEW s, NEW chunk, NEW n \in Nat
  PROVE  \E f : Adds(f, s, chunk, n)
<1> DEFINE T == {k \in 0 .. n : \E f : Adds(f, s, chunk, k)}
<1>1. 0 \in T
  <2> DEFINE f == [i \in 0 .. 0 |-> s]
  <2>1. Adds(f, s, chunk, 0)
    BY DEF Adds
  <2> QED
    BY <2>1
<1>2. ASSUME NEW k \in 1 .. n, k - 1 \in T PROVE k \in T
  <2>1. PICK f : Adds(f, s, chunk, k - 1)
    BY <1>2
  <2> DEFINE last == AddSymbol(f[k - 1], chunk[k])
             g == [i \in 0 .. k |-> IF i <= k - 1 THEN f[i] ELSE last]
  <2>2. \A i \in 0 .. k : i <= k - 1 \/ i = k
    OBVIOUS
  <2>3. \A i \in 0 .. k - 1 : g[i] = f[i]
    OBVIOUS
  <2>4. g[k] = last
    OBVIOUS
  <2>5. \A i \in 0 .. k - 1 :
          f[i] = IF i = 0 THEN s ELSE AddSymbol(f[i - 1], chunk[i])
    BY <2>1 DEF Adds
  <2>6. DOMAIN g = 0 .. k /\ g = [i \in 0 .. k |-> g[i]]
    OBVIOUS
  <2> HIDE DEF g
  <2>7. \A i \in 1 .. k : g[i - 1] = f[i - 1]
    BY <2>3
  <2>8. ASSUME NEW i \in 0 .. k
        PROVE  g[i] = IF i = 0 THEN s ELSE AddSymbol(g[i - 1], chunk[i])
    <3>1. CASE i \in 0 .. k - 1
      BY <2>3, <2>5, <2>7, <3>1
    <3>2. CASE i = k
      BY <2>4, <2>7, <3>2
    <3> QED
      BY <2>2, <3>1, <3>2
  <2>9. Adds(g, s, chunk, k)
    BY <2>6, <2>8 DEF Adds
  <2> QED
    BY <2>9
<1> HIDE DEF T
<1>3. n \in T
  BY <1>1, <1>2, UpTo
<1> QED
  BY <1>3 DEF T

(* And AddAll is its last value. *)
LEMMA AddAllIs ==
  ASSUME NEW s, NEW chunk, Len(chunk) \in Nat
  PROVE  \E f : Adds(f, s, chunk, Len(chunk)) /\ AddAll(s, chunk) = f[Len(chunk)]
<1> DEFINE n == Len(chunk)
           read == CHOOSE f : Adds(f, s, chunk, n)
<1>1. Adds(read, s, chunk, n)
  BY AddsExist
<1>2. AddAll(s, chunk) = read[n]
  BY DEF AddAll, Adds
<1> QED
  BY <1>1, <1>2

(* So a read keeps the scanner in step, wherever the network cut it. *)
LEMMA ChunkAdded ==
  ASSUME NEW all, Body(all), NEW chunk \in Seq(AllSymbols),
         NEW s, Scanner(s), StreamInv(all, s)
  PROVE  Scanner(AddAll(s, chunk)) /\ StreamInv(all \o chunk, AddAll(s, chunk))
<1> DEFINE n == Len(chunk)
           upto(i) == all \o SubSeq(chunk, 1, i)
<1>0. n \in Nat
  OBVIOUS
<1>1. PICK f : Adds(f, s, chunk, n) /\ AddAll(s, chunk) = f[n]
  BY <1>0, AddAllIs
<1>2. f[0] = s /\ \A i \in 1 .. n : f[i] = AddSymbol(f[i - 1], chunk[i])
  <2>1. \A i \in 0 .. n : f[i] = IF i = 0 THEN s ELSE AddSymbol(f[i - 1], chunk[i])
    BY <1>1 DEF Adds
  <2> QED
    BY <1>0, <2>1
<1> DEFINE T == {i \in 0 .. n : Scanner(f[i]) /\ StreamInv(upto(i), f[i])}
<1>3. \A i \in 0 .. n : Body(upto(i))
  BY DEF Body
<1>4. upto(0) = all
  BY DEF Body
<1>5. \A i \in 1 .. n : upto(i) = Append(upto(i - 1), chunk[i]) /\ chunk[i] \in AllSymbols
  <2> SUFFICES ASSUME NEW i \in 1 .. n
               PROVE  upto(i) = Append(upto(i - 1), chunk[i]) /\ chunk[i] \in AllSymbols
    OBVIOUS
  <2>1. SubSeq(chunk, 1, i) = Append(SubSeq(chunk, 1, i - 1), chunk[i])
    OBVIOUS
  <2>2. SubSeq(chunk, 1, i - 1) \in Seq(AllSymbols) /\ chunk[i] \in AllSymbols
    OBVIOUS
  <2> QED
    BY <2>1, <2>2 DEF Body
<1>6. upto(n) = all \o chunk
  <2>1. SubSeq(chunk, 1, n) = chunk
    OBVIOUS
  <2> QED
    BY <2>1
<1> HIDE DEF upto
<1>7. 0 \in T
  BY <1>0, <1>2, <1>4
<1>8. ASSUME NEW i \in 1 .. n, i - 1 \in T PROVE i \in T
  <2>1. Scanner(f[i - 1]) /\ StreamInv(upto(i - 1), f[i - 1]) /\ Body(upto(i - 1))
    BY <1>0, <1>3, <1>8
  <2>2. Scanner(f[i]) /\ StreamInv(upto(i), f[i])
    BY <1>2, <1>5, <2>1, SymbolAdded
  <2> QED
    BY <2>2
<1> HIDE DEF T
<1>9. n \in T
  BY <1>0, <1>7, <1>8, UpTo
<1> QED
  BY <1>1, <1>6, <1>9 DEF T

(* A new scanner is in step with the empty body. *)
LEMMA NewInv == Scanner(NewScanner) /\ StreamInv(<<>>, NewScanner)
<1>1. Scanner(NewScanner)
  BY DEF Scanner, NewScanner
<1>2. Body(<<>>) /\ Breaks(<<>>) = {} /\ EmptyLines(<<>>) = {}
  BY DEF Body, Breaks, EmptyLines
<1>3. NewScanner.line = <<>> /\ NewScanner.data = <<>> /\ ~NewScanner.dropped
      /\ ~NewScanner.hasData /\ ~NewScanner.afterCR /\ NewScanner.usage = NoUsage
  BY DEF NewScanner
<1>4. UsageTold(ToldBy(<<>>, {})) = NoUsage
  <2> DEFINE told == ToldBy(<<>>, {})
  <2>1. DOMAIN told = {}
    BY DEF ToldBy
  <2> HIDE DEF told
  <2>2. \A f \in Fields : LastSetting(told, f) = {}
    BY <2>1 DEF LastSetting
  <2>3. UsageTold(told) = [seen |-> FALSE, count |-> [f \in Fields |-> 0]]
    BY <2>1, <2>2 DEF UsageTold
  <2> QED
    BY <2>3 DEF NoUsage, told
<1>5. LastBreak(<<>>, 0) /\ LineIs(<<>>, 0, <<>>)
  BY <1>2, ScanAssumption DEF LastBreak, LineIs
<1>6. Event(<<>>, 1) = {}
  BY DEF Event
<1>7. DataLines(<<>>, 1) = {} /\ Payload(<<>>, 1) = {} /\ LinesFit(<<>>, 1)
  BY <1>6 DEF DataLines, Payload, LinesFit
<1>8. SizeOf(<<>>, 1) = 0
  <2>1. Cardinality(Payload(<<>>, 1)) = 0 /\ Cardinality(DataLines(<<>>, 1)) = 0
    BY <1>7, FS_EmptySet
  <2> QED
    BY <2>1 DEF SizeOf
<1>9. NotBreaks(<<>>) = {}
  BY DEF NotBreaks
<1>10. DataIs(<<>>, 1, 1, NewScanner)
  <2>1. ~(SizeOf(<<>>, 1) > MaxEvent + 1)
    BY <1>8, ScanAssumption
  <2>2. Len(NewScanner.data) + (IF NewScanner.hasData THEN 1 ELSE 0) = SizeOf(<<>>, 1)
    BY <1>3, <1>8
  <2>3. NewScanner.data \in Seq(AllSymbols)
    BY <1>3
  <2> QED
    BY <1>3, <1>7, <1>9, <2>1, <2>2, <2>3 DEF DataIs
<1>11. Len(<<>>) = 0 /\ 0 \in 0 .. 0
  OBVIOUS
<1>12. \E b \in 0 .. Len(<<>>) :
         /\ LastBreak(<<>>, b) /\ LineIs(<<>>, b, NewScanner.line)
         /\ DataIs(<<>>, b + 1, Len(<<>>) + 1, NewScanner)
  BY <1>3, <1>5, <1>10, <1>11
<1>13. NewScanner.usage = UsageTold(ToldBy(<<>>, EmptyLines(<<>>)))
  BY <1>2, <1>3, <1>4
<1> QED
  BY <1>1, <1>3, <1>11, <1>12, <1>13 DEF StreamInv

(* At the end of the body the last line and the last event end.              *)
LEMMA StreamFinished ==
  ASSUME NEW all, Body(all), NEW s, Scanner(s), StreamInv(all, s), OK, response.sse
  PROVE  Finished(s) = UsageOf(all)
<1> DEFINE n == Len(all)
           lined == IF s.line # <<>> THEN EndLine(s) ELSE s
           ended == IF lined.hasData \/ lined.dropped THEN EndEvent(lined) ELSE lined
           usage == UsageTold(ToldBy(all, EmptyLines(all) \union {n + 1}))
<1>1. n \in Nat /\ n + 1 \in 1 .. n + 1
  BY DEF Body
<1>2. PICK b \in 0 .. n : /\ LastBreak(all, b) /\ LineIs(all, b, s.line)
                          /\ DataIs(all, b + 1, n + 1, s)
  BY DEF StreamInv
<1>3. s.usage = UsageTold(ToldBy(all, EmptyLines(all)))
  BY DEF StreamInv
<1>4. s.line = <<>> <=> b = n
  BY <1>2, LineThere
<1>5. Scanner(lined) /\ DataIs(all, n + 1, n + 1, lined) /\ lined.usage = s.usage
  <2>1. CASE s.line = <<>>
    BY <1>2, <1>4, <2>1
  <2>2. CASE s.line # <<>>
    <3>1. b < n
      BY <1>1, <1>4, <2>2
    <3> QED
      BY <1>2, <2>2, <3>1, LineEnded
  <2> QED
    BY <2>1, <2>2
<1>6. Finished(s) = ended.usage
  BY DEF Finished
<1>7. EmptyLines(all) \subseteq Nat /\ \A e \in EmptyLines(all) : e < n + 1
  BY <1>1, EmptyIn
<1> HIDE DEF lined
<1>8. EndEvent(lined).usage = usage
  BY <1>1, <1>3, <1>5, <1>7, EventTold
<1>9. ~lined.hasData /\ ~lined.dropped => lined.usage = usage
  BY <1>1, <1>3, <1>5, <1>7, EventTold
<1>10. ended.usage = usage
  <2> HIDE DEF usage
  <2>1. CASE lined.hasData \/ lined.dropped
    BY <1>8, <2>1
  <2>2. CASE ~(lined.hasData \/ lined.dropped)
    BY <1>9, <2>2
  <2> QED
    BY <2>1, <2>2
<1> QED
  BY <1>6, <1>10 DEF UsageOf

(* A JSON body is read as a whole, or it is over its limit. *)
LEMMA JSONFinished ==
  ASSUME Body(body), ScanInv, Observed, OK, ~response.sse
  PROVE  Finished(scanner) = UsageOf(body)
<1>1. IF scanner.overflow THEN Len(body) > MaxJSON
      ELSE Len(body) <= MaxJSON /\ scanner.text = body
  BY DEF ScanInv
<1>2. CASE scanner.overflow
  <2>1. Finished(scanner) = NoUsage
    BY <1>2 DEF Finished
  <2>2. ~(Len(body) <= MaxJSON)
    BY <1>1, <1>2, ScanAssumption DEF Body
  <2> QED
    BY <2>1, <2>2 DEF UsageOf
<1>3. CASE ~scanner.overflow
  <2>1. Finished(scanner) = MergeEnvelope(scanner.text, NoUsage)
    BY <1>3 DEF Finished
  <2> QED
    BY <1>1, <1>3, <2>1 DEF UsageOf
<1> QED
  BY <1>2, <1>3

-----------------------------------------------------------------------------
(* The invariant of the accounting.                                          *)

(* The types of the variables. *)
AccountingTypes ==
  /\ response \in [status : Statuses, sse : BOOLEAN, encoded : BOOLEAN,
                   anthropic : BOOLEAN, session : BOOLEAN]
  /\ Body(body)
  /\ reading \in {"open", "failed", "closed", "ended"}

(* What is kept of an error body is how it begins. *)
ErrorKept ==
  Observed /\ response.status = 400 =>
    /\ scanner.text \in Seq(AllSymbols)
    /\ Len(scanner.text) <= MaxError /\ Len(scanner.text) <= Len(body)
    /\ Len(scanner.text) = MaxError \/ Len(scanner.text) = Len(body)
    /\ \A i \in 1 .. Len(scanner.text) : scanner.text[i] = body[i]

(* Before the end nothing is told but what the headers say. *)
NotedLate ==
  reading # "ended" =>
    /\ notified = <<>>
    /\ noted = <<>> \/ (noted = <<CacheDead>> /\ response.status = 413)

(* The inductive invariant. *)
AccountingInv ==
  /\ AccountingTypes
  /\ Scanner(scanner)
  /\ ScanInv
  /\ ErrorKept
  /\ NotedLate
  /\ OutcomeJustified
  /\ UsageIsOfTheBody

(* A cache outcome is never the death of the cache. *)
LEMMA OutcomesApart == \A usage : CacheOutcome(usage) # CacheDead
BY DEF CacheOutcome, CacheDead

(* Nothing is told before the first read but what the headers say. *)
LEMMA InitAccounting == Init => AccountingInv
<1> SUFFICES ASSUME Init PROVE AccountingInv
  OBVIOUS
<1>1. body = <<>> /\ scanner = NewScanner /\ reading = "open" /\ notified = <<>>
  BY DEF Init
<1>2. noted = <<>> \/ (noted = <<CacheDead>> /\ response.status = 413)
  BY DEF Init
<1>3. AccountingTypes
  BY DEF Init, AccountingTypes, Body
<1>4. Scanner(scanner) /\ StreamInv(body, scanner)
  BY <1>1, NewInv
<1>5. NewScanner.text = <<>> /\ ~NewScanner.overflow
  BY DEF NewScanner
<1>6. ScanInv
  BY <1>1, <1>4, <1>5, ScanAssumption DEF ScanInv
<1>7. ErrorKept
  BY <1>1, <1>5, ScanAssumption DEF ErrorKept
<1>8. NotedLate
  BY <1>1, <1>2 DEF NotedLate
<1>9. OutcomeJustified
  <2>1. body \in Seq({CR, LF, DATA, Refusal, Text} \union Reports)
    BY <1>1
  <2>2. Len(noted) <= 1 /\ Len(notified) = 0
    <3>1. Len(<<>>) = 0 /\ \A x : Len(<<x>>) = 1
      OBVIOUS
    <3>2. CASE noted = <<>>
      BY <1>1, <3>1, <3>2
    <3>3. CASE noted = <<CacheDead>>
      BY <1>1, <3>1, <3>3
    <3> QED
      BY <1>2, <3>2, <3>3
  <2>3. noted # <<>> => response.status = 413
    BY <1>2
  <2>4. AccountedOnce
    BY <1>1, <2>1, <2>2, <2>3 DEF AccountedOnce
  <2>5. DeadIsARefusal
    BY <2>3 DEF DeadIsARefusal
  <2> QED
    BY <2>4, <2>5 DEF OutcomeJustified
<1>10. UsageIsOfTheBody
  BY <1>1 DEF UsageIsOfTheBody
<1> QED
  BY <1>3, <1>4, <1>6, <1>7, <1>8, <1>9, <1>10 DEF AccountingInv

(* What begins a body still does when the next symbols are added to it.      *)
LEMMA PieceKept ==
  ASSUME NEW text \in Seq(AllSymbols), NEW all \in Seq(AllSymbols),
         NEW chunk \in Seq(AllSymbols), NEW k \in 0 .. Len(chunk),
         Len(text) <= Len(all), \A i \in 1 .. Len(text) : text[i] = all[i],
         k = 0 \/ Len(text) = Len(all),
         NEW kept, kept = text \o SubSeq(chunk, 1, k)
  PROVE  /\ kept \in Seq(AllSymbols) /\ Len(kept) = Len(text) + k
         /\ \A i \in 1 .. Len(kept) : kept[i] = (all \o chunk)[i]
<1> DEFINE more == all \o chunk
           piece == SubSeq(chunk, 1, k)
<1>1. Len(text) \in Nat /\ Len(all) \in Nat /\ Len(chunk) \in Nat /\ k \in Nat
      /\ k <= Len(chunk)
  OBVIOUS
<1>2. piece \in Seq(AllSymbols) /\ Len(piece) = k /\ \A i \in 1 .. k : piece[i] = chunk[i]
  BY <1>1
<1>3. \A i \in 1 .. Len(all) : more[i] = all[i]
  OBVIOUS
<1>4. \A i \in 1 .. Len(chunk) : more[Len(all) + i] = chunk[i]
  OBVIOUS
<1> HIDE DEF more, piece
<1>5. kept = text \o piece
  BY DEF piece
<1>6. /\ kept \in Seq(AllSymbols) /\ Len(kept) = Len(text) + k
      /\ \A i \in 1 .. Len(text) : kept[i] = text[i]
      /\ \A i \in 1 .. k : kept[Len(text) + i] = piece[i]
  BY <1>2, <1>5
<1>7. ASSUME NEW i \in 1 .. Len(kept) PROVE kept[i] = more[i]
  <2>1. CASE i <= Len(text)
    <3>1. i \in 1 .. Len(text) /\ i \in 1 .. Len(all)
      BY <1>1, <2>1
    <3> QED
      BY <1>3, <1>6, <3>1
  <2>2. CASE i > Len(text)
    <3>1. i - Len(text) \in 1 .. k /\ i = Len(text) + (i - Len(text))
      BY <1>1, <1>6, <2>2
    <3>2. Len(text) = Len(all) /\ i - Len(text) \in 1 .. Len(chunk)
      BY <1>1, <3>1
    <3>3. kept[i] = piece[i - Len(text)]
      BY <1>6, <3>1
    <3>4. more[i] = chunk[i - Len(text)]
      BY <1>4, <3>1, <3>2
    <3> QED
      BY <1>2, <3>1, <3>3, <3>4
  <2> QED
    BY <1>1, <1>6, <2>1, <2>2
<1> QED
  BY <1>6, <1>7 DEF more

(* The first places of an error body, whatever the limit leaves room for.    *)
Room(text, chunk) == IF Len(chunk) < MaxError - Len(text) THEN Len(chunk)
                     ELSE MaxError - Len(text)

(* The text of an error body after a read. *)
KeptText(s, chunk) == s.text \o SubSeq(chunk, 1, Room(s.text, chunk))

(* What there is room for is not more than there is. *)
LEMMA RoomIs ==
  ASSUME NEW text, NEW chunk, Len(text) \in Nat, Len(chunk) \in Nat, Len(text) <= MaxError
  PROVE  /\ Room(text, chunk) \in 0 .. Len(chunk)
         /\ Len(text) + Room(text, chunk) <= MaxError
         /\ Len(text) = MaxError => Room(text, chunk) = 0
         /\ Len(text) + Room(text, chunk) = MaxError \/ Room(text, chunk) = Len(chunk)
BY ScanAssumption DEF Room

(* A scanner with another text.                                              *)
LEMMA TextSet ==
  ASSUME NEW s, Scanner(s), NEW t, NEW u, u = [s EXCEPT !.text = t]
  PROVE  Scanner(u) /\ u.text = t /\ u.overflow = s.overflow
<1>1. u = [x \in ScannerFields |-> IF x = "text" THEN t ELSE s[x]]
  BY ScannerDomain DEF ScannerFields
<1>2. s.dropped \in BOOLEAN /\ s.hasData \in BOOLEAN /\ s.afterCR \in BOOLEAN
  BY DEF Scanner
<1>3. u.text = t /\ u.overflow = s.overflow
  BY <1>1 DEF ScannerFields
<1>4. Scanner(u)
  BY <1>1, <1>2 DEF Scanner, ScannerFields
<1> QED
  BY <1>3, <1>4

(* An error body keeps what its limit leaves room for.                       *)
LEMMA ErrorScanner ==
  ASSUME NEW s, Scanner(s), NEW chunk, NEW u, u = KeepError(s, chunk)
  PROVE  Scanner(u) /\ u.text = KeptText(s, chunk)
<1>1. u = [s EXCEPT !.text = KeptText(s, chunk)]
  BY DEF KeepError, Room, KeptText
<1> QED
  BY <1>1, TextSet

(* Keeping a JSON body leaves a scanner. *)
LEMMA JSONScanner ==
  ASSUME NEW s, Scanner(s), NEW chunk
  PROVE  Scanner(KeepJSON(s, chunk))
<1>1. ASSUME NEW t PROVE Scanner([s EXCEPT !.text = t])
  BY TextSet
<1>2. ASSUME NEW t, NEW over PROVE Scanner([s EXCEPT !.text = t, !.overflow = over])
  <2> DEFINE u == [s EXCEPT !.text = t, !.overflow = over]
  <2>1. u = [x \in ScannerFields |-> IF x = "text" THEN t ELSE
                                    IF x = "overflow" THEN over ELSE s[x]]
    BY ScannerDomain DEF ScannerFields
  <2>2. s.dropped \in BOOLEAN /\ s.hasData \in BOOLEAN /\ s.afterCR \in BOOLEAN
    BY DEF Scanner
  <2> HIDE DEF u
  <2>3. Scanner(u)
    BY <2>1, <2>2 DEF Scanner, ScannerFields
  <2> QED
    BY <2>3 DEF u
<1> QED
  BY <1>1, <1>2 DEF KeepJSON

(* A read of an error body. *)
LEMMA ReadError ==
  ASSUME AccountingTypes, AccountingTypes', Scanner(scanner), ErrorKept, OK <=> OK',
         Observed, response' = response,
         response.status = 400, NEW chunk \in Seq(AllSymbols),
         body' = body \o chunk, scanner' = Write(scanner, chunk)
  PROVE  Scanner(scanner)' /\ ScanInv' /\ ErrorKept'
<1>1. scanner' = KeepError(scanner, chunk) /\ ~OK
  BY DEF Write, OK
<1>2. Scanner(scanner)'
  BY <1>1, ErrorScanner
<1>3. ScanInv'
  BY <1>1 DEF ScanInv
<1> DEFINE text == scanner.text
           k == Room(text, chunk)
           kept == scanner'.text
<1>4. /\ text \in Seq(AllSymbols) /\ Len(text) <= MaxError /\ Len(text) <= Len(body)
      /\ \A i \in 1 .. Len(text) : text[i] = body[i]
      /\ Len(text) = MaxError \/ Len(text) = Len(body)
  BY DEF ErrorKept
<1>5. kept = text \o SubSeq(chunk, 1, k)
  <2>1. scanner'.text = KeptText(scanner, chunk)
    BY <1>1, ErrorScanner
  <2> QED
    BY <2>1 DEF KeptText
<1>6. body \in Seq(AllSymbols)
  BY DEF AccountingTypes, Body
<1> HIDE DEF text, kept
<1>7. Len(text) \in Nat /\ Len(chunk) \in Nat /\ Len(body) \in Nat /\ MaxError \in Nat
  BY <1>4, <1>6, ScanAssumption
<1>8. /\ k \in 0 .. Len(chunk) /\ Len(text) + k <= MaxError
      /\ Len(text) = MaxError => k = 0
      /\ Len(text) + k = MaxError \/ k = Len(chunk)
  BY <1>4, <1>7, RoomIs
<1> HIDE DEF k
<1>9. /\ kept \in Seq(AllSymbols) /\ Len(kept) = Len(text) + k
      /\ \A i \in 1 .. Len(kept) : kept[i] = (body \o chunk)[i]
  BY <1>4, <1>5, <1>6, <1>8, PieceKept
<1>10. Len(body \o chunk) = Len(body) + Len(chunk)
  BY <1>6
<1>11. /\ Len(kept) <= MaxError /\ Len(kept) <= Len(body')
       /\ Len(kept) = MaxError \/ Len(kept) = Len(body')
  BY <1>4, <1>7, <1>8, <1>9, <1>10
<1>12. ErrorKept'
  BY <1>9, <1>11 DEF ErrorKept, kept
<1> QED
  BY <1>2, <1>3, <1>12

(* A read of a body with usage, event stream or JSON. *)
LEMMA ReadStream ==
  ASSUME AccountingTypes, Scanner(scanner), ScanInv, OK <=> OK', Observed,
         response' = response, OK, NEW chunk \in Seq(AllSymbols),
         body' = body \o chunk, scanner' = Write(scanner, chunk)
  PROVE  Scanner(scanner)' /\ ScanInv' /\ ErrorKept'
<1>1. response.status = 200 /\ response.status # 400
  BY DEF OK
<1>2. ErrorKept'
  BY <1>1 DEF ErrorKept
<1>3. Body(body) /\ body \in Seq(AllSymbols)
  BY DEF AccountingTypes, Body
<1>4. CASE response.sse
  <2>1. scanner' = AddAll(scanner, chunk)
    BY <1>1, <1>4 DEF Write
  <2>2. StreamInv(body, scanner)
    BY <1>4 DEF ScanInv
  <2>3. Scanner(scanner') /\ StreamInv(body', scanner')
    BY <1>3, <2>1, <2>2, ChunkAdded
  <2>4. ScanInv'
    BY <1>4, <2>3 DEF ScanInv
  <2> QED
    BY <1>2, <2>3, <2>4
<1>5. CASE ~response.sse
  <2>1. scanner' = KeepJSON(scanner, chunk)
    BY <1>1, <1>5 DEF Write
  <2>2. Scanner(scanner')
    BY <2>1, JSONScanner
  <2>3. IF scanner.overflow THEN Len(body) > MaxJSON
        ELSE Len(body) <= MaxJSON /\ scanner.text = body
    BY <1>5 DEF ScanInv
  <2>4. Len(body') = Len(body) + Len(chunk) /\ Len(body) \in Nat /\ Len(chunk) \in Nat
        /\ MaxJSON \in Nat
    BY <1>3, ScanAssumption
  <2>5. CASE scanner.overflow
    <3>1. scanner' = scanner
      BY <2>1, <2>5 DEF KeepJSON
    <3>2. Len(body') > MaxJSON
      BY <2>3, <2>4, <2>5
    <3> QED
      BY <1>2, <1>5, <2>2, <2>5, <3>1, <3>2 DEF ScanInv
  <2>6. CASE ~scanner.overflow /\ Len(body) + Len(chunk) > MaxJSON
    <3>1. scanner' = [scanner EXCEPT !.text = <<>>, !.overflow = TRUE]
      BY <2>1, <2>3, <2>6 DEF KeepJSON
    <3>2. scanner'.overflow
      BY <3>1 DEF Scanner
    <3> QED
      BY <1>2, <1>5, <2>2, <2>4, <2>6, <3>2 DEF ScanInv
  <2>7. CASE ~scanner.overflow /\ ~(Len(body) + Len(chunk) > MaxJSON)
    <3>1. scanner' = [scanner EXCEPT !.text = @ \o chunk]
      BY <2>1, <2>3, <2>7 DEF KeepJSON
    <3> DEFINE t == scanner.text \o chunk
    <3>a. scanner' = [scanner EXCEPT !.text = t]
      BY <3>1
    <3> HIDE DEF t
    <3>b. scanner'.text = t /\ scanner'.overflow = scanner.overflow
      BY <3>a, TextSet
    <3>2. scanner'.text = scanner.text \o chunk /\ scanner'.overflow = scanner.overflow
      BY <3>b DEF t
    <3>c. scanner.text = body
      BY <2>3, <2>7
    <3>d. scanner'.text = body'
      BY <3>2, <3>c
    <3>e. Len(body') <= MaxJSON
      BY <2>4, <2>7
    <3>3. scanner'.text = body' /\ Len(body') <= MaxJSON
      BY <3>d, <3>e
    <3> QED
      BY <1>2, <1>5, <2>2, <2>7, <3>2, <3>3 DEF ScanInv
  <2> QED
    BY <2>5, <2>6, <2>7
<1> QED
  BY <1>4, <1>5

(* A read. *)
LEMMA ReadAccounting == AccountingInv /\ Read => AccountingInv'
<1> SUFFICES ASSUME AccountingInv, Read PROVE AccountingInv'
  OBVIOUS
<1>1. /\ reading = "open" /\ response' = response /\ reading' = reading
      /\ noted' = noted /\ notified' = notified
  BY DEF Read
<1>2. PICK n \in 1 .. MaxChunk : \E chunk \in [1 .. n -> Symbols] :
           /\ body' = body \o chunk
           /\ scanner' = IF Observed THEN Write(scanner, chunk) ELSE scanner
  BY DEF Read
<1>3. PICK chunk \in [1 .. n -> Symbols] :
           /\ body' = body \o chunk
           /\ scanner' = IF Observed THEN Write(scanner, chunk) ELSE scanner
  BY <1>2
<1>4. chunk \in Seq(AllSymbols)
  <2>1. Symbols \subseteq AllSymbols
    BY DEF Symbols, AllSymbols
  <2>2. n \in Nat
    BY ScanAssumption
  <2> QED
    BY <2>1, <2>2
<1>5. /\ AccountingTypes /\ Scanner(scanner) /\ ScanInv /\ ErrorKept /\ NotedLate
      /\ OutcomeJustified
  BY DEF AccountingInv
<1>6. Body(body) /\ body \in Seq(AllSymbols)
  BY <1>5 DEF AccountingTypes, Body
<1>7. AccountingTypes'
  <2>1. Body(body')
    BY <1>3, <1>4, <1>6 DEF Body
  <2> QED
    BY <1>1, <1>5, <2>1 DEF AccountingTypes
<1>8. (OK <=> OK') /\ (Observed <=> Observed')
  BY <1>1 DEF OK, Observed
<1>9. Scanner(scanner)' /\ ScanInv' /\ ErrorKept'
  <2>1. CASE ~Observed
    <3>1. scanner' = scanner
      BY <1>3, <2>1
    <3> QED
      BY <1>5, <1>8, <2>1, <3>1 DEF ScanInv, ErrorKept
  <2>2. CASE Observed /\ response.status = 400
    <3>1. scanner' = Write(scanner, chunk)
      BY <1>3, <2>2
    <3> QED
      BY <1>1, <1>3, <1>4, <1>5, <1>7, <1>8, <2>2, <3>1, ReadError
  <2>3. CASE Observed /\ OK
    <3>1. scanner' = Write(scanner, chunk)
      BY <1>3, <2>3
    <3> QED
      BY <1>1, <1>3, <1>4, <1>5, <1>8, <2>3, <3>1, ReadStream
  <2> QED
    BY <2>1, <2>2, <2>3 DEF Observed, OK
<1>10. NotedLate'
  BY <1>1, <1>5 DEF NotedLate
<1>11. OutcomeJustified'
  <2>1. notified = <<>> /\ (noted = <<>> \/ (noted = <<CacheDead>> /\ response.status = 413))
    BY <1>1, <1>5 DEF NotedLate
  <2>2. body' \in Seq({CR, LF, DATA, Refusal, Text} \union Reports)
    BY <1>7 DEF AccountingTypes, Body, AllSymbols
  <2>3. AccountedOnce'
    BY <1>1, <1>5, <2>2 DEF OutcomeJustified, AccountedOnce
  <2>4. DeadIsARefusal'
    BY <1>1, <2>1 DEF DeadIsARefusal
  <2> QED
    BY <2>3, <2>4 DEF OutcomeJustified
<1>12. UsageIsOfTheBody'
  BY <1>1 DEF UsageIsOfTheBody
<1> QED
  BY <1>7, <1>9, <1>10, <1>11, <1>12 DEF AccountingInv

(* At most one thing is told. *)
LEMMA AtMostOne ==
  ASSUME NEW told, told = <<>> \/ \E x : told = <<x>>
  PROVE  Len(told) <= 1
<1>1. CASE told = <<>>
  BY <1>1
<1>2. ASSUME NEW x, told = <<x>> PROVE Len(told) <= 1
  <2>1. Len(<<x>>) = 1
    OBVIOUS
  <2> QED
    BY <1>2, <2>1
<1> QED
  BY <1>1, <1>2

(* An outcome is a sequence, so nothing before it changes it. *)
LEMMA NothingBefore == <<>> \o Outcome = Outcome
<1>1. \A x : <<>> \o <<x>> = <<x>>
  <2> SUFFICES ASSUME NEW x PROVE <<>> \o <<x>> = <<x>>
    OBVIOUS
  <2>1. <<x>> \in Seq({x})
    OBVIOUS
  <2> QED
    BY <2>1
<1>2. Outcome = <<>> \/ \E x : Outcome = <<x>>
  BY DEF Outcome
<1>3. <<>> \o <<>> = <<>>
  OBVIOUS
<1> QED
  BY <1>1, <1>2, <1>3

(* The end of the body: what is told is of the whole of it.                  *)
LEMMA EndAccounting == AccountingInv /\ EndOfFile => AccountingInv'
<1> SUFFICES ASSUME AccountingInv, EndOfFile PROVE AccountingInv'
  OBVIOUS
<1>1. /\ reading = "open" /\ reading' = "ended" /\ response' = response
      /\ body' = body /\ scanner' = scanner
  BY DEF EndOfFile
<1>2. /\ AccountingTypes /\ Scanner(scanner) /\ ScanInv /\ ErrorKept /\ NotedLate
      /\ OutcomeJustified
  BY DEF AccountingInv
<1>3. (OK <=> OK') /\ (Observed <=> Observed') /\ UsageOf(body)' = UsageOf(body)
  BY <1>1 DEF OK, Observed, UsageOf
<1>4. AccountingTypes' /\ Scanner(scanner)' /\ ScanInv' /\ ErrorKept' /\ NotedLate'
  <2>1. AccountingTypes' /\ Scanner(scanner)'
    BY <1>1, <1>2 DEF AccountingTypes
  <2>2. ScanInv' /\ ErrorKept'
    BY <1>1, <1>2, <1>3 DEF ScanInv, ErrorKept
  <2>3. NotedLate'
    BY <1>1 DEF NotedLate
  <2> QED
    BY <2>1, <2>2, <2>3
<1>5. notified = <<>> /\ (noted = <<>> \/ (noted = <<CacheDead>> /\ response.status = 413))
  BY <1>1, <1>2 DEF NotedLate
<1> DEFINE usage == IF Observed THEN Finished(scanner) ELSE NoUsage
<1>6. notified' = <<usage>>
  BY <1>5 DEF EndOfFile
<1>7. Observed => noted = <<>>
  BY <1>5 DEF Observed
<1>8. \/ noted' = noted
      \/ Observed /\ response.session /\ noted' = Outcome
  <2>1. CASE Observed /\ response.session
    <3>1. noted' = <<>> \o Outcome
      BY <1>7, <2>1 DEF EndOfFile
    <3> QED
      BY <2>1, <3>1, NothingBefore
  <2>2. CASE ~(Observed /\ response.session)
    BY <2>2 DEF EndOfFile
  <2> QED
    BY <2>1, <2>2
<1>9. \/ Outcome = <<>>
      \/ Outcome = <<CacheOutcome(Finished(scanner))>>
      \/ /\ Outcome = <<CacheDead>> /\ response.status = 400
         /\ \E i \in DOMAIN scanner.text : scanner.text[i] = Refusal
  BY DEF Outcome
<1>10. OutcomeJustified'
  <2>1. body' \in Seq({CR, LF, DATA, Refusal, Text} \union Reports)
    BY <1>1, <1>2 DEF AccountingTypes, Body, AllSymbols
  <2>2. Len(<<>>) = 0 /\ \A x : Len(<<x>>) = 1
    OBVIOUS
  <2>3. Len(noted') <= 1 /\ Len(notified') = 1
    <3>1. Len(Outcome) <= 1
      <4>1. Outcome = <<>> \/ \E x : Outcome = <<x>>
        BY <1>9
      <4> QED
        BY <4>1, AtMostOne
    <3>2. Len(noted) <= 1
      <4>1. noted = <<>> \/ \E x : noted = <<x>>
        BY <1>5
      <4> QED
        BY <4>1, AtMostOne
    <3>3. Len(notified') = 1
      BY <1>6, <2>2
    <3> QED
      BY <1>8, <3>1, <3>2, <3>3
  <2>4. AccountedOnce'
    BY <1>1, <2>1, <2>3 DEF AccountedOnce
  <2>5. ASSUME noted' = <<CacheDead>>
        PROVE  \/ response.status = 413
               \/ /\ response.status = 400
                  /\ \E i \in DOMAIN body : i <= MaxError /\ body[i] = Refusal
    <3>1. CASE noted' = noted
      <4>1. CacheDead = <<CacheDead>>[1] /\ noted # <<>>
        BY <2>2, <2>5, <3>1
      <4> QED
        BY <1>5, <4>1
    <3>2. CASE Observed /\ response.session /\ noted' = Outcome
      <4>1. Outcome # <<>>
        BY <2>2, <2>5, <3>2
      <4>2. Outcome # <<CacheOutcome(Finished(scanner))>>
        BY <2>5, <3>2, OutcomesApart
      <4>3. response.status = 400 /\ \E i \in DOMAIN scanner.text : scanner.text[i] = Refusal
        BY <1>9, <4>1, <4>2
      <4>4. PICK i \in DOMAIN scanner.text : scanner.text[i] = Refusal
        BY <4>3
      <4>5. /\ scanner.text \in Seq(AllSymbols) /\ Len(scanner.text) <= MaxError
            /\ Len(scanner.text) <= Len(body)
            /\ \A k \in 1 .. Len(scanner.text) : scanner.text[k] = body[k]
        BY <1>2, <3>2, <4>3 DEF ErrorKept
      <4>6. body \in Seq(AllSymbols) /\ MaxError \in Nat
        BY <1>2, ScanAssumption DEF AccountingTypes, Body
      <4>7. i \in 1 .. Len(scanner.text) /\ i \in DOMAIN body /\ i <= MaxError
        BY <4>4, <4>5, <4>6
      <4> QED
        BY <4>3, <4>4, <4>5, <4>7
    <3> QED
      BY <1>8, <3>1, <3>2
  <2>6. DeadIsARefusal'
    BY <1>1, <2>5, OutcomesApart DEF DeadIsARefusal, CacheDead
  <2> QED
    BY <2>4, <2>6 DEF OutcomeJustified
<1>11. UsageIsOfTheBody'
  <2> SUFFICES ASSUME Observed, OK
               PROVE  /\ notified' = <<UsageOf(body)>>
                      /\ noted' = IF response.session /\ UsageOf(body).seen
                                  THEN <<CacheOutcome(UsageOf(body))>> ELSE <<>>
    BY <1>1, <1>3 DEF UsageIsOfTheBody
  <2>1. Finished(scanner) = UsageOf(body)
    <3>1. Body(body)
      BY <1>2 DEF AccountingTypes
    <3>2. CASE response.sse
      <4>1. StreamInv(body, scanner)
        BY <1>2, <3>2 DEF ScanInv
      <4> QED
        BY <1>2, <3>1, <3>2, <4>1, StreamFinished
    <3>3. CASE ~response.sse
      BY <1>2, <3>1, <3>3, JSONFinished
    <3> QED
      BY <3>2, <3>3
  <2>2. notified' = <<UsageOf(body)>>
    BY <1>6, <2>1
  <2>3. Outcome = IF UsageOf(body).seen THEN <<CacheOutcome(UsageOf(body))>> ELSE <<>>
    BY <2>1 DEF Outcome, OK
  <2>4. noted' = IF response.session THEN Outcome ELSE <<>>
    <3>1. CASE response.session
      <4>1. noted' = <<>> \o Outcome
        BY <1>7, <3>1 DEF EndOfFile
      <4> QED
        BY <3>1, <4>1, NothingBefore
    <3>2. CASE ~response.session
      BY <1>7, <3>2 DEF EndOfFile
    <3> QED
      BY <3>1, <3>2
  <2> QED
    BY <2>2, <2>3, <2>4
<1> QED
  BY <1>4, <1>10, <1>11 DEF AccountingInv

(* An interrupted response is told to nobody, and stays so.                  *)
LEMMA OtherAccounting ==
  AccountingInv /\ (Interrupted \/ UNCHANGED vars) => AccountingInv'
<1> SUFFICES ASSUME AccountingInv, Interrupted \/ UNCHANGED vars PROVE AccountingInv'
  OBVIOUS
<1>1. /\ response' = response /\ body' = body /\ scanner' = scanner
      /\ noted' = noted /\ notified' = notified
      /\ reading' = reading \/ (reading = "open" /\ reading' \in {"failed", "closed"})
  BY DEF Interrupted, vars
<1>2. (OK <=> OK') /\ (Observed <=> Observed') /\ UsageOf(body)' = UsageOf(body)
  BY <1>1 DEF OK, Observed, UsageOf
<1>3. AccountingTypes' /\ Scanner(scanner)'
  BY <1>1 DEF AccountingInv, AccountingTypes
<1>4. ScanInv' /\ ErrorKept'
  BY <1>1, <1>2 DEF AccountingInv, ScanInv, ErrorKept
<1>5. NotedLate'
  BY <1>1 DEF AccountingInv, NotedLate
<1>6. AccountedOnce'
  BY <1>1 DEF AccountingInv, OutcomeJustified, AccountedOnce
<1>7. DeadIsARefusal'
  BY <1>1 DEF AccountingInv, OutcomeJustified, DeadIsARefusal, CacheDead
<1>8. UsageIsOfTheBody'
  BY <1>1, <1>2 DEF AccountingInv, UsageIsOfTheBody, CacheOutcome
<1> QED
  BY <1>3, <1>4, <1>5, <1>6, <1>7, <1>8 DEF AccountingInv, OutcomeJustified

(* What the accounting keeps is an invariant of it. *)
THEOREM Accounting == Spec => []AccountingInv
<1>1. AccountingInv /\ [Next]_vars => AccountingInv'
  BY ReadAccounting, EndAccounting, OtherAccounting DEF Next
<1> QED
  BY InitAccounting, <1>1, PTL DEF Spec

(* A response is accounted at most once, at its clean end, and the cache of  *)
(* its session is called dead only for a refusal of its size in the part of  *)
(* the error body that is kept: for every body, limit and cut.               *)
THEOREM OutcomesAreJustified == Spec => []OutcomeJustified
<1>1. AccountingInv => OutcomeJustified
  BY DEF AccountingInv
<1> QED
  BY Accounting, <1>1, PTL

(* The usage that is noted and notified is that of the body taken whole,     *)
(* however the network cut it into reads.                                    *)
THEOREM UsageOfBody == Spec => []UsageIsOfTheBody
<1>1. AccountingInv => UsageIsOfTheBody
  BY DEF AccountingInv
<1> QED
  BY Accounting, <1>1, PTL
=============================================================================
