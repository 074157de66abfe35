------------------------ MODULE HistoryGrowthProofs ------------------------
(***************************************************************************)
(* The layouts of a growing conversation, proved for every conversation.   *)
(*                                                                         *)
(* What ClosedPrefix reads is a scan of the messages; its states are a     *)
(* function on 0 .. n, and facts about them are shown by induction on how  *)
(* far the scan has come.  They say where a conversation can be cut        *)
(* (IsCut), that a cut answers its calls, and that it stays one when the   *)
(* conversation grows and is found again by a later cutoff.  The running   *)
(* totals of a longer conversation agree with those of a shorter one, so   *)
(* that what was affordable stays affordable; and of two steps of the grid *)
(* the larger is a multiple of the smaller.                                *)
(*                                                                         *)
(* The blocks of a layout are computed by a loop over its chunks, again a  *)
(* function on 0 .. to.  A chunk carries what was typed in it once, chunks *)
(* do not overlap and leave nothing out, and two loops agree as far as     *)
(* their chunks do: so nothing typed is lost, and what was cached repeats. *)
(***************************************************************************)
EXTENDS HistoryGrowth, FiniteSetTheorems, WellFoundedInduction, TLAPS

-----------------------------------------------------------------------------
(* Numbers, and recursion up to a bound.                                     *)

(* A nonempty set of numbers has a least element.                            *)
LEMMA Least ==
  ASSUME NEW T, T \subseteq Nat, T # {}
  PROVE  \E m \in T : \A n \in T : m <= n
<1>1. PICK m \in T : \A y \in T : ~ (<<y, m>> \in OpToRel(<, Nat))
  BY NatLessThanWellFounded, WFMin
<1>2. \A y \in T : ~(y < m)
  BY <1>1 DEF OpToRel
<1>3. m \in Nat /\ \A y \in T : y \in Nat
  OBVIOUS
<1>4. \A y \in T : m <= y
  BY <1>2, <1>3
<1> QED
  BY <1>4

(* Induction up to a bound. *)
LEMMA UpTo ==
  ASSUME NEW n \in Nat, NEW T, 0 \in T, \A i \in 1 .. n : i - 1 \in T => i \in T
  PROVE  \A i \in 0 .. n : i \in T
<1> SUFFICES ASSUME {i \in 0 .. n : i \notin T} # {} PROVE FALSE
  OBVIOUS
<1> DEFINE U == {i \in 0 .. n : i \notin T}
<1>0. U \subseteq Nat /\ U # {}
  OBVIOUS
<1>1. PICK m \in U : \A i \in U : m <= i
  <2> HIDE DEF U
  <2> QED
    BY <1>0, Least
<1>2. m \in 1 .. n /\ m - 1 \in 0 .. n /\ m - 1 < m
  OBVIOUS
<1>3. m - 1 \in T
  BY <1>1, <1>2
<1> QED
  BY <1>2, <1>3

(* f is computed by the steps from the base. *)
Iterates(f, n, base, step) == f[0] = base /\ \A i \in 1 .. n : f[i] = step[i][f[i - 1]]
StepsIn(step, n, S) == \A i \in 1 .. n : \A s \in S : step[i][s] \in S

(* Recursion up to a bound has a solution.                                   *)
LEMMA IterateExists ==
  ASSUME NEW n \in Nat, NEW S, NEW base \in S, NEW step, StepsIn(step, n, S)
  PROVE  \E f \in [0 .. n -> S] : Iterates(f, n, base, step)
<1> DEFINE Sound(f, k) == f[0] = base /\ \A i \in 1 .. n : i <= k => f[i] = step[i][f[i - 1]]
           T == {k \in 0 .. n : \E f \in [0 .. n -> S] : Sound(f, k)}
<1>1. 0 \in T
  <2> DEFINE f == [i \in 0 .. n |-> base]
  <2>1. f \in [0 .. n -> S] /\ Sound(f, 0)
    OBVIOUS
  <2> QED
    BY <2>1
<1>2. ASSUME NEW k \in 1 .. n, k - 1 \in T PROVE k \in T
  <2>1. PICK f \in [0 .. n -> S] : Sound(f, k - 1)
    BY <1>2
  <2> DEFINE g == [f EXCEPT ![k] = step[k][f[k - 1]]]
  <2>2. step[k][f[k - 1]] \in S
    BY DEF StepsIn
  <2>3. g \in [0 .. n -> S]
    BY <2>2
  <2>4. \A i \in 0 .. n : i # k => g[i] = f[i]
    OBVIOUS
  <2>5. g[k] = step[k][f[k - 1]]
    OBVIOUS
  <2> HIDE DEF g
  <2>6. g[0] = base
    BY <2>1, <2>4
  <2>7. ASSUME NEW i \in 1 .. n, i <= k PROVE g[i] = step[i][g[i - 1]]
    <3>1. g[i - 1] = f[i - 1]
      BY <2>4, <2>7
    <3>2. CASE i = k
      BY <2>5, <3>1, <3>2
    <3>3. CASE i # k
      BY <2>1, <2>4, <2>7, <3>1, <3>3
    <3> QED
      BY <3>2, <3>3
  <2>8. Sound(g, k)
    BY <2>6, <2>7
  <2> QED
    BY <2>3, <2>8
<1> HIDE DEF T
<1>3. \A k \in 0 .. n : k \in T
  BY <1>1, <1>2, UpTo
<1>4. PICK f \in [0 .. n -> S] : Sound(f, n)
  BY <1>3 DEF T
<1> QED
  BY <1>4 DEF Iterates

-----------------------------------------------------------------------------
Messages == [role : {"user", "assistant"}, array : BOOLEAN, uses : SUBSET ToolIds,
             results : SUBSET ToolIds, text : Nat, typed : Nat]

ScanStates == [open : SUBSET ToolIds, round : BOOLEAN, closed : Nat]
NothingRead == [open |-> {}, round |-> FALSE, closed |-> 0]

(* f holds the states of the scan of the first n messages. *)
Scans(f, ms, n) ==
  /\ f \in [0 .. n -> ScanStates]
  /\ f[0] = NothingRead
  /\ \A i \in 1 .. n : f[i] = ScanMessage(f[i - 1], ms[i], i)

(* What Scan returns is the last of such states.                             *)
LEMMA ScanIs ==
  ASSUME NEW ms \in Seq(Messages), NEW n \in 0 .. Len(ms)
  PROVE  \E f : Scans(f, ms, n) /\ Scan(ms, n) = f[n]
<1> DEFINE step == [i \in 1 .. n |-> [s \in ScanStates |-> ScanMessage(s, ms[i], i)]]
           Rec(f) == f = [i \in 0 .. n |-> IF i = 0 THEN NothingRead
                                           ELSE ScanMessage(f[i - 1], ms[i], i)]
<1>1. \A i \in 1 .. n : \A s \in ScanStates : ScanMessage(s, ms[i], i) \in ScanStates
  <2> SUFFICES ASSUME NEW i \in 1 .. n, NEW s \in ScanStates
               PROVE  ScanMessage(s, ms[i], i) \in ScanStates
    OBVIOUS
  <2>1. ms[i] \in Messages
    OBVIOUS
  <2>2. Uses(ms[i]) \in SUBSET ToolIds /\ Results(ms[i]) \in SUBSET ToolIds
    BY <2>1 DEF Messages, Uses, Results
  <2> DEFINE open == (s.open \cup Uses(ms[i])) \ Results(ms[i])
  <2>3. open \in SUBSET ToolIds
    BY <2>2 DEF ScanStates
  <2> HIDE DEF open
  <2>4. s.closed \in Nat /\ i \in Nat
    BY DEF ScanStates
  <2> QED
    BY <2>3, <2>4 DEF ScanStates, ScanMessage, open
<1>2. NothingRead \in ScanStates
  BY DEF NothingRead, ScanStates
<1>3. StepsIn(step, n, ScanStates)
  BY <1>1 DEF StepsIn
<1>4. PICK f \in [0 .. n -> ScanStates] : Iterates(f, n, NothingRead, step)
  <2> HIDE DEF step
  <2> QED
    BY <1>2, <1>3, IterateExists
<1>5. \A i \in 1 .. n : f[i - 1] \in ScanStates
  OBVIOUS
<1>6. f[0] = NothingRead /\ \A i \in 1 .. n : f[i] = ScanMessage(f[i - 1], ms[i], i)
  BY <1>4, <1>5 DEF Iterates
<1>7. f = [i \in 0 .. n |-> f[i]]
  OBVIOUS
<1>8. Rec(f)
  BY <1>6, <1>7
<1> DEFINE h == CHOOSE g : Rec(g)
<1>9. Rec(h)
  <2> HIDE DEF Rec
  <2> QED
    BY <1>8
<1>10. Scan(ms, n) = h[n]
  BY Zenon DEF Scan, NothingRead
<1>11. h = [i \in 0 .. n |-> IF i = 0 THEN NothingRead ELSE ScanMessage(h[i - 1], ms[i], i)]
  BY <1>9
<1> HIDE DEF h, Rec, step
<1>12. \A i \in 0 .. n : h[i] = IF i = 0 THEN NothingRead ELSE ScanMessage(h[i - 1], ms[i], i)
  BY <1>11
<1> DEFINE T == {i \in 0 .. n : h[i] \in ScanStates}
<1>13. \A i \in 0 .. n : i \in T
  <2>1. 0 \in T
    BY <1>2, <1>12
  <2>2. ASSUME NEW i \in 1 .. n, i - 1 \in T PROVE i \in T
    BY <1>1, <1>12, <2>2
  <2> HIDE DEF T
  <2>3. n \in Nat /\ \A i \in 1 .. n : i - 1 \in T => i \in T
    BY <2>2
  <2> QED
    BY <2>1, <2>3, UpTo
<1>14. h \in [0 .. n -> ScanStates]
  <2>1. h = [i \in 0 .. n |-> h[i]]
    BY <1>11
  <2> QED
    BY <1>13, <2>1
<1>15. Scans(h, ms, n)
  BY <1>12, <1>14 DEF Scans
<1> QED
  BY <1>10, <1>15

-----------------------------------------------------------------------------
(* The calls that are open after one more message of a scan.                 *)
LEMMA ScanOpen ==
  ASSUME NEW ms, NEW n, NEW f, Scans(f, ms, n), NEW i \in 1 .. n
  PROVE  f[i].open = (f[i - 1].open \cup Uses(ms[i])) \ Results(ms[i])
<1>1. f[i] = ScanMessage(f[i - 1], ms[i], i)
  BY DEF Scans
<1> QED
  BY <1>1 DEF ScanMessage

(* One message of a scan.                                                    *)
LEMMA ScanStep ==
  ASSUME NEW ms \in Seq(Messages), NEW n \in 0 .. Len(ms), NEW f, Scans(f, ms, n),
         NEW i \in 1 .. n
  PROVE  /\ f[i] \in ScanStates /\ f[i - 1] \in ScanStates
         /\ f[i].open = (f[i - 1].open \cup Uses(ms[i])) \ Results(ms[i])
         /\ f[i].round <=> \/ Uses(ms[i]) # {}
                           \/ f[i - 1].round /\ f[i - 1].open # {}
         /\ f[i].closed = IF f[i].open = {} /\ ~f[i].round THEN i ELSE f[i - 1].closed
<1>1. i \in 0 .. n /\ i - 1 \in 0 .. n
  OBVIOUS
<1>2. f[i] \in ScanStates /\ f[i - 1] \in ScanStates
  BY <1>1 DEF Scans
<1>3. f[i] = ScanMessage(f[i - 1], ms[i], i)
  BY DEF Scans
<1>4. f[i - 1].round \in BOOLEAN
  BY <1>2 DEF ScanStates
<1>5. f[i].open = (f[i - 1].open \cup Uses(ms[i])) \ Results(ms[i])
  BY ScanOpen
<1> DEFINE over == f[i - 1].round /\ f[i - 1].open = {} /\ Uses(ms[i]) = {}
           round == (f[i - 1].round /\ ~over) \/ Uses(ms[i]) # {}
           open == (f[i - 1].open \cup Uses(ms[i])) \ Results(ms[i])
           closed == IF open = {} /\ ~round THEN i ELSE f[i - 1].closed
<1>8. f[i] = [open |-> open, round |-> round, closed |-> closed]
  BY <1>3, Zenon DEF ScanMessage
<1>9. round <=> \/ Uses(ms[i]) # {}
                \/ f[i - 1].round /\ f[i - 1].open # {}
  BY <1>4
<1> HIDE DEF round, open, closed
<1>10. f[i].open = open /\ f[i].round = round /\ f[i].closed = closed
  BY <1>8
<1>6. f[i].round <=> \/ Uses(ms[i]) # {}
                     \/ f[i - 1].round /\ f[i - 1].open # {}
  BY <1>9, <1>10
<1>7. f[i].closed = IF f[i].open = {} /\ ~f[i].round THEN i ELSE f[i - 1].closed
  BY <1>10, Zenon DEF closed
<1> QED
  BY <1>2, <1>5, <1>6, <1>7

(* A scan does not depend on how far it goes. *)
LEMMA ScansAgree ==
  ASSUME NEW old, NEW ms, NEW n \in Nat, NEW k \in Nat, NEW f, NEW g,
         Scans(f, old, n), Scans(g, ms, k), n <= k,
         \A i \in 1 .. n : old[i] = ms[i]
  PROVE  \A i \in 0 .. n : f[i] = g[i]
<1> DEFINE T == {i \in 0 .. n : f[i] = g[i]}
<1>1. 0 \in T
  BY DEF Scans
<1>2. ASSUME NEW i \in 1 .. n, i - 1 \in T PROVE i \in T
  <2>1. i \in 1 .. k
    OBVIOUS
  <2>2. f[i] = ScanMessage(f[i - 1], old[i], i)
    BY DEF Scans
  <2>3. g[i] = ScanMessage(g[i - 1], ms[i], i)
    BY <2>1 DEF Scans
  <2>4. f[i - 1] = g[i - 1] /\ old[i] = ms[i]
    BY <1>2
  <2> QED
    BY <2>2, <2>3, <2>4
<1> HIDE DEF T
<1>3. \A i \in 0 .. n : i \in T
  BY <1>1, <1>2, UpTo
<1> QED
  BY <1>3 DEF T

(* The part of a scan is a scan. *)
LEMMA ScansPart ==
  \A ms, f : \A n \in Nat : \A k \in 0 .. n :
    Scans(f, ms, n) => \E g : Scans(g, ms, k) /\ \A i \in 0 .. k : g[i] = f[i]
<1> SUFFICES ASSUME NEW ms, NEW f, NEW n \in Nat, NEW k \in 0 .. n, Scans(f, ms, n)
             PROVE  \E g : Scans(g, ms, k) /\ \A i \in 0 .. k : g[i] = f[i]
  OBVIOUS
<1> DEFINE g == [i \in 0 .. k |-> f[i]]
<1>1. \A i \in 0 .. k : i \in 0 .. n /\ g[i] = f[i]
  OBVIOUS
<1>2. g \in [0 .. k -> ScanStates]
  BY <1>1 DEF Scans
<1>3. g[0] = NothingRead
  BY <1>1 DEF Scans
<1>4. \A i \in 1 .. k : g[i] = ScanMessage(g[i - 1], ms[i], i)
  <2> SUFFICES ASSUME NEW i \in 1 .. k PROVE g[i] = ScanMessage(g[i - 1], ms[i], i)
    OBVIOUS
  <2>1. g[i] = f[i] /\ g[i - 1] = f[i - 1]
    OBVIOUS
  <2>2. f[i] = ScanMessage(f[i - 1], ms[i], i)
    BY DEF Scans
  <2> QED
    BY <2>1, <2>2
<1> HIDE DEF g
<1> QED
  BY <1>1, <1>2, <1>3, <1>4 DEF Scans

Quiet(s) == s.open = {} /\ ~s.round

(* A round goes on while calls come or are open.                             *)
LEMMA ScanRound ==
  ASSUME NEW ms, NEW n \in Nat, NEW f, Scans(f, ms, n), NEW i \in 1 .. n
  PROVE  f[i].round => Uses(ms[i]) # {} \/ f[i - 1].open # {}
<1>1. f[i] = ScanMessage(f[i - 1], ms[i], i)
  BY DEF Scans
<1> DEFINE over == f[i - 1].round /\ f[i - 1].open = {} /\ Uses(ms[i]) = {}
           round == (f[i - 1].round /\ ~over) \/ Uses(ms[i]) # {}
           open == (f[i - 1].open \cup Uses(ms[i])) \ Results(ms[i])
           closed == IF open = {} /\ ~round THEN i ELSE f[i - 1].closed
<1>2. f[i] = [open |-> open, round |-> round, closed |-> closed]
  BY <1>1, Zenon DEF ScanMessage
<1>3. round => Uses(ms[i]) # {} \/ f[i - 1].open # {}
  BY Zenon
<1> HIDE DEF over, round, open, closed
<1>4. f[i].round = round
  BY <1>2
<1> QED
  BY <1>3, <1>4, Zenon

(* A message without calls ends the round if none is open.                   *)
LEMMA RoundEnds ==
  ASSUME NEW ms \in Seq(Messages), NEW n \in 0 .. Len(ms), NEW f, Scans(f, ms, n),
         NEW i \in 1 .. n, f[i - 1].open = {}, Uses(ms[i]) = {}
  PROVE  Quiet(f[i])
<1>1. f[i].open = (f[i - 1].open \cup Uses(ms[i])) \ Results(ms[i])
  BY ScanOpen
<1>2. f[i].round => Uses(ms[i]) # {} \/ f[i - 1].open # {}
  BY ScanRound
<1>3. ~f[i].round
  BY <1>2, Zenon
<1>4. f[i].open = {}
  BY <1>1
<1> QED
  BY <1>3, <1>4 DEF Quiet

(* The closed length the scan keeps is one where no call is open and no      *)
(* round goes on, and it is the last.                                        *)
LEMMA ClosedIsQuiet ==
  ASSUME NEW ms \in Seq(Messages), NEW n \in 0 .. Len(ms), NEW f, Scans(f, ms, n)
  PROVE  \A i \in 0 .. n : /\ f[i].closed \in 0 .. i
                           /\ Quiet(f[f[i].closed])
                           /\ \A j \in 0 .. i : Quiet(f[j]) => j <= f[i].closed
<1> DEFINE T == {i \in 0 .. n : /\ f[i].closed \in 0 .. i
                                /\ Quiet(f[f[i].closed])
                                /\ \A j \in 0 .. i : Quiet(f[j]) => j <= f[i].closed}
<1>1. 0 \in T
  <2>1. f[0] = NothingRead
    BY DEF Scans
  <2>2. f[0].closed = 0 /\ Quiet(f[0])
    BY <2>1 DEF NothingRead, Quiet
  <2> QED
    BY <2>2
<1>2. ASSUME NEW i \in 1 .. n, i - 1 \in T PROVE i \in T
  <2>1. f[i].closed = IF Quiet(f[i]) THEN i ELSE f[i - 1].closed
    BY ScanStep DEF Quiet
  <2>2. /\ f[i - 1].closed \in 0 .. i - 1
        /\ Quiet(f[f[i - 1].closed])
        /\ \A j \in 0 .. i - 1 : Quiet(f[j]) => j <= f[i - 1].closed
    BY <1>2
  <2>3. CASE Quiet(f[i])
    BY <2>1, <2>3
  <2>4. CASE ~Quiet(f[i])
    <3>1. f[i].closed = f[i - 1].closed
      BY <2>1, <2>4
    <3>2. \A j \in 0 .. i : Quiet(f[j]) => j \in 0 .. i - 1
      BY <2>4
    <3> QED
      BY <2>2, <3>1, <3>2
  <2> QED
    BY <2>3, <2>4
<1> HIDE DEF T
<1>3. \A i \in 0 .. n : i \in T
  BY <1>1, <1>2, UpTo
<1> QED
  BY <1>3 DEF T

-----------------------------------------------------------------------------
(* Where a conversation can be cut: no call is open, and if a round of calls *)
(* was not over yet, the next message ends it.                               *)
IsCut(ms, p) ==
  \E f : /\ Scans(f, ms, p) /\ f[p].open = {}
         /\ f[p].round => p < Len(ms) /\ Uses(ms[p + 1]) = {}

(* The prefix of any cutoff is a cut, unless it is the whole conversation,   *)
(* and no call is open at its end.                                           *)
LEMMA ClosedPrefixIsCut ==
  ASSUME NEW ms \in Seq(Messages), NEW c \in Int
  PROVE  LET p == ClosedPrefix(ms, c)
         IN /\ p \in 0 .. Len(ms) /\ p <= Larger(c, 0)
            /\ p < Len(ms) => IsCut(ms, p)
            /\ \E f : Scans(f, ms, p) /\ f[p].open = {}
<1> DEFINE p == ClosedPrefix(ms, c)
           limit == Smaller(c, Len(ms))
<1>0. Len(ms) \in Nat
  OBVIOUS
<1>1. CASE c <= 0
  <2>1. p = 0
    BY <1>1 DEF ClosedPrefix
  <2>2. 0 \in 0 .. Len(ms)
    OBVIOUS
  <2>3. PICK f : Scans(f, ms, 0)
    BY <2>2, ScanIs
  <2>4. f[0].open = {} /\ ~f[0].round
    BY <2>3 DEF Scans, NothingRead
  <2>5. IsCut(ms, 0)
    BY <2>3, <2>4 DEF IsCut
  <2> QED
    BY <1>1, <2>1, <2>3, <2>4, <2>5 DEF Larger
<1>2. CASE c > 0
  <2>1. limit \in 0 .. Len(ms) /\ limit <= c /\ Larger(c, 0) = c
    BY <1>0, <1>2 DEF Smaller, Larger
  <2>2. PICK f : Scans(f, ms, limit) /\ Scan(ms, limit) = f[limit]
    BY <2>1, ScanIs
  <2>3. p = IF f[limit].round /\ f[limit].open = {} /\ ~RoundGoesOn(ms, limit)
            THEN limit ELSE f[limit].closed
    <3>1. p = IF Scan(ms, limit).round /\ Scan(ms, limit).open = {}
                   /\ ~RoundGoesOn(ms, limit)
              THEN limit ELSE Scan(ms, limit).closed
      <4>1. ~(c <= 0)
        BY <1>2
      <4> QED
        BY <4>1, Zenon DEF ClosedPrefix
    <3> HIDE DEF p, limit
    <3> QED
      BY <2>2, <3>1, Zenon
  <2> HIDE DEF p, limit
  <2>4. CASE f[limit].round /\ f[limit].open = {} /\ ~RoundGoesOn(ms, limit)
    <3>1. p = limit
      BY <2>3, <2>4
    <3>2. limit < Len(ms) => Uses(ms[limit + 1]) = {}
      BY <2>4 DEF RoundGoesOn, NextContinues
    <3>3. limit < Len(ms) => IsCut(ms, limit)
      BY <2>2, <2>4, <3>2 DEF IsCut
    <3> QED
      BY <2>1, <2>2, <2>4, <3>1, <3>3 DEF p
  <2>5. CASE ~(f[limit].round /\ f[limit].open = {} /\ ~RoundGoesOn(ms, limit))
    <3>1. p = f[limit].closed
      BY <2>3, <2>5
    <3>2. p \in 0 .. limit /\ Quiet(f[p])
      BY <2>1, <2>2, <3>1, ClosedIsQuiet
    <3>3. PICK g : Scans(g, ms, p) /\ \A i \in 0 .. p : g[i] = f[i]
      <4>1. limit \in Nat /\ Scans(f, ms, limit) /\ p \in 0 .. limit
        BY <2>1, <2>2, <3>2
      <4> QED
        BY <4>1, ScansPart
    <3>4. g[p].open = {} /\ ~g[p].round
      BY <3>2, <3>3 DEF Quiet
    <3>5. IsCut(ms, p)
      BY <3>3, <3>4 DEF IsCut
    <3> QED
      BY <2>1, <3>2, <3>3, <3>4, <3>5 DEF p
  <2> QED
    BY <2>4, <2>5
<1> QED
  BY <1>1, <1>2

(* A cut stays: a later cutoff finds it, or a later one. *)
LEMMA CutStays ==
  ASSUME NEW ms \in Seq(Messages), NEW p \in 0 .. Len(ms), IsCut(ms, p),
         NEW c \in Int, c >= p
  PROVE  ClosedPrefix(ms, c) >= p
<1>1. CASE c <= 0
  BY <1>1 DEF ClosedPrefix
<1>2. CASE c > 0
  <2> DEFINE limit == Smaller(c, Len(ms))
  <2>1. limit \in 0 .. Len(ms) /\ p <= limit
    BY <1>2 DEF Smaller
  <2>2. PICK f : Scans(f, ms, limit) /\ Scan(ms, limit) = f[limit]
    BY <2>1, ScanIs
  <2>3. ClosedPrefix(ms, c)
          = IF f[limit].round /\ f[limit].open = {} /\ ~RoundGoesOn(ms, limit)
            THEN limit ELSE f[limit].closed
    <3>1. ClosedPrefix(ms, c)
            = IF Scan(ms, limit).round /\ Scan(ms, limit).open = {}
                   /\ ~RoundGoesOn(ms, limit)
              THEN limit ELSE Scan(ms, limit).closed
      <4>1. ~(c <= 0)
        BY <1>2
      <4> QED
        BY <4>1, Zenon DEF ClosedPrefix
    <3> HIDE DEF limit
    <3> QED
      BY <2>2, <3>1, Zenon
  <2>4. PICK g : /\ Scans(g, ms, p) /\ g[p].open = {}
                 /\ g[p].round => p < Len(ms) /\ Uses(ms[p + 1]) = {}
    BY DEF IsCut
  <2> HIDE DEF limit
  <2>5. f[p] = g[p]
    BY <2>1, <2>2, <2>4, ScansAgree
  <2>6. /\ f[limit].closed \in 0 .. limit
        /\ \A j \in 0 .. limit : Quiet(f[j]) => j <= f[limit].closed
    BY <2>1, <2>2, ClosedIsQuiet
  <2>7. CASE ~f[p].round
    <3>1. Quiet(f[p])
      BY <2>4, <2>5, <2>7 DEF Quiet
    <3>2. p <= f[limit].closed
      BY <2>1, <2>6, <3>1
    <3> QED
      BY <2>1, <2>3, <2>6, <3>2
  <2>8. CASE f[p].round /\ p = limit
    <3>1. ~RoundGoesOn(ms, limit)
      BY <2>4, <2>5, <2>8 DEF RoundGoesOn, NextContinues
    <3> QED
      BY <2>1, <2>3, <2>4, <2>5, <2>8, <3>1
  <2>9. CASE f[p].round /\ p < limit
    <3>1. p + 1 \in 1 .. limit /\ (p + 1) - 1 = p
      BY <2>1, <2>9
    <3>2. Uses(ms[p + 1]) = {} /\ f[p].open = {}
      BY <2>4, <2>5, <2>9
    <3>3. Quiet(f[p + 1])
      <4>1. f[(p + 1) - 1].open = {}
        BY <3>1, <3>2
      <4> QED
        BY <2>1, <2>2, <3>1, <3>2, <4>1, RoundEnds
    <3>4. p + 1 <= f[limit].closed
      BY <2>6, <3>1, <3>3
    <3> QED
      BY <2>1, <2>3, <2>6, <3>4
  <2> QED
    BY <2>1, <2>7, <2>8, <2>9
<1> QED
  BY <1>1, <1>2

(* A cut stays when the conversation grows. *)
LEMMA CutGrows ==
  ASSUME NEW old \in Seq(Messages), NEW ms \in Seq(Messages), Len(old) <= Len(ms),
         \A i \in 1 .. Len(old) : old[i] = ms[i],
         NEW p \in 0 .. Len(old), p < Len(old), IsCut(old, p)
  PROVE  IsCut(ms, p)
<1>1. PICK f : /\ Scans(f, old, p) /\ f[p].open = {}
               /\ f[p].round => p < Len(old) /\ Uses(old[p + 1]) = {}
  BY DEF IsCut
<1>2. \A i \in 1 .. p : old[i] = ms[i]
  OBVIOUS
<1>3. Scans(f, ms, p)
  BY <1>1, <1>2 DEF Scans
<1>4. p + 1 \in 1 .. Len(old) /\ p < Len(ms)
  OBVIOUS
<1>5. ms[p + 1] = old[p + 1]
  BY <1>4
<1> QED
  BY <1>1, <1>3, <1>4, <1>5 DEF IsCut

(* Every call in the prefix is answered in it.                               *)
AnsweredBy(ms, id, j, p) == \E k \in j + 1 .. p : id \in Results(ms[k])

(* What was called is open until it is answered.                             *)
LEMMA CallsAnsweredInside ==
  ASSUME NEW ms \in Seq(Messages), NEW n \in 0 .. Len(ms), NEW f, Scans(f, ms, n)
  PROVE  \A i \in 0 .. n : \A j \in 1 .. i : \A id \in Uses(ms[j]) :
           id \in f[i].open \/ AnsweredBy(ms, id, j, i)
<1> DEFINE T == {i \in 0 .. n : \A j \in 1 .. i : \A id \in Uses(ms[j]) :
                                  id \in f[i].open \/ AnsweredBy(ms, id, j, i)}
<1>1. 0 \in T
  OBVIOUS
<1>2. ASSUME NEW i \in 1 .. n, i - 1 \in T PROVE i \in T
  <2>1. f[i].open = (f[i - 1].open \cup Uses(ms[i])) \ Results(ms[i])
    BY ScanOpen
  <2> SUFFICES ASSUME NEW j \in 1 .. i, NEW id \in Uses(ms[j]), id \notin f[i].open
               PROVE  AnsweredBy(ms, id, j, i)
    OBVIOUS
  <2>2. CASE j = i
    <3>1. id \in Results(ms[i])
      BY <2>1, <2>2
    <3>2. ms[i].role = "user" /\ ms[i].role = "assistant"
      BY <2>2, <3>1 DEF Uses, Results
    <3> QED
      BY <3>2
  <2>3. CASE j # i /\ id \in f[i - 1].open
    <3>1. id \in Results(ms[i])
      BY <2>1, <2>3
    <3>2. i \in j + 1 .. i
      BY <2>3
    <3> QED
      BY <3>1, <3>2 DEF AnsweredBy
  <2>4. CASE j # i /\ id \notin f[i - 1].open
    <3>1. j \in 1 .. i - 1
      BY <2>4
    <3>2. AnsweredBy(ms, id, j, i - 1)
      BY <1>2, <2>4, <3>1
    <3>3. \A k \in j + 1 .. i - 1 : k \in j + 1 .. i
      BY <3>1
    <3> QED
      BY <3>2, <3>3 DEF AnsweredBy
  <2> QED
    BY <2>2, <2>3, <2>4
<1> HIDE DEF T
<1>3. \A i \in 0 .. n : i \in T
  BY <1>1, <1>2, UpTo
<1> QED
  BY <1>3 DEF T

(* The boundary never comes between a call and its result, whatever the      *)
(* client sends: in the prefix that findClosedPrefixBoundary returns for any *)
(* cutoff, every call is followed by a result for its id.                    *)
THEOREM PrefixAnswersItsCalls ==
  ASSUME NEW ms \in Seq(Messages), NEW cutoff \in Int
  PROVE  LET p == ClosedPrefix(ms, cutoff)
         IN \A j \in 1 .. p : \A id \in Uses(ms[j]) : AnsweredBy(ms, id, j, p)
<1> DEFINE p == ClosedPrefix(ms, cutoff)
<1>1. p \in 0 .. Len(ms) /\ \E f : Scans(f, ms, p) /\ f[p].open = {}
  BY ClosedPrefixIsCut
<1> HIDE DEF p
<1>2. PICK f : Scans(f, ms, p) /\ f[p].open = {}
  BY <1>1
<1>3. p \in 0 .. p
  BY <1>1
<1>4. \A j \in 1 .. p : \A id \in Uses(ms[j]) : id \in f[p].open \/ AnsweredBy(ms, id, j, p)
  BY <1>1, <1>2, <1>3, CallsAnsweredInside
<1>5. \A j \in 1 .. p : \A id \in Uses(ms[j]) : AnsweredBy(ms, id, j, p)
  BY <1>2, <1>4
<1> QED
  BY <1>5 DEF p

(* Min of a nonempty set of numbers.                                         *)
LEMMA MinIsLeast ==
  ASSUME NEW T, T \subseteq Nat, T # {}
  PROVE  Min(T) \in T /\ \A x \in T : Min(T) <= x
<1>1. \E m \in T : \A x \in T : m <= x
  BY Least
<1> QED
  BY <1>1 DEF Min

(* Max of a nonempty bounded set of numbers.                                 *)
LEMMA MaxIsGreatest ==
  ASSUME NEW n \in Nat, NEW T, T \subseteq 0 .. n, T # {}
  PROVE  Max(T) \in T /\ \A x \in T : x <= Max(T)
<1> DEFINE U == {x \in 0 .. n : n - x \in T}
<1>1. \A x \in T : n - x \in U /\ x \in 0 .. n
  OBVIOUS
<1>2. U \subseteq Nat /\ U # {}
  <2>1. U \subseteq Nat
    OBVIOUS
  <2>2. PICK x \in T : TRUE
    OBVIOUS
  <2>3. n - x \in U
    BY <1>1
  <2> QED
    BY <2>1, <2>3
<1> HIDE DEF U
<1>3. PICK m \in U : \A x \in U : m <= x
  BY <1>2, Least
<1>4. m \in 0 .. n /\ n - m \in T
  BY DEF U
<1>5. \A x \in T : m <= n - x
  BY <1>1, <1>3
<1>6. \A x \in T : n - m >= x
  BY <1>1, <1>4, <1>5
<1>7. \E y \in T : \A x \in T : y >= x
  BY <1>4, <1>6
<1> QED
  <2> DEFINE y == CHOOSE y \in T : \A x \in T : y >= x
  <2>1. y \in T /\ \A x \in T : y >= x
    BY <1>7
  <2>2. Max(T) = y
    BY DEF Max
  <2> HIDE DEF y
  <2> QED
    BY <2>1, <2>2

-----------------------------------------------------------------------------
Summed(t, costs) ==
  /\ t \in [0 .. Len(costs) -> Nat]
  /\ t[0] = 0 /\ \A i \in 1 .. Len(costs) : t[i] = t[i - 1] + costs[i]

(* The totals of costs are running sums.                                     *)
LEMMA TotalsSummed ==
  ASSUME NEW costs \in Seq(Nat)
  PROVE  Summed(Totals(costs), costs)
<1> DEFINE n == Len(costs)
           step == [i \in 1 .. n |-> [s \in Nat |-> s + costs[i]]]
           Rec(f) == f = [i \in 0 .. n |-> IF i = 0 THEN 0 ELSE f[i - 1] + costs[i]]
<1>0. n \in Nat /\ \A i \in 1 .. n : costs[i] \in Nat
  OBVIOUS
<1>1. StepsIn(step, n, Nat)
  BY <1>0 DEF StepsIn
<1>2. PICK f \in [0 .. n -> Nat] : Iterates(f, n, 0, step)
  <2> HIDE DEF step, n
  <2> QED
    BY <1>0, <1>1, IterateExists
<1>3. \A i \in 1 .. n : f[i - 1] \in Nat
  BY <1>0
<1>4. f[0] = 0 /\ \A i \in 1 .. n : f[i] = f[i - 1] + costs[i]
  BY <1>2, <1>3 DEF Iterates
<1>5. f = [i \in 0 .. n |-> f[i]]
  OBVIOUS
<1>6. Rec(f)
  <2> HIDE DEF n, step
  <2>1. \A i \in 0 .. n : f[i] = IF i = 0 THEN 0 ELSE f[i - 1] + costs[i]
    BY <1>0, <1>4
  <2> QED
    BY <1>5, <2>1
<1> DEFINE h == CHOOSE g : Rec(g)
<1>7. Rec(h)
  <2> HIDE DEF Rec
  <2> QED
    BY <1>6
<1>8. Totals(costs) = h
  BY Zenon DEF Totals
<1>9. h = [i \in 0 .. n |-> IF i = 0 THEN 0 ELSE h[i - 1] + costs[i]]
  BY <1>7
<1> HIDE DEF h, Rec, step, n
<1>10. \A i \in 0 .. n : h[i] = IF i = 0 THEN 0 ELSE h[i - 1] + costs[i]
  BY <1>9
<1> DEFINE T == {i \in 0 .. n : h[i] \in Nat}
<1>11. \A i \in 0 .. n : i \in T
  <2>1. 0 \in T
    BY <1>0, <1>10
  <2>2. ASSUME NEW i \in 1 .. n, i - 1 \in T PROVE i \in T
    <3>1. i \in 0 .. n /\ i # 0
      BY <1>0
    <3>2. h[i] = h[i - 1] + costs[i]
      BY <1>10, <3>1
    <3>3. h[i - 1] \in Nat /\ costs[i] \in Nat
      BY <1>0, <2>2
    <3> QED
      BY <3>1, <3>2, <3>3
  <2> HIDE DEF T
  <2> QED
    BY <1>0, <2>1, <2>2, UpTo
<1>12. h \in [0 .. n -> Nat]
  <2>1. h = [i \in 0 .. n |-> h[i]]
    BY <1>9
  <2>2. \A i \in 0 .. n : h[i] \in Nat
    BY <1>11
  <2> QED
    BY <2>1, <2>2
<1>13. h[0] = 0 /\ \A i \in 1 .. n : h[i] = h[i - 1] + costs[i]
  BY <1>0, <1>10
<1> QED
  BY <1>8, <1>12, <1>13 DEF Summed, n

(* b goes on where a ends. *)
Extends(b, a) == /\ a \in Seq(Nat) /\ b \in Seq(Nat) /\ Len(a) <= Len(b)
                 /\ \A i \in 1 .. Len(a) : a[i] = b[i]

(* Running sums agree where the costs do.                                    *)
LEMMA SumsAgreeOnPrefix ==
  ASSUME NEW a, NEW b, Extends(b, a), NEW s, NEW t, Summed(s, a), Summed(t, b)
  PROVE  \A i \in 0 .. Len(a) : s[i] = t[i]
<1> DEFINE n == Len(a)
           T == {i \in 0 .. n : s[i] = t[i]}
<1>1. n \in Nat /\ Len(b) \in Nat /\ n <= Len(b) /\ \A i \in 1 .. n : a[i] = b[i]
  BY DEF Extends
<1>2. 0 \in T
  BY <1>1 DEF Summed
<1>3. ASSUME NEW i \in 1 .. n, i - 1 \in T PROVE i \in T
  <2>1. s[i] = s[i - 1] + a[i]
    BY DEF Summed
  <2>2. t[i] = t[i - 1] + b[i]
    BY <1>1 DEF Summed
  <2> QED
    BY <1>1, <1>3, <2>1, <2>2
<1> HIDE DEF T
<1>4. \A i \in 0 .. n : i \in T
  <2> HIDE DEF n
  <2> QED
    BY <1>1, <1>2, <1>3, UpTo
<1> QED
  BY <1>4 DEF T

-----------------------------------------------------------------------------
(* ms goes on where old ends. *)
Continues(ms, old) ==
  /\ ms \in Seq(Messages) /\ old \in Seq(Messages) /\ Len(old) <= Len(ms)
  /\ \A i \in 1 .. Len(old) : old[i] = ms[i]

(* A function on 1 .. n is a sequence of that length.                        *)
LEMMA IsSequence ==
  ASSUME NEW n \in Nat, NEW S, NEW f \in [1 .. n -> S]
  PROVE  f \in Seq(S) /\ Len(f) = n
OBVIOUS

(* The costs of messages are numbers, one for each.                          *)
LEMMA CostsTyped ==
  ASSUME NEW ms \in Seq(Messages)
  PROVE  /\ [i \in DOMAIN ms |-> TextCost(ms[i])] \in Seq(Nat)
         /\ [i \in DOMAIN ms |-> ImageCost(ms[i])] \in Seq(Nat)
         /\ Len([i \in DOMAIN ms |-> TextCost(ms[i])]) = Len(ms)
         /\ Len([i \in DOMAIN ms |-> ImageCost(ms[i])]) = Len(ms)
<1>1. \A i \in 1 .. Len(ms) : ms[i] \in Messages
  OBVIOUS
<1>2. \A i \in 1 .. Len(ms) : TextCost(ms[i]) \in Nat /\ ImageCost(ms[i]) \in Nat
  BY <1>1 DEF TextCost, ImageCost, Messages
<1>3. DOMAIN ms = 1 .. Len(ms) /\ Len(ms) \in Nat
  OBVIOUS
<1>4. /\ [i \in DOMAIN ms |-> TextCost(ms[i])] \in [1 .. Len(ms) -> Nat]
      /\ [i \in DOMAIN ms |-> ImageCost(ms[i])] \in [1 .. Len(ms) -> Nat]
  BY <1>2, <1>3
<1> QED
  BY <1>3, <1>4, IsSequence

(* The totals of messages are numbers.                                       *)
LEMMA TotalsTyped ==
  ASSUME NEW ms \in Seq(Messages)
  PROVE  \A i \in 0 .. Len(ms) : TextTotals(ms)[i] \in Nat /\ ImageTotals(ms)[i] \in Nat
<1> DEFINE texts == [i \in DOMAIN ms |-> TextCost(ms[i])]
           images == [i \in DOMAIN ms |-> ImageCost(ms[i])]
<1>1. /\ texts \in Seq(Nat) /\ images \in Seq(Nat)
      /\ Len(texts) = Len(ms) /\ Len(images) = Len(ms)
  BY CostsTyped
<1>2. TextTotals(ms) = Totals(texts) /\ ImageTotals(ms) = Totals(images)
  BY DEF TextTotals, ImageTotals
<1> HIDE DEF texts, images
<1>3. Summed(Totals(texts), texts) /\ Summed(Totals(images), images)
  BY <1>1, TotalsSummed
<1> QED
  BY <1>1, <1>2, <1>3 DEF Summed

(* The totals of a conversation do not change when it grows.                 *)
LEMMA TotalsContinue ==
  ASSUME NEW ms, NEW old, Continues(ms, old)
  PROVE  \A i \in 0 .. Len(old) : /\ TextTotals(ms)[i] = TextTotals(old)[i]
                                  /\ ImageTotals(ms)[i] = ImageTotals(old)[i]
<1> DEFINE texts(m) == [i \in DOMAIN m |-> TextCost(m[i])]
           images(m) == [i \in DOMAIN m |-> ImageCost(m[i])]
<1>0. ms \in Seq(Messages) /\ old \in Seq(Messages) /\ Len(old) <= Len(ms)
      /\ DOMAIN ms = 1 .. Len(ms) /\ DOMAIN old = 1 .. Len(old)
      /\ Len(ms) \in Nat /\ Len(old) \in Nat
  BY DEF Continues
<1>1. /\ texts(ms) \in Seq(Nat) /\ images(ms) \in Seq(Nat)
      /\ Len(texts(ms)) = Len(ms) /\ Len(images(ms)) = Len(ms)
  BY <1>0, CostsTyped
<1>2. /\ texts(old) \in Seq(Nat) /\ images(old) \in Seq(Nat)
      /\ Len(texts(old)) = Len(old) /\ Len(images(old)) = Len(old)
  BY <1>0, CostsTyped
<1>3. /\ TextTotals(ms) = Totals(texts(ms)) /\ ImageTotals(ms) = Totals(images(ms))
      /\ TextTotals(old) = Totals(texts(old)) /\ ImageTotals(old) = Totals(images(old))
  BY DEF TextTotals, ImageTotals
<1>4. \A i \in 1 .. Len(old) : /\ texts(old)[i] = texts(ms)[i]
                               /\ images(old)[i] = images(ms)[i]
  <2>1. \A i \in 1 .. Len(old) : i \in 1 .. Len(ms) /\ old[i] = ms[i]
    BY <1>0 DEF Continues
  <2> QED
    BY <1>0, <2>1
<1> HIDE DEF texts, images
<1>5. /\ Summed(Totals(texts(ms)), texts(ms)) /\ Summed(Totals(images(ms)), images(ms))
      /\ Summed(Totals(texts(old)), texts(old)) /\ Summed(Totals(images(old)), images(old))
  BY <1>1, <1>2, TotalsSummed
<1>6. \A i \in 0 .. Len(old) : Totals(texts(old))[i] = Totals(texts(ms))[i]
  <2>1. Extends(texts(ms), texts(old))
    BY <1>0, <1>1, <1>2, <1>4 DEF Extends
  <2>2. \A i \in 0 .. Len(texts(old)) : Totals(texts(old))[i] = Totals(texts(ms))[i]
    BY <1>5, <2>1, SumsAgreeOnPrefix
  <2> QED
    BY <1>2, <2>2
<1>7. \A i \in 0 .. Len(old) : Totals(images(old))[i] = Totals(images(ms))[i]
  <2>1. Extends(images(ms), images(old))
    BY <1>0, <1>1, <1>2, <1>4 DEF Extends
  <2>2. \A i \in 0 .. Len(images(old)) : Totals(images(old))[i] = Totals(images(ms))[i]
    BY <1>5, <2>1, SumsAgreeOnPrefix
  <2> QED
    BY <1>2, <2>2
<1> QED
  BY <1>3, <1>6, <1>7

-----------------------------------------------------------------------------
(* A number of pages holds what it was counted for. *)
LEMMA PagesHold ==
  ASSUME NEW x \in Int
  PROVE  Pages(x) \in Int /\ x <= Pages(x) * PageChars
<1>1. PageChars \in Nat \ {0}
  BY CollapseAssumption
<1> DEFINE y == x + PageChars - 1
<1>2. y \in Int /\ y \div PageChars \in Int /\ y % PageChars \in 0 .. PageChars - 1
  BY <1>1
<1>3. y = PageChars * (y \div PageChars) + (y % PageChars)
  BY <1>1
<1>4. Pages(x) = y \div PageChars
  BY DEF Pages
<1> QED
  BY <1>1, <1>2, <1>3, <1>4

(* What a prefix takes fits on the pages the budget allows. *)
Fits(ms, from, k, images) ==
  TextTotal(ms, from, k) + ImageTotal(ms, from, k) <= images * PageChars

(* What is on few enough pages fits.                                         *)
LEMMA PerfectFits ==
  ASSUME NEW ms \in Seq(Messages), NEW from \in 0 .. Len(ms), NEW k \in 0 .. Len(ms),
         NEW images \in Nat, PerfectPages(ms, from, k) <= images
  PROVE  Fits(ms, from, k, images)
<1> DEFINE a == TextTotal(ms, from, k)
           b == ImageTotal(ms, from, k)
<1>1. a \in Int /\ b \in Int
  BY TotalsTyped DEF TextTotal, ImageTotal
<1>2. PerfectPages(ms, from, k) = Pages(a) + Pages(b)
  BY DEF PerfectPages
<1>3. Fits(ms, from, k, images) <=> a + b <= images * PageChars
  BY DEF Fits
<1> HIDE DEF a, b
<1>4. /\ Pages(a) \in Int /\ a <= Pages(a) * PageChars
      /\ Pages(b) \in Int /\ b <= Pages(b) * PageChars
  BY <1>1, PagesHold
<1>5. PageChars \in Nat
  BY CollapseAssumption
<1>6. (Pages(a) + Pages(b)) * PageChars = Pages(a) * PageChars + Pages(b) * PageChars
  BY <1>4, <1>5
<1>7. \A u, v \in Int : u <= v => u * PageChars <= v * PageChars
  BY <1>5
<1>8. (Pages(a) + Pages(b)) * PageChars <= images * PageChars
  BY <1>2, <1>4, <1>7
<1>9. /\ Pages(a) * PageChars \in Int /\ Pages(b) * PageChars \in Int
      /\ images * PageChars \in Int
  BY <1>4, <1>5
<1> QED
  BY <1>1, <1>3, <1>4, <1>6, <1>8, <1>9

(* What fits fits a larger budget.                                           *)
LEMMA FitsMore ==
  ASSUME NEW ms \in Seq(Messages), NEW from \in 0 .. Len(ms), NEW k \in 0 .. Len(ms),
         NEW images \in Nat, NEW more \in Nat, images <= more, Fits(ms, from, k, images)
  PROVE  Fits(ms, from, k, more)
<1> DEFINE a == TextTotal(ms, from, k) + ImageTotal(ms, from, k)
<1>1. a \in Int
  BY TotalsTyped DEF TextTotal, ImageTotal
<1>2. PageChars \in Nat
  BY CollapseAssumption
<1>3. images * PageChars <= more * PageChars
  BY <1>2
<1>4. images * PageChars \in Int /\ more * PageChars \in Int
  BY <1>2
<1>5. a <= images * PageChars
  BY DEF Fits
<1>6. Fits(ms, from, k, more) <=> a <= more * PageChars
  BY DEF Fits
<1> HIDE DEF a
<1> QED
  BY <1>1, <1>3, <1>4, <1>5, <1>6

(* AffordablePrefix is the last prefix that fits.                            *)
LEMMA AffordableIsLast ==
  ASSUME NEW ms \in Seq(Messages), NEW to \in 0 .. Len(ms), NEW from \in 0 .. to,
         NEW images \in Nat
  PROVE  LET k == AffordablePrefix(ms, from, to, images)
         IN /\ k \in from .. to /\ Fits(ms, from, k, images)
            /\ \A j \in from .. to : Fits(ms, from, j, images) => j <= k
<1> DEFINE T == {k \in from .. to : Fits(ms, from, k, images)}
<1>1. AffordablePrefix(ms, from, to, images) = Max(T)
  BY DEF AffordablePrefix, Fits
<1>2. Len(ms) \in Nat /\ to \in Nat /\ from \in Nat /\ from <= to
  OBVIOUS
<1>3. TextTotals(ms)[from] \in Nat /\ ImageTotals(ms)[from] \in Nat
  BY <1>2, TotalsTyped
<1>4. TextTotal(ms, from, from) = 0 /\ ImageTotal(ms, from, from) = 0
  BY <1>3 DEF TextTotal, ImageTotal
<1>5. images * PageChars \in Nat
  BY CollapseAssumption
<1>6. Fits(ms, from, from, images)
  BY <1>4, <1>5 DEF Fits
<1>7. T \subseteq 0 .. to /\ T # {}
  BY <1>2, <1>6
<1> HIDE DEF T
<1>8. Max(T) \in T /\ \A x \in T : x <= Max(T)
  BY <1>2, <1>7, MaxIsGreatest
<1> QED
  BY <1>1, <1>8 DEF T

-----------------------------------------------------------------------------
(* The protocol: every call is answered by the next message. *)
Protocol ==
  /\ messages \in Seq(Messages)
  /\ \A i \in 1 .. Len(messages) - 1 : Uses(messages[i]) \subseteq Results(messages[i + 1])

(* The conversation as it was when it had n messages. *)
SentAt(n) == SubSeq(messages, 1, n)

(* len is the length of what Collapse takes of ms. *)
CutFrom(ms, images, len) ==
  LET closed == CollapsiblePrefix(ms, Cutoff(ms))
  IN /\ closed # 0 /\ ~(closed - ProtectedIn(ms) < MinPrefix)
     /\ len = TrimmedPrefix(ms, closed, images)
     /\ ~(len - ProtectedIn(ms) < MinPrefix)

Taken(layout) == layout.reason = ""

LastOK ==
  /\ budget \in Nat
  /\ Taken(last) => \E n \in 1 .. Len(messages) : CutFrom(SentAt(n), budget, last.len)
  /\ ~Taken(last) => last.len = 0

(* What may be said is a message, and an answer answers its calls.           *)
LEMMA SaidTyped ==
  /\ \A m \in UserSays \cup AssistantSays \cup AssistantCalls : m \in Messages
  /\ \A ids \in SUBSET ToolIds : \A m \in UserAnswers(ids) :
       m \in Messages /\ Results(m) = ids
<1>1. \A n \in Lengths : n \in Nat
  BY GrowthAssumption
<1>2. ASSUME NEW m \in UserSays PROVE m \in Messages
  <2>1. PICK n \in Lengths : m = Message("user", FALSE, {}, {}, 0, n)
    BY DEF UserSays
  <2>2. n \in Nat
    BY <1>1
  <2> QED
    BY <2>1, <2>2 DEF Message, Messages
<1>3. ASSUME NEW m \in AssistantSays PROVE m \in Messages
  <2>1. m = Message("assistant", FALSE, {}, {}, 1, 0)
    BY DEF AssistantSays
  <2> QED
    BY <2>1 DEF Message, Messages
<1>4. ASSUME NEW m \in AssistantCalls PROVE m \in Messages
  <2>1. PICK ids \in SUBSET ToolIds : m = Message("assistant", TRUE, ids, {}, 1, 0)
    BY DEF AssistantCalls
  <2> QED
    BY <2>1 DEF Message, Messages
<1>5. ASSUME NEW ids \in SUBSET ToolIds, NEW m \in UserAnswers(ids)
      PROVE  m \in Messages /\ Results(m) = ids
  <2>1. PICK n \in {0} \cup Lengths : m = Message("user", TRUE, {}, ids, 1, n)
    BY DEF UserAnswers
  <2>2. n \in Nat
    BY <1>1
  <2> QED
    BY <2>1, <2>2 DEF Message, Messages, Results
<1> QED
  BY <1>2, <1>3, <1>4, <1>5

(* The next message is one, and answers the calls of the last.               *)
LEMMA MessagesTyped ==
  ASSUME Protocol, NEW m \in Turns
  PROVE  /\ m \in Messages
         /\ messages # <<>> => Uses(messages[Len(messages)]) \subseteq Results(m)
<1>2. CASE messages = <<>>
  <2>1. m \in UserSays
    BY <1>2 DEF Turns
  <2> QED
    BY <1>2, <2>1, SaidTyped
<1>3. CASE messages # <<>>
  <2> DEFINE l == messages[Len(messages)]
  <2>1. l \in Messages
    BY <1>3 DEF Protocol
  <2>2. Uses(l) \in SUBSET ToolIds
    BY <2>1 DEF Messages, Uses
  <2>3. CASE l.role = "user"
    <3>1. m \in AssistantSays \cup AssistantCalls
      BY <1>3, <2>3 DEF Turns
    <3>2. m \in Messages
      BY <3>1, SaidTyped
    <3>3. Uses(l) = {}
      BY <2>3 DEF Uses
    <3> QED
      BY <3>2, <3>3
  <2>4. CASE l.role # "user" /\ Uses(l) # {}
    <3>1. m \in UserAnswers(Uses(l))
      BY <1>3, <2>4 DEF Turns
    <3> QED
      BY <2>2, <3>1, SaidTyped
  <2>5. CASE l.role # "user" /\ Uses(l) = {}
    <3>1. m \in UserSays
      BY <1>3, <2>5 DEF Turns
    <3> QED
      BY <2>5, <3>1, SaidTyped
  <2> QED
    BY <2>3, <2>4, <2>5
<1> QED
  BY <1>2, <1>3

(* The conversation keeps the protocol.                                      *)
LEMMA ProtocolKept ==
  ASSUME Protocol, [GrowthNext]_growthVars
  PROVE  Protocol'
<1>1. CASE Say
  <2>1. PICK m \in Turns : messages' = Append(messages, m)
    BY <1>1 DEF Say
  <2>2. m \in Messages
    BY MessagesTyped
  <2>3. messages' \in Seq(Messages) /\ Len(messages') = Len(messages) + 1
        /\ messages'[Len(messages) + 1] = m
        /\ \A i \in 1 .. Len(messages) : messages'[i] = messages[i]
    BY <2>1, <2>2 DEF Protocol
  <2>4. ASSUME NEW i \in 1 .. Len(messages') - 1
        PROVE  Uses(messages'[i]) \subseteq Results(messages'[i + 1])
    <3>1. Len(messages) \in Nat /\ i \in 1 .. Len(messages)
      BY <2>3 DEF Protocol
    <3>2. CASE i = Len(messages)
      <4>1. messages # <<>>
        BY <3>1, <3>2
      <4>2. Uses(messages[Len(messages)]) \subseteq Results(m)
        BY <4>1, MessagesTyped
      <4> QED
        BY <2>3, <3>1, <3>2, <4>2
    <3>3. CASE i # Len(messages)
      <4>1. i \in 1 .. Len(messages) - 1 /\ i + 1 \in 1 .. Len(messages)
        BY <3>1, <3>3
      <4>2. messages'[i] = messages[i] /\ messages'[i + 1] = messages[i + 1]
        BY <2>3, <3>1, <4>1
      <4> QED
        BY <4>1, <4>2 DEF Protocol
    <3> QED
      BY <3>2, <3>3
  <2> QED
    BY <2>3, <2>4 DEF Protocol
<1>2. CASE Send \/ UNCHANGED growthVars
  <2>1. messages' = messages
    BY <1>2 DEF Send, Request, growthVars
  <2> QED
    BY <2>1 DEF Protocol
<1> QED
  BY <1>1, <1>2 DEF GrowthNext

(* What was sent once stays the beginning of the conversation. *)
LEMMA SentStays ==
  ASSUME Protocol, NEW n \in 0 .. Len(messages)
  PROVE  /\ SentAt(n) \in Seq(Messages) /\ Len(SentAt(n)) = n
         /\ Continues(messages, SentAt(n))
<1>1. messages \in Seq(Messages) /\ Len(messages) \in Nat
  BY DEF Protocol
<1>2. SentAt(n) \in Seq(Messages) /\ Len(SentAt(n)) = n
      /\ \A i \in 1 .. n : SentAt(n)[i] = messages[i]
  BY <1>1 DEF SentAt
<1> QED
  BY <1>1, <1>2 DEF Continues

(* A message more does not change what was sent.                             *)
LEMMA SentAgain ==
  ASSUME Protocol, NEW n \in 0 .. Len(messages), NEW m,
         messages' = Append(messages, m)
  PROVE  SentAt(n)' = SentAt(n)
<1>1. messages \in Seq(Messages) /\ Len(messages) \in Nat
  BY DEF Protocol
<1>2. SubSeq(Append(messages, m), 1, n) = SubSeq(messages, 1, n)
  BY <1>1
<1> QED
  BY <1>2 DEF SentAt

(* What is sent now is the conversation.                                     *)
LEMMA SentWhole ==
  ASSUME Protocol
  PROVE  SentAt(Len(messages)) = messages
BY DEF Protocol, SentAt

-----------------------------------------------------------------------------
(* The cutoff spares the tail.                                               *)
LEMMA CutoffTyped ==
  ASSUME NEW ms \in Seq(Messages)
  PROVE  Cutoff(ms) \in Int /\ Cutoff(ms) <= Len(ms) - KeepTail
<1>1. Len(ms) \in Nat /\ KeepTail \in Nat /\ MinPrefix \in Nat /\ Protected \in Nat
      /\ CollapseChunk \in Nat \ {0}
  BY CollapseAssumption
<1>2. ProtectedIn(ms) \in Nat
  BY <1>1 DEF ProtectedIn, Smaller
<1>3. (Len(ms) - KeepTail) \div CollapseChunk \in Int
  BY <1>1
<1>4. ((Len(ms) - KeepTail) \div CollapseChunk) * CollapseChunk \in Int
  BY <1>1, <1>3
<1> DEFINE x == ((Len(ms) - KeepTail) \div CollapseChunk) * CollapseChunk
<1>5. Cutoff(ms) = LET snapped == Larger(x, MinPrefix + ProtectedIn(ms))
                   IN IF snapped < Len(ms) - KeepTail THEN snapped ELSE Len(ms) - KeepTail
  BY DEF Cutoff
<1> HIDE DEF x
<1>6. x \in Int
  BY <1>4 DEF x
<1> QED
  BY <1>1, <1>2, <1>5, <1>6 DEF Larger

(* What is taken is a cut of the conversation, short of the tail. *)
LEMMA TakenIsCut ==
  ASSUME NEW ms \in Seq(Messages), NEW images \in Nat, NEW len, CutFrom(ms, images, len)
  PROVE  LET closed == ClosedPrefix(ms, Cutoff(ms))
         IN /\ ProtectedIn(ms) = Protected
            /\ closed \in Protected .. Len(ms) - 1 /\ closed <= Cutoff(ms)
            /\ IsCut(ms, closed)
            /\ len \in Protected .. closed
            /\ \E f : Scans(f, ms, len) /\ f[len].open = {}
            /\ IsCut(ms, len)
<1> DEFINE c == Cutoff(ms)
           closed == ClosedPrefix(ms, c)
           from == ProtectedIn(ms)
<1>1. Len(ms) \in Nat /\ KeepTail \in Nat \ {0} /\ MinPrefix \in Nat /\ Protected \in Nat
  BY CollapseAssumption, GrowthAssumption
<1>2. c \in Int /\ c <= Len(ms) - KeepTail
  BY CutoffTyped
<1>3. /\ closed # 0 /\ ~(closed - from < MinPrefix)
      /\ len = TrimmedPrefix(ms, closed, images) /\ ~(len - from < MinPrefix)
  BY DEF CutFrom, CollapsiblePrefix
<1> HIDE DEF c
<1>4. /\ closed \in 0 .. Len(ms) /\ closed <= Larger(c, 0)
      /\ closed < Len(ms) => IsCut(ms, closed)
      /\ \E f : Scans(f, ms, closed) /\ f[closed].open = {}
  BY <1>2, ClosedPrefixIsCut
<1> HIDE DEF closed
<1>5. closed < Len(ms)
  BY <1>1, <1>2, <1>3, <1>4 DEF Larger
<1>6. from = Protected /\ from \in 0 .. closed
  BY <1>1, <1>3, <1>4, <1>5 DEF ProtectedIn, Smaller
<1> HIDE DEF from
<1>9. closed \in Protected .. Len(ms) - 1 /\ closed <= c /\ IsCut(ms, closed)
  BY <1>1, <1>2, <1>3, <1>4, <1>5, <1>6 DEF Larger
<1>7. CASE PerfectPages(ms, from, closed) <= images
  <2>1. len = closed
    BY <1>3, <1>7 DEF TrimmedPrefix, from
  <2>2. len \in Protected .. closed /\ IsCut(ms, len)
        /\ \E f : Scans(f, ms, len) /\ f[len].open = {}
    BY <1>1, <1>4, <1>6, <1>9, <2>1
  <2> QED
    BY <1>6, <1>9, <2>2 DEF from, closed, c
<1>8. CASE ~(PerfectPages(ms, from, closed) <= images)
  <2> DEFINE k == AffordablePrefix(ms, from, closed, images)
  <2>1. len = ClosedPrefix(ms, k)
    BY <1>3, <1>8 DEF TrimmedPrefix, from, CollapsiblePrefix
  <2>2. k \in from .. closed
    BY <1>4, <1>6, AffordableIsLast
  <2> HIDE DEF k
  <2>3. k \in Int /\ k >= 0
    BY <1>4, <1>6, <2>2
  <2>4. /\ len \in 0 .. Len(ms) /\ len <= Larger(k, 0)
        /\ len < Len(ms) => IsCut(ms, len)
        /\ \E f : Scans(f, ms, len) /\ f[len].open = {}
    BY <2>1, <2>3, ClosedPrefixIsCut
  <2>5. len <= closed
    BY <1>4, <1>6, <2>2, <2>3, <2>4 DEF Larger
  <2>6. from <= len
    BY <1>1, <1>3, <1>6, <2>4
  <2>7. len \in Protected .. closed /\ IsCut(ms, len)
    BY <1>1, <1>4, <1>5, <1>6, <2>4, <2>5, <2>6
  <2> QED
    BY <1>6, <1>9, <2>4, <2>7 DEF from, closed, c
<1> QED
  BY <1>7, <1>8

(* No message with calls ends what is taken. *)
LEMMA NoCallAtTheEnd ==
  ASSUME NEW ms \in Seq(Messages), NEW p \in 1 .. Len(ms), NEW f, Scans(f, ms, p),
         f[p].open = {}
  PROVE  Uses(ms[p]) = {}
<1>1. p \in 1 .. p /\ p \in 0 .. Len(ms)
  OBVIOUS
<1>2. f[p].open = (f[p - 1].open \cup Uses(ms[p])) \ Results(ms[p])
  <2>1. \A i \in 1 .. p : f[i].open = (f[i - 1].open \cup Uses(ms[i])) \ Results(ms[i])
    BY ScanOpen
  <2> QED
    BY <1>1, <2>1
<1>3. Uses(ms[p]) = {} \/ Results(ms[p]) = {}
  BY DEF Uses, Results
<1> QED
  BY <1>2, <1>3

(* A layout that is taken passed every early return.                         *)
LEMMA TakenWhole ==
  ASSUME NEW ms, NEW breakpoints, NEW at, NEW images, NEW packFill,
         Taken(Collapse(ms, breakpoints, at, images, packFill))
  PROVE  LET layout == Collapse(ms, breakpoints, at, images, packFill)
         IN /\ ms # <<>> /\ CutFrom(ms, images, layout.len)
            /\ layout = Layout(ms, layout.len, breakpoints, at, images, packFill)
<1> DEFINE layout == Collapse(ms, breakpoints, at, images, packFill)
           from   == ProtectedIn(ms)
           closed == CollapsiblePrefix(ms, Cutoff(ms))
           len    == TrimmedPrefix(ms, closed, images)
           taken  == Layout(ms, len, breakpoints, at, images, packFill)
<1>1. layout = IF ms = <<>> THEN NotCollapsed("no_history")
               ELSE IF closed = 0 THEN NotCollapsed("no_closed_prefix")
               ELSE IF closed - from < MinPrefix THEN NotCollapsed("prefix_too_short")
               ELSE IF len - from < MinPrefix THEN NotCollapsed("over_budget")
               ELSE IF TextTotal(ms, from, len) = 0 THEN NotCollapsed("render_empty")
               ELSE taken
  BY Zenon DEF Collapse
<1>2. taken.len = len
  BY DEF Layout
<1>3. \A reason \in {"no_history", "no_closed_prefix", "prefix_too_short", "over_budget",
                       "render_empty"} : ~Taken(NotCollapsed(reason))
  <2>1. \A reason : NotCollapsed(reason).reason = reason
    BY DEF NotCollapsed
  <2> QED
    BY <2>1, Zenon DEF Taken
<1>4. Taken(layout)
  OBVIOUS
<1> HIDE DEF layout, from, closed, len, taken
<1>5. /\ ms # <<>> /\ closed # 0 /\ ~(closed - from < MinPrefix)
      /\ ~(len - from < MinPrefix) /\ layout = taken
  <2>1. ms # <<>>
    BY <1>1, <1>3, <1>4
  <2>2. closed # 0
    BY <1>1, <1>3, <1>4, <2>1
  <2>3. ~(closed - from < MinPrefix)
    BY <1>1, <1>3, <1>4, <2>1, <2>2
  <2>4. ~(len - from < MinPrefix)
    BY <1>1, <1>3, <1>4, <2>1, <2>2, <2>3
  <2>5. layout = taken
    BY <1>1, <1>3, <1>4, <2>1, <2>2, <2>3, <2>4
  <2> QED
    BY <2>1, <2>2, <2>3, <2>4, <2>5
<1>6. CutFrom(ms, images, len)
  BY <1>5, Zenon DEF CutFrom, from, closed, len
<1>7. layout.len = len
  BY <1>2, <1>5
<1>8. layout = Layout(ms, layout.len, breakpoints, at, images, packFill)
  BY <1>5, <1>7 DEF taken
<1>9. CutFrom(ms, images, layout.len)
  BY <1>6, <1>7
<1> QED
  BY <1>5, <1>8, <1>9, Zenon DEF layout

(* What is known of the last layout stays true.                              *)
LEMMA LastKept ==
  ASSUME Protocol, LastOK, [GrowthNext]_growthVars
  PROVE  LastOK'
<1>0. Len(messages) \in Nat /\ messages \in Seq(Messages)
  BY DEF Protocol
<1>1. CASE Say
  <2>1. PICK m \in Turns : messages' = Append(messages, m)
    BY <1>1 DEF Say
  <2>2. last' = last /\ budget' = budget /\ Len(messages') = Len(messages) + 1
    BY <1>0, <1>1, <2>1 DEF Say
  <2>3. ASSUME Taken(last)
        PROVE  \E n \in 1 .. Len(messages)' : CutFrom(SentAt(n)', budget, last.len)
    <3>1. PICK n \in 1 .. Len(messages) : CutFrom(SentAt(n), budget, last.len)
      BY <2>3 DEF LastOK
    <3>2. SentAt(n)' = SentAt(n)
      BY <2>1, SentAgain
    <3>3. n \in 1 .. Len(messages)'
      BY <1>0, <2>2
    <3> QED
      BY <3>1, <3>2, <3>3
  <2> QED
    BY <2>2, <2>3 DEF LastOK
<1>2. CASE Send
  <2>1. PICK breakpoints \in Breakpoints, images \in Budgets, packFill \in BOOLEAN :
          Request(Collapse(messages, breakpoints, floor, images, packFill),
                  breakpoints, images)
    BY <1>2 DEF Send
  <2> DEFINE layout == Collapse(messages, breakpoints, floor, images, packFill)
  <2>2. Taken(layout) /\ last' = layout /\ budget' = images /\ messages' = messages
    BY <2>1 DEF Request, Taken
  <2>3. images \in Nat
    BY GrowthAssumption
  <2>4. messages # <<>> /\ CutFrom(messages, images, layout.len)
    BY <2>2, TakenWhole
  <2> HIDE DEF layout
  <2>5. Len(messages) \in 1 .. Len(messages)
    BY <1>0, <2>4
  <2>6. CutFrom(SentAt(Len(messages)), images, layout.len)
    BY <2>4, SentWhole
  <2>7. SentAt(Len(messages))' = SentAt(Len(messages))
    BY <2>2 DEF SentAt
  <2> QED
    BY <2>2, <2>3, <2>5, <2>6, <2>7 DEF LastOK
<1>3. CASE UNCHANGED growthVars
  <2>1. messages' = messages /\ last' = last /\ budget' = budget
    BY <1>3 DEF growthVars
  <2> QED
    BY <2>1 DEF LastOK, SentAt
<1> QED
  BY <1>1, <1>2, <1>3 DEF GrowthNext

(* The invariant implies that the cut is closed.                             *)
LEMMA CutIsClosedThen ==
  ASSUME Protocol, LastOK
  PROVE  CutIsClosed
<1>0. Len(messages) \in Nat /\ messages \in Seq(Messages)
  BY DEF Protocol
<1> SUFFICES ASSUME NEW i \in 1 .. last.len, Uses(messages[i]) # {}
             PROVE  i < last.len /\ Answered(i)
  BY DEF CutIsClosed
<1>1. Taken(last)
  <2> SUFFICES ASSUME ~Taken(last) PROVE FALSE
    OBVIOUS
  <2>1. last.len = 0
    BY DEF LastOK
  <2>2. i \in 1 .. 0
    BY <2>1
  <2> QED
    BY <2>2
<1>2. PICK n \in 1 .. Len(messages) : CutFrom(SentAt(n), budget, last.len)
  BY <1>1 DEF LastOK
<1>3. /\ SentAt(n) \in Seq(Messages) /\ Len(SentAt(n)) = n
      /\ \A j \in 1 .. n : SentAt(n)[j] = messages[j]
  BY <1>0, SentStays DEF Continues
<1>4. /\ last.len \in 0 .. n - 1
      /\ \E f : Scans(f, SentAt(n), last.len) /\ f[last.len].open = {}
  <2>1. budget \in Nat /\ Protected \in Nat
    BY CollapseAssumption DEF LastOK
  <2>2. LET closed == ClosedPrefix(SentAt(n), Cutoff(SentAt(n)))
        IN /\ closed \in Protected .. Len(SentAt(n)) - 1
           /\ last.len \in Protected .. closed
           /\ \E f : Scans(f, SentAt(n), last.len) /\ f[last.len].open = {}
    BY <1>2, <1>3, <2>1, TakenIsCut
  <2> QED
    BY <1>3, <2>1, <2>2
<1>5. i # last.len
  <2> SUFFICES ASSUME i = last.len PROVE FALSE
    OBVIOUS
  <2>1. last.len \in 1 .. Len(SentAt(n)) /\ SentAt(n)[last.len] = messages[last.len]
    BY <1>3, <1>4
  <2>2. Uses(SentAt(n)[last.len]) = {}
    BY <1>3, <1>4, <2>1, NoCallAtTheEnd
  <2> QED
    BY <2>1, <2>2
<1>6. i < last.len /\ i \in 1 .. Len(messages) - 1
  BY <1>0, <1>4, <1>5
<1> QED
  BY <1>6 DEF Protocol, Answered

-----------------------------------------------------------------------------
Doubling(d, r) ==
  /\ d \in [0 .. r -> Nat] /\ d[0] = FreezeChunk
  /\ \A j \in 1 .. r : d[j] = 2 * d[j - 1]

(* The steps are the values of a doubling.                                   *)
LEMMA DoubledSteps ==
  ASSUME NEW r \in Nat
  PROVE  \E d : Doubling(d, r) /\ Doubled(r) = {d[j] : j \in 0 .. r}
<1> DEFINE step == [j \in 1 .. r |-> [s \in Nat |-> 2 * s]]
           Rec(f) == f = [j \in 0 .. r |-> IF j = 0 THEN FreezeChunk ELSE 2 * f[j - 1]]
<1>0. FreezeChunk \in Nat
  BY CollapseAssumption
<1>1. StepsIn(step, r, Nat)
  BY DEF StepsIn
<1>2. PICK f \in [0 .. r -> Nat] : Iterates(f, r, FreezeChunk, step)
  <2> HIDE DEF step
  <2> QED
    BY <1>0, <1>1, IterateExists
<1>3. \A j \in 1 .. r : f[j - 1] \in Nat
  OBVIOUS
<1>4. f[0] = FreezeChunk /\ \A j \in 1 .. r : f[j] = 2 * f[j - 1]
  BY <1>2, <1>3 DEF Iterates
<1>5. f = [j \in 0 .. r |-> f[j]]
  OBVIOUS
<1>6. Rec(f)
  <2>1. \A j \in 0 .. r : f[j] = IF j = 0 THEN FreezeChunk ELSE 2 * f[j - 1]
    BY <1>4
  <2> QED
    BY <1>5, <2>1
<1> DEFINE h == CHOOSE g : Rec(g)
<1>7. Rec(h)
  <2> HIDE DEF Rec
  <2> QED
    BY <1>6
<1>8. Doubled(r) = {h[j] : j \in 0 .. r}
  BY Zenon DEF Doubled
<1>9. h = [j \in 0 .. r |-> IF j = 0 THEN FreezeChunk ELSE 2 * h[j - 1]]
  BY <1>7
<1> HIDE DEF h, Rec, step
<1>10. \A j \in 0 .. r : h[j] = IF j = 0 THEN FreezeChunk ELSE 2 * h[j - 1]
  BY <1>9
<1> DEFINE T == {j \in 0 .. r : h[j] \in Nat}
<1>11. \A j \in 0 .. r : j \in T
  <2>1. 0 \in T
    BY <1>0, <1>10
  <2>2. ASSUME NEW j \in 1 .. r, j - 1 \in T PROVE j \in T
    <3>1. j \in 0 .. r /\ j # 0
      OBVIOUS
    <3>2. h[j] = 2 * h[j - 1]
      BY <1>10, <3>1
    <3> QED
      BY <2>2, <3>1, <3>2
  <2> HIDE DEF T
  <2> QED
    BY <2>1, <2>2, UpTo
<1>12. h \in [0 .. r -> Nat]
  <2>1. h = [j \in 0 .. r |-> h[j]]
    BY <1>9
  <2>2. \A j \in 0 .. r : h[j] \in Nat
    BY <1>11
  <2> QED
    BY <2>1, <2>2
<1>13. h[0] = FreezeChunk /\ \A j \in 1 .. r : h[j] = 2 * h[j - 1]
  BY <1>10
<1> QED
  BY <1>8, <1>12, <1>13 DEF Doubling

(* The steps grow: some step spans any range. *)
LEMMA StepsGrow ==
  ASSUME NEW r \in Nat, NEW d, Doubling(d, r)
  PROVE  \A j \in 0 .. r : d[j] \in Nat /\ d[j] >= j + 1
<1> DEFINE T == {j \in 0 .. r : d[j] >= j + 1}
<1>0. \A j \in 0 .. r : d[j] \in Nat
  BY DEF Doubling
<1>1. 0 \in T
  BY CollapseAssumption DEF Doubling
<1>2. ASSUME NEW j \in 1 .. r, j - 1 \in T PROVE j \in T
  <2>1. d[j] = 2 * d[j - 1] /\ d[j - 1] \in Nat
    BY <1>0 DEF Doubling
  <2>2. d[j - 1] >= (j - 1) + 1
    BY <1>2
  <2> QED
    BY <2>1, <2>2
<1> HIDE DEF T
<1>3. \A j \in 0 .. r : j \in T
  BY <1>1, <1>2, UpTo
<1> QED
  BY <1>0, <1>3 DEF T

(* The steps of a longer range begin with those of a shorter one.            *)
LEMMA DoublingsAgree ==
  ASSUME NEW r \in Nat, NEW n \in Nat, r <= n, NEW d, NEW e, Doubling(d, r), Doubling(e, n)
  PROVE  \A j \in 0 .. r : d[j] = e[j]
<1> DEFINE T == {j \in 0 .. r : d[j] = e[j]}
<1>1. 0 \in T
  BY DEF Doubling
<1>2. ASSUME NEW j \in 1 .. r, j - 1 \in T PROVE j \in T
  <2>1. d[j] = 2 * d[j - 1]
    BY DEF Doubling
  <2>2. j \in 1 .. n
    OBVIOUS
  <2>3. e[j] = 2 * e[j - 1]
    BY <2>2 DEF Doubling
  <2> QED
    BY <1>2, <2>1, <2>3
<1> HIDE DEF T
<1>3. \A j \in 0 .. r : j \in T
  BY <1>1, <1>2, UpTo
<1> QED
  BY <1>3 DEF T

(* A longer range has all the steps of a shorter one.                        *)
LEMMA MoreSteps ==
  ASSUME NEW r \in Nat, NEW n \in Nat, r <= n
  PROVE  Doubled(r) \subseteq Doubled(n)
<1>1. PICK d : Doubling(d, r) /\ Doubled(r) = {d[j] : j \in 0 .. r}
  BY DoubledSteps
<1>2. PICK e : Doubling(e, n) /\ Doubled(n) = {e[j] : j \in 0 .. n}
  BY DoubledSteps
<1>3. \A j \in 0 .. r : d[j] = e[j]
  BY <1>1, <1>2, DoublingsAgree
<1>4. \A j \in 0 .. r : j \in 0 .. n
  OBVIOUS
<1> QED
  BY <1>1, <1>2, <1>3, <1>4

(* A later step is a multiple of an earlier one.                             *)
LEMMA LaterIsMultiple ==
  ASSUME NEW r \in Nat, NEW d, Doubling(d, r), NEW j \in 0 .. r
  PROVE  \A k \in 0 .. r : k < j \/ \E q \in Nat : q >= 1 /\ d[k] = q * d[j]
<1> DEFINE T == {k \in 0 .. r : k < j \/ \E q \in Nat : q >= 1 /\ d[k] = q * d[j]}
<1>0. \A i \in 0 .. r : d[i] \in Nat
  BY DEF Doubling
<1>1. ASSUME NEW k \in 0 .. r, k = j PROVE k \in T
  <2>1. d[k] = 1 * d[j]
    BY <1>0, <1>1
  <2> QED
    BY <2>1
<1>2. 0 \in T
  <2>1. CASE 0 = j
    BY <1>1, <2>1
  <2>2. CASE 0 < j
    BY <2>2
  <2> QED
    BY <2>1, <2>2
<1>3. ASSUME NEW k \in 1 .. r, k - 1 \in T PROVE k \in T
  <2>1. CASE k = j
    BY <1>1, <2>1
  <2>2. CASE k < j
    BY <2>2
  <2>3. CASE k > j
    <3>1. PICK q \in Nat : q >= 1 /\ d[k - 1] = q * d[j]
      BY <1>3, <2>3
    <3>2. d[k] = 2 * d[k - 1]
      BY DEF Doubling
    <3>3. d[k] = (2 * q) * d[j]
      BY <1>0, <3>1, <3>2
    <3>4. 2 * q \in Nat /\ 2 * q >= 1
      BY <3>1
    <3> QED
      BY <3>3, <3>4
  <2> QED
    BY <2>1, <2>2, <2>3
<1> HIDE DEF T
<1>4. \A k \in 0 .. r : k \in T
  BY <1>2, <1>3, UpTo
<1> QED
  BY <1>4 DEF T

(* Of two steps the larger is a multiple of the smaller. *)
LEMMA StepsDivide ==
  ASSUME NEW r \in Nat, NEW n \in Nat, NEW s \in Doubled(r), NEW t \in Doubled(n), s <= t
  PROVE  s \in Nat \ {0} /\ t \in Nat \ {0} /\ \E q \in Nat : t = q * s
<1> DEFINE m == Larger(r, n)
<1>1. m \in Nat /\ r <= m /\ n <= m
  BY DEF Larger
<1> HIDE DEF m
<1>2. s \in Doubled(m) /\ t \in Doubled(m)
  BY <1>1, MoreSteps
<1>3. PICK d : Doubling(d, m) /\ Doubled(m) = {d[j] : j \in 0 .. m}
  BY <1>1, DoubledSteps
<1>4. PICK j \in 0 .. m : s = d[j]
  BY <1>2, <1>3
<1>5. PICK k \in 0 .. m : t = d[k]
  BY <1>2, <1>3
<1>6. s \in Nat \ {0} /\ t \in Nat \ {0}
  <2>1. d[j] \in Nat /\ d[j] >= j + 1 /\ d[k] \in Nat /\ d[k] >= k + 1
    BY <1>1, <1>3, StepsGrow
  <2> QED
    BY <1>1, <1>4, <1>5, <2>1
<1>7. CASE k < j
  <2>1. PICK q \in Nat : q >= 1 /\ d[j] = q * d[k]
    <3>1. j < k \/ \E q \in Nat : q >= 1 /\ d[j] = q * d[k]
      BY <1>1, <1>3, LaterIsMultiple
    <3> QED
      BY <1>1, <1>7, <3>1
  <2>2. q * t >= t
    BY <1>6, <2>1
  <2>3. s = t
    BY <1>4, <1>5, <1>6, <2>1, <2>2
  <2>4. t = 1 * s
    BY <1>6, <2>3
  <2> QED
    BY <1>6, <2>4
<1>8. CASE ~(k < j)
  <2>1. k < j \/ \E q \in Nat : q >= 1 /\ d[k] = q * d[j]
    BY <1>1, <1>3, LaterIsMultiple
  <2> QED
    BY <1>4, <1>5, <1>6, <1>8, <2>1
<1> QED
  BY <1>7, <1>8

(* Quotient and remainder.                                                   *)
LEMMA Division ==
  ASSUME NEW x \in Nat, NEW t \in Nat \ {0}
  PROVE  x \div t \in Int /\ x = t * (x \div t) + (x % t)
OBVIOUS

(* What a multiple divides, its divisor divides.                             *)
LEMMA DivisorOfDivisor ==
  ASSUME NEW s \in Nat \ {0}, NEW t \in Nat \ {0}, NEW q \in Nat, t = q * s,
         NEW x \in Nat, x % t = 0
  PROVE  x % s = 0
<1> DEFINE a == x \div t
<1>1. a \in Int /\ x = t * a + (x % t)
  BY Division
<1> HIDE DEF a
<1>2. x = t * a
  BY <1>1
<1>3. x = (q * a) * s
  BY <1>1, <1>2
<1>4. q * a \in Int
  BY <1>1
<1>5. \A b \in Int : (b * s) % s = 0
  OBVIOUS
<1> QED
  BY <1>3, <1>4, <1>5

-----------------------------------------------------------------------------
(* Some step spans the range.                                                *)
LEMMA StepSpans ==
  ASSUME NEW r \in Nat
  PROVE  \E s \in Doubled(r) : s >= r
<1>1. PICK d : Doubling(d, r) /\ Doubled(r) = {d[j] : j \in 0 .. r}
  BY DoubledSteps
<1>2. r \in 0 .. r
  OBVIOUS
<1>3. d[r] \in Nat /\ d[r] >= r + 1
  BY <1>1, <1>2, StepsGrow
<1>4. d[r] >= r /\ d[r] \in Doubled(r)
  BY <1>1, <1>2, <1>3
<1> QED
  BY <1>4

(* Steps are positive.                                                       *)
LEMMA StepsTyped ==
  ASSUME NEW r \in Nat
  PROVE  Doubled(r) \subseteq Nat \ {0}
<1>1. PICK d : Doubling(d, r) /\ Doubled(r) = {d[j] : j \in 0 .. r}
  BY DoubledSteps
<1>2. \A j \in 0 .. r : d[j] \in Nat /\ d[j] >= j + 1
  BY <1>1, StepsGrow
<1>3. \A j \in 0 .. r : d[j] \in Nat \ {0}
  BY <1>2
<1> QED
  BY <1>1, <1>3

(* The step of a layout is one of the grid's, and no smaller than the floor  *)
(* unless it spans the range.                                                *)
LEMMA FreezeStepIs ==
  ASSUME NEW ms, NEW from \in Int, NEW to \in Int, to - from \in Nat, NEW breakpoints,
         NEW at \in Nat, NEW goal
  PROVE  LET step == FreezeStep(ms, from, to, breakpoints, at, goal)
         IN step \in Doubled(to - from) /\ (step >= at \/ step >= to - from)
<1> DEFINE r == to - from
           L == {s \in GridSteps(r) : s >= at \/ s >= r}
           F == {s \in GridSteps(r) :
                   /\ s >= LeastStep(r, at)
                   /\ s >= r \/ GridPages(ms, from, to, s) + Cardinality(breakpoints) <= goal}
           step == FreezeStep(ms, from, to, breakpoints, at, goal)
<1>1. GridSteps(r) \subseteq Nat /\ r \in Nat
  BY StepsTyped DEF GridSteps
<1>2. PICK big \in GridSteps(r) : big >= r
  BY StepSpans DEF GridSteps
<1>3. LeastStep(r, at) = Min(L)
  BY DEF LeastStep
<1>4. step = Min(F)
  BY DEF FreezeStep
<1>5. L \subseteq Nat /\ big \in L
  BY <1>1, <1>2
<1>6. LeastStep(r, at) \in L /\ LeastStep(r, at) <= big
  <2> HIDE DEF L
  <2>1. Min(L) \in L /\ \A x \in L : Min(L) <= x
    BY <1>5, MinIsLeast
  <2> QED
    BY <1>3, <1>5, <2>1
<1>7. F \subseteq Nat /\ big \in F
  <2>1. big >= LeastStep(r, at)
    BY <1>1, <1>2, <1>5, <1>6
  <2> QED
    BY <1>1, <1>2, <2>1
<1>8. step \in F
  <2> HIDE DEF F, step
  <2> QED
    BY <1>4, <1>7, MinIsLeast
<1> HIDE DEF step
<1>9. step \in GridSteps(r) /\ step >= LeastStep(r, at)
  BY <1>8
<1>10. step \in Nat /\ LeastStep(r, at) \in Nat
  BY <1>1, <1>5, <1>6, <1>9
<1>11. LeastStep(r, at) >= at \/ LeastStep(r, at) >= r
  BY <1>6
<1>12. step >= at \/ step >= r
  BY <1>1, <1>9, <1>10, <1>11
<1> QED
  BY <1>9, <1>12 DEF step, GridSteps

-----------------------------------------------------------------------------
(* A larger number rounds down to no smaller a multiple.                     *)
LEMMA DivisionGrows ==
  ASSUME NEW a \in Int, NEW b \in Int, a <= b, NEW c \in Nat \ {0}
  PROVE  (a \div c) * c \in Int /\ (b \div c) * c \in Int /\ (a \div c) * c <= (b \div c) * c
<1> DEFINE u == a \div c
           v == b \div c
<1>1. u \in Int /\ a = c * u + (a % c) /\ a % c \in 0 .. c - 1
  OBVIOUS
<1>2. v \in Int /\ b = c * v + (b % c) /\ b % c \in 0 .. c - 1
  OBVIOUS
<1> HIDE DEF u, v
<1>3. u * c = c * u /\ v * c = c * v /\ u * c \in Int /\ v * c \in Int
  BY <1>1, <1>2
<1>4. u <= v
  <2> SUFFICES ASSUME u >= v + 1 PROVE FALSE
    BY <1>1, <1>2
  <2>1. c * u >= c * (v + 1)
    BY <1>1, <1>2
  <2>2. c * (v + 1) = c * v + c
    BY <1>2
  <2> QED
    BY <1>1, <1>2, <1>3, <2>1, <2>2
<1>5. u * c <= v * c
  BY <1>1, <1>2, <1>4
<1> QED
  BY <1>3, <1>5 DEF u, v

(* The cutoff never moves back.                                              *)
LEMMA CutoffGrows ==
  ASSUME NEW ms, NEW old, Continues(ms, old), ProtectedIn(ms) = ProtectedIn(old)
  PROVE  Cutoff(old) <= Cutoff(ms)
<1>1. /\ Len(ms) \in Nat /\ Len(old) \in Nat /\ Len(old) <= Len(ms)
      /\ KeepTail \in Nat /\ MinPrefix \in Nat /\ Protected \in Nat
      /\ CollapseChunk \in Nat \ {0}
  BY CollapseAssumption DEF Continues
<1> DEFINE a == Len(old) - KeepTail
           b == Len(ms) - KeepTail
           x == (a \div CollapseChunk) * CollapseChunk
           y == (b \div CollapseChunk) * CollapseChunk
           z == MinPrefix + ProtectedIn(ms)
<1>2. a \in Int /\ b \in Int /\ a <= b
  BY <1>1
<1>3. z \in Nat
  BY <1>1 DEF ProtectedIn, Smaller
<1>4. Cutoff(ms) = IF Larger(y, z) < b THEN Larger(y, z) ELSE b
  BY DEF Cutoff
<1>5. Cutoff(old) = IF Larger(x, z) < a THEN Larger(x, z) ELSE a
  BY DEF Cutoff
<1> HIDE DEF a, b, z
<1>6. x \in Int /\ y \in Int /\ x <= y
  BY <1>1, <1>2, DivisionGrows
<1> HIDE DEF x, y
<1> QED
  BY <1>2, <1>3, <1>4, <1>5, <1>6 DEF Larger

(* What fits fits when the conversation has grown.                           *)
LEMMA FitsStill ==
  ASSUME NEW ms, NEW old, Continues(ms, old), NEW from \in 0 .. Len(old),
         NEW k \in 0 .. Len(old), NEW images, Fits(old, from, k, images)
  PROVE  Fits(ms, from, k, images)
<1>1. /\ TextTotals(ms)[from] = TextTotals(old)[from]
      /\ TextTotals(ms)[k] = TextTotals(old)[k]
      /\ ImageTotals(ms)[from] = ImageTotals(old)[from]
      /\ ImageTotals(ms)[k] = ImageTotals(old)[k]
  BY TotalsContinue
<1> QED
  BY <1>1 DEF Fits, TextTotal, ImageTotal

(* What is taken of a conversation is taken of a longer one. *)
LEMMA TakenStays ==
  ASSUME NEW ms, NEW old, Continues(ms, old), NEW images \in Nat, NEW more \in Nat,
         images <= more, NEW len, NEW longer, CutFrom(old, images, len),
         CutFrom(ms, more, longer)
  PROVE  longer >= len
<1> DEFINE c1 == ClosedPrefix(old, Cutoff(old))
           c2 == ClosedPrefix(ms, Cutoff(ms))
           from == Protected
<1>1. /\ ms \in Seq(Messages) /\ old \in Seq(Messages) /\ Len(old) <= Len(ms)
      /\ \A i \in 1 .. Len(old) : old[i] = ms[i]
      /\ Len(ms) \in Nat /\ Len(old) \in Nat /\ from \in Nat
  BY CollapseAssumption DEF Continues
<1>2. /\ ProtectedIn(old) = from /\ c1 \in from .. Len(old) - 1 /\ c1 <= Cutoff(old)
      /\ IsCut(old, c1) /\ len \in from .. c1 /\ IsCut(old, len)
  BY <1>1, TakenIsCut
<1>3. /\ ProtectedIn(ms) = from /\ c2 \in from .. Len(ms) - 1 /\ c2 <= Cutoff(ms)
      /\ IsCut(ms, c2) /\ longer \in from .. c2 /\ IsCut(ms, longer)
  BY <1>1, TakenIsCut
<1>4. len = TrimmedPrefix(old, c1, images) /\ longer = TrimmedPrefix(ms, c2, more)
  BY DEF CutFrom, CollapsiblePrefix
<1>5. Cutoff(old) \in Int /\ Cutoff(ms) \in Int /\ Cutoff(old) <= Cutoff(ms)
  BY <1>1, <1>2, <1>3, CutoffTyped, CutoffGrows
<1> HIDE DEF c1, c2, from
<1>6. IsCut(ms, c1) /\ IsCut(ms, len) /\ c1 \in 0 .. Len(ms) /\ len \in 0 .. Len(ms)
  <2>1. c1 \in 0 .. Len(old) /\ c1 < Len(old) /\ len \in 0 .. Len(old) /\ len < Len(old)
    BY <1>1, <1>2
  <2>2. IsCut(ms, c1) /\ IsCut(ms, len)
    BY <1>1, <1>2, <2>1, CutGrows
  <2> QED
    BY <1>1, <2>1, <2>2
<1>7. c2 >= c1
  <2>1. Cutoff(ms) >= c1
    BY <1>1, <1>2, <1>5, <1>6
  <2> QED
    BY <1>1, <1>5, <1>6, <2>1, CutStays DEF c2
<1>8. CASE PerfectPages(ms, from, c2) <= more
  <2>1. longer = c2
    BY <1>3, <1>4, <1>8 DEF TrimmedPrefix
  <2> QED
    BY <1>1, <1>2, <1>3, <1>7, <2>1
<1>9. CASE ~(PerfectPages(ms, from, c2) <= more)
  <2> DEFINE k == AffordablePrefix(ms, from, c2, more)
  <2>1. longer = ClosedPrefix(ms, k)
    BY <1>3, <1>4, <1>9 DEF TrimmedPrefix, CollapsiblePrefix
  <2>2. c2 \in 0 .. Len(ms) /\ from \in 0 .. c2 /\ from \in 0 .. Len(ms)
    BY <1>1, <1>3
  <2>3. k \in from .. c2 /\ \A j \in from .. c2 : Fits(ms, from, j, more) => j <= k
    BY <1>1, <2>2, AffordableIsLast
  <2>4. \E j \in from .. c1 : len <= j /\ Fits(old, from, j, images)
    <3>1. c1 \in 0 .. Len(old) /\ from \in 0 .. Len(old) /\ from \in 0 .. c1
      BY <1>1, <1>2
    <3>2. CASE PerfectPages(old, from, c1) <= images
      <4>1. Fits(old, from, c1, images)
        BY <1>1, <3>1, <3>2, PerfectFits
      <4> QED
        BY <1>1, <1>2, <3>1, <4>1
    <3>3. CASE ~(PerfectPages(old, from, c1) <= images)
      <4> DEFINE j == AffordablePrefix(old, from, c1, images)
      <4>1. len = ClosedPrefix(old, j)
        BY <1>2, <1>4, <3>3 DEF TrimmedPrefix, CollapsiblePrefix
      <4>2. j \in from .. c1 /\ Fits(old, from, j, images)
        BY <1>1, <3>1, AffordableIsLast
      <4> HIDE DEF j
      <4>3. j \in Int /\ j >= 0
        BY <3>1, <4>2
      <4>4. len <= Larger(j, 0)
        BY <1>1, <4>1, <4>3, ClosedPrefixIsCut
      <4>5. len <= j
        BY <4>3, <4>4 DEF Larger
      <4> QED
        BY <4>2, <4>5
    <3> QED
      BY <3>2, <3>3
  <2>5. PICK j \in from .. c1 : len <= j /\ Fits(old, from, j, images)
    BY <2>4
  <2> HIDE DEF k
  <2>6. /\ j \in 0 .. Len(old) /\ from \in 0 .. Len(old) /\ j \in 0 .. Len(ms)
        /\ j \in from .. c2
    BY <1>1, <1>2, <1>3, <1>7
  <2>7. Fits(ms, from, j, images)
    BY <2>5, <2>6, FitsStill
  <2>8. Fits(ms, from, j, more)
    BY <1>1, <2>2, <2>6, <2>7, FitsMore
  <2>9. j <= k
    BY <2>3, <2>6, <2>8
  <2>10. k \in Int /\ k >= len
    BY <1>1, <1>2, <1>3, <2>3, <2>5, <2>6, <2>9
  <2> QED
    BY <1>1, <1>6, <2>1, <2>10, CutStays
<1> QED
  BY <1>8, <1>9

-----------------------------------------------------------------------------
FloorOK ==
  /\ floor \in Nat
  /\ Taken(last) => /\ last.step \in Nat /\ last.step <= floor
                    /\ \E r \in Nat : last.step \in Doubled(r)

(* The step of the layout that is taken. *)
LEMMA StepTaken ==
  ASSUME NEW ms \in Seq(Messages), NEW breakpoints, NEW at \in Nat, NEW images \in Nat,
         NEW packFill, Taken(Collapse(ms, breakpoints, at, images, packFill))
  PROVE  LET layout == Collapse(ms, breakpoints, at, images, packFill)
             r == layout.len - Protected
         IN /\ r \in Nat /\ layout.step \in Doubled(r)
            /\ layout.step >= at \/ layout.step >= r
<1> DEFINE layout == Collapse(ms, breakpoints, at, images, packFill)
           len == layout.len
<1>1. CutFrom(ms, images, len) /\ layout = Layout(ms, len, breakpoints, at, images, packFill)
  BY TakenWhole
<1>2. PICK b, goal : layout.step = FreezeStep(ms, ProtectedIn(ms), len, b, at, goal)
  <2> HIDE DEF layout, len
  <2> QED
    BY <1>1 DEF Layout
<1> HIDE DEF layout, len
<1>3. Protected \in Nat /\ Len(ms) \in Nat
  BY CollapseAssumption
<1>4. ProtectedIn(ms) = Protected /\ len \in Int /\ len >= Protected
  <2>1. LET closed == ClosedPrefix(ms, Cutoff(ms))
        IN /\ ProtectedIn(ms) = Protected /\ closed \in Protected .. Len(ms) - 1
           /\ len \in Protected .. closed
    BY <1>1, TakenIsCut
  <2> QED
    BY <1>3, <2>1
<1>5. len - Protected \in Nat
  BY <1>3, <1>4
<1>6. /\ layout.step \in Doubled(len - Protected)
      /\ layout.step >= at \/ layout.step >= len - Protected
  BY <1>2, <1>3, <1>4, <1>5, FreezeStepIs
<1> QED
  BY <1>5, <1>6 DEF layout, len

(* The floor is no smaller than the step of the last layout.                 *)
LEMMA FloorKept ==
  ASSUME Protocol, FloorOK, [GrowthNext]_growthVars
  PROVE  FloorOK'
<1>1. CASE Say \/ UNCHANGED growthVars
  <2>1. floor' = floor /\ last' = last
    BY <1>1 DEF Say, growthVars
  <2> QED
    BY <2>1 DEF FloorOK
<1>2. CASE Send
  <2>1. PICK breakpoints \in Breakpoints, images \in Budgets, packFill \in BOOLEAN :
          Request(Collapse(messages, breakpoints, floor, images, packFill),
                  breakpoints, images)
    BY <1>2 DEF Send
  <2> DEFINE layout == Collapse(messages, breakpoints, floor, images, packFill)
             r == layout.len - Protected
  <2>2. Taken(layout) /\ last' = layout /\ floor' = Larger(floor, layout.step)
    BY <2>1 DEF Request, Taken, Recorded
  <2>3. images \in Nat /\ messages \in Seq(Messages) /\ floor \in Nat
    BY GrowthAssumption DEF Protocol, FloorOK
  <2>4. r \in Nat /\ layout.step \in Doubled(r)
    BY <2>2, <2>3, StepTaken
  <2>5. layout.step \in Nat
    BY <2>4, StepsTyped
  <2> HIDE DEF layout, r
  <2> QED
    BY <2>2, <2>3, <2>4, <2>5 DEF FloorOK, Larger
<1> QED
  BY <1>1, <1>2 DEF GrowthNext

(* No grid boundary of the new layout is new in the old range. *)
LEMMA GridStays ==
  ASSUME NEW len \in Nat, NEW longer \in Nat, NEW from \in Nat, NEW r \in Nat,
         NEW s \in Doubled(r),
         longer - from \in Nat, NEW t \in Doubled(longer - from),
         t >= s \/ t >= longer - from
  PROVE  GridEnds(from, Smaller(len, longer), t) \subseteq GridEnds(from, len, s)
<1> SUFFICES ASSUME NEW e \in GridEnds(from, Smaller(len, longer), t)
             PROVE  e \in GridEnds(from, len, s)
  OBVIOUS
<1>1. e \in from + 1 .. Smaller(len, longer) - 1 /\ (e - from) % t = 0
  BY DEF GridEnds
<1>2. /\ e \in from + 1 .. len - 1 /\ e - from \in Nat /\ e - from > 0
      /\ e - from < longer - from
  BY <1>1 DEF Smaller
<1>3. t \in Nat \ {0} /\ s \in Nat \ {0}
  BY StepsTyped
<1>4. CASE t >= s
  <2>1. \E q \in Nat : t = q * s
    BY <1>3, <1>4, StepsDivide
  <2>2. (e - from) % s = 0
    BY <1>1, <1>2, <1>3, <2>1, DivisorOfDivisor
  <2> QED
    BY <1>2, <2>2 DEF GridEnds
<1>5. CASE t >= longer - from
  <2>1. e - from < t
    BY <1>2, <1>3, <1>5
  <2>2. (e - from) % t = e - from
    BY <1>2, <1>3, <2>1
  <2> QED
    BY <1>1, <1>2, <2>2
<1> QED
  BY <1>4, <1>5

BuiltUp ==
  LET from == ProtectedIn(messages)
  IN /\ budget' >= budget => last'.len >= last.len
     /\ GridEnds(from, Smaller(last.len, last'.len), last'.step)
          \subseteq GridEnds(from, last.len, last.step)

(* A request after a layout builds on it.                                    *)
LEMMA BuildsUp ==
  ASSUME Protocol, LastOK, FloorOK, Send, Taken(last)
  PROVE  BuiltUp
<1>1. PICK breakpoints \in Breakpoints, images \in Budgets, packFill \in BOOLEAN :
        Request(Collapse(messages, breakpoints, floor, images, packFill),
                breakpoints, images)
  BY DEF Send
<1> DEFINE layout == Collapse(messages, breakpoints, floor, images, packFill)
           r == layout.len - Protected
<1>2. Taken(layout) /\ last' = layout /\ budget' = images
  BY <1>1 DEF Request, Taken
<1>3. /\ images \in Nat /\ messages \in Seq(Messages) /\ floor \in Nat /\ budget \in Nat
      /\ Len(messages) \in Nat /\ Protected \in Nat
  BY GrowthAssumption, CollapseAssumption DEF Protocol, FloorOK, LastOK
<1>4. r \in Nat /\ layout.step \in Doubled(r) /\ (layout.step >= floor \/ layout.step >= r)
  BY <1>2, <1>3, StepTaken
<1>5. CutFrom(messages, images, layout.len)
  BY <1>2, TakenWhole
<1> HIDE DEF layout
<1>6. PICK n \in 1 .. Len(messages) : CutFrom(SentAt(n), budget, last.len)
  BY DEF LastOK
<1>7. SentAt(n) \in Seq(Messages) /\ Len(SentAt(n)) = n /\ Continues(messages, SentAt(n))
  BY <1>3, SentStays
<1>8. images >= budget => layout.len >= last.len
  BY <1>3, <1>5, <1>6, <1>7, TakenStays
<1>9. ProtectedIn(messages) = Protected /\ layout.len \in Nat /\ last.len \in Nat
  <2>1. LET closed == ClosedPrefix(messages, Cutoff(messages))
        IN /\ ProtectedIn(messages) = Protected
           /\ closed \in Protected .. Len(messages) - 1
           /\ layout.len \in Protected .. closed
    BY <1>3, <1>5, TakenIsCut
  <2>2. LET closed == ClosedPrefix(SentAt(n), Cutoff(SentAt(n)))
        IN /\ closed \in Protected .. Len(SentAt(n)) - 1
           /\ last.len \in Protected .. closed
    BY <1>3, <1>6, <1>7, TakenIsCut
  <2> QED
    BY <1>3, <1>7, <2>1, <2>2
<1>10. PICK before \in Nat : last.step \in Doubled(before)
  BY DEF FloorOK
<1>11. layout.step >= last.step \/ layout.step >= r
  <2>1. last.step \in Nat /\ last.step <= floor
    BY DEF FloorOK
  <2>2. layout.step \in Nat
    BY <1>4, StepsTyped
  <2> QED
    BY <1>3, <1>4, <2>1, <2>2
<1>12. GridEnds(Protected, Smaller(last.len, layout.len), layout.step)
         \subseteq GridEnds(Protected, last.len, last.step)
  BY <1>3, <1>4, <1>9, <1>10, <1>11, GridStays
<1> QED
  BY <1>2, <1>8, <1>9, <1>12 DEF BuiltUp

-----------------------------------------------------------------------------
GrowthInv == Protocol /\ LastOK /\ FloorOK

(* The inductive invariant: the client keeps the protocol; the last layout   *)
(* took what Collapse takes of the conversation as it was when it had some   *)
(* number of messages; and the floor is no smaller than its step, which is   *)
(* one of the grid's.                                                        *)
THEOREM GrowthInvariant == GrowthSpec => []GrowthInv
<1>1. GrowthInit => GrowthInv
  <2> SUFFICES ASSUME GrowthInit PROVE GrowthInv
    OBVIOUS
  <2>1. messages = <<>> /\ floor = 0 /\ budget = 0 /\ last = NotCollapsed("none")
    BY DEF GrowthInit
  <2>2. last.len = 0 /\ last.reason = "none"
    BY <2>1 DEF NotCollapsed
  <2>3. ~Taken(last)
    BY <2>2, Zenon DEF Taken
  <2> QED
    BY <2>1, <2>2, <2>3 DEF GrowthInv, Protocol, LastOK, FloorOK
<1>2. GrowthInv /\ [GrowthNext]_growthVars => GrowthInv'
  BY ProtocolKept, LastKept, FloorKept DEF GrowthInv
<1> QED
  BY <1>1, <1>2, PTL DEF GrowthSpec

(* The cut never separates a call from its answer, in any conversation, also *)
(* when the budget trims the prefix.                                         *)
THEOREM NoCallCutOff == GrowthSpec => []CutIsClosed
<1>1. GrowthInv => CutIsClosed
  BY CutIsClosedThen DEF GrowthInv
<1> QED
  BY <1>1, GrowthInvariant, PTL

(* With the same budget or a larger one the collapsed part never gets        *)
(* shorter, and chunks are merged with their neighbours, never cut: the      *)
(* images of a request build on those of the one before.                     *)
THEOREM LayoutsBuildUp == GrowthSpec => ImagesBuildUp
<1>1. GrowthInv /\ [GrowthNext]_growthVars
        => [last.reason = "" /\ last' # last => BuiltUp]_growthVars
  <2> SUFFICES ASSUME GrowthInv, GrowthNext, Taken(last), last' # last PROVE BuiltUp
    BY Zenon DEF Taken
  <2>1. CASE Say
    BY <2>1 DEF Say
  <2>2. CASE Send
    BY <2>2, BuildsUp DEF GrowthInv
  <2> QED
    BY <2>1, <2>2 DEF GrowthNext
<1> QED
  BY <1>1, GrowthInvariant, PTL DEF GrowthSpec, ImagesBuildUp, BuiltUp

-----------------------------------------------------------------------------
(* What a chunk becomes.                                                     *)

Kinds == {"page", "words", "long", "preview", "verbatim"}
BlockSet == [kind : Kinds, turns : SUBSET Nat, part : Nat, marked : BOOLEAN]

TypedByUsers(ms) == \A i \in 1 .. Len(ms) : ms[i].typed > 0 => ms[i].role = "user"

(* b has what was typed in turn i, or its beginning. *)
CarriesTurn(b, i) == b.kind \in {"words", "long"} /\ i \in b.turns /\ b.part <= 1

(* The ends of an interval.                                                  *)
LEMMA IntervalEnds ==
  ASSUME NEW a \in Nat, NEW e \in Nat, a <= e
  PROVE  Min(a .. e) = a /\ Max(a .. e) = e
<1>1. a .. e \subseteq Nat /\ a .. e \subseteq 0 .. e /\ a .. e # {}
  <2>1. a \in a .. e
    OBVIOUS
  <2> QED
    BY <2>1
<1> DEFINE T == a .. e
<1>2. a \in T /\ e \in T /\ \A x \in T : x \in Int /\ a <= x /\ x <= e
  OBVIOUS
<1> HIDE DEF T
<1>3. T \subseteq Nat /\ T \subseteq 0 .. e /\ T # {}
  BY <1>1 DEF T
<1>4. Min(T) \in T /\ \A x \in T : Min(T) <= x
  BY <1>3, MinIsLeast
<1>5. Max(T) \in T /\ \A x \in T : x <= Max(T)
  BY <1>3, MaxIsGreatest
<1>6. Min(T) <= a /\ a <= Min(T) /\ Min(T) \in Int
  BY <1>2, <1>4
<1>7. Max(T) <= e /\ e <= Max(T) /\ Max(T) \in Int
  BY <1>2, <1>5
<1>8. Min(T) = a /\ Max(T) = e
  BY <1>6, <1>7
<1> QED
  BY <1>8 DEF T

(* A text has a number of pages, at least one if it is not empty.            *)
LEMMA PagesCounted ==
  ASSUME NEW x \in Nat
  PROVE  Pages(x) \in Nat /\ (x > 0 => Pages(x) >= 1)
<1>1. PageChars \in Nat \ {0}
  BY CollapseAssumption
<1> DEFINE y == x + PageChars - 1
           q == y \div PageChars
           r == y % PageChars
<1>2. y \in Int /\ q \in Int /\ r \in 0 .. PageChars - 1 /\ y = PageChars * q + r
  BY <1>1
<1>3. Pages(x) = q
  BY DEF Pages
<1>4. y >= PageChars - 1 /\ (x > 0 => y >= PageChars)
  BY <1>1
<1> HIDE DEF y, q, r
<1>5. PageChars * q \in Int
  BY <1>1, <1>2
<1>6. PageChars * q >= 0 /\ (x > 0 => PageChars * q > 0)
  BY <1>1, <1>2, <1>4, <1>5
<1>7. \A z \in Int : z <= -1 => PageChars * z < 0
  BY <1>1
<1>8. PageChars * 0 = 0
  BY <1>1
<1>9. q >= 0
  <2>1. ~(PageChars * q < 0)
    BY <1>5, <1>6
  <2>2. ~(q <= -1)
    BY <1>2, <1>7, <2>1
  <2> QED
    BY <1>2, <2>2
<1>10. x > 0 => q # 0
  BY <1>6, <1>8
<1> QED
  BY <1>2, <1>3, <1>9, <1>10

(* Running sums grow.                                                        *)
LEMMA SumsGrow ==
  ASSUME NEW costs \in Seq(Nat), NEW t, Summed(t, costs),
         NEW i \in 0 .. Len(costs), NEW j \in i .. Len(costs)
  PROVE  t[i] <= t[j]
<1> DEFINE n == Len(costs)
           T == {k \in 0 .. n : i <= k => t[i] <= t[k]}
<1>0. n \in Nat /\ i \in Nat
  OBVIOUS
<1>1. 0 \in T
  BY <1>0 DEF Summed
<1>2. ASSUME NEW k \in 1 .. n, k - 1 \in T PROVE k \in T
  <2>0. k - 1 \in 0 .. n /\ k \in 0 .. n /\ i \in 0 .. n /\ costs[k] \in Nat
    BY <1>0
  <2>1. t[k] = t[k - 1] + costs[k] /\ t[k - 1] \in Nat /\ costs[k] \in Nat
        /\ t[i] \in Nat /\ t[k] \in Nat
    BY <2>0 DEF Summed
  <2>2. CASE i = k
    BY <2>1, <2>2
  <2>3. CASE i # k
    BY <1>0, <1>2, <2>1, <2>3
  <2> QED
    BY <2>2, <2>3
<1> HIDE DEF T
<1>3. \A k \in 0 .. n : k \in T
  <2> HIDE DEF n
  <2> QED
    BY <1>0, <1>1, <1>2, UpTo
<1> QED
  BY <1>0, <1>3 DEF T

(* A range costs something, and no less than a message in it.                *)
LEMMA RangeCosts ==
  ASSUME NEW ms \in Seq(Messages), NEW a \in 1 .. Len(ms), NEW e \in a .. Len(ms)
  PROVE  /\ TextTotal(ms, a - 1, e) \in Nat /\ ImageTotal(ms, a - 1, e) \in Nat
         /\ \A i \in a .. e : ImageCost(ms[i]) <= ImageTotal(ms, a - 1, e)
<1> DEFINE texts == [i \in DOMAIN ms |-> TextCost(ms[i])]
           images == [i \in DOMAIN ms |-> ImageCost(ms[i])]
<1>0. Len(ms) \in Nat /\ DOMAIN ms = 1 .. Len(ms)
  OBVIOUS
<1>1. /\ texts \in Seq(Nat) /\ images \in Seq(Nat)
      /\ Len(texts) = Len(ms) /\ Len(images) = Len(ms)
  BY CostsTyped
<1>2. TextTotals(ms) = Totals(texts) /\ ImageTotals(ms) = Totals(images)
  BY DEF TextTotals, ImageTotals
<1>3. \A i \in 1 .. Len(ms) : images[i] = ImageCost(ms[i])
  BY <1>0
<1> HIDE DEF texts, images
<1>4. Summed(Totals(texts), texts) /\ Summed(Totals(images), images)
  BY <1>1, TotalsSummed
<1>5. \A i \in 0 .. Len(ms) : Totals(texts)[i] \in Nat /\ Totals(images)[i] \in Nat
  BY <1>1, <1>4 DEF Summed
<1>6. \A i \in 0 .. Len(ms) : \A j \in i .. Len(ms) :
        Totals(texts)[i] <= Totals(texts)[j] /\ Totals(images)[i] <= Totals(images)[j]
  BY <1>1, <1>4, SumsGrow
<1>7. a - 1 \in 0 .. Len(ms) /\ e \in a - 1 .. Len(ms) /\ e \in 0 .. Len(ms)
  BY <1>0
<1>8. TextTotal(ms, a - 1, e) \in Nat /\ ImageTotal(ms, a - 1, e) \in Nat
  <2>1. /\ Totals(texts)[a - 1] \in Nat /\ Totals(texts)[e] \in Nat
        /\ Totals(images)[a - 1] \in Nat /\ Totals(images)[e] \in Nat
    BY <1>5, <1>7
  <2>2. Totals(texts)[a - 1] <= Totals(texts)[e] /\ Totals(images)[a - 1] <= Totals(images)[e]
    BY <1>6, <1>7
  <2> QED
    BY <1>2, <2>1, <2>2 DEF TextTotal, ImageTotal
<1>9. ASSUME NEW i \in a .. e PROVE ImageCost(ms[i]) <= ImageTotal(ms, a - 1, e)
  <2>1. i \in 1 .. Len(ms) /\ i - 1 \in 0 .. Len(ms) /\ i - 1 \in a - 1 .. Len(ms)
        /\ e \in i .. Len(ms) /\ i \in 0 .. Len(ms)
    BY <1>0
  <2>2. Totals(images)[i] = Totals(images)[i - 1] + ImageCost(ms[i])
    BY <1>1, <1>3, <1>4, <2>1 DEF Summed
  <2>3. Totals(images)[a - 1] <= Totals(images)[i - 1]
    BY <1>6, <1>7, <2>1
  <2>4. Totals(images)[i] <= Totals(images)[e]
    BY <1>6, <1>7, <2>1
  <2>5. ImageCost(ms[i]) \in Nat
    <3>1. ms[i] \in Messages
      BY <2>1
    <3> QED
      BY <3>1 DEF ImageCost, Messages
  <2>6. /\ Totals(images)[a - 1] \in Nat /\ Totals(images)[i - 1] \in Nat
        /\ Totals(images)[i] \in Nat /\ Totals(images)[e] \in Nat
    BY <1>5, <1>7, <2>1
  <2>7. ImageTotal(ms, a - 1, e) = Totals(images)[e] - Totals(images)[a - 1]
    BY <1>2 DEF ImageTotal
  <2> QED
    BY <2>2, <2>3, <2>4, <2>5, <2>6, <2>7
<1> QED
  BY <1>8, <1>9

-----------------------------------------------------------------------------
OneCarries(blocks, i) ==
  \E n \in 1 .. Len(blocks) :
    /\ CarriesTurn(blocks[n], i)
    /\ \A m \in 1 .. Len(blocks) : CarriesTurn(blocks[m], i) => m = n
NoneCarries(blocks, i) == \A n \in 1 .. Len(blocks) : ~CarriesTurn(blocks[n], i)

(* The entries of two sequences after one another.                           *)
LEMMA Joined ==
  ASSUME NEW S, NEW s \in Seq(S), NEW t \in Seq(S)
  PROVE  /\ s \o t \in Seq(S) /\ Len(s \o t) = Len(s) + Len(t)
         /\ Len(s) \in Nat /\ Len(t) \in Nat
         /\ \A n \in 1 .. Len(s) : (s \o t)[n] = s[n]
         /\ \A n \in 1 .. Len(t) : (s \o t)[Len(s) + n] = t[n]
         /\ \A n \in 1 .. Len(s) + Len(t) : n > Len(s) =>
              (s \o t)[n] = t[n - Len(s)] /\ n - Len(s) \in 1 .. Len(t)
OBVIOUS

(* A turn is carried once by two runs of blocks if one carries it once and   *)
(* the other does not.                                                       *)
LEMMA CarriedOnce ==
  ASSUME NEW S, NEW s \in Seq(S), NEW t \in Seq(S), NEW i
  PROVE  /\ OneCarries(s, i) /\ NoneCarries(t, i) => OneCarries(s \o t, i)
         /\ NoneCarries(s, i) /\ OneCarries(t, i) => OneCarries(s \o t, i)
         /\ NoneCarries(s, i) /\ NoneCarries(t, i) => NoneCarries(s \o t, i)
<1> DEFINE b == s \o t
<1>1. /\ Len(b) = Len(s) + Len(t) /\ Len(s) \in Nat /\ Len(t) \in Nat
      /\ \A n \in 1 .. Len(s) : b[n] = s[n]
      /\ \A n \in 1 .. Len(t) : b[Len(s) + n] = t[n]
      /\ \A n \in 1 .. Len(s) + Len(t) : n > Len(s) =>
           b[n] = t[n - Len(s)] /\ n - Len(s) \in 1 .. Len(t)
  BY Joined
<1> HIDE DEF b
<1>2. ASSUME OneCarries(s, i), NoneCarries(t, i) PROVE OneCarries(b, i)
  <2>1. PICK n \in 1 .. Len(s) :
          CarriesTurn(s[n], i) /\ \A m \in 1 .. Len(s) : CarriesTurn(s[m], i) => m = n
    BY <1>2 DEF OneCarries
  <2>2. n \in 1 .. Len(b) /\ CarriesTurn(b[n], i)
    BY <1>1, <2>1
  <2>3. ASSUME NEW m \in 1 .. Len(b), CarriesTurn(b[m], i) PROVE m = n
    <3>1. CASE m \in 1 .. Len(s)
      BY <1>1, <2>1, <2>3, <3>1
    <3>2. CASE m > Len(s)
      <4>1. m - Len(s) \in 1 .. Len(t) /\ b[m] = t[m - Len(s)]
        BY <1>1, <3>2
      <4> QED
        BY <1>2, <2>3, <4>1 DEF NoneCarries
    <3> QED
      BY <1>1, <3>1, <3>2
  <2> QED
    BY <2>2, <2>3 DEF OneCarries
<1>3. ASSUME NoneCarries(s, i), OneCarries(t, i) PROVE OneCarries(b, i)
  <2>1. PICK n \in 1 .. Len(t) :
          CarriesTurn(t[n], i) /\ \A m \in 1 .. Len(t) : CarriesTurn(t[m], i) => m = n
    BY <1>3 DEF OneCarries
  <2>2. Len(s) + n \in 1 .. Len(b) /\ CarriesTurn(b[Len(s) + n], i)
    BY <1>1, <2>1
  <2>3. ASSUME NEW m \in 1 .. Len(b), CarriesTurn(b[m], i) PROVE m = Len(s) + n
    <3>1. CASE m \in 1 .. Len(s)
      BY <1>1, <1>3, <2>3, <3>1 DEF NoneCarries
    <3>2. CASE m > Len(s)
      <4>1. m - Len(s) \in 1 .. Len(t) /\ b[m] = t[m - Len(s)]
        BY <1>1, <3>2
      <4>2. m - Len(s) = n
        BY <2>1, <2>3, <4>1
      <4> QED
        BY <1>1, <4>2
    <3> QED
      BY <1>1, <3>1, <3>2
  <2> QED
    BY <2>2, <2>3 DEF OneCarries
<1>4. ASSUME NoneCarries(s, i), NoneCarries(t, i) PROVE NoneCarries(b, i)
  <2> SUFFICES ASSUME NEW m \in 1 .. Len(b) PROVE ~CarriesTurn(b[m], i)
    BY DEF NoneCarries
  <2>1. CASE m \in 1 .. Len(s)
    BY <1>1, <1>4, <2>1 DEF NoneCarries
  <2>2. CASE m > Len(s)
    <3>1. m - Len(s) \in 1 .. Len(t) /\ b[m] = t[m - Len(s)]
      BY <1>1, <2>2
    <3> QED
      BY <1>4, <3>1 DEF NoneCarries
  <2> QED
    BY <1>1, <2>1, <2>2
<1> QED
  BY <1>2, <1>3, <1>4 DEF b

(* The pages of a chunk's transcript.                                        *)
LEMMA TranscriptIs ==
  ASSUME NEW ms \in Seq(Messages), NEW a \in 1 .. Len(ms), NEW e \in a .. Len(ms), NEW mk
  PROVE  LET pages == TranscriptBlocks(ms, a .. e, mk)
         IN /\ pages \in Seq(BlockSet)
            /\ \A n \in 1 .. Len(pages) : pages[n].kind = "page" /\ pages[n].turns = a .. e
<1> DEFINE total == Pages(TextTotal(ms, a - 1, e))
           page(n) == Page(a .. e, n, n = total /\ e \in mk)
           pages == [n \in 1 .. total |-> page(n)]
<1>0. Len(ms) \in Nat /\ a \in Nat /\ e \in Nat /\ a <= e
  OBVIOUS
<1>1. Min(a .. e) = a /\ Max(a .. e) = e
  BY <1>0, IntervalEnds
<1>2. TranscriptBlocks(ms, a .. e, mk) = pages
  BY <1>1 DEF TranscriptBlocks
<1>3. total \in Nat
  BY RangeCosts, PagesCounted
<1>4. \A n \in 1 .. total : /\ page(n) \in BlockSet
                            /\ page(n).kind = "page" /\ page(n).turns = a .. e
  <2> SUFFICES ASSUME NEW n \in 1 .. total
               PROVE  page(n) \in BlockSet /\ page(n).kind = "page" /\ page(n).turns = a .. e
    OBVIOUS
  <2>1. n \in Nat /\ a .. e \in SUBSET Nat /\ (n = total /\ e \in mk) \in BOOLEAN
    BY <1>0, <1>3
  <2> HIDE DEF total
  <2> QED
    BY <2>1 DEF Page, BlockSet, Kinds
<1> HIDE DEF total, page
<1>5. pages \in [1 .. total -> BlockSet]
  BY <1>4
<1>6. pages \in Seq(BlockSet) /\ Len(pages) = total
  BY <1>3, <1>5, IsSequence
<1>7. \A n \in 1 .. total : pages[n] = page(n)
  OBVIOUS
<1> HIDE DEF pages
<1> QED
  BY <1>2, <1>4, <1>6, <1>7

(* The short turns of a chunk are in one block of text, and each long one is *)
(* in images that are numbered: a turn with something typed begins once.     *)
LEMMA UserTurnsCarried ==
  ASSUME NEW ms \in Seq(Messages), TypedByUsers(ms),
         NEW a \in 1 .. Len(ms), NEW e \in a .. Len(ms)
  PROVE  LET own == UserTurnBlocks(ms, a .. e)
         IN /\ own \in Seq(BlockSet)
            /\ \A n \in 1 .. Len(own) : own[n].kind \in {"words", "long"}
                                        /\ own[n].turns \subseteq a .. e
            /\ \A i \in a .. e : ms[i].typed > 0 => OneCarries(own, i)
<1> DEFINE typed == {i \in a .. e : ms[i].role = "user" /\ ms[i].typed > 0}
           long  == {i \in typed : IsLong(ms[i])}
           short == typed \ long
           total == Pages(ImageTotal(ms, a - 1, e))
           said  == IF short = {} THEN <<>> ELSE <<Words(short)>>
           drawn == [n \in 1 .. total |-> LongTurns(long, n)]
<1>0. Len(ms) \in Nat /\ a \in Nat /\ e \in Nat /\ a <= e
  OBVIOUS
<1>1. Min(a .. e) = a /\ Max(a .. e) = e
  BY <1>0, IntervalEnds
<1>2. UserTurnBlocks(ms, a .. e) = said \o drawn
  BY <1>1 DEF UserTurnBlocks
<1>3. /\ ImageTotal(ms, a - 1, e) \in Nat
      /\ \A i \in a .. e : ImageCost(ms[i]) <= ImageTotal(ms, a - 1, e)
  BY RangeCosts
<1>4. total \in Nat /\ (ImageTotal(ms, a - 1, e) > 0 => total >= 1)
  BY <1>3, PagesCounted
<1>5. long \subseteq a .. e /\ short \subseteq a .. e /\ a .. e \subseteq Nat
  BY <1>0
<1>6. ASSUME NEW i \in a .. e, ms[i].typed > 0
      PROVE  \/ i \in short /\ i \notin long
             \/ i \in long /\ i \notin short /\ total >= 1
  <2>1. i \in 1 .. Len(ms) /\ ms[i] \in Messages
    BY <1>0
  <2>2. i \in typed
    BY <1>6, <2>1 DEF TypedByUsers
  <2>3. ASSUME IsLong(ms[i]) PROVE total >= 1
    <3>1. ImageCost(ms[i]) = ms[i].typed
      BY <2>3 DEF ImageCost
    <3>2. ms[i].typed \in Nat
      BY <2>1 DEF Messages
    <3>3. ImageTotal(ms, a - 1, e) > 0
      BY <1>3, <1>6, <3>1, <3>2
    <3> HIDE DEF total
    <3> QED
      BY <1>4, <3>3
  <2>4. CASE IsLong(ms[i])
    <3>1. i \in long /\ i \notin short
      BY <2>2, <2>4
    <3> QED
      BY <2>3, <2>4, <3>1
  <2>5. CASE ~IsLong(ms[i])
    <3>1. i \in short /\ i \notin long
      BY <2>2, <2>5
    <3> QED
      BY <3>1
  <2> QED
    BY <2>4, <2>5
<1> HIDE DEF total, typed, long, short
<1>7. /\ said \in Seq(BlockSet)
      /\ \A n \in 1 .. Len(said) : said[n].kind \in {"words", "long"}
                                   /\ said[n].turns \subseteq a .. e
      /\ \A i \in a .. e : IF i \in short THEN OneCarries(said, i) ELSE NoneCarries(said, i)
  <2>1. CASE short = {}
    <3>1. said = <<>>
      BY <2>1
    <3> HIDE DEF said
    <3> QED
      BY <2>1, <3>1 DEF NoneCarries
  <2>2. CASE short # {}
    <3> DEFINE b == Words(short)
    <3>1. said = <<b>>
      BY <2>2
    <3>2. b \in BlockSet /\ b.kind = "words" /\ b.turns = short /\ b.part = 0
      BY <1>5 DEF Words, BlockSet, Kinds
    <3> HIDE DEF b, said
    <3>3. said \in Seq(BlockSet) /\ Len(said) = 1 /\ said[1] = b
      BY <3>1, <3>2
    <3>4. \A i : CarriesTurn(b, i) <=> i \in short
      BY <3>2 DEF CarriesTurn
    <3>5. \A n \in 1 .. Len(said) : said[n] = b /\ n = 1
      BY <3>3
    <3>6. 1 \in 1 .. Len(said)
      BY <3>3
    <3>7. \A i : i \in short => OneCarries(said, i)
      BY <3>4, <3>5, <3>6, Zenon DEF OneCarries
    <3>8. \A i : i \notin short => NoneCarries(said, i)
      BY <3>4, <3>5, Zenon DEF NoneCarries
    <3> QED
      BY <1>5, <3>2, <3>3, <3>5, <3>7, <3>8
  <2> QED
    BY <2>1, <2>2
<1> HIDE DEF said
<1>8. /\ drawn \in Seq(BlockSet) /\ Len(drawn) = total
      /\ \A n \in 1 .. total : /\ drawn[n].kind = "long" /\ drawn[n].turns = long
                               /\ drawn[n].part = n
  <2>1. \A n \in 1 .. total : /\ LongTurns(long, n) \in BlockSet
                              /\ LongTurns(long, n).kind = "long"
                              /\ LongTurns(long, n).turns = long
                              /\ LongTurns(long, n).part = n
    <3> SUFFICES ASSUME NEW n \in 1 .. total
                 PROVE  /\ LongTurns(long, n) \in BlockSet
                        /\ LongTurns(long, n).kind = "long"
                        /\ LongTurns(long, n).turns = long
                        /\ LongTurns(long, n).part = n
      OBVIOUS
    <3>1. n \in Nat /\ long \in SUBSET Nat
      BY <1>4, <1>5
    <3> QED
      BY <3>1 DEF LongTurns, BlockSet, Kinds
  <2>2. drawn \in [1 .. total -> BlockSet]
    BY <2>1
  <2>3. drawn \in Seq(BlockSet) /\ Len(drawn) = total
    BY <1>4, <2>2, IsSequence
  <2>4. \A n \in 1 .. total : drawn[n] = LongTurns(long, n)
    OBVIOUS
  <2> QED
    BY <2>1, <2>3, <2>4
<1> HIDE DEF drawn
<1>9. ASSUME NEW i \in a .. e, ms[i].typed > 0
      PROVE  IF i \in long THEN OneCarries(drawn, i) ELSE NoneCarries(drawn, i)
  <2>1. CASE i \notin long
    BY <1>8, <2>1 DEF NoneCarries, CarriesTurn
  <2>2. CASE i \in long
    <3>1. total >= 1
      BY <1>6, <1>9, <2>2
    <3>2. 1 \in 1 .. Len(drawn) /\ CarriesTurn(drawn[1], i)
      BY <1>4, <1>8, <2>2, <3>1 DEF CarriesTurn
    <3>3. \A m \in 1 .. Len(drawn) : CarriesTurn(drawn[m], i) => m = 1
      BY <1>4, <1>8 DEF CarriesTurn
    <3> QED
      BY <2>2, <3>2, <3>3 DEF OneCarries
  <2> QED
    BY <2>1, <2>2
<1>10. ASSUME NEW i \in a .. e, ms[i].typed > 0 PROVE OneCarries(said \o drawn, i)
  <2>1. CASE i \in short /\ i \notin long
    BY <1>7, <1>8, <1>9, <1>10, <2>1, CarriedOnce
  <2>2. CASE i \in long /\ i \notin short
    BY <1>7, <1>8, <1>9, <1>10, <2>2, CarriedOnce
  <2> QED
    BY <1>6, <1>10, <2>1, <2>2
<1>11. /\ said \o drawn \in Seq(BlockSet)
       /\ \A n \in 1 .. Len(said \o drawn) : (said \o drawn)[n].kind \in {"words", "long"}
                                             /\ (said \o drawn)[n].turns \subseteq a .. e
  <2> DEFINE b == said \o drawn
  <2>1. /\ b \in Seq(BlockSet) /\ Len(b) = Len(said) + Len(drawn)
        /\ Len(said) \in Nat /\ Len(drawn) \in Nat
        /\ \A n \in 1 .. Len(said) : b[n] = said[n]
        /\ \A n \in 1 .. Len(said) + Len(drawn) : n > Len(said) =>
             b[n] = drawn[n - Len(said)] /\ n - Len(said) \in 1 .. Len(drawn)
    <3>1. said \in Seq(BlockSet) /\ drawn \in Seq(BlockSet)
      BY <1>7, <1>8
    <3> QED
      BY <3>1, Joined
  <2> HIDE DEF b
  <2>2. ASSUME NEW n \in 1 .. Len(b)
        PROVE  b[n].kind \in {"words", "long"} /\ b[n].turns \subseteq a .. e
    <3>1. CASE n \in 1 .. Len(said)
      BY <1>7, <2>1, <3>1
    <3>2. CASE n > Len(said)
      <4>1. b[n] = drawn[n - Len(said)] /\ n - Len(said) \in 1 .. total
        BY <1>8, <2>1, <3>2
      <4>2. b[n].kind = "long" /\ b[n].turns = long
        BY <1>8, <4>1
      <4> QED
        BY <1>5, <4>2
    <3> QED
      BY <2>1, <3>1, <3>2
  <2> QED
    BY <2>1, <2>2 DEF b
<1> QED
  BY <1>2, <1>10, <1>11

(* A chunk carries what was typed in it once, and its pages show all of it.  *)
LEMMA ChunkIs ==
  ASSUME NEW ms \in Seq(Messages), TypedByUsers(ms),
         NEW a \in 1 .. Len(ms), NEW e \in a .. Len(ms), NEW mk
  PROVE  LET blocks == ChunkBlocks(ms, a .. e, mk)
         IN /\ blocks \in Seq(BlockSet)
            /\ \A n \in 1 .. Len(blocks) :
                 /\ blocks[n].turns \subseteq a .. e
                 /\ blocks[n].kind = "page" => blocks[n].turns = a .. e
            /\ \A i \in a .. e : ms[i].typed > 0 => OneCarries(blocks, i)
<1> DEFINE pages == TranscriptBlocks(ms, a .. e, mk)
           own == UserTurnBlocks(ms, a .. e)
           blocks == pages \o own
<1>1. /\ pages \in Seq(BlockSet)
      /\ \A n \in 1 .. Len(pages) : pages[n].kind = "page" /\ pages[n].turns = a .. e
  BY TranscriptIs
<1>2. /\ own \in Seq(BlockSet)
      /\ \A n \in 1 .. Len(own) : own[n].kind \in {"words", "long"}
                                  /\ own[n].turns \subseteq a .. e
      /\ \A i \in a .. e : ms[i].typed > 0 => OneCarries(own, i)
  BY UserTurnsCarried
<1>3. ChunkBlocks(ms, a .. e, mk) = blocks
  BY DEF ChunkBlocks
<1> HIDE DEF pages, own
<1>4. \A i : NoneCarries(pages, i)
  BY <1>1 DEF NoneCarries, CarriesTurn
<1>5. \A i \in a .. e : ms[i].typed > 0 => OneCarries(blocks, i)
  BY <1>1, <1>2, <1>4, CarriedOnce
<1>6. /\ blocks \in Seq(BlockSet) /\ Len(blocks) = Len(pages) + Len(own)
      /\ Len(pages) \in Nat /\ Len(own) \in Nat
      /\ \A n \in 1 .. Len(pages) : blocks[n] = pages[n]
      /\ \A n \in 1 .. Len(pages) + Len(own) : n > Len(pages) =>
           blocks[n] = own[n - Len(pages)] /\ n - Len(pages) \in 1 .. Len(own)
  BY <1>1, <1>2, Joined
<1> HIDE DEF blocks
<1>7. ASSUME NEW n \in 1 .. Len(blocks)
      PROVE  /\ blocks[n].turns \subseteq a .. e
             /\ blocks[n].kind = "page" => blocks[n].turns = a .. e
  <2>1. CASE n \in 1 .. Len(pages)
    BY <1>1, <1>6, <2>1
  <2>2. CASE n > Len(pages)
    BY <1>2, <1>6, <2>2
  <2> QED
    BY <1>6, <2>1, <2>2
<1> QED
  BY <1>3, <1>5, <1>6, <1>7

-----------------------------------------------------------------------------
(* The loop over the chunks.                                                 *)

EndBefore(from, ends, e) == Max({from} \cup {a \in ends : a < e})

(* The chunk before a chunk ends after the protected messages.               *)
LEMMA EndBeforeIs ==
  ASSUME NEW from \in Nat, NEW to \in Nat, NEW ends, ends \subseteq from + 1 .. to,
         NEW e \in ends
  PROVE  LET s == EndBefore(from, ends, e)
         IN /\ s \in Nat /\ s >= from /\ s < e /\ (s = from \/ s \in ends)
            /\ \A a \in ends : a < e => a <= s
            /\ ChunkEndingAt(from, ends, e) = s + 1 .. e
<1> DEFINE T == {from} \cup {a \in ends : a < e}
<1>0. e \in Nat /\ from < e /\ \A a \in ends : a \in Nat /\ a > from /\ a <= to
  OBVIOUS
<1>1. T \subseteq 0 .. e /\ T # {} /\ from \in T
  <2>1. from \in 0 .. e /\ \A a \in ends : a < e => a \in 0 .. e
    BY <1>0
  <2>2. \A x \in T : x = from \/ (x \in ends /\ x < e)
    OBVIOUS
  <2>3. T \subseteq 0 .. e
    BY <2>1, <2>2
  <2> QED
    BY <2>3
<1>2. \A x \in T : x < e /\ x \in Nat /\ (x = from \/ x \in ends)
  BY <1>0
<1>3. \A a \in ends : a < e => a \in T
  OBVIOUS
<1>4. EndBefore(from, ends, e) = Max(T) /\ ChunkEndingAt(from, ends, e) = Max(T) + 1 .. e
  BY DEF EndBefore, ChunkEndingAt
<1> HIDE DEF T
<1>5. Max(T) \in T /\ \A x \in T : x <= Max(T)
  BY <1>0, <1>1, MaxIsGreatest
<1>6. Max(T) \in Nat /\ Max(T) < e /\ (Max(T) = from \/ Max(T) \in ends)
  BY <1>2, <1>5
<1>7. from <= Max(T) /\ \A a \in ends : a < e => a <= Max(T)
  BY <1>1, <1>3, <1>5
<1> QED
  BY <1>4, <1>6, <1>7

(* f has the blocks of the chunks that end by each message. *)
LoopOf(f, ms, from, to, ends, mk) ==
  /\ f \in [0 .. to -> Seq(BlockSet)]
  /\ f[0] = <<>>
  /\ \A e \in 1 .. to :
       f[e] = IF e \in ends THEN f[e - 1] \o ChunkBlocks(ms, ChunkEndingAt(from, ends, e), mk)
              ELSE f[e - 1]

(* The chunk of an end is one of the messages.                               *)
LEMMA ChunkOfEnd ==
  ASSUME NEW ms \in Seq(Messages), TypedByUsers(ms), NEW from \in Nat,
         NEW to \in 0 .. Len(ms), NEW ends, ends \subseteq from + 1 .. to, NEW e \in ends,
         NEW mk
  PROVE  LET s == EndBefore(from, ends, e)
             blocks == ChunkBlocks(ms, ChunkEndingAt(from, ends, e), mk)
         IN /\ blocks \in Seq(BlockSet)
            /\ \A n \in 1 .. Len(blocks) :
                 /\ blocks[n].turns \subseteq s + 1 .. e
                 /\ blocks[n].kind = "page" => blocks[n].turns = s + 1 .. e
            /\ \A i \in s + 1 .. e : ms[i].typed > 0 => OneCarries(blocks, i)
<1> DEFINE s == EndBefore(from, ends, e)
<1>1. to \in Nat /\ Len(ms) \in Nat /\ e \in Nat /\ e <= Len(ms)
  OBVIOUS
<1>2. s \in Nat /\ s < e /\ ChunkEndingAt(from, ends, e) = s + 1 .. e
  BY <1>1, EndBeforeIs
<1> HIDE DEF s
<1>3. s + 1 \in 1 .. Len(ms) /\ e \in s + 1 .. Len(ms)
  BY <1>1, <1>2
<1>4. LET blocks == ChunkBlocks(ms, s + 1 .. e, mk)
      IN /\ blocks \in Seq(BlockSet)
         /\ \A n \in 1 .. Len(blocks) :
              /\ blocks[n].turns \subseteq s + 1 .. e
              /\ blocks[n].kind = "page" => blocks[n].turns = s + 1 .. e
         /\ \A i \in s + 1 .. e : ms[i].typed > 0 => OneCarries(blocks, i)
  BY <1>3, ChunkIs
<1> QED
  BY <1>2, <1>4 DEF s

(* The loop computes such a function.                                        *)
LEMMA LoopIs ==
  ASSUME NEW ms \in Seq(Messages), TypedByUsers(ms), NEW from \in Nat,
         NEW to \in 0 .. Len(ms), NEW ends, ends \subseteq from + 1 .. to, NEW mk
  PROVE  LoopOf(BlocksUpTo(ms, from, to, ends, mk), ms, from, to, ends, mk)
<1> DEFINE S == Seq(BlockSet)
           chunk(e) == ChunkBlocks(ms, ChunkEndingAt(from, ends, e), mk)
           step == [e \in 1 .. to |-> [s \in S |-> IF e \in ends THEN s \o chunk(e) ELSE s]]
           Rec(f) == f = [e \in 0 .. to |-> IF e = 0 THEN <<>>
                                            ELSE IF e \in ends
                                                 THEN f[e - 1] \o chunk(e)
                                                 ELSE f[e - 1]]
<1>0. to \in Nat /\ <<>> \in S
  OBVIOUS
<1>1. \A e \in ends : chunk(e) \in S
  BY ChunkOfEnd
<1> HIDE DEF chunk
<1>2. StepsIn(step, to, S)
  <2>1. \A s \in S : \A e \in ends : s \o chunk(e) \in S
    BY <1>1
  <2> HIDE DEF S
  <2>2. \A e \in 1 .. to : \A s \in S : step[e][s] = IF e \in ends THEN s \o chunk(e) ELSE s
    OBVIOUS
  <2> HIDE DEF step
  <2> QED
    BY <2>1, <2>2 DEF StepsIn
<1>3. PICK f \in [0 .. to -> S] : Iterates(f, to, <<>>, step)
  <2> HIDE DEF step, S
  <2> QED
    BY <1>0, <1>2, IterateExists
<1>4. \A e \in 1 .. to : e - 1 \in 0 .. to /\ e \in 0 .. to /\ e # 0
  BY <1>0
<1> HIDE DEF S
<1>5. f[0] = <<>> /\ \A e \in 1 .. to : f[e] = IF e \in ends THEN f[e - 1] \o chunk(e)
                                               ELSE f[e - 1]
  <2>1. \A e \in 1 .. to : f[e - 1] \in S
    BY <1>4
  <2>2. \A e \in 1 .. to : \A s \in S : step[e][s] = IF e \in ends THEN s \o chunk(e) ELSE s
    OBVIOUS
  <2> HIDE DEF step
  <2> QED
    BY <1>3, <2>1, <2>2 DEF Iterates
<1>6. Rec(f)
  <2>1. \A e \in 0 .. to : f[e] = IF e = 0 THEN <<>>
                                  ELSE IF e \in ends THEN f[e - 1] \o chunk(e) ELSE f[e - 1]
    <3>1. \A e \in 0 .. to : e = 0 \/ e \in 1 .. to
      BY <1>0
    <3> QED
      BY <1>5, <3>1
  <2>2. f = [e \in 0 .. to |-> f[e]]
    OBVIOUS
  <2> QED
    BY <2>1, <2>2, Zenon
<1> DEFINE h == CHOOSE g : Rec(g)
<1>7. Rec(h)
  <2> HIDE DEF Rec
  <2> QED
    BY <1>6
<1>8. BlocksUpTo(ms, from, to, ends, mk) = h
  BY Zenon DEF BlocksUpTo, chunk
<1>9. h = [e \in 0 .. to |-> IF e = 0 THEN <<>>
                             ELSE IF e \in ends THEN h[e - 1] \o chunk(e) ELSE h[e - 1]]
  BY <1>7, Zenon
<1> HIDE DEF h, Rec, step
<1>10. \A e \in 0 .. to : h[e] = IF e = 0 THEN <<>>
                                 ELSE IF e \in ends THEN h[e - 1] \o chunk(e) ELSE h[e - 1]
  BY <1>9, Zenon
<1> DEFINE T == {e \in 0 .. to : h[e] \in S}
<1>11. \A e \in 0 .. to : e \in T
  <2>1. 0 \in T
    BY <1>0, <1>10
  <2>2. ASSUME NEW e \in 1 .. to, e - 1 \in T PROVE e \in T
    <3>1. h[e] = IF e \in ends THEN h[e - 1] \o chunk(e) ELSE h[e - 1]
      BY <1>4, <1>10
    <3>2. h[e - 1] \in S
      BY <2>2
    <3>3. \A s \in S : e \in ends => s \o chunk(e) \in S
      BY <1>1 DEF S
    <3>4. h[e] \in S
      BY <3>1, <3>2, <3>3
    <3> QED
      BY <1>4, <3>4
  <2> HIDE DEF T
  <2> QED
    BY <1>0, <2>1, <2>2, UpTo
<1>12. h \in [0 .. to -> S]
  <2>1. h = [e \in 0 .. to |-> h[e]]
    BY <1>9, <1>10, Zenon
  <2>2. \A e \in 0 .. to : h[e] \in S
    BY <1>11
  <2> QED
    BY <2>1, <2>2
<1>13. h[0] = <<>> /\ \A e \in 1 .. to : h[e] = IF e \in ends THEN h[e - 1] \o chunk(e)
                                                ELSE h[e - 1]
  <2>1. 0 \in 0 .. to
    BY <1>0
  <2> QED
    BY <1>4, <1>10, <2>1
<1> QED
  BY <1>8, <1>12, <1>13 DEF LoopOf, S, chunk

(* Every block so far is of a chunk that ended, and what was typed in the    *)
(* chunks that ended is carried once.                                        *)
Accounted(blocks, ms, from, ends, e) ==
  /\ \A n \in 1 .. Len(blocks) :
       \E a \in ends : /\ a <= e /\ blocks[n].turns \subseteq from + 1 .. a
                       /\ blocks[n].kind = "page" => Max(blocks[n].turns) = a
  /\ \A i \in from + 1 .. e :
       ms[i].typed > 0 /\ (\E a \in ends : i <= a /\ a <= e) => OneCarries(blocks, i)

(* A chunk more accounts for its turns.                                      *)
LEMMA ChunkAccounted ==
  ASSUME NEW ms \in Seq(Messages), TypedByUsers(ms), NEW from \in Nat,
         NEW to \in 0 .. Len(ms), NEW ends, ends \subseteq from + 1 .. to, NEW mk,
         NEW e \in ends, NEW done \in Seq(BlockSet), Accounted(done, ms, from, ends, e - 1)
  PROVE  Accounted(done \o ChunkBlocks(ms, ChunkEndingAt(from, ends, e), mk),
                   ms, from, ends, e)
<1> DEFINE s == EndBefore(from, ends, e)
           chunk == ChunkBlocks(ms, ChunkEndingAt(from, ends, e), mk)
           blocks == done \o chunk
<1>0. to \in Nat /\ e \in Nat /\ from < e /\ \A a \in ends : a \in Nat /\ from < a
  OBVIOUS
<1>1. /\ s \in Nat /\ s >= from /\ s < e /\ (s = from \/ s \in ends)
      /\ \A a \in ends : a < e => a <= s
  BY <1>0, EndBeforeIs
<1>2. /\ chunk \in Seq(BlockSet)
      /\ \A n \in 1 .. Len(chunk) :
           /\ chunk[n].turns \subseteq s + 1 .. e
           /\ chunk[n].kind = "page" => chunk[n].turns = s + 1 .. e
      /\ \A i \in s + 1 .. e : ms[i].typed > 0 => OneCarries(chunk, i)
  BY ChunkOfEnd
<1> HIDE DEF s, chunk
<1>3. /\ Len(blocks) = Len(done) + Len(chunk) /\ Len(done) \in Nat /\ Len(chunk) \in Nat
      /\ \A n \in 1 .. Len(done) : blocks[n] = done[n]
      /\ \A n \in 1 .. Len(done) + Len(chunk) : n > Len(done) =>
           blocks[n] = chunk[n - Len(done)] /\ n - Len(done) \in 1 .. Len(chunk)
  BY <1>2, Joined
<1>4. ASSUME NEW n \in 1 .. Len(done)
      PROVE  \E a \in ends : /\ a <= s /\ done[n].turns \subseteq from + 1 .. a
                             /\ done[n].kind = "page" => Max(done[n].turns) = a
  <2>1. PICK a \in ends : /\ a <= e - 1 /\ done[n].turns \subseteq from + 1 .. a
                          /\ done[n].kind = "page" => Max(done[n].turns) = a
    BY DEF Accounted
  <2>2. a < e
    BY <1>0, <2>1
  <2> QED
    BY <1>1, <2>1, <2>2
<1>5. Max(s + 1 .. e) = e
  BY <1>0, <1>1, IntervalEnds
<1>6. s + 1 .. e \subseteq from + 1 .. e
  BY <1>0, <1>1
<1>7. ASSUME NEW n \in 1 .. Len(blocks)
      PROVE  \E a \in ends : /\ a <= e /\ blocks[n].turns \subseteq from + 1 .. a
                             /\ blocks[n].kind = "page" => Max(blocks[n].turns) = a
  <2>1. CASE n \in 1 .. Len(done)
    <3>1. PICK a \in ends : /\ a <= s /\ done[n].turns \subseteq from + 1 .. a
                            /\ done[n].kind = "page" => Max(done[n].turns) = a
      BY <1>4, <2>1
    <3>2. a <= e
      BY <1>0, <1>1, <3>1
    <3>3. blocks[n] = done[n]
      BY <1>3, <2>1
    <3> HIDE DEF blocks
    <3> QED
      BY <3>1, <3>2, <3>3
  <2>2. CASE n > Len(done)
    <3>1. blocks[n] = chunk[n - Len(done)] /\ n - Len(done) \in 1 .. Len(chunk)
      BY <1>3, <2>2
    <3> HIDE DEF blocks
    <3>2. blocks[n].turns \subseteq from + 1 .. e
      BY <1>2, <1>6, <3>1
    <3>3. blocks[n].kind = "page" => Max(blocks[n].turns) = e
      BY <1>2, <1>5, <3>1
    <3>4. e <= e
      BY <1>0
    <3> QED
      BY <3>2, <3>3, <3>4
  <2> QED
    BY <1>3, <2>1, <2>2
<1>8. ASSUME NEW i \in from + 1 .. e, ms[i].typed > 0 PROVE OneCarries(blocks, i)
  <2>1. CASE i <= s
    <3>1. s \in ends
      BY <1>0, <1>1, <2>1
    <3>2. i \in from + 1 .. e - 1 /\ s <= e - 1
      BY <1>0, <1>1, <2>1
    <3>3. OneCarries(done, i)
      BY <1>8, <2>1, <3>1, <3>2 DEF Accounted
    <3>4. NoneCarries(chunk, i)
      <4>1. i \notin s + 1 .. e
        BY <1>1, <2>1
      <4> QED
        BY <1>2, <4>1 DEF NoneCarries, CarriesTurn
    <3> QED
      BY <1>2, <3>3, <3>4, CarriedOnce
  <2>2. CASE i > s
    <3>1. i \in s + 1 .. e
      BY <1>0, <1>1, <2>2
    <3>2. OneCarries(chunk, i)
      BY <1>2, <1>8, <3>1
    <3>3. NoneCarries(done, i)
      <4> SUFFICES ASSUME NEW n \in 1 .. Len(done) PROVE i \notin done[n].turns
        BY DEF NoneCarries, CarriesTurn
      <4>1. PICK a \in ends : a <= s /\ done[n].turns \subseteq from + 1 .. a
        BY <1>4
      <4>2. i \notin from + 1 .. a
        BY <1>0, <1>1, <2>2, <4>1
      <4> QED
        BY <4>1, <4>2
    <3> QED
      BY <1>2, <3>2, <3>3, CarriedOnce
  <2> QED
    BY <1>0, <1>1, <2>1, <2>2
<1> QED
  BY <1>7, <1>8 DEF Accounted, chunk

(* The loop accounts for every chunk that ended.                             *)
LEMMA LoopAccounted ==
  ASSUME NEW ms \in Seq(Messages), TypedByUsers(ms), NEW from \in Nat,
         NEW to \in 0 .. Len(ms), NEW ends, ends \subseteq from + 1 .. to, NEW mk,
         NEW f, LoopOf(f, ms, from, to, ends, mk)
  PROVE  \A e \in 0 .. to : Accounted(f[e], ms, from, ends, e)
<1> DEFINE T == {e \in 0 .. to : Accounted(f[e], ms, from, ends, e)}
<1>0. to \in Nat /\ \A a \in ends : a \in Nat /\ a > from /\ a <= to
  OBVIOUS
<1>1. 0 \in T
  <2>1. f[0] = <<>>
    BY DEF LoopOf
  <2>2. 1 .. Len(<<>>) = {} /\ from + 1 .. 0 = {}
    OBVIOUS
  <2>3. Accounted(f[0], ms, from, ends, 0)
    BY <2>1, <2>2 DEF Accounted
  <2> QED
    BY <1>0, <2>3
<1>2. ASSUME NEW e \in 1 .. to, e - 1 \in T PROVE e \in T
  <2>0. e \in 0 .. to /\ e - 1 \in 0 .. to /\ e \in Nat /\ e # 0
    BY <1>0
  <2>1. f[e - 1] \in Seq(BlockSet) /\ Accounted(f[e - 1], ms, from, ends, e - 1)
    BY <1>2, <2>0 DEF LoopOf
  <2>2. CASE e \in ends
    <3>1. f[e] = f[e - 1] \o ChunkBlocks(ms, ChunkEndingAt(from, ends, e), mk)
      BY <2>2 DEF LoopOf
    <3>2. Accounted(f[e], ms, from, ends, e)
      BY <2>1, <2>2, <3>1, ChunkAccounted
    <3> QED
      BY <2>0, <3>2
  <2>3. CASE e \notin ends
    <3>1. f[e] = f[e - 1]
      BY <2>3 DEF LoopOf
    <3>2. \A a \in ends : a <= e <=> a <= e - 1
      BY <1>0, <2>0, <2>3
    <3>3. ASSUME NEW i \in from + 1 .. e, \E a \in ends : i <= a /\ a <= e
          PROVE  i \in from + 1 .. e - 1 /\ \E a \in ends : i <= a /\ a <= e - 1
      <4>1. PICK a \in ends : i <= a /\ a <= e
        BY <3>3
      <4>2. a <= e - 1
        BY <3>2, <4>1
      <4> QED
        BY <1>0, <2>0, <4>1, <4>2
    <3>4. Accounted(f[e], ms, from, ends, e)
      <4> DEFINE b == f[e - 1]
      <4>1. Accounted(b, ms, from, ends, e - 1)
        BY <2>1
      <4> HIDE DEF b
      <4>2. Accounted(b, ms, from, ends, e)
        BY <3>2, <3>3, <4>1, Zenon DEF Accounted
      <4> QED
        BY <3>1, <4>2 DEF b
    <3> QED
      BY <2>0, <3>4
  <2> QED
    BY <2>2, <2>3
<1> HIDE DEF T
<1>3. \A e \in 0 .. to : e \in T
  BY <1>0, <1>1, <1>2, UpTo
<1> QED
  BY <1>3 DEF T

(* The ends of the chunks are in the range that is collapsed.                *)
LEMMA EndsInside ==
  ASSUME NEW from \in Nat, NEW to \in Nat, from < to, NEW step, NEW mk,
         mk \subseteq from + 1 .. to
  PROVE  ChunkEnds(from, to, step, mk) \subseteq from + 1 .. to
         /\ to \in ChunkEnds(from, to, step, mk)
<1>1. GridEnds(from, to, step) \subseteq from + 1 .. to
  BY DEF GridEnds
<1>2. to \in from + 1 .. to
  OBVIOUS
<1> QED
  BY <1>1, <1>2 DEF ChunkEnds

(* The pointer to the latest typed turn is the last block, if there is one.  *)
LEMMA PointerIs ==
  ASSUME NEW ms \in Seq(Messages), TypedByUsers(ms), NEW from \in Nat, NEW to \in 0 .. Len(ms)
  PROVE  LET pointer == LatestUserPointer(ms, from, to)
         IN /\ pointer \in Seq(BlockSet)
            /\ \A n \in 1 .. Len(pointer) : pointer[n].kind \in {"preview", "verbatim"}
            /\ \A i \in 1 .. to :
                 (ms[i].typed > 0 /\ i <= from /\ \A j \in i + 1 .. to : ms[j].typed = 0)
                   => Len(pointer) = 1 /\ pointer[1] = Pointer(i, "verbatim")
<1> DEFINE typed == {i \in 1 .. to : ms[i].role = "user" /\ ms[i].typed > 0}
           latest == Max(typed)
           kind == IF latest > from THEN "preview" ELSE "verbatim"
           pointer == LatestUserPointer(ms, from, to)
<1>0. to \in Nat /\ Len(ms) \in Nat
  OBVIOUS
<1>1. pointer = IF typed = {} THEN <<>> ELSE <<Pointer(latest, kind)>>
  BY DEF LatestUserPointer
<1>2. \A i \in 1 .. to : ms[i].typed > 0 => i \in typed
  BY <1>0 DEF TypedByUsers
<1>3. typed \subseteq 0 .. to /\ typed \subseteq 1 .. to
      /\ \A i \in typed : ms[i].typed > 0
  OBVIOUS
<1> HIDE DEF pointer, typed
<1>4. CASE typed = {}
  <2>1. pointer = <<>>
    BY <1>1, <1>4
  <2>2. pointer \in Seq(BlockSet) /\ Len(pointer) = 0 /\ 1 .. Len(pointer) = {}
    BY <2>1
  <2> QED
    BY <1>2, <1>4, <2>2 DEF pointer
<1>5. CASE typed # {}
  <2>1. latest \in typed /\ \A x \in typed : x <= latest
    BY <1>0, <1>3, <1>5, MaxIsGreatest
  <2>2. latest \in Nat /\ latest \in 1 .. to
    BY <1>0, <1>3, <2>1
  <2> HIDE DEF latest
  <2> DEFINE b == Pointer(latest, kind)
  <2>3. b \in BlockSet /\ b.kind \in {"preview", "verbatim"}
    BY <2>2 DEF Pointer, BlockSet, Kinds
  <2>4. pointer = <<b>>
    BY <1>1, <1>5
  <2> HIDE DEF b
  <2>5. pointer \in Seq(BlockSet) /\ Len(pointer) = 1 /\ pointer[1] = b
    BY <2>3, <2>4
  <2>6. \A n \in 1 .. Len(pointer) : pointer[n] = b
    BY <2>5
  <2>7. ASSUME NEW i \in 1 .. to, ms[i].typed > 0, i <= from,
               \A j \in i + 1 .. to : ms[j].typed = 0
        PROVE  b = Pointer(i, "verbatim")
    <3>1. i \in typed /\ i <= latest
      BY <1>2, <2>1, <2>7
    <3>2. latest \notin i + 1 .. to
      <4>1. ms[latest].typed > 0
        BY <1>3, <2>1
      <4> QED
        BY <2>7, <4>1
    <3>3. latest = i
      BY <1>0, <2>2, <3>1, <3>2
    <3>4. ~(latest > from)
      BY <1>0, <2>2, <2>7, <3>3
    <3> QED
      BY <3>3, <3>4 DEF b
  <2> QED
    BY <2>3, <2>5, <2>6, <2>7 DEF pointer
<1> QED
  BY <1>4, <1>5

(* A range of a conversation, with marks in it. *)
RangeOf(ms, from, to, mk) ==
  /\ ms \in Seq(Messages) /\ TypedByUsers(ms)
  /\ from \in Nat /\ to \in 0 .. Len(ms) /\ from < to /\ mk \subseteq from + 1 .. to

(* What the user typed in the range is there once, and the latest turn also  *)
(* if it is before the range.                                                *)
CarriesAll(blocks, ms, from, to) ==
  /\ blocks \in Seq(BlockSet)
  /\ \A i \in from + 1 .. to : ms[i].typed > 0 => OneCarries(blocks, i)
  /\ \A i \in 1 .. to :
       (ms[i].typed > 0 /\ i <= from /\ \A j \in i + 1 .. to : ms[j].typed = 0)
         => \E n \in 1 .. Len(blocks) : blocks[n] = Pointer(i, "verbatim")

(* The blocks of a collapsed range: every turn the user typed in it is       *)
(* carried once, and the latest one at all.                                  *)
LEMMA BlocksComplete ==
  ASSUME NEW ms, NEW from, NEW to, NEW step, NEW mk, RangeOf(ms, from, to, mk)
  PROVE  CarriesAll(Blocks(ms, from, to, step, mk), ms, from, to)
<1> USE DEF RangeOf
<1> DEFINE ends == ChunkEnds(from, to, step, mk)
           f == BlocksUpTo(ms, from, to, ends, mk)
           pointer == LatestUserPointer(ms, from, to)
           blocks == f[to] \o pointer
<1>0. to \in Nat /\ Len(ms) \in Nat
  OBVIOUS
<1>1. ends \subseteq from + 1 .. to /\ to \in ends
  BY <1>0, EndsInside
<1>2. Blocks(ms, from, to, step, mk) = blocks
  BY DEF Blocks
<1> HIDE DEF ends
<1>3. LoopOf(f, ms, from, to, ends, mk)
  BY <1>1, LoopIs
<1> HIDE DEF f
<1>4. f[to] \in Seq(BlockSet)
  BY <1>0, <1>3 DEF LoopOf
<1>5. Accounted(f[to], ms, from, ends, to)
  <2>1. \A e \in 0 .. to : Accounted(f[e], ms, from, ends, e)
    BY <1>1, <1>3, LoopAccounted
  <2> QED
    BY <1>0, <2>1
<1>6. /\ pointer \in Seq(BlockSet)
      /\ \A n \in 1 .. Len(pointer) : pointer[n].kind \in {"preview", "verbatim"}
      /\ \A i \in 1 .. to :
           (ms[i].typed > 0 /\ i <= from /\ \A j \in i + 1 .. to : ms[j].typed = 0)
             => Len(pointer) = 1 /\ pointer[1] = Pointer(i, "verbatim")
  BY PointerIs
<1> HIDE DEF pointer
<1>7. \A i : NoneCarries(pointer, i)
  BY <1>6 DEF NoneCarries, CarriesTurn
<1>8. ASSUME NEW i \in from + 1 .. to, ms[i].typed > 0 PROVE OneCarries(blocks, i)
  <2>1. i <= to /\ to <= to
    BY <1>0
  <2>2. OneCarries(f[to], i)
    BY <1>1, <1>5, <1>8, <2>1 DEF Accounted
  <2> QED
    BY <1>4, <1>6, <1>7, <2>2, CarriedOnce
<1>9. /\ blocks \in Seq(BlockSet) /\ Len(blocks) = Len(f[to]) + Len(pointer)
      /\ Len(f[to]) \in Nat /\ Len(pointer) \in Nat
      /\ \A n \in 1 .. Len(pointer) : blocks[Len(f[to]) + n] = pointer[n]
  BY <1>4, <1>6, Joined
<1> HIDE DEF blocks
<1>10. ASSUME NEW i \in 1 .. to, ms[i].typed > 0, i <= from,
              \A j \in i + 1 .. to : ms[j].typed = 0
       PROVE  \E n \in 1 .. Len(blocks) : blocks[n] = Pointer(i, "verbatim")
  <2>1. Len(pointer) = 1 /\ pointer[1] = Pointer(i, "verbatim")
    BY <1>6, <1>10
  <2>2. Len(f[to]) + 1 \in 1 .. Len(blocks) /\ blocks[Len(f[to]) + 1] = pointer[1]
    BY <1>9, <2>1
  <2> QED
    BY <2>1, <2>2
<1> QED
  BY <1>2, <1>8, <1>9, <1>10 DEF CarriesAll

-----------------------------------------------------------------------------
(* Two layouts.                                                              *)

(* The blocks of a later end begin with those of an earlier one, and the     *)
(* pages that follow are of later chunks.                                    *)
LEMMA LoopGrows ==
  ASSUME NEW ms \in Seq(Messages), TypedByUsers(ms), NEW from \in Nat,
         NEW to \in 0 .. Len(ms), NEW ends, ends \subseteq from + 1 .. to, NEW mk,
         NEW f, LoopOf(f, ms, from, to, ends, mk), NEW end \in 0 .. to
  PROVE  /\ Len(f[end]) <= Len(f[to])
         /\ \A n \in 1 .. Len(f[end]) : f[to][n] = f[end][n]
         /\ \A n \in 1 .. Len(f[to]) :
              n > Len(f[end]) /\ f[to][n].kind = "page" => Max(f[to][n].turns) > end
<1> DEFINE Later(e) ==
             /\ Len(f[end]) <= Len(f[e])
             /\ \A n \in 1 .. Len(f[end]) : f[e][n] = f[end][n]
             /\ \A n \in 1 .. Len(f[e]) :
                  n > Len(f[end]) /\ f[e][n].kind = "page" => Max(f[e][n].turns) > end
           T == {e \in 0 .. to : end <= e => Later(e)}
<1>0. to \in Nat /\ end \in Nat
  OBVIOUS
<1>1. \A e \in 0 .. to : f[e] \in Seq(BlockSet) /\ Len(f[e]) \in Nat
  <2>1. \A e \in 0 .. to : f[e] \in Seq(BlockSet)
    BY DEF LoopOf
  <2> QED
    BY <2>1
<1>2. Later(end)
  <2>1. Len(f[end]) \in Nat
    BY <1>1
  <2> QED
    BY <2>1
<1>3. 0 \in T
  <2>1. end <= 0 => end = 0
    BY <1>0
  <2> HIDE DEF Later
  <2> QED
    BY <1>0, <1>2, <2>1
<1>4. ASSUME NEW e \in 1 .. to, e - 1 \in T PROVE e \in T
  <2>0. e \in 0 .. to /\ e - 1 \in 0 .. to /\ e \in Nat
    BY <1>0
  <2> SUFFICES ASSUME end <= e PROVE Later(e)
    BY <2>0
  <2>1. CASE end = e
    <3> HIDE DEF Later
    <3> QED
      BY <1>2, <2>1
  <2>2. CASE end < e
    <3>1. end <= e - 1
      BY <1>0, <2>0, <2>2
    <3>2. Later(e - 1)
      BY <1>4, <3>1
    <3>3. CASE e \notin ends
      <4>1. f[e] = f[e - 1]
        BY <3>3 DEF LoopOf
      <4> QED
        BY <3>2, <4>1
    <3>4. CASE e \in ends
      <4> DEFINE chunk == ChunkBlocks(ms, ChunkEndingAt(from, ends, e), mk)
                 s == EndBefore(from, ends, e)
                 done == f[e - 1]
                 blocks == f[e]
                 before == f[end]
      <4>1. blocks = done \o chunk
        BY <3>4 DEF LoopOf
      <4>2. /\ chunk \in Seq(BlockSet)
            /\ \A n \in 1 .. Len(chunk) : chunk[n].kind = "page" => chunk[n].turns = s + 1 .. e
        BY <3>4, ChunkOfEnd
      <4>3. s \in Nat /\ s < e
        BY <1>0, <3>4, EndBeforeIs
      <4>4. Max(s + 1 .. e) = e
        <5> HIDE DEF s
        <5> QED
          BY <2>0, <4>3, IntervalEnds
      <4>5. done \in Seq(BlockSet) /\ Len(before) \in Nat
        BY <1>1, <2>0
      <4>6. /\ Len(before) <= Len(done)
            /\ \A n \in 1 .. Len(before) : done[n] = before[n]
            /\ \A n \in 1 .. Len(done) :
                 n > Len(before) /\ done[n].kind = "page" => Max(done[n].turns) > end
        BY <3>2
      <4> HIDE DEF chunk, s, done, blocks, before
      <4>7. /\ Len(blocks) = Len(done) + Len(chunk) /\ Len(done) \in Nat /\ Len(chunk) \in Nat
            /\ \A n \in 1 .. Len(done) : blocks[n] = done[n]
            /\ \A n \in 1 .. Len(done) + Len(chunk) : n > Len(done) =>
                 blocks[n] = chunk[n - Len(done)] /\ n - Len(done) \in 1 .. Len(chunk)
        BY <4>1, <4>2, <4>5, Joined
      <4>8. Len(before) <= Len(blocks)
        BY <4>5, <4>6, <4>7
      <4>9. \A n \in 1 .. Len(before) : blocks[n] = before[n]
        BY <4>5, <4>6, <4>7
      <4>10. ASSUME NEW n \in 1 .. Len(blocks), n > Len(before), blocks[n].kind = "page"
             PROVE  Max(blocks[n].turns) > end
        <5>1. CASE n \in 1 .. Len(done)
          BY <4>6, <4>7, <4>10, <5>1
        <5>2. CASE n > Len(done)
          <6>1. blocks[n] = chunk[n - Len(done)] /\ n - Len(done) \in 1 .. Len(chunk)
            BY <4>7, <5>2
          <6>2. Max(blocks[n].turns) = e
            BY <4>2, <4>4, <4>10, <6>1
          <6> QED
            BY <2>2, <6>2
        <5> QED
          BY <4>7, <5>1, <5>2
      <4> QED
        BY <4>8, <4>9, <4>10 DEF blocks, before
    <3> QED
      BY <3>3, <3>4
  <2> QED
    BY <1>0, <2>0, <2>1, <2>2
<1> HIDE DEF T
<1>5. \A e \in 0 .. to : e \in T
  BY <1>0, <1>3, <1>4, UpTo
<1>6. to \in T /\ end <= to
  BY <1>0, <1>5
<1> QED
  BY <1>6 DEF T

(* Up to an end, the chunks and their blocks are the same. *)
SameChunks(ms, ends, mk, ms2, ends2, mk2, end) ==
  /\ ends \cap (1 .. end) = ends2 \cap (1 .. end)
  /\ \A a \in 1 .. end : \A e \in a .. end :
       ChunkBlocks(ms, a .. e, mk) = ChunkBlocks(ms2, a .. e, mk2)

(* f and g are such functions for ranges that both reach end. *)
LoopsOf(f, g, from, ms, to, ends, mk, ms2, to2, ends2, mk2, end) ==
  /\ to \in Nat /\ to2 \in Nat /\ end \in Nat /\ end <= to /\ end <= to2
  /\ ends \subseteq from + 1 .. to /\ ends2 \subseteq from + 1 .. to2
  /\ LoopOf(f, ms, from, to, ends, mk) /\ LoopOf(g, ms2, from, to2, ends2, mk2)

(* Two loops agree as far as their chunks do.                                *)
LEMMA LoopsAgree ==
  ASSUME NEW from \in Nat, NEW f, NEW g, NEW ms, NEW to, NEW ends, NEW mk,
         NEW ms2, NEW to2, NEW ends2, NEW mk2, NEW end,
         LoopsOf(f, g, from, ms, to, ends, mk, ms2, to2, ends2, mk2, end),
         SameChunks(ms, ends, mk, ms2, ends2, mk2, end)
  PROVE  f[end] = g[end]
<1> USE DEF LoopsOf, SameChunks
<1> DEFINE T == {e \in 0 .. end : f[e] = g[e]}
<1>1. 0 \in T
  BY DEF LoopOf
<1>2. ASSUME NEW e \in 1 .. end, e - 1 \in T PROVE e \in T
  <2>0. e \in 1 .. to /\ e \in 1 .. to2 /\ e \in 0 .. end /\ f[e - 1] = g[e - 1]
        /\ e \in Nat
    BY <1>2
  <2>1. e \in ends <=> e \in ends2
    BY <2>0
  <2>2. CASE e \in ends
    <3>1. {a \in ends : a < e} = {a \in ends2 : a < e}
      <4>1. \A a \in ends : a < e => a \in ends2
        BY <2>0
      <4>2. \A a \in ends2 : a < e => a \in ends
        BY <2>0
      <4> QED
        BY <4>1, <4>2
    <3> DEFINE s == EndBefore(from, ends, e)
    <3>2. s \in Nat /\ s < e /\ ChunkEndingAt(from, ends, e) = s + 1 .. e
      BY <2>2, EndBeforeIs
    <3>3. ChunkEndingAt(from, ends2, e) = s + 1 .. e
      BY <3>1, <3>2 DEF ChunkEndingAt
    <3> HIDE DEF s
    <3>4. s + 1 \in 1 .. end /\ e \in s + 1 .. end
      BY <2>0, <3>2
    <3>5. ChunkBlocks(ms, s + 1 .. e, mk) = ChunkBlocks(ms2, s + 1 .. e, mk2)
      BY <3>4
    <3>6. f[e] = f[e - 1] \o ChunkBlocks(ms, s + 1 .. e, mk)
      BY <2>0, <2>2, <3>2 DEF LoopOf
    <3>7. g[e] = g[e - 1] \o ChunkBlocks(ms2, s + 1 .. e, mk2)
      BY <2>0, <2>1, <2>2, <3>3 DEF LoopOf
    <3> QED
      BY <2>0, <3>5, <3>6, <3>7
  <2>3. CASE e \notin ends
    BY <2>0, <2>1, <2>3 DEF LoopOf
  <2> QED
    BY <2>2, <2>3
<1> HIDE DEF T
<1>3. \A e \in 0 .. end : e \in T
  BY <1>1, <1>2, UpTo
<1>4. end \in T
  BY <1>3
<1> QED
  BY <1>4 DEF T

(* A chunk of a longer conversation is what it was, with the same mark.      *)
LEMMA ChunkSame ==
  ASSUME NEW ms, NEW old, Continues(ms, old),
         NEW a \in 1 .. Len(old), NEW e \in a .. Len(old),
         NEW mk, NEW mk2, e \in mk <=> e \in mk2
  PROVE  ChunkBlocks(old, a .. e, mk) = ChunkBlocks(ms, a .. e, mk2)
<1>0. /\ Len(old) \in Nat /\ a \in Nat /\ e \in Nat /\ a <= e /\ a - 1 \in 0 .. Len(old)
      /\ e \in 0 .. Len(old)
  BY DEF Continues
<1>1. Min(a .. e) = a /\ Max(a .. e) = e
  BY <1>0, IntervalEnds
<1>2. \A i \in 0 .. Len(old) : /\ TextTotals(ms)[i] = TextTotals(old)[i]
                               /\ ImageTotals(ms)[i] = ImageTotals(old)[i]
  BY TotalsContinue
<1>3. /\ TextTotal(old, a - 1, e) = TextTotal(ms, a - 1, e)
      /\ ImageTotal(old, a - 1, e) = ImageTotal(ms, a - 1, e)
  BY <1>0, <1>2 DEF TextTotal, ImageTotal
<1>4. \A i \in a .. e : old[i] = ms[i]
  BY <1>0 DEF Continues
<1>5. TranscriptBlocks(old, a .. e, mk) = TranscriptBlocks(ms, a .. e, mk2)
  <2> DEFINE total == Pages(TextTotal(old, a - 1, e))
  <2>1. TranscriptBlocks(old, a .. e, mk)
          = [part \in 1 .. total |-> Page(a .. e, part, part = total /\ e \in mk)]
    BY <1>1 DEF TranscriptBlocks
  <2>2. TranscriptBlocks(ms, a .. e, mk2)
          = [part \in 1 .. total |-> Page(a .. e, part, part = total /\ e \in mk2)]
    BY <1>1, <1>3 DEF TranscriptBlocks
  <2> HIDE DEF total
  <2>3. (e \in mk) = (e \in mk2)
    OBVIOUS
  <2> QED
    BY <2>1, <2>2, <2>3
<1>6. UserTurnBlocks(old, a .. e) = UserTurnBlocks(ms, a .. e)
  <2> DEFINE typed(m) == {i \in a .. e : m[i].role = "user" /\ m[i].typed > 0}
             long(m)  == {i \in typed(m) : IsLong(m[i])}
             short(m) == typed(m) \ long(m)
             drawn(m) == [part \in 1 .. Pages(ImageTotal(m, a - 1, e))
                            |-> LongTurns(long(m), part)]
             said(m) == IF short(m) = {} THEN <<>> ELSE <<Words(short(m))>>
  <2>1. UserTurnBlocks(old, a .. e) = said(old) \o drawn(old)
    BY <1>1 DEF UserTurnBlocks
  <2>2. UserTurnBlocks(ms, a .. e) = said(ms) \o drawn(ms)
    BY <1>1 DEF UserTurnBlocks
  <2>3. typed(old) = typed(ms)
    BY <1>4
  <2>4. typed(old) \subseteq a .. e
    OBVIOUS
  <2> HIDE DEF typed
  <2>5. long(old) = long(ms)
    BY <1>4, <2>3, <2>4
  <2> HIDE DEF long
  <2>6. said(old) = said(ms) /\ drawn(old) = drawn(ms)
    BY <1>3, <2>3, <2>5
  <2> HIDE DEF said, drawn
  <2> QED
    BY <2>1, <2>2, <2>6
<1> QED
  BY <1>5, <1>6 DEF ChunkBlocks

(* The blocks of a range do not change when the conversation grows.          *)
LEMMA BlocksSame ==
  ASSUME NEW ms, NEW old, Continues(ms, old), TypedByUsers(ms), NEW from, NEW to,
         NEW step, NEW mk, RangeOf(old, from, to, mk)
  PROVE  Blocks(ms, from, to, step, mk) = Blocks(old, from, to, step, mk)
<1> USE DEF RangeOf
<1> DEFINE ends == ChunkEnds(from, to, step, mk)
           f == BlocksUpTo(old, from, to, ends, mk)
           g == BlocksUpTo(ms, from, to, ends, mk)
<1>0. /\ ms \in Seq(Messages) /\ old \in Seq(Messages) /\ to \in Nat
      /\ Len(old) \in Nat /\ Len(ms) \in Nat /\ Len(old) <= Len(ms)
      /\ to \in 0 .. Len(ms)
  BY DEF Continues
<1>1. ends \subseteq from + 1 .. to
  BY <1>0, EndsInside
<1>2. /\ Blocks(old, from, to, step, mk) = f[to] \o LatestUserPointer(old, from, to)
      /\ Blocks(ms, from, to, step, mk) = g[to] \o LatestUserPointer(ms, from, to)
  BY DEF Blocks
<1> HIDE DEF ends
<1>3. LoopOf(f, old, from, to, ends, mk) /\ LoopOf(g, ms, from, to, ends, mk)
  BY <1>0, <1>1, LoopIs
<1> HIDE DEF f, g
<1>4. \A a \in 1 .. to : \A e \in a .. to :
        ChunkBlocks(old, a .. e, mk) = ChunkBlocks(ms, a .. e, mk)
  <2> SUFFICES ASSUME NEW a \in 1 .. to, NEW e \in a .. to
               PROVE  ChunkBlocks(old, a .. e, mk) = ChunkBlocks(ms, a .. e, mk)
    OBVIOUS
  <2>1. a \in 1 .. Len(old) /\ e \in a .. Len(old)
    BY <1>0
  <2> QED
    BY <2>1, ChunkSame
<1>5. f[to] = g[to]
  <2>1. SameChunks(old, ends, mk, ms, ends, mk, to)
    BY <1>4 DEF SameChunks
  <2>2. LoopsOf(f, g, from, old, to, ends, mk, ms, to, ends, mk, to)
    BY <1>0, <1>1, <1>3 DEF LoopsOf
  <2> QED
    BY <2>1, <2>2, LoopsAgree
<1>6. LatestUserPointer(old, from, to) = LatestUserPointer(ms, from, to)
  <2> DEFINE typed(m) == {i \in 1 .. to : m[i].role = "user" /\ m[i].typed > 0}
  <2>1. typed(old) = typed(ms)
    <3>1. \A i \in 1 .. to : old[i] = ms[i]
      BY <1>0 DEF Continues
    <3> QED
      BY <3>1
  <2>2. \A m : LatestUserPointer(m, from, to) =
          IF typed(m) = {} THEN <<>>
          ELSE <<Pointer(Max(typed(m)), IF Max(typed(m)) > from THEN "preview" ELSE "verbatim")>>
    BY DEF LatestUserPointer
  <2> HIDE DEF typed
  <2> QED
    BY <2>1, <2>2
<1> QED
  BY <1>2, <1>5, <1>6

(* What the carry-over marks ends the last chunk before the open one, and    *)
(* comes before every page of a later chunk.                                 *)
LEMMA CarryIs ==
  ASSUME NEW ms, NEW from, NEW to, NEW step, NEW mk, RangeOf(ms, from, to, mk)
  PROVE  LET blocks == Blocks(ms, from, to, step, mk)
             end == CarryOverEnd(from, to, step)
             carry == CarryOver(blocks, end)
             f == BlocksUpTo(ms, from, to, ChunkEnds(from, to, step, mk), mk)
         IN /\ carry \in 0 .. Len(blocks)
            /\ carry > 0 => /\ Max(blocks[carry].turns) = end
                            /\ end \in GridEnds(from, to, step)
                            /\ carry <= Len(f[end])
                            /\ \A n \in 1 .. Len(f[end]) : blocks[n] = f[end][n]
                            /\ Len(f[end]) <= Len(blocks)
<1> USE DEF RangeOf
<1> DEFINE ends == ChunkEnds(from, to, step, mk)
           f == BlocksUpTo(ms, from, to, ends, mk)
           pointer == LatestUserPointer(ms, from, to)
           blocks == f[to] \o pointer
           end == CarryOverEnd(from, to, step)
           pages == {n \in DOMAIN blocks : blocks[n].kind = "page"
                                           /\ Max(blocks[n].turns) = end}
           carry == CarryOver(blocks, end)
<1>0. to \in Nat /\ Len(ms) \in Nat
  OBVIOUS
<1>1. ends \subseteq from + 1 .. to /\ to \in ends
  BY <1>0, EndsInside
<1>2. Blocks(ms, from, to, step, mk) = blocks
  BY DEF Blocks
<1>3. carry = Max({0} \cup pages)
  BY DEF CarryOver
<1> HIDE DEF ends, end
<1>4. LoopOf(f, ms, from, to, ends, mk)
  BY <1>1, LoopIs
<1> HIDE DEF f, carry
<1>5. f[to] \in Seq(BlockSet)
  BY <1>0, <1>4 DEF LoopOf
<1>6. pointer \in Seq(BlockSet)
      /\ \A n \in 1 .. Len(pointer) : pointer[n].kind \in {"preview", "verbatim"}
  BY PointerIs
<1> HIDE DEF pointer
<1>7. /\ blocks \in Seq(BlockSet) /\ Len(blocks) = Len(f[to]) + Len(pointer)
      /\ Len(f[to]) \in Nat /\ Len(pointer) \in Nat
      /\ \A n \in 1 .. Len(f[to]) : blocks[n] = f[to][n]
      /\ \A n \in 1 .. Len(f[to]) + Len(pointer) : n > Len(f[to]) =>
           blocks[n] = pointer[n - Len(f[to])] /\ n - Len(f[to]) \in 1 .. Len(pointer)
  BY <1>5, <1>6, Joined
<1> HIDE DEF blocks
<1>8. DOMAIN blocks = 1 .. Len(blocks) /\ Len(blocks) \in Nat
  BY <1>7
<1>9. pages \subseteq 1 .. Len(blocks)
  BY <1>8
<1>10. \A n \in pages : blocks[n].kind = "page" /\ Max(blocks[n].turns) = end
  OBVIOUS
<1> HIDE DEF pages
<1>11. {0} \cup pages \subseteq 0 .. Len(blocks) /\ {0} \cup pages # {}
  BY <1>8, <1>9
<1>12. carry \in {0} \cup pages
  BY <1>3, <1>8, <1>11, MaxIsGreatest
<1>13. carry \in 0 .. Len(blocks)
  BY <1>11, <1>12
<1>14. ASSUME carry > 0
       PROVE  /\ Max(blocks[carry].turns) = end /\ end \in GridEnds(from, to, step)
              /\ carry <= Len(f[end])
              /\ \A n \in 1 .. Len(f[end]) : blocks[n] = f[end][n]
              /\ Len(f[end]) <= Len(blocks)
  <2>1. carry \in pages
    BY <1>12, <1>14
  <2>2. /\ carry \in 1 .. Len(blocks) /\ blocks[carry].kind = "page"
        /\ Max(blocks[carry].turns) = end
    BY <1>9, <1>10, <2>1
  <2>3. carry \in 1 .. Len(f[to]) /\ blocks[carry] = f[to][carry]
    <3> SUFFICES ASSUME carry > Len(f[to]) PROVE FALSE
      BY <1>7, <2>2
    <3>1. /\ blocks[carry] = pointer[carry - Len(f[to])]
          /\ carry - Len(f[to]) \in 1 .. Len(pointer)
      BY <1>7, <2>2
    <3> QED
      BY <1>6, <2>2, <3>1
  <2>4. \A e \in 0 .. to : Accounted(f[e], ms, from, ends, e)
    BY <1>1, <1>4, LoopAccounted
  <2>5. PICK a \in ends : Max(f[to][carry].turns) = a
    BY <1>0, <2>2, <2>3, <2>4 DEF Accounted
  <2>6. end > 0
    BY <1>0, <1>1, <2>2, <2>3, <2>5
  <2>7. end \in GridEnds(from, to, step)
    <3>1. GridEnds(from, to, step) \subseteq 0 .. to
      BY <1>0 DEF GridEnds
    <3>2. GridEnds(from, to, step) # {} /\ end = Max(GridEnds(from, to, step))
      BY <2>6 DEF end, CarryOverEnd
    <3> QED
      BY <1>0, <3>1, <3>2, MaxIsGreatest
  <2>8. end \in 0 .. to
    BY <1>0, <2>7 DEF GridEnds
  <2>9. /\ Len(f[end]) <= Len(f[to])
        /\ \A n \in 1 .. Len(f[end]) : f[to][n] = f[end][n]
        /\ \A n \in 1 .. Len(f[to]) :
             n > Len(f[end]) /\ f[to][n].kind = "page" => Max(f[to][n].turns) > end
    BY <1>1, <1>4, <2>8, LoopGrows
  <2>10. Len(f[end]) \in Nat
    <3>1. f[end] \in Seq(BlockSet)
      BY <1>4, <2>8 DEF LoopOf
    <3> QED
      BY <3>1
  <2>11. carry <= Len(f[end])
    <3> SUFFICES ASSUME carry > Len(f[end]) PROVE FALSE
      BY <1>13, <2>10
    <3>1. Max(f[to][carry].turns) > end
      BY <2>2, <2>3, <2>9
    <3>2. Max(f[to][carry].turns) = end
      BY <2>2, <2>3
    <3> QED
      BY <2>8, <3>1, <3>2
  <2>12. \A n \in 1 .. Len(f[end]) : blocks[n] = f[end][n]
    BY <1>7, <2>9, <2>10
  <2>13. Len(f[end]) <= Len(blocks)
    BY <1>7, <2>9, <2>10
  <2> QED
    BY <2>2, <2>7, <2>11, <2>12, <2>13
<1> QED
  BY <1>2, <1>13, <1>14 DEF carry, f, end, ends

(* The ends of two ranges with the same step agree as far as a boundary that *)
(* is in both.                                                               *)
LEMMA EndsAgree ==
  ASSUME NEW from \in Nat, NEW to \in Nat, NEW to2 \in Nat, NEW step \in Nat \ {0},
         NEW end \in GridEnds(from, to, step), to <= to2, NEW mk, NEW mk2,
         mk \cap (1 .. end) = mk2 \cap (1 .. end)
  PROVE  ChunkEnds(from, to, step, mk) \cap (1 .. end)
           = ChunkEnds(from, to2, step, mk2) \cap (1 .. end)
<1>1. end \in Nat /\ end < to /\ end < to2
  BY DEF GridEnds
<1>2. GridEnds(from, to, step) \cap (1 .. end) = GridEnds(from, to2, step) \cap (1 .. end)
  BY <1>1 DEF GridEnds
<1>3. to \notin 1 .. end /\ to2 \notin 1 .. end
  BY <1>1
<1> QED
  BY <1>2, <1>3 DEF ChunkEnds

(* The blocks of a range of a conversation, and their carry-over. *)
LaysOut(blocks, carry, ms, from, to, step, mk) ==
  /\ RangeOf(ms, from, to, mk)
  /\ blocks = Blocks(ms, from, to, step, mk)
  /\ carry = CarryOver(blocks, CarryOverEnd(from, to, step))

SameMarks(mk, mk2, end) == mk \cap (1 .. end) = mk2 \cap (1 .. end)
Repeats(blocks, blocks2, n) == SubSeq(blocks, 1, n) = SubSeq(blocks2, 1, n)

(* The images up to the carry-over are those of every later layout of the    *)
(* conversation with the same step and the same marks among those turns.     *)
LEMMA CarryRepeats ==
  ASSUME NEW ms, NEW from, NEW to, NEW to2, NEW step \in Nat \ {0}, NEW mk, NEW mk2,
         NEW blocks, NEW carry, LaysOut(blocks, carry, ms, from, to, step, mk),
         NEW blocks2, NEW carry2, LaysOut(blocks2, carry2, ms, from, to2, step, mk2),
         to <= to2, carry > 0,
         SameMarks(mk, mk2, Max(blocks[carry].turns))
  PROVE  Repeats(blocks, blocks2, carry)
<1> USE DEF RangeOf, LaysOut, SameMarks
<1> DEFINE end == CarryOverEnd(from, to, step)
           ends == ChunkEnds(from, to, step, mk)
           ends2 == ChunkEnds(from, to2, step, mk2)
           f == BlocksUpTo(ms, from, to, ends, mk)
           g == BlocksUpTo(ms, from, to2, ends2, mk2)
<1>0. to \in Nat /\ to2 \in Nat /\ Len(ms) \in Nat /\ from < to2
  OBVIOUS
<1>1. /\ carry \in 0 .. Len(blocks) /\ Max(blocks[carry].turns) = end
      /\ end \in GridEnds(from, to, step) /\ carry <= Len(f[end])
      /\ \A n \in 1 .. Len(f[end]) : blocks[n] = f[end][n]
  <2> DEFINE b == Blocks(ms, from, to, step, mk)
             c == CarryOver(b, end)
  <2>1. /\ c \in 0 .. Len(b)
        /\ c > 0 => /\ Max(b[c].turns) = end
                    /\ end \in GridEnds(from, to, step)
                    /\ c <= Len(f[end])
                    /\ \A n \in 1 .. Len(f[end]) : b[n] = f[end][n]
                    /\ Len(f[end]) <= Len(b)
    BY CarryIs, Zenon
  <2>2. b = blocks /\ c = carry
    OBVIOUS
  <2> HIDE DEF b, c, end, f
  <2> QED
    BY <2>1, <2>2
<1>2. ends \subseteq from + 1 .. to /\ ends2 \subseteq from + 1 .. to2
  BY <1>0, EndsInside
<1>3. blocks2 = g[to2] \o LatestUserPointer(ms, from, to2)
  BY DEF Blocks
<1>4. blocks \in Seq(BlockSet) /\ blocks2 \in Seq(BlockSet)
  BY <1>0, BlocksComplete DEF CarriesAll
<1> HIDE DEF end
<1>5. mk \cap (1 .. end) = mk2 \cap (1 .. end)
  BY <1>1
<1>6. ends \cap (1 .. end) = ends2 \cap (1 .. end)
  <2> HIDE DEF f, g
  <2>1. end \in GridEnds(from, to, step) /\ to <= to2
    BY <1>1
  <2> QED
    BY <1>0, <1>5, <2>1, EndsAgree
<1> HIDE DEF ends, ends2
<1>7. LoopOf(f, ms, from, to, ends, mk)
  BY <1>2, LoopIs
<1>8. LoopOf(g, ms, from, to2, ends2, mk2)
  BY <1>2, LoopIs
<1> HIDE DEF f, g
<1>9. end \in Nat /\ end < to /\ end < to2 /\ end \in 0 .. to2
  BY <1>0, <1>1 DEF GridEnds
<1>10. \A a \in 1 .. end : \A e \in a .. end :
         ChunkBlocks(ms, a .. e, mk) = ChunkBlocks(ms, a .. e, mk2)
  <2> SUFFICES ASSUME NEW a \in 1 .. end, NEW e \in a .. end
               PROVE  ChunkBlocks(ms, a .. e, mk) = ChunkBlocks(ms, a .. e, mk2)
    OBVIOUS
  <2>1. a \in 1 .. Len(ms) /\ e \in a .. Len(ms) /\ e \in 1 .. end
    BY <1>0, <1>9
  <2>2. e \in mk <=> e \in mk2
    BY <1>5, <2>1
  <2>3. Continues(ms, ms)
    BY <1>0 DEF Continues
  <2> QED
    BY <2>1, <2>2, <2>3, ChunkSame
<1>11. f[end] = g[end]
  <2>1. SameChunks(ms, ends, mk, ms, ends2, mk2, end)
    BY <1>6, <1>10 DEF SameChunks
  <2>2. LoopsOf(f, g, from, ms, to, ends, mk, ms, to2, ends2, mk2, end)
    BY <1>0, <1>2, <1>7, <1>8, <1>9 DEF LoopsOf
  <2> QED
    BY <2>1, <2>2, LoopsAgree
<1>12. Len(g[end]) <= Len(g[to2]) /\ \A n \in 1 .. Len(g[end]) : g[to2][n] = g[end][n]
  <2>1. /\ Len(g[end]) <= Len(g[to2])
        /\ \A n \in 1 .. Len(g[end]) : g[to2][n] = g[end][n]
        /\ \A n \in 1 .. Len(g[to2]) :
             n > Len(g[end]) /\ g[to2][n].kind = "page" => Max(g[to2][n].turns) > end
    BY <1>2, <1>8, <1>9, LoopGrows, Zenon
  <2> QED
    BY <2>1
<1>13. g[end] \in Seq(BlockSet) /\ g[to2] \in Seq(BlockSet)
  BY <1>0, <1>8, <1>9 DEF LoopOf
<1>14. \A n \in 1 .. Len(g[to2]) : blocks2[n] = g[to2][n]
  <2>1. LatestUserPointer(ms, from, to2) \in Seq(BlockSet)
    BY PointerIs
  <2> QED
    BY <1>3, <1>13, <2>1, Joined
<1>15. Len(g[to2]) <= Len(blocks2)
  <2>1. LatestUserPointer(ms, from, to2) \in Seq(BlockSet)
    BY PointerIs
  <2>2. Len(blocks2) = Len(g[to2]) + Len(LatestUserPointer(ms, from, to2))
        /\ Len(g[to2]) \in Nat /\ Len(LatestUserPointer(ms, from, to2)) \in Nat
    BY <1>3, <1>13, <2>1, Joined
  <2> QED
    BY <2>2
<1>16. Len(g[end]) \in Nat /\ Len(g[to2]) \in Nat /\ Len(blocks2) \in Nat
       /\ Len(blocks) \in Nat /\ carry \in Nat
  BY <1>1, <1>4, <1>13
<1>17. ASSUME NEW n \in 1 .. carry PROVE blocks[n] = blocks2[n]
  <2>1. n \in 1 .. Len(f[end]) /\ n \in 1 .. Len(g[end]) /\ n \in 1 .. Len(g[to2])
    BY <1>1, <1>11, <1>12, <1>16
  <2> QED
    BY <1>1, <1>11, <1>12, <1>14, <2>1
<1>18. carry <= Len(blocks) /\ carry <= Len(blocks2)
  BY <1>1, <1>11, <1>12, <1>15, <1>16
<1> QED
  <2>1. SubSeq(blocks, 1, carry) = [n \in 1 .. carry |-> blocks[n]]
    BY <1>4, <1>16, <1>18
  <2>2. SubSeq(blocks2, 1, carry) = [n \in 1 .. carry |-> blocks2[n]]
    BY <1>4, <1>16, <1>18
  <2>3. [n \in 1 .. carry |-> blocks[n]] = [n \in 1 .. carry |-> blocks2[n]]
    BY <1>17
  <2> QED
    BY <2>1, <2>2, <2>3, Zenon DEF Repeats

-----------------------------------------------------------------------------
(* The marks of the last request in its range. *)
MarksInRange == marks \cap (Protected + 1 .. last.len)

(* The last layout is that of its range in the conversation as it is now. *)
LayoutOK ==
  /\ TypedByUsers(messages)
  /\ marks \subseteq 1 .. Len(messages)
  /\ ~Taken(last) => last.step = 0 /\ last.blocks = <<>> /\ last.carry = 0
  /\ Taken(last) =>
       /\ Protected < last.len
       /\ last.blocks = Blocks(messages, Protected, last.len, last.step, MarksInRange)
       /\ last.carry = CarryOver(last.blocks, CarryOverEnd(Protected, last.len, last.step))

(* The last layout is of a part of the conversation that goes on.            *)
LEMMA LastInside ==
  ASSUME Protocol, LastOK
  PROVE  /\ last.len \in 0 .. Len(messages)
         /\ Taken(last) => ProtectedIn(messages) = Protected /\ last.len < Len(messages)
<1>0. Len(messages) \in Nat /\ messages \in Seq(Messages) /\ budget \in Nat
      /\ Protected \in Nat
  BY CollapseAssumption DEF Protocol, LastOK
<1>1. CASE ~Taken(last)
  BY <1>0, <1>1 DEF LastOK
<1>2. CASE Taken(last)
  <2>1. PICK n \in 1 .. Len(messages) : CutFrom(SentAt(n), budget, last.len)
    BY <1>2 DEF LastOK
  <2>2. SentAt(n) \in Seq(Messages) /\ Len(SentAt(n)) = n
    BY <1>0, SentStays
  <2>3. LET closed == ClosedPrefix(SentAt(n), Cutoff(SentAt(n)))
        IN /\ closed \in Protected .. Len(SentAt(n)) - 1
           /\ last.len \in Protected .. closed
    BY <1>0, <2>1, <2>2, TakenIsCut
  <2>4. last.len \in Nat /\ Protected <= last.len /\ last.len < n
    BY <1>0, <2>2, <2>3
  <2>5. Protected < Len(messages) /\ last.len < Len(messages)
    BY <1>0, <2>4
  <2> QED
    BY <1>0, <2>4, <2>5 DEF ProtectedIn, Smaller
<1> QED
  BY <1>1, <1>2

(* Only users type.                                                          *)
LEMMA SaidByUsers ==
  \A m \in Turns : m.typed > 0 => m.role = "user"
<1>1. \A m \in UserSays : m.role = "user"
  BY DEF UserSays, Message
<1>2. \A ids : \A m \in UserAnswers(ids) : m.role = "user"
  BY DEF UserAnswers, Message
<1>3. \A m \in AssistantSays \cup AssistantCalls : m.typed = 0
  BY DEF AssistantSays, AssistantCalls, Message
<1> SUFFICES ASSUME NEW m \in Turns, m.typed > 0 PROVE m.role = "user"
  OBVIOUS
<1>4. \/ m \in UserSays \/ m \in AssistantSays \cup AssistantCalls
      \/ \E ids : m \in UserAnswers(ids)
  BY DEF Turns
<1> QED
  BY <1>1, <1>2, <1>3, <1>4

(* layout is that of its range of ms, with the marks in it. *)
LayoutOf(layout, ms, mk) ==
  /\ layout.len \in 0 .. Len(ms) /\ Protected < layout.len
  /\ layout.blocks = Blocks(ms, Protected, layout.len, layout.step,
                            mk \cap (Protected + 1 .. layout.len))
  /\ layout.carry = CarryOver(layout.blocks,
                              CarryOverEnd(Protected, layout.len, layout.step))

(* A layout that is taken is that of Layout, of a range with something in    *)
(* it.                                                                       *)
LEMMA TakenLayout ==
  ASSUME NEW ms \in Seq(Messages), NEW breakpoints, NEW at \in Nat, NEW images \in Nat,
         NEW packFill, Taken(Collapse(ms, breakpoints, at, images, packFill))
  PROVE  LayoutOf(Collapse(ms, breakpoints, at, images, packFill), ms, breakpoints)
<1> DEFINE layout == Collapse(ms, breakpoints, at, images, packFill)
           len == layout.len
<1>1. CutFrom(ms, images, len) /\ layout = Layout(ms, len, breakpoints, at, images, packFill)
  BY TakenWhole
<1>2. Protected \in Nat /\ Len(ms) \in Nat
  BY CollapseAssumption
<1>3. TextTotal(ms, ProtectedIn(ms), len) # 0
  <2> DEFINE from   == ProtectedIn(ms)
             closed == CollapsiblePrefix(ms, Cutoff(ms))
             short == TrimmedPrefix(ms, closed, images)
             taken  == Layout(ms, short, breakpoints, at, images, packFill)
  <2>1. layout = IF ms = <<>> THEN NotCollapsed("no_history")
                 ELSE IF closed = 0 THEN NotCollapsed("no_closed_prefix")
                 ELSE IF closed - from < MinPrefix THEN NotCollapsed("prefix_too_short")
                 ELSE IF short - from < MinPrefix THEN NotCollapsed("over_budget")
                 ELSE IF TextTotal(ms, from, short) = 0 THEN NotCollapsed("render_empty")
                 ELSE taken
    BY Zenon DEF Collapse
  <2>2. len = short
    BY <1>1 DEF CutFrom
  <2>3. ~Taken(NotCollapsed("render_empty"))
    <3>1. NotCollapsed("render_empty").reason = "render_empty"
      BY DEF NotCollapsed
    <3> QED
      BY <3>1, Zenon DEF Taken
  <2>4. /\ closed # 0 /\ ~(closed - from < MinPrefix) /\ ~(short - from < MinPrefix)
        /\ ms # <<>>
    <3>1. closed # 0 /\ ~(closed - from < MinPrefix) /\ ~(len - from < MinPrefix)
      BY <1>1, Zenon DEF CutFrom
    <3>2. ms # <<>>
      BY TakenWhole
    <3> HIDE DEF layout, len, from, closed, short
    <3> QED
      BY <2>2, <3>1, <3>2
  <2>5. Taken(layout)
    OBVIOUS
  <2> HIDE DEF layout, len, from, closed, short, taken
  <2>6. ASSUME TextTotal(ms, from, short) = 0 PROVE FALSE
    <3>1. layout = NotCollapsed("render_empty")
      BY <2>1, <2>4, <2>6
    <3> QED
      BY <2>3, <2>5, <3>1
  <2> QED
    BY <2>2, <2>6 DEF from
<1> HIDE DEF layout
<1>4. ProtectedIn(ms) = Protected /\ len \in Protected .. Len(ms)
  <2>1. LET closed == ClosedPrefix(ms, Cutoff(ms))
        IN /\ ProtectedIn(ms) = Protected /\ closed \in Protected .. Len(ms) - 1
           /\ len \in Protected .. closed
    BY <1>1, TakenIsCut
  <2> QED
    BY <1>2, <2>1
<1>5. len # Protected
  <2> SUFFICES ASSUME len = Protected PROVE FALSE
    OBVIOUS
  <2>1. Protected \in 0 .. Len(ms)
    BY <1>2, <1>4
  <2>2. TextTotals(ms)[Protected] \in Nat
    BY <2>1, TotalsTyped
  <2>3. TextTotal(ms, Protected, Protected) = 0
    BY <2>2 DEF TextTotal
  <2> QED
    BY <1>3, <1>4, <2>3
<1>6. len \in 0 .. Len(ms) /\ Protected < len
  BY <1>2, <1>4, <1>5
<1>7. /\ layout.blocks = Blocks(ms, ProtectedIn(ms), len, layout.step,
                                breakpoints \cap (ProtectedIn(ms) + 1 .. len))
      /\ layout.carry = CarryOver(layout.blocks,
                                  CarryOverEnd(ProtectedIn(ms), len, layout.step))
  <2> HIDE DEF len
  <2> QED
    BY <1>1, Zenon DEF Layout
<1> QED
  BY <1>4, <1>6, <1>7 DEF layout, len, LayoutOf

(* A message more leaves the last layout what it is.                         *)
LEMMA LayoutStays ==
  ASSUME Protocol, LastOK, LayoutOK, Say
  PROVE  LayoutOK'
<1>0. Len(messages) \in Nat /\ messages \in Seq(Messages) /\ Protected \in Nat
  BY CollapseAssumption DEF Protocol
<1>1. PICK m \in Turns : messages' = Append(messages, m)
  BY DEF Say
<1>2. last' = last /\ marks' = marks
  BY DEF Say
<1>3. m \in Messages
  BY MessagesTyped
<1>4. messages' \in Seq(Messages) /\ Len(messages') = Len(messages) + 1
      /\ messages'[Len(messages) + 1] = m
      /\ \A i \in 1 .. Len(messages) : messages'[i] = messages[i]
  BY <1>0, <1>1, <1>3
<1>5. Continues(messages', messages)
  BY <1>0, <1>4 DEF Continues
<1>6. TypedByUsers(messages')
  <2> SUFFICES ASSUME NEW i \in 1 .. Len(messages'), messages'[i].typed > 0
               PROVE  messages'[i].role = "user"
    BY DEF TypedByUsers
  <2>1. CASE i \in 1 .. Len(messages)
    BY <1>4, <2>1 DEF LayoutOK, TypedByUsers
  <2>2. CASE i = Len(messages) + 1
    BY <1>4, <2>2, SaidByUsers
  <2> QED
    BY <1>0, <1>4, <2>1, <2>2
<1>7. marks' \subseteq 1 .. Len(messages')
  BY <1>0, <1>2, <1>4 DEF LayoutOK
<1>8. ASSUME Taken(last)
      PROVE  Blocks(messages', Protected, last.len, last.step, MarksInRange)
               = Blocks(messages, Protected, last.len, last.step, MarksInRange)
  <2>1. last.len \in 0 .. Len(messages)
    BY LastInside
  <2>2. Protected < last.len /\ TypedByUsers(messages)
    BY <1>8 DEF LayoutOK
  <2>3. MarksInRange \subseteq Protected + 1 .. last.len
    BY DEF MarksInRange
  <2>4. RangeOf(messages, Protected, last.len, MarksInRange)
    BY <1>0, <2>1, <2>2, <2>3 DEF RangeOf
  <2> QED
    BY <1>5, <1>6, <2>4, BlocksSame
<1>9. MarksInRange' = MarksInRange
  BY <1>2 DEF MarksInRange
<1>10. Taken(last) =>
         /\ Protected < last.len
         /\ last.blocks = Blocks(messages', Protected, last.len, last.step, MarksInRange)
         /\ last.carry = CarryOver(last.blocks, CarryOverEnd(Protected, last.len, last.step))
  BY <1>8 DEF LayoutOK
<1>11. ~Taken(last) => last.step = 0 /\ last.blocks = <<>> /\ last.carry = 0
  BY DEF LayoutOK
<1> QED
  BY <1>2, <1>6, <1>7, <1>9, <1>10, <1>11 DEF LayoutOK

(* What is known of the last layout stays true.                              *)
LEMMA LayoutKept ==
  ASSUME Protocol, LastOK, FloorOK, LayoutOK, [GrowthNext]_growthVars
  PROVE  LayoutOK'
<1>1. CASE Say
  BY <1>1, LayoutStays
<1>2. CASE Send
  <2>1. PICK breakpoints \in Breakpoints, images \in Budgets, packFill \in BOOLEAN :
          Request(Collapse(messages, breakpoints, floor, images, packFill),
                  breakpoints, images)
    BY <1>2 DEF Send
  <2> DEFINE layout == Collapse(messages, breakpoints, floor, images, packFill)
  <2>2. /\ Taken(layout) /\ last' = layout /\ marks' = breakpoints
        /\ messages' = messages
    BY <2>1 DEF Request, Taken
  <2>3. messages \in Seq(Messages) /\ images \in Nat /\ floor \in Nat
    BY GrowthAssumption DEF Protocol, FloorOK
  <2>4. LayoutOf(layout, messages, breakpoints)
    BY <2>2, <2>3, TakenLayout
  <2> HIDE DEF layout
  <2>5. breakpoints \subseteq 1 .. Len(messages)
    BY <2>3 DEF Breakpoints
  <2>6. MarksInRange' = breakpoints \cap (Protected + 1 .. layout.len)
    BY <2>2 DEF MarksInRange
  <2>7. TypedByUsers(messages)
    BY DEF LayoutOK
  <2> QED
    BY <2>2, <2>4, <2>5, <2>6, <2>7 DEF LayoutOK, LayoutOf
<1>3. CASE UNCHANGED growthVars
  <2>1. messages' = messages /\ last' = last /\ marks' = marks
    BY <1>3 DEF growthVars
  <2>2. MarksInRange' = MarksInRange
    BY <2>1 DEF MarksInRange
  <2> QED
    BY <2>1, <2>2 DEF LayoutOK
<1> QED
  BY <1>1, <1>2, <1>3 DEF GrowthNext

(* The inductive invariant of the layouts adds that the last layout is that  *)
(* of its range in the conversation as it is now, however much longer.       *)
THEOREM LayoutInvariant == GrowthSpec => []LayoutOK
<1>1. GrowthInit => LayoutOK
  <2> SUFFICES ASSUME GrowthInit PROVE LayoutOK
    OBVIOUS
  <2>1. messages = <<>> /\ marks = {} /\ last = NotCollapsed("none")
    BY DEF GrowthInit
  <2>2. last.step = 0 /\ last.blocks = <<>> /\ last.carry = 0 /\ last.reason = "none"
    BY <2>1 DEF NotCollapsed
  <2>3. ~Taken(last)
    BY <2>2, Zenon DEF Taken
  <2> QED
    BY <2>1, <2>2, <2>3 DEF LayoutOK, TypedByUsers
<1>2. GrowthInv /\ LayoutOK /\ [GrowthNext]_growthVars => LayoutOK'
  BY LayoutKept DEF GrowthInv
<1> QED
  BY <1>1, <1>2, GrowthInvariant, PTL DEF GrowthSpec

(* The types, of the variables and of the last layout.                       *)
LEMMA GrowthTyped ==
  ASSUME GrowthInv, LayoutOK
  PROVE  GrowthTypeOK
<1>0. /\ Protocol /\ LastOK /\ FloorOK /\ messages \in Seq(Messages)
      /\ Len(messages) \in Nat /\ Protected \in Nat
  BY CollapseAssumption DEF GrowthInv, Protocol
<1>1. last.len \in 0 .. Len(messages)
  BY <1>0, LastInside
<1>2. floor \in Nat /\ last.step <= floor
  <2>1. CASE Taken(last)
    BY <1>0, <2>1 DEF FloorOK
  <2>2. CASE ~Taken(last)
    BY <1>0, <2>2 DEF FloorOK, LayoutOK
  <2> QED
    BY <2>1, <2>2
<1>3. marks \subseteq DOMAIN messages
  BY <1>0 DEF LayoutOK
<1>4. last.carry \in 0 .. Len(last.blocks)
  <2>1. CASE Taken(last)
    <3>1. /\ Protected < last.len /\ TypedByUsers(messages)
          /\ last.blocks = Blocks(messages, Protected, last.len, last.step, MarksInRange)
          /\ last.carry = CarryOver(last.blocks,
                                    CarryOverEnd(Protected, last.len, last.step))
      BY <2>1 DEF LayoutOK
    <3>2. MarksInRange \subseteq Protected + 1 .. last.len
      BY DEF MarksInRange
    <3> DEFINE b == Blocks(messages, Protected, last.len, last.step, MarksInRange)
    <3>4. RangeOf(messages, Protected, last.len, MarksInRange)
      BY <1>0, <1>1, <3>1, <3>2 DEF RangeOf
    <3>3. CarryOver(b, CarryOverEnd(Protected, last.len, last.step)) \in 0 .. Len(b)
      BY <3>4, CarryIs
    <3> HIDE DEF b
    <3> QED
      BY <3>1, <3>3 DEF b
  <2>2. CASE ~Taken(last)
    <3>1. last.carry = 0 /\ last.blocks = <<>>
      BY <2>2 DEF LayoutOK
    <3> QED
      BY <3>1
  <2> QED
    BY <2>1, <2>2
<1> QED
  BY <1>0, <1>1, <1>2, <1>3, <1>4 DEF GrowthTypeOK, Messages

(* Every typed turn is kept.                                                 *)
LEMMA TypedKept ==
  ASSUME GrowthInv, LayoutOK
  PROVE  TypedTurnsKept
<1>0. /\ Protocol /\ LastOK /\ messages \in Seq(Messages)
      /\ Len(messages) \in Nat /\ Protected \in Nat
  BY CollapseAssumption DEF GrowthInv, Protocol
<1>1. CASE ~Taken(last)
  <2>1. last.len = 0 /\ ProtectedIn(messages) \in Nat
    BY <1>0, <1>1 DEF LastOK, ProtectedIn, Smaller
  <2>2. ProtectedIn(messages) + 1 .. last.len = {} /\ 1 .. last.len = {}
    BY <2>1
  <2> QED
    BY <2>2 DEF TypedTurnsKept
<1>2. CASE Taken(last)
  <2> DEFINE b == last.blocks
  <2>1. /\ Protected < last.len /\ TypedByUsers(messages)
        /\ b = Blocks(messages, Protected, last.len, last.step, MarksInRange)
    BY <1>2 DEF LayoutOK
  <2>2. last.len \in 0 .. Len(messages) /\ ProtectedIn(messages) = Protected
    BY <1>0, <1>2, LastInside
  <2>3. MarksInRange \subseteq Protected + 1 .. last.len
    BY DEF MarksInRange
  <2> HIDE DEF b
  <2>4. /\ b \in Seq(BlockSet)
        /\ \A i \in Protected + 1 .. last.len : messages[i].typed > 0 => OneCarries(b, i)
        /\ \A i \in 1 .. last.len :
             (messages[i].typed > 0 /\ i <= Protected
                /\ \A j \in i + 1 .. last.len : messages[j].typed = 0)
               => \E n \in 1 .. Len(b) : b[n] = Pointer(i, "verbatim")
    <3>1. RangeOf(messages, Protected, last.len, MarksInRange)
      BY <1>0, <2>1, <2>2, <2>3 DEF RangeOf
    <3>2. CarriesAll(b, messages, Protected, last.len)
      BY <2>1, <3>1, BlocksComplete
    <3> QED
      BY <3>2 DEF CarriesAll
  <2>5. DOMAIN b = 1 .. Len(b)
    BY <2>4
  <2>6. \A i : Carried(i) = {n \in 1 .. Len(b) : CarriesTurn(b[n], i)}
    BY <2>5 DEF Carried, CarriesTurn, b
  <2>7. ASSUME NEW i \in Protected + 1 .. last.len, messages[i].typed > 0
        PROVE  Cardinality(Carried(i)) = 1
    <3>1. OneCarries(b, i)
      BY <2>4, <2>7
    <3>2. PICK n \in 1 .. Len(b) :
            CarriesTurn(b[n], i) /\ \A m \in 1 .. Len(b) : CarriesTurn(b[m], i) => m = n
      BY <3>1 DEF OneCarries
    <3>3. Carried(i) = {n}
      BY <2>6, <3>2
    <3> QED
      BY <3>3, FS_Singleton
  <2>8. ASSUME NEW i \in 1 .. last.len, messages[i].typed > 0,
               \A j \in i + 1 .. last.len : messages[j].typed = 0
        PROVE  Carried(i) # {} \/ \E n \in DOMAIN b : b[n] = Pointer(i, "verbatim")
    <3>1. CASE i <= Protected
      BY <2>4, <2>5, <2>8, <3>1
    <3>2. CASE i > Protected
      <4>1. i \in Protected + 1 .. last.len
        BY <1>0, <2>2, <3>2
      <4>2. OneCarries(b, i)
        BY <2>4, <2>8, <4>1
      <4> QED
        BY <2>6, <4>2 DEF OneCarries
    <3> QED
      BY <1>0, <2>2, <3>1, <3>2
  <2> QED
    BY <2>2, <2>7, <2>8 DEF TypedTurnsKept, b
<1> QED
  BY <1>1, <1>2

(* Nothing the user typed is lost by a collapse, and none of it is there     *)
(* twice, however the marks and the grid cut the conversation into chunks.   *)
THEOREM TypedTurnsCarried == GrowthSpec => []CollapseComplete
<1>1. GrowthInv /\ LayoutOK => CollapseComplete
  BY GrowthTyped, TypedKept DEF CollapseComplete
<1> QED
  BY <1>1, GrowthInvariant, LayoutInvariant, PTL

CarriedAgain ==
  (/\ last.carry > 0 /\ last'.step = last.step /\ budget' >= budget
   /\ LET end == Max(last.blocks[last.carry].turns)
      IN marks \cap (1 .. end) = marks' \cap (1 .. end))
    => SubSeq(last.blocks, 1, last.carry) = SubSeq(last'.blocks, 1, last.carry)

(* A request after a layout repeats what that one marked as cached.          *)
LEMMA CarriesAgain ==
  ASSUME GrowthInv, LayoutOK, Send, Taken(last)
  PROVE  CarriedAgain
<1> SUFFICES ASSUME last.carry > 0, last'.step = last.step, budget' >= budget,
                    LET end == Max(last.blocks[last.carry].turns)
                    IN marks \cap (1 .. end) = marks' \cap (1 .. end)
             PROVE  SubSeq(last.blocks, 1, last.carry) = SubSeq(last'.blocks, 1, last.carry)
  BY DEF CarriedAgain
<1>0. /\ Protocol /\ LastOK /\ FloorOK /\ messages \in Seq(Messages)
      /\ Len(messages) \in Nat /\ Protected \in Nat
  <2>1. Protocol /\ LastOK /\ FloorOK
    BY DEF GrowthInv
  <2>2. messages \in Seq(Messages)
    BY <2>1 DEF Protocol
  <2> QED
    BY <2>1, <2>2, CollapseAssumption
<1>1. PICK breakpoints \in Breakpoints, images \in Budgets, packFill \in BOOLEAN :
        Request(Collapse(messages, breakpoints, floor, images, packFill),
                breakpoints, images)
  BY DEF Send
<1> DEFINE layout == Collapse(messages, breakpoints, floor, images, packFill)
           now == breakpoints \cap (Protected + 1 .. layout.len)
<1>2. Taken(layout) /\ last' = layout /\ marks' = breakpoints
  BY <1>1 DEF Request, Taken
<1>3. images \in Nat /\ floor \in Nat
  BY <1>0, GrowthAssumption DEF FloorOK
<1>4. /\ layout.len \in 0 .. Len(messages) /\ Protected < layout.len
      /\ layout.blocks = Blocks(messages, Protected, layout.len, layout.step, now)
      /\ layout.carry = CarryOver(layout.blocks,
                                  CarryOverEnd(Protected, layout.len, layout.step))
  <2>1. LayoutOf(layout, messages, breakpoints)
    BY <1>0, <1>2, <1>3, TakenLayout
  <2> HIDE DEF layout
  <2> QED
    BY <2>1 DEF LayoutOf
<1> HIDE DEF layout
<1>5. /\ Protected < last.len /\ TypedByUsers(messages)
      /\ last.blocks = Blocks(messages, Protected, last.len, last.step, MarksInRange)
      /\ last.carry = CarryOver(last.blocks, CarryOverEnd(Protected, last.len, last.step))
  BY DEF LayoutOK
<1>6. last.len \in 0 .. Len(messages)
  BY <1>0, LastInside
<1>7. last.len <= layout.len
  <2>1. BuiltUp
    BY <1>0, BuildsUp
  <2>2. last'.len >= last.len
    BY <2>1 DEF BuiltUp
  <2> QED
    BY <1>0, <1>2, <1>4, <1>6, <2>2
<1>8. last.step \in Nat \ {0}
  <2>1. PICK r \in Nat : last.step \in Doubled(r)
    BY <1>0 DEF FloorOK
  <2> QED
    BY <2>1, StepsTyped
<1> DEFINE end == Max(last.blocks[last.carry].turns)
<1>9. end \in GridEnds(Protected, last.len, last.step)
  <2> DEFINE b == Blocks(messages, Protected, last.len, last.step, MarksInRange)
             c == CarryOver(b, CarryOverEnd(Protected, last.len, last.step))
  <2>1. MarksInRange \subseteq Protected + 1 .. last.len
    BY DEF MarksInRange
  <2>2. c > 0 => /\ Max(b[c].turns) = CarryOverEnd(Protected, last.len, last.step)
                 /\ CarryOverEnd(Protected, last.len, last.step)
                      \in GridEnds(Protected, last.len, last.step)
    <3>1. RangeOf(messages, Protected, last.len, MarksInRange)
      BY <1>0, <1>5, <1>6, <2>1 DEF RangeOf
    <3> QED
      BY <3>1, CarryIs
  <2>3. b = last.blocks /\ c = last.carry
    BY <1>5
  <2> HIDE DEF b, c
  <2> QED
    BY <2>2, <2>3
<1>10. marks \cap (1 .. end) = breakpoints \cap (1 .. end)
  BY <1>2
<1> HIDE DEF end
<1>11. end \in Nat /\ end < last.len
  BY <1>0, <1>6, <1>9 DEF GridEnds
<1>12. MarksInRange \cap (1 .. end) = now \cap (1 .. end)
  <2>1. \A i \in 1 .. end : i \in Protected + 1 .. last.len <=> i \in Protected + 1 .. layout.len
    BY <1>0, <1>4, <1>6, <1>7, <1>11
  <2>2. \A i \in 1 .. end : i \in marks <=> i \in breakpoints
    BY <1>10
  <2> QED
    BY <2>1, <2>2 DEF MarksInRange
<1>13. MarksInRange \subseteq Protected + 1 .. last.len
       /\ now \subseteq Protected + 1 .. layout.len
  BY DEF MarksInRange
<1> HIDE DEF now
<1>14. layout.blocks = Blocks(messages, Protected, layout.len, last.step, now)
  BY <1>2, <1>4
<1>15. SubSeq(last.blocks, 1, last.carry) = SubSeq(layout.blocks, 1, last.carry)
  <2>1. SameMarks(MarksInRange, now, Max(last.blocks[last.carry].turns))
    BY <1>12 DEF SameMarks, end
  <2>2. RangeOf(messages, Protected, last.len, MarksInRange)
    BY <1>0, <1>5, <1>6, <1>13 DEF RangeOf
  <2>3. RangeOf(messages, Protected, layout.len, now)
    BY <1>0, <1>4, <1>5, <1>13 DEF RangeOf
  <2>4. LaysOut(last.blocks, last.carry, messages, Protected, last.len, last.step,
                MarksInRange)
    BY <1>5, <2>2 DEF LaysOut
  <2>5. LaysOut(layout.blocks, layout.carry, messages, Protected, layout.len, last.step, now)
    BY <1>2, <1>4, <1>14, <2>3 DEF LaysOut
  <2>6. Repeats(last.blocks, layout.blocks, last.carry)
    BY <1>7, <1>8, <2>1, <2>4, <2>5, CarryRepeats
  <2> QED
    BY <2>6 DEF Repeats
<1> QED
  BY <1>2, <1>15

(* What the carry-over image marks as cached is there again, image by image, *)
(* in the next request that uses the same step and carries the same marks    *)
(* among those turns, with the same budget or a larger one.                  *)
THEOREM CachedImagesRepeat == GrowthSpec => CarryOverRepeats
<1>1. GrowthInv /\ LayoutOK /\ [GrowthNext]_growthVars
        => [last.reason = "" /\ last' # last => CarriedAgain]_growthVars
  <2> SUFFICES ASSUME GrowthInv, LayoutOK, GrowthNext, Taken(last), last' # last
               PROVE  CarriedAgain
    BY Zenon DEF Taken
  <2>1. CASE Say
    BY <2>1 DEF Say
  <2>2. CASE Send
    BY <2>2, CarriesAgain
  <2> QED
    BY <2>1, <2>2 DEF GrowthNext
<1>2. [last.reason = "" /\ last' # last => CarriedAgain]_growthVars
        => [(/\ last.reason = "" /\ last' # last /\ last.carry > 0
             /\ last'.step = last.step /\ budget' >= budget
             /\ LET end == Max(last.blocks[last.carry].turns)
                IN marks \cap (1 .. end) = marks' \cap (1 .. end))
              => SubSeq(last.blocks, 1, last.carry)
                   = SubSeq(last'.blocks, 1, last.carry)]_growthVars
  BY Zenon DEF CarriedAgain
<1> QED
  BY <1>1, <1>2, GrowthInvariant, LayoutInvariant, PTL DEF GrowthSpec, CarryOverRepeats
=============================================================================
