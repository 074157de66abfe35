------------------------- MODULE SessionStateProofs -------------------------
(***************************************************************************)
(* Proofs about SessionState, for every number of requests, sessions and   *)
(* places in the store.                                                    *)
(***************************************************************************)
EXTENDS SessionState, TLAPS

(* What a list of sessions becomes when one of them is used. *)
LEMMA InFrontFacts ==
  ASSUME NEW list \in Seq(Sessions), NEW s \in Sessions
  PROVE  /\ InFront(list, s) \in Seq(Sessions)
         /\ Len(InFront(list, s)) >= 1
         /\ InFront(list, s)[1] = s
<1> DEFINE at == Place(list, s)
           n == IF at > Len(list) THEN at ELSE Len(list)
<1>1. Len(list) \in Nat /\ DOMAIN list = 1 .. Len(list)
  OBVIOUS
<1>2. at \in 1 .. (Len(list) + 1)
  BY <1>1 DEF Place
<1>3. n \in Nat /\ n >= 1 /\ n >= Len(list) /\ n <= Len(list) + 1
  BY <1>1, <1>2
<1>4. ASSUME NEW i \in 1 .. n
      PROVE  (IF i = 1 THEN s ELSE IF i <= at THEN list[i - 1] ELSE list[i]) \in Sessions
  <2>1. CASE i = 1
    BY <2>1
  <2>2. CASE i # 1 /\ i <= at
    <3>1. i - 1 \in 1 .. Len(list)
      BY <1>1, <1>2, <2>2
    <3> QED  BY <2>2, <3>1
  <2>3. CASE i # 1 /\ ~(i <= at)
    <3>1. i \in 1 .. Len(list)
      BY <1>1, <1>2, <1>3, <2>3
    <3> QED  BY <2>3, <3>1
  <2> QED  BY <2>1, <2>2, <2>3
<1>5. InFront(list, s) =
        [i \in 1 .. n |-> IF i = 1 THEN s ELSE IF i <= at THEN list[i - 1] ELSE list[i]]
  BY DEF InFront
<1> HIDE DEF at, n
<1>6. InFront(list, s) \in [1 .. n -> Sessions]
  BY <1>4, <1>5
<1>7. InFront(list, s) \in Seq(Sessions)
  BY <1>3, <1>6
<1>8. Len(InFront(list, s)) = n
  BY <1>3, <1>6, <1>7
<1> QED  BY <1>3, <1>5, <1>7, <1>8

(* The session a critical section touches is not the one it evicts. *)
LEMMA TouchedStays ==
  ASSUME lru \in Seq(Sessions), NEW s \in Sessions
  PROVE  Touched(s) \in Seq(Sessions) /\ s \notin Evicted(s)
<1> DEFINE list == InFront(lru, s)
           k == IF Len(list) > Capacity THEN Capacity ELSE Len(list)
<1>1. list \in Seq(Sessions) /\ Len(list) \in Nat /\ Len(list) >= 1 /\ list[1] = s
  BY InFrontFacts
<1>2. k \in Nat /\ k >= 1 /\ k <= Len(list)
  BY <1>1, SessionAssumption
<1>3. Touched(s) = SubSeq(list, 1, k)
  BY DEF Touched
<1> HIDE DEF list, k
<1>4. /\ SubSeq(list, 1, k) \in Seq(Sessions)
      /\ 1 \in DOMAIN SubSeq(list, 1, k)
      /\ SubSeq(list, 1, k)[1] = list[1]
  BY <1>1, <1>2
<1>5. QED
  BY <1>1, <1>3, <1>4 DEF Evicted

-----------------------------------------------------------------------------
(* The inductive invariant: the floor in the store covers every grid         *)
(* recorded and not evicted, and the floor a request was told covers every   *)
(* grid it owes.                                                             *)
AnyRecord == [lastSeen : Nat \cup {Never}, freezeStep : Nat, cacheDead : BOOLEAN,
              cacheObserved : BOOLEAN, lastCacheAlive : BOOLEAN, everCacheAlive : BOOLEAN]

Typed ==
  /\ lru \in Seq(Sessions)
  /\ table \in [Sessions -> AnyRecord]
  /\ clock \in Nat
  /\ phase \in [Requests -> {"new", "stamped", "collapsing", "sent", "ended"}]
  /\ stamp \in [Requests -> Nat]
  /\ floor \in [Requests -> Nat]
  /\ step \in [Requests -> Nat]
  /\ owed \in [Requests -> SUBSET Nat]
  /\ whole \in [Requests -> BOOLEAN]

FloorCoversRecorded ==
  \A q \in Requests : q \notin forgotten => step[q] <= table[SessionOf[q]].freezeStep

FloorCoversOwed ==
  \A r \in Requests : phase[r] = "collapsing" => \A g \in owed[r] : g <= floor[r]

GridInv == Typed /\ FloorCoversRecorded /\ FloorCoversOwed

(* What each operation does to a record. *)
LEMMA RecordFacts ==
  ASSUME NEW old \in AnyRecord
  PROVE  /\ old.freezeStep \in Nat
         /\ \A now \in Nat : /\ Noted(old, now) \in AnyRecord
                            /\ Noted(old, now).freezeStep = old.freezeStep
         /\ \A g \in Nat : /\ Frozen(old, g) \in AnyRecord
                          /\ Frozen(old, g).freezeStep >= old.freezeStep
                          /\ Frozen(old, g).freezeStep >= g
         /\ \A alive \in BOOLEAN : /\ Observed(old, alive) \in AnyRecord
                                  /\ Observed(old, alive).freezeStep = old.freezeStep
         /\ /\ [old EXCEPT !.cacheDead = TRUE] \in AnyRecord
            /\ [old EXCEPT !.cacheDead = TRUE].freezeStep = old.freezeStep
<1>1. ASSUME NEW now \in Nat
      PROVE  /\ Noted(old, now) \in AnyRecord
             /\ Noted(old, now).freezeStep = old.freezeStep
  BY DEF AnyRecord, Noted, Never
<1>2. ASSUME NEW g \in Nat
      PROVE  /\ Frozen(old, g) \in AnyRecord
             /\ Frozen(old, g).freezeStep >= old.freezeStep
             /\ Frozen(old, g).freezeStep >= g
  BY DEF AnyRecord, Frozen
<1>3. ASSUME NEW alive \in BOOLEAN
      PROVE  /\ Observed(old, alive) \in AnyRecord
             /\ Observed(old, alive).freezeStep = old.freezeStep
  BY DEF AnyRecord, Observed
<1>4. /\ [old EXCEPT !.cacheDead = TRUE] \in AnyRecord
      /\ [old EXCEPT !.cacheDead = TRUE].freezeStep = old.freezeStep
  BY DEF AnyRecord
<1>5. old.freezeStep \in Nat
  BY DEF AnyRecord
<1> QED  BY <1>1, <1>2, <1>3, <1>4, <1>5

LEMMA InitGridInv == SessionInit => GridInv
BY SessionAssumption
   DEF SessionInit, GridInv, Typed, FloorCoversRecorded, FloorCoversOwed, Fresh, Never, AnyRecord

(* A critical section that touches s and does not lower its floor keeps the  *)
(* floors above the recorded grids.                                          *)
LEMMA UpdateKeepsFloors ==
  ASSUME Typed, FloorCoversRecorded, NEW s \in Sessions,
         NEW rec \in AnyRecord,
         rec.freezeStep >= table[s].freezeStep, Update(s, rec)
  PROVE  /\ lru' \in Seq(Sessions)
         /\ table' \in [Sessions -> AnyRecord]
         /\ table'[s] = rec
         /\ \A q \in Requests : q \notin forgotten' => step[q] <= table'[SessionOf[q]].freezeStep
<1>1. lru' \in Seq(Sessions) /\ s \notin Evicted(s)
  BY TouchedStays DEF Typed, Update
<1>2. table' = [x \in Sessions |->
                  IF x = s THEN rec ELSE IF x \in Evicted(s) THEN Fresh ELSE table[x]]
  BY DEF Update
<1>3. forgotten' = forgotten \cup
                     {q \in Requests : step[q] # 0 /\ SessionOf[q] \in Evicted(s)}
  BY DEF Update
<1>4. table' \in [Sessions -> AnyRecord]
  BY <1>2 DEF Typed, AnyRecord, Fresh, Never
<1>5. ASSUME NEW q \in Requests, q \notin forgotten'
      PROVE  step[q] <= table'[SessionOf[q]].freezeStep
  <2>1. SessionOf[q] \in Sessions /\ q \notin forgotten
    BY <1>3, <1>5, SessionAssumption
  <2>2. CASE SessionOf[q] = s
    BY <1>2, <2>1, <2>2 DEF Typed, AnyRecord, FloorCoversRecorded
  <2>3. CASE SessionOf[q] # s /\ SessionOf[q] \in Evicted(s)
    <3>1. step[q] = 0
      BY <1>3, <1>5, <2>3
    <3>2. table'[SessionOf[q]].freezeStep = 0
      BY <1>2, <2>1, <2>3 DEF Fresh
    <3> QED  BY <3>1, <3>2
  <2>4. CASE SessionOf[q] # s /\ SessionOf[q] \notin Evicted(s)
    BY <1>2, <2>1, <2>4 DEF FloorCoversRecorded
  <2> QED  BY <2>2, <2>3, <2>4
<1> QED  BY <1>1, <1>2, <1>4, <1>5

-----------------------------------------------------------------------------
(* One lemma per action that touches the store. *)

LEMMA NoteKeepsGridInv ==
  ASSUME GridInv, NEW r \in Requests, Note(r)
  PROVE  GridInv'
<1> DEFINE s == SessionOf[r]
           rec == Noted(table[s], stamp[r])
<1>1. s \in Sessions
  BY SessionAssumption
<1>2. /\ rec \in AnyRecord
      /\ rec.freezeStep = table[s].freezeStep
  BY <1>1, RecordFacts DEF GridInv, Typed
<1>3. Update(s, rec)
  BY DEF Note
<1>4. /\ phase' = [phase EXCEPT ![r] = "collapsing"]
      /\ floor' = [floor EXCEPT ![r] = table[s].freezeStep]
      /\ owed' = [owed EXCEPT ![r] =
                    {step[q] : q \in {p \in Requests : SessionOf[p] = s} \ forgotten}]
      /\ stamp' = [stamp EXCEPT ![r] = 0]
      /\ UNCHANGED <<clock, step, whole>>
  BY DEF Note
<1>5. table[s].freezeStep \in Nat
  BY <1>1 DEF GridInv, Typed, AnyRecord
<1> HIDE DEF rec
<1>6. Typed' /\ FloorCoversRecorded'
  <2>1. table[s].freezeStep <= rec.freezeStep
    BY <1>2, <1>5
  <2>2. /\ lru' \in Seq(Sessions)
        /\ table' \in [Sessions -> AnyRecord]
        /\ \A q \in Requests : q \notin forgotten' => step[q] <= table'[SessionOf[q]].freezeStep
    BY <1>1, <1>2, <1>3, <2>1, UpdateKeepsFloors DEF GridInv
  <2>3. floor' \in [Requests -> Nat] /\ owed' \in [Requests -> SUBSET Nat]
    BY <1>4, <1>5 DEF GridInv, Typed
  <2> QED  BY <1>4, <2>2, <2>3 DEF GridInv, Typed, FloorCoversRecorded
<1>7. ASSUME NEW q \in Requests, phase'[q] = "collapsing", NEW g \in owed'[q]
      PROVE  g <= floor'[q]
  <2>1. CASE q = r
    <3>1. PICK p \in Requests : SessionOf[p] = s /\ p \notin forgotten /\ g = step[p]
      BY <1>4, <1>7, <2>1 DEF GridInv, Typed
    <3> QED  BY <1>4, <2>1, <3>1 DEF GridInv, Typed, FloorCoversRecorded
  <2>2. CASE q # r
    BY <1>4, <1>7, <2>2 DEF GridInv, Typed, FloorCoversOwed
  <2> QED  BY <2>1, <2>2
<1> QED  BY <1>6, <1>7 DEF GridInv, FloorCoversOwed

LEMMA FreezeKeepsGridInv ==
  ASSUME GridInv, NEW r \in Requests, Freeze(r)
  PROVE  GridInv'
<1> DEFINE s == SessionOf[r]
<1>1. s \in Sessions
  BY SessionAssumption
<1>2. PICK range \in Grid, need \in Grid, g \in Grid :
        /\ g \in Settled(floor[r], range, need)
        /\ step' = [step EXCEPT ![r] = g]
        /\ whole' = [whole EXCEPT ![r] = g >= range]
        /\ Update(s, Frozen(table[s], g))
  BY DEF Freeze, Settled
<1>3. g \in Nat /\ range \in Nat
  BY <1>2, SessionAssumption DEF Settled
<1> DEFINE rec == Frozen(table[s], g)
<1>4. /\ rec \in AnyRecord
      /\ rec.freezeStep >= table[s].freezeStep /\ rec.freezeStep >= g
  BY <1>1, <1>3, RecordFacts DEF GridInv, Typed
<1>5. Update(s, rec)
  BY <1>2
<1> HIDE DEF rec
<1>6. /\ lru' \in Seq(Sessions)
      /\ table' \in [Sessions -> AnyRecord]
      /\ table'[s] = rec
      /\ \A q \in Requests : q \notin forgotten' => step[q] <= table'[SessionOf[q]].freezeStep
  BY <1>1, <1>4, <1>5, UpdateKeepsFloors DEF GridInv
<1>7. /\ phase' = [phase EXCEPT ![r] = "sent"]
      /\ floor' = [floor EXCEPT ![r] = 0]
      /\ owed' = [owed EXCEPT ![r] = {}]
      /\ UNCHANGED <<clock, stamp>>
  BY DEF Freeze, LeaveCollapse
<1>8. Typed'
  <2>1. step' \in [Requests -> Nat] /\ whole' \in [Requests -> BOOLEAN]
    BY <1>2, <1>3 DEF GridInv, Typed
  <2> QED  BY <1>6, <1>7, <2>1 DEF GridInv, Typed
<1>9. FloorCoversRecorded'
  <2> SUFFICES ASSUME NEW q \in Requests, q \notin forgotten'
               PROVE  step'[q] <= table'[SessionOf[q]].freezeStep
    BY DEF FloorCoversRecorded
  <2>1. CASE q = r
    BY <1>2, <1>3, <1>4, <1>6, <2>1 DEF GridInv, Typed
  <2>2. CASE q # r
    BY <1>2, <1>6, <2>2 DEF GridInv, Typed
  <2> QED  BY <2>1, <2>2
<1>10. FloorCoversOwed'
  BY <1>7 DEF GridInv, Typed, FloorCoversOwed
<1> QED  BY <1>8, <1>9, <1>10 DEF GridInv

LEMMA RejectionKeepsGridInv ==
  ASSUME GridInv, NEW r \in Requests, Rejection(r)
  PROVE  GridInv'
<1> DEFINE s == SessionOf[r]
           rec == [table[s] EXCEPT !.cacheDead = TRUE]
<1>1. s \in Sessions
  BY SessionAssumption
<1>2. /\ rec \in AnyRecord
      /\ rec.freezeStep >= table[s].freezeStep
  <2>1. table[s] \in AnyRecord
    BY <1>1 DEF GridInv, Typed
  <2> QED  BY <2>1, RecordFacts
<1>3. Update(s, rec)
  BY DEF Rejection
<1> HIDE DEF rec
<1>4. /\ lru' \in Seq(Sessions)
      /\ table' \in [Sessions -> AnyRecord]
      /\ \A q \in Requests : q \notin forgotten' => step[q] <= table'[SessionOf[q]].freezeStep
  BY <1>1, <1>2, <1>3, UpdateKeepsFloors DEF GridInv
<1>5. /\ phase' = [phase EXCEPT ![r] = "ended"]
      /\ UNCHANGED <<clock, stamp, floor, step, whole, owed>>
  BY DEF Rejection
<1>6. Typed' /\ FloorCoversRecorded'
  BY <1>4, <1>5 DEF GridInv, Typed, FloorCoversRecorded
<1>7. FloorCoversOwed'
  BY <1>5 DEF GridInv, Typed, FloorCoversOwed
<1> QED  BY <1>6, <1>7 DEF GridInv

LEMMA OutcomeKeepsGridInv ==
  ASSUME GridInv, NEW r \in Requests, Outcome(r)
  PROVE  GridInv'
<1> DEFINE s == SessionOf[r]
<1>1. s \in Sessions
  BY SessionAssumption
<1>2. /\ phase' = [phase EXCEPT ![r] = "ended"]
      /\ UNCHANGED <<clock, lru, stamp, floor, step, whole, owed, forgotten>>
  BY DEF Outcome
<1>3. /\ table' \in [Sessions -> AnyRecord]
      /\ \A x \in Sessions : table'[x].freezeStep = table[x].freezeStep
  <2>1. CASE table' = table
    BY <2>1 DEF GridInv, Typed
  <2>2. CASE \E alive \in BOOLEAN : table' = [table EXCEPT ![s] = Observed(@, alive)]
    <3>1. PICK alive \in BOOLEAN : table' = [table EXCEPT ![s] = Observed(table[s], alive)]
      BY <2>2
    <3>2. table[s] \in AnyRecord
      BY <1>1 DEF GridInv, Typed
    <3>3. /\ Observed(table[s], alive) \in AnyRecord
          /\ Observed(table[s], alive).freezeStep = table[s].freezeStep
      BY <3>2, RecordFacts
    <3> QED  BY <1>1, <3>1, <3>3 DEF GridInv, Typed
  <2> QED  BY <2>1, <2>2 DEF Outcome
<1>4. FloorCoversRecorded'
  BY <1>2, <1>3, SessionAssumption DEF GridInv, FloorCoversRecorded
<1>5. Typed' /\ FloorCoversOwed'
  BY <1>2, <1>3 DEF GridInv, Typed, FloorCoversOwed
<1> QED  BY <1>4, <1>5 DEF GridInv

LEMMA NextGridInv == GridInv /\ [SessionNext]_sessionVars => GridInv'
<1> SUFFICES ASSUME GridInv, [SessionNext]_sessionVars
             PROVE  GridInv'
  OBVIOUS
<1> USE DEF GridInv, Typed, FloorCoversRecorded, FloorCoversOwed, storeVars, requestVars,
            historyVars
<1>1. CASE SessionTick
  BY <1>1 DEF SessionTick
<1>2. ASSUME NEW r \in Requests, SkipCollapse(r)
      PROVE  GridInv'
  BY <1>2 DEF SkipCollapse
<1>3. ASSUME NEW r \in Requests, ReadTime(r)
      PROVE  GridInv'
  BY <1>3 DEF ReadTime
<1>4. ASSUME NEW r \in Requests, Abandon(r)
      PROVE  GridInv'
  BY <1>4 DEF Abandon, LeaveCollapse
<1>5. ASSUME NEW r \in Requests, Unaccounted(r)
      PROVE  GridInv'
  BY <1>5 DEF Unaccounted
<1>6. CASE UNCHANGED sessionVars
  BY <1>6 DEF sessionVars
<1> QED
  BY <1>1, <1>2, <1>3, <1>4, <1>5, <1>6, NoteKeepsGridInv, FreezeKeepsGridInv,
     RejectionKeepsGridInv, OutcomeKeepsGridInv DEF SessionNext

(* The floors in the store cover the grids recorded, in every reachable state. *)
THEOREM GridInvariant == SessionSpec => []GridInv
BY InitGridInv, NextGridInv, PTL DEF SessionSpec

-----------------------------------------------------------------------------
(* A step is only taken by Freeze. *)
LEMMA FreezeStepCoversOwed ==
  GridInv /\ [SessionNext]_sessionVars =>
    \A r \in Requests :
      step[r] = 0 /\ step'[r] # 0 => whole'[r] \/ \A g \in owed[r] : step'[r] >= g
<1> SUFFICES ASSUME GridInv, [SessionNext]_sessionVars, NEW r \in Requests,
                    step[r] = 0, step'[r] # 0
             PROVE  whole'[r] \/ \A g \in owed[r] : step'[r] >= g
  OBVIOUS
<1>1. ASSUME NEW q \in Requests, Freeze(q)
      PROVE  whole'[r] \/ \A g \in owed[r] : step'[r] >= g
  <2>1. PICK range \in Grid, need \in Grid, g \in Grid :
          /\ g \in Settled(floor[q], range, need)
          /\ step' = [step EXCEPT ![q] = g]
          /\ whole' = [whole EXCEPT ![q] = g >= range]
    BY <1>1 DEF Freeze, Settled
  <2>2. q = r
    BY <2>1 DEF GridInv, Typed
  <2>3. g \in Nat /\ (g >= range \/ g >= floor[r])
    BY <2>1, <2>2, SessionAssumption DEF Settled
  <2>4. phase[r] = "collapsing" /\ \A h \in owed[r] : h \in Nat /\ h <= floor[r]
    BY <1>1, <2>2 DEF Freeze, LeaveCollapse, GridInv, Typed, FloorCoversOwed
  <2>5. step'[r] = g /\ (g >= range => whole'[r])
    BY <2>1, <2>2 DEF GridInv, Typed
  <2>6. floor[r] \in Nat
    BY DEF GridInv, Typed
  <2> QED  BY <2>3, <2>4, <2>5, <2>6
<1>2. ASSUME ~\E q \in Requests : Freeze(q)
      PROVE  step' = step
  BY <1>2 DEF SessionNext, sessionVars, SessionTick, SkipCollapse, ReadTime, Note, Abandon,
              Outcome, Rejection, Unaccounted, requestVars, LeaveCollapse
<1> QED  BY <1>1, <1>2

(* No request freezes its history on a finer grid than one recorded for its  *)
(* session before it noted itself: whatever requests overlap, and whatever   *)
(* was evicted, on every number of sessions.                                 *)
THEOREM GridsNeverFiner == SessionSpec => GridNeverFiner
<1>1. GridInv /\ [SessionNext]_sessionVars =>
        [\A r \in Requests :
           step[r] = 0 /\ step'[r] # 0 =>
             whole'[r] \/ \A g \in owed[r] : step'[r] >= g]_sessionVars
  BY FreezeStepCoversOwed
<1> QED
  BY <1>1, GridInvariant, PTL DEF SessionSpec, GridNeverFiner

-----------------------------------------------------------------------------
(* The store keeps the sessions used last. *)

Distinct(list) == \A i, j \in DOMAIN list : list[i] = list[j] => i = j

(* The first places of a list. *)
FirstOf(list, c) == SubSeq(list, 1, IF Len(list) > c THEN c ELSE Len(list))

LEMMA HeadFacts ==
  ASSUME NEW list \in Seq(Sessions), NEW c \in Nat
  PROVE  /\ FirstOf(list, c) \in Seq(Sessions)
         /\ Len(FirstOf(list, c)) = IF Len(list) > c THEN c ELSE Len(list)
         /\ \A i \in 1 .. Len(FirstOf(list, c)) : FirstOf(list, c)[i] = list[i]
<1> DEFINE n == IF Len(list) > c THEN c ELSE Len(list)
<1>1. n \in Nat /\ n <= Len(list) /\ Len(list) \in Nat
  OBVIOUS
<1> HIDE DEF n
<1>2. /\ SubSeq(list, 1, n) \in Seq(Sessions)
      /\ Len(SubSeq(list, 1, n)) = n
      /\ \A i \in 1 .. n : SubSeq(list, 1, n)[i] = list[i]
  BY <1>1
<1> QED  BY <1>1, <1>2 DEF FirstOf, n

(* The places in a list without duplicates. *)
LEMMA PlaceFacts ==
  ASSUME NEW list \in Seq(Sessions), Distinct(list), NEW s \in Sessions
  PROVE  /\ Place(list, s) \in 1 .. (Len(list) + 1)
         /\ \A i \in 1 .. Len(list) : list[i] = s <=> i = Place(list, s)
<1>1. Len(list) \in Nat /\ DOMAIN list = 1 .. Len(list)
  OBVIOUS
<1>2. CASE \E i \in DOMAIN list : list[i] = s
  <2>1. Place(list, s) \in DOMAIN list /\ list[Place(list, s)] = s
    BY <1>2 DEF Place
  <2> QED  BY <1>1, <2>1 DEF Distinct
<1>3. CASE ~\E i \in DOMAIN list : list[i] = s
  <2>1. Place(list, s) = Len(list) + 1
    BY <1>3 DEF Place
  <2> QED  BY <1>1, <1>3, <2>1
<1> QED  BY <1>2, <1>3

LEMMA InFrontElements ==
  ASSUME NEW list \in Seq(Sessions), Distinct(list), NEW s \in Sessions
  PROVE  LET at == Place(list, s)
         IN  /\ InFront(list, s) \in Seq(Sessions)
             /\ Len(InFront(list, s)) = IF at > Len(list) THEN at ELSE Len(list)
             /\ \A i \in 1 .. Len(InFront(list, s)) :
                  InFront(list, s)[i] =
                    IF i = 1 THEN s ELSE IF i <= at THEN list[i - 1] ELSE list[i]
<1> DEFINE at == Place(list, s)
           n == IF at > Len(list) THEN at ELSE Len(list)
<1>1. InFront(list, s) \in Seq(Sessions)
  BY InFrontFacts
<1>2. Len(list) \in Nat /\ at \in 1 .. (Len(list) + 1)
  BY PlaceFacts
<1>3. n \in Nat
  BY <1>2
<1>4. InFront(list, s) =
        [i \in 1 .. n |-> IF i = 1 THEN s ELSE IF i <= at THEN list[i - 1] ELSE list[i]]
  BY DEF InFront
<1> HIDE DEF at, n
<1>5. DOMAIN InFront(list, s) = 1 .. n
  BY <1>4
<1>6. Len(InFront(list, s)) = n
  BY <1>1, <1>3, <1>5
<1> QED  BY <1>1, <1>4, <1>6 DEF at, n

LEMMA InFrontDistinct ==
  ASSUME NEW list \in Seq(Sessions), Distinct(list), NEW s \in Sessions
  PROVE  Distinct(InFront(list, s))
<1> DEFINE at == Place(list, s)
           moved == InFront(list, s)
<1>1. /\ Len(list) \in Nat /\ DOMAIN list = 1 .. Len(list)
      /\ at \in 1 .. (Len(list) + 1)
      /\ \A i \in 1 .. Len(list) : list[i] = s <=> i = at
  BY PlaceFacts
<1>2. /\ moved \in Seq(Sessions)
      /\ Len(moved) = IF at > Len(list) THEN at ELSE Len(list)
      /\ \A i \in 1 .. Len(moved) :
           moved[i] = IF i = 1 THEN s ELSE IF i <= at THEN list[i - 1] ELSE list[i]
  BY InFrontElements
<1>3. DOMAIN moved = 1 .. Len(moved) /\ Len(moved) \in Nat
  BY <1>2
<1> HIDE DEF at, moved
<1> DEFINE from(i) == IF i <= at THEN i - 1 ELSE i
<1>4. ASSUME NEW i \in 1 .. Len(moved), i # 1
      PROVE  /\ from(i) \in 1 .. Len(list) /\ moved[i] = list[from(i)]
             /\ from(i) # at
  BY <1>1, <1>2, <1>3, <1>4
<1>5. ASSUME NEW i \in 1 .. Len(moved), NEW j \in 1 .. Len(moved), moved[i] = moved[j]
      PROVE  i = j
  <2>1. moved[1] = s
    BY <1>2, <1>3
  <2>2. CASE i = 1 \/ j = 1
    BY <1>1, <1>4, <1>5, <2>1, <2>2
  <2>3. CASE i # 1 /\ j # 1
    <3>1. from(i) = from(j)
      BY <1>1, <1>4, <1>5, <2>3 DEF Distinct
    <3>2. from(i) # at /\ from(j) # at
      BY <1>4, <2>3
    <3> QED  BY <1>1, <1>3, <3>1, <3>2
  <2> QED  BY <2>2, <2>3
<1> QED  BY <1>3, <1>5 DEF Distinct, moved

(* Cutting a list off and moving s to its front may be done in either order. *)
LEMMA HeadOfInFront ==
  ASSUME NEW list \in Seq(Sessions), Distinct(list), NEW s \in Sessions,
         NEW c \in Nat \ {0}
  PROVE  FirstOf(InFront(FirstOf(list, c), s), c) = FirstOf(InFront(list, s), c)
<1> DEFINE short == FirstOf(list, c)
           at == Place(list, s)
           shortAt == Place(short, s)
           left == InFront(short, s)
           right == InFront(list, s)
<1>1. /\ short \in Seq(Sessions)
      /\ Len(short) = IF Len(list) > c THEN c ELSE Len(list)
      /\ \A i \in 1 .. Len(short) : short[i] = list[i]
  BY HeadFacts
<1>2. Len(list) \in Nat /\ Len(short) \in Nat /\ Len(short) <= Len(list)
  BY <1>1
<1>3. DOMAIN list = 1 .. Len(list) /\ DOMAIN short = 1 .. Len(short)
  BY <1>1
<1> HIDE DEF short
<1>4. Distinct(short)
  BY <1>1, <1>2, <1>3 DEF Distinct
<1>5. /\ at \in 1 .. (Len(list) + 1)
      /\ \A i \in 1 .. Len(list) : list[i] = s <=> i = at
  BY PlaceFacts
<1>6. /\ shortAt \in 1 .. (Len(short) + 1)
      /\ \A i \in 1 .. Len(short) : short[i] = s <=> i = shortAt
  BY <1>1, <1>4, PlaceFacts
<1> HIDE DEF at, shortAt
<1>7. shortAt = IF at > Len(short) THEN Len(short) + 1 ELSE at
  BY <1>1, <1>2, <1>5, <1>6
<1>8. /\ left \in Seq(Sessions)
      /\ Len(left) = IF shortAt > Len(short) THEN shortAt ELSE Len(short)
      /\ \A i \in 1 .. Len(left) :
           left[i] = IF i = 1 THEN s ELSE IF i <= shortAt THEN short[i - 1] ELSE short[i]
  BY <1>1, <1>4, InFrontElements DEF shortAt
<1>9. /\ right \in Seq(Sessions)
      /\ Len(right) = IF at > Len(list) THEN at ELSE Len(list)
      /\ \A i \in 1 .. Len(right) :
           right[i] = IF i = 1 THEN s ELSE IF i <= at THEN list[i - 1] ELSE list[i]
  BY InFrontElements DEF at
<1> HIDE DEF left, right
<1>10. /\ FirstOf(left, c) \in Seq(Sessions)
       /\ Len(FirstOf(left, c)) = IF Len(left) > c THEN c ELSE Len(left)
       /\ \A i \in 1 .. Len(FirstOf(left, c)) : FirstOf(left, c)[i] = left[i]
  BY <1>8, HeadFacts
<1>11. /\ FirstOf(right, c) \in Seq(Sessions)
       /\ Len(FirstOf(right, c)) = IF Len(right) > c THEN c ELSE Len(right)
       /\ \A i \in 1 .. Len(FirstOf(right, c)) : FirstOf(right, c)[i] = right[i]
  BY <1>9, HeadFacts
<1>12. Len(left) \in Nat /\ Len(right) \in Nat
  BY <1>8, <1>9
<1>13. Len(FirstOf(left, c)) = Len(FirstOf(right, c))
  BY <1>1, <1>2, <1>5, <1>7, <1>8, <1>9, <1>10, <1>11, <1>12
<1>14. ASSUME NEW i \in 1 .. Len(FirstOf(left, c))
       PROVE  FirstOf(left, c)[i] = FirstOf(right, c)[i]
  <2>1. i \in 1 .. Len(left) /\ i \in 1 .. Len(right) /\ i <= c
    BY <1>10, <1>11, <1>12, <1>13
  <2>2. FirstOf(left, c)[i] = left[i] /\ FirstOf(right, c)[i] = right[i]
    BY <1>10, <1>11, <1>13
  <2>3. CASE i = 1
    BY <1>8, <1>9, <2>1, <2>2, <2>3
  <2>4. CASE i # 1 /\ i <= shortAt
    <3>1. i <= at /\ i - 1 \in 1 .. Len(short)
      BY <1>2, <1>5, <1>6, <1>7, <2>1, <2>4
    <3> QED  BY <1>1, <1>8, <1>9, <2>1, <2>2, <2>4, <3>1
  <2>5. CASE i # 1 /\ i > shortAt
    <3>1. i > at /\ i \in 1 .. Len(short)
      BY <1>1, <1>2, <1>5, <1>6, <1>7, <1>8, <2>1, <2>5
    <3>2. ~(i <= at) /\ ~(i <= shortAt)
      BY <1>5, <1>6, <2>1, <2>5, <3>1
    <3> QED  BY <1>1, <1>8, <1>9, <2>1, <2>2, <2>5, <3>1, <3>2
  <2> QED  BY <1>6, <2>1, <2>3, <2>4, <2>5
<1>15. FirstOf(left, c) = FirstOf(right, c)
  BY <1>10, <1>11, <1>13, <1>14
<1> QED  BY <1>15 DEF left, right, short

RecencyInv ==
  /\ recency \in Seq(Sessions) /\ Distinct(recency)
  /\ lru = FirstOf(recency, Capacity)

LEMMA UpdateKeepsRecency ==
  ASSUME RecencyInv, NEW s \in Sessions, NEW rec, Update(s, rec)
  PROVE  RecencyInv'
<1>1. recency' = InFront(recency, s) /\ lru' = Touched(s)
  BY DEF Update
<1>2. recency' \in Seq(Sessions) /\ Distinct(recency')
  BY <1>1, InFrontFacts, InFrontDistinct DEF RecencyInv
<1>3. Touched(s) = FirstOf(InFront(lru, s), Capacity)
  BY DEF Touched, FirstOf
<1>4. lru' = FirstOf(recency', Capacity)
  BY <1>1, <1>3, HeadOfInFront, SessionAssumption DEF RecencyInv
<1> QED  BY <1>2, <1>4 DEF RecencyInv

LEMMA NextRecencyInv == RecencyInv /\ [SessionNext]_sessionVars => RecencyInv'
<1> SUFFICES ASSUME RecencyInv, [SessionNext]_sessionVars
             PROVE  RecencyInv'
  OBVIOUS
<1>1. ASSUME NEW r \in Requests, Note(r) \/ Freeze(r) \/ Rejection(r)
      PROVE  RecencyInv'
  <2>1. SessionOf[r] \in Sessions
    BY SessionAssumption
  <2>2. \E rec : Update(SessionOf[r], rec)
    BY <1>1 DEF Note, Freeze, Rejection
  <2> QED  BY <2>1, <2>2, UpdateKeepsRecency
<1>2. CASE UNCHANGED <<lru, recency>>
  BY <1>2 DEF RecencyInv
<1>3. ASSUME ~\E r \in Requests : Note(r) \/ Freeze(r) \/ Rejection(r)
      PROVE  UNCHANGED <<lru, recency>>
  BY <1>3 DEF SessionNext, sessionVars, SessionTick, SkipCollapse, ReadTime, Abandon, Outcome,
              Unaccounted, storeVars, historyVars
<1> QED  BY <1>1, <1>2, <1>3

LEMMA InitRecencyInv == SessionInit => RecencyInv
<1> SUFFICES ASSUME SessionInit
             PROVE  RecencyInv
  OBVIOUS
<1>1. recency = <<>> /\ lru = <<>> /\ Capacity \in Nat
  BY SessionAssumption DEF SessionInit
<1>2. <<>> \in Seq(Sessions) /\ Len(<<>>) = 0 /\ Distinct(<<>>)
  BY DEF Distinct
<1>3. FirstOf(<<>>, Capacity) = <<>>
  BY <1>1, <1>2 DEF FirstOf
<1> QED  BY <1>1, <1>2, <1>3 DEF RecencyInv

(* Whatever the interleaving, the store is the head of the list of all       *)
(* sessions by last use: only the one used longest ago is ever evicted.      *)
THEOREM StoreIsMostRecent == SessionSpec => []StoreKeepsMostRecent
<1>1. RecencyInv => StoreKeepsMostRecent
  BY DEF RecencyInv, StoreKeepsMostRecent, FirstOf
<1> QED
  BY <1>1, InitRecencyInv, NextRecencyInv, PTL DEF SessionSpec

-----------------------------------------------------------------------------
(* Types, and that only sessions in the store have a record.                 *)

LEMMA FreshIsRecord == Fresh \in Record
BY DEF Fresh, Record, Never

(* What each operation does to the type of a record. *)
LEMMA RecordTypes ==
  ASSUME NEW old \in Record
  PROVE  /\ old.freezeStep \in Grid \cup {0}
         /\ \A now \in Nat : Noted(old, now) \in Record
         /\ \A g \in Grid : Frozen(old, g) \in Record
         /\ \A alive \in BOOLEAN : Observed(old, alive) \in Record
         /\ [old EXCEPT !.cacheDead = TRUE] \in Record
<1>1. \A now \in Nat : Noted(old, now) \in Record
  BY DEF Record, Noted, Never
<1>2. \A g \in Grid : Frozen(old, g) \in Record
  BY DEF Record, Frozen
<1>3. \A alive \in BOOLEAN : Observed(old, alive) \in Record
  BY DEF Record, Observed
<1>4. [old EXCEPT !.cacheDead = TRUE] \in Record /\ old.freezeStep \in Grid \cup {0}
  BY DEF Record
<1>5. QED
  BY <1>1, <1>2, <1>3, <1>4

(* A critical section keeps the store within its capacity and forgets the    *)
(* record of the session it evicts.                                          *)
LEMMA UpdateKeepsStore ==
  ASSUME StoreTypeOK, NEW s \in Sessions, NEW rec \in Record, Update(s, rec)
  PROVE  /\ lru' \in Seq(Sessions) /\ Len(lru') <= Capacity
         /\ table' \in [Sessions -> Record]
         /\ \A x \in Sessions : ~InStore(x)' => table'[x] = Fresh
<1>1. lru' = FirstOf(InFront(lru, s), Capacity) /\ lru' = Touched(s)
  BY DEF Update, Touched, FirstOf
<1>2. lru \in Seq(Sessions)
  BY DEF StoreTypeOK
<1> DEFINE list == InFront(lru, s)
<1>3. list \in Seq(Sessions) /\ Len(list) \in Nat /\ Len(list) >= 1 /\ list[1] = s
  BY <1>2, InFrontFacts
<1>4. Capacity \in Nat /\ Capacity >= 1
  BY SessionAssumption
<1> HIDE DEF list
<1>5. /\ FirstOf(list, Capacity) \in Seq(Sessions)
      /\ Len(FirstOf(list, Capacity)) = IF Len(list) > Capacity THEN Capacity ELSE Len(list)
      /\ \A i \in 1 .. Len(FirstOf(list, Capacity)) : FirstOf(list, Capacity)[i] = list[i]
  BY <1>3, <1>4, HeadFacts
<1>6. lru' = FirstOf(list, Capacity)
  BY <1>1 DEF list
<1>7. lru' \in Seq(Sessions) /\ Len(lru') <= Capacity
  BY <1>3, <1>4, <1>5, <1>6
<1>8. s \notin Evicted(s) /\ Touched(s) \in Seq(Sessions)
  BY <1>2, TouchedStays
<1>9. table' = [x \in Sessions |->
                  IF x = s THEN rec ELSE IF x \in Evicted(s) THEN Fresh ELSE table[x]]
  BY DEF Update
<1>10. table' \in [Sessions -> Record]
  BY <1>9, FreshIsRecord DEF StoreTypeOK
<1>11. InStore(s)'
  <2>1. Len(lru') >= 1 /\ lru'[1] = s
    BY <1>3, <1>4, <1>5, <1>6
  <2>2. QED
    BY <1>7, <2>1 DEF InStore
<1>12. ASSUME NEW x \in Sessions, ~InStore(x)'
      PROVE  table'[x] = Fresh
  <2>1. x # s
    BY <1>11, <1>12
  <2>2. CASE InStore(x)
    <3>1. x \in Evicted(s)
      BY <1>1, <1>12, <2>2 DEF Evicted, InStore
    <3>2. QED
      BY <1>9, <2>1, <3>1
  <2>3. CASE ~InStore(x)
    BY <1>9, <2>1, <2>3 DEF StoreTypeOK
  <2>4. QED
    BY <2>2, <2>3
<1>13. QED
  BY <1>7, <1>10, <1>12

LEMMA NoteKeepsTypes ==
  ASSUME StoreTypeOK, clock \in Nat, NEW r \in Requests, Note(r)
  PROVE  StoreTypeOK'
<1> DEFINE s == SessionOf[r]
           old == table[s]
           rec == Noted(old, stamp[r])
<1>1. s \in Sessions /\ stamp[r] \in Nat /\ old \in Record
  BY SessionAssumption DEF StoreTypeOK
<1>2. rec \in Record /\ old.freezeStep \in Grid \cup {0}
  BY <1>1, RecordTypes
<1>3. Update(s, rec)
  BY DEF Note
<1>4. /\ lru' \in Seq(Sessions) /\ Len(lru') <= Capacity
      /\ table' \in [Sessions -> Record]
      /\ \A x \in Sessions : ~InStore(x)' => table'[x] = Fresh
  BY <1>1, <1>2, <1>3, UpdateKeepsStore
<1>5. /\ cold' = [cold EXCEPT ![r] = IsCold(old, stamp[r])]
      /\ floor' = [floor EXCEPT ![r] = old.freezeStep]
      /\ phase' = [phase EXCEPT ![r] = "collapsing"]
      /\ stamp' = [stamp EXCEPT ![r] = 0]
      /\ UNCHANGED <<clock, step, whole>>
  BY DEF Note
<1>6. IsCold(old, stamp[r]) \in BOOLEAN
  BY DEF IsCold
<1> HIDE DEF s, old, rec
<1>7. cold' \in [Requests -> BOOLEAN]
  BY <1>5, <1>6 DEF StoreTypeOK
<1>8. floor' \in [Requests -> Grid \cup {0}] /\ stamp' \in [Requests -> 0 .. clock']
  BY <1>2, <1>5 DEF StoreTypeOK
<1>9. QED
  BY <1>4, <1>5, <1>7, <1>8 DEF StoreTypeOK

LEMMA FreezeKeepsTypes ==
  ASSUME StoreTypeOK, clock \in Nat, NEW r \in Requests, Freeze(r)
  PROVE  StoreTypeOK'
<1> DEFINE s == SessionOf[r]
<1>1. s \in Sessions /\ table[s] \in Record
  BY SessionAssumption DEF StoreTypeOK
<1>2. PICK range \in Grid, g \in Grid :
        /\ step' = [step EXCEPT ![r] = g]
        /\ whole' = [whole EXCEPT ![r] = g >= range]
        /\ Update(s, Frozen(table[s], g))
  BY DEF Freeze, Settled
<1>3. Frozen(table[s], g) \in Record
  BY <1>1, RecordTypes
<1>4. /\ lru' \in Seq(Sessions) /\ Len(lru') <= Capacity
      /\ table' \in [Sessions -> Record]
      /\ \A x \in Sessions : ~InStore(x)' => table'[x] = Fresh
  BY <1>1, <1>2, <1>3, UpdateKeepsStore
<1>5. /\ phase' = [phase EXCEPT ![r] = "sent"]
      /\ cold' = [cold EXCEPT ![r] = FALSE]
      /\ floor' = [floor EXCEPT ![r] = 0]
      /\ UNCHANGED <<clock, stamp>>
  BY DEF Freeze, LeaveCollapse
<1>6. whole' \in [Requests -> BOOLEAN] /\ cold' \in [Requests -> BOOLEAN]
  BY <1>2, <1>5 DEF StoreTypeOK
<1>7. /\ step' \in [Requests -> Grid \cup {0}] /\ floor' \in [Requests -> Grid \cup {0}]
      /\ stamp' \in [Requests -> 0 .. clock']
  BY <1>2, <1>5 DEF StoreTypeOK
<1>8. QED
  BY <1>4, <1>5, <1>6, <1>7 DEF StoreTypeOK

LEMMA ResponseKeepsTypes ==
  ASSUME StoreTypeOK, clock \in Nat, NEW r \in Requests, Rejection(r) \/ Outcome(r)
  PROVE  StoreTypeOK'
<1> DEFINE s == SessionOf[r]
<1>1. s \in Sessions /\ table[s] \in Record
  BY SessionAssumption DEF StoreTypeOK
<1>2. /\ phase' = [phase EXCEPT ![r] = "ended"]
      /\ UNCHANGED <<clock, stamp, cold, floor, step, whole>>
  BY DEF Rejection, Outcome
<1>3. /\ lru' \in Seq(Sessions) /\ Len(lru') <= Capacity
      /\ table' \in [Sessions -> Record]
      /\ \A x \in Sessions : ~InStore(x)' => table'[x] = Fresh
  <2>1. CASE Rejection(r)
    BY <1>1, <2>1, RecordTypes, UpdateKeepsStore DEF Rejection
  <2>2. CASE Outcome(r) /\ InStore(s)
    <3>1. PICK alive \in BOOLEAN : table' = [table EXCEPT ![s] = Observed(table[s], alive)]
      BY <2>2 DEF Outcome
    <3>2. Observed(table[s], alive) \in Record
      BY <1>1, RecordTypes
    <3>3. UNCHANGED lru
      BY <2>2 DEF Outcome
    <3>4. QED
      BY <1>1, <2>2, <3>1, <3>2, <3>3 DEF StoreTypeOK, InStore
  <2>3. CASE Outcome(r) /\ ~InStore(s)
    BY <2>3 DEF Outcome, StoreTypeOK, InStore
  <2>4. QED
    BY <2>1, <2>2, <2>3
<1>4. QED
  BY <1>2, <1>3 DEF StoreTypeOK

LEMMA QuietKeepsTypes ==
  ASSUME StoreTypeOK, clock \in Nat,
         \/ SessionTick \/ UNCHANGED sessionVars
         \/ \E r \in Requests : SkipCollapse(r) \/ ReadTime(r) \/ Abandon(r) \/ Unaccounted(r)
  PROVE  StoreTypeOK'
<1>1. UNCHANGED <<lru, table, step, whole>> /\ clock' \in Nat /\ clock <= clock'
  BY DEF SessionTick, sessionVars, SkipCollapse, ReadTime, Abandon, LeaveCollapse, Unaccounted,
         storeVars, requestVars
<1>2. phase' \in [Requests -> {"new", "stamped", "collapsing", "sent", "ended"}]
  BY DEF StoreTypeOK, SessionTick, sessionVars, SkipCollapse, ReadTime, Abandon, LeaveCollapse,
         Unaccounted, requestVars
<1>3. stamp' \in [Requests -> 0 .. clock']
  <2>1. \A q \in Requests : stamp[q] \in 0 .. clock
    BY DEF StoreTypeOK
  <2>2. stamp' = stamp \/ \E r \in Requests : stamp' = [stamp EXCEPT ![r] = clock]
    BY DEF SessionTick, sessionVars, SkipCollapse, ReadTime, Abandon, LeaveCollapse,
           Unaccounted, requestVars
  <2>3. \A q \in Requests : stamp'[q] \in 0 .. clock'
    <3> SUFFICES ASSUME NEW q \in Requests
                 PROVE  stamp'[q] \in 0 .. clock'
      OBVIOUS
    <3>1. stamp'[q] = stamp[q] \/ stamp'[q] = clock
      BY <2>2 DEF StoreTypeOK
    <3>2. stamp'[q] \in Nat /\ stamp'[q] <= clock
      BY <2>1, <3>1
    <3>3. QED
      BY <1>1, <3>2
  <2>4. DOMAIN stamp' = Requests /\ stamp' = [q \in Requests |-> stamp'[q]]
    BY <2>2 DEF StoreTypeOK
  <2>5. QED
    BY <2>3, <2>4
<1>4. cold' \in [Requests -> BOOLEAN]
  BY DEF StoreTypeOK, SessionTick, sessionVars, SkipCollapse, ReadTime, Abandon, LeaveCollapse,
         Unaccounted, requestVars
<1>5. floor' \in [Requests -> Grid \cup {0}]
  BY DEF StoreTypeOK, SessionTick, sessionVars, SkipCollapse, ReadTime, Abandon, LeaveCollapse,
         Unaccounted, requestVars
<1>6. QED
  BY <1>1, <1>2, <1>3, <1>4, <1>5 DEF StoreTypeOK, InStore

LEMMA InitTypes == SessionInit => StoreTypeOK /\ clock \in Nat
<1> SUFFICES ASSUME SessionInit PROVE StoreTypeOK /\ clock \in Nat
  OBVIOUS
<1>1. lru \in Seq(Sessions) /\ Len(lru) <= Capacity /\ clock \in Nat
  BY SessionAssumption DEF SessionInit
<1>2. table \in [Sessions -> Record] /\ \A s \in Sessions : table[s] = Fresh
  BY FreshIsRecord DEF SessionInit
<1>3. cold \in [Requests -> BOOLEAN] /\ whole \in [Requests -> BOOLEAN]
  BY DEF SessionInit
<1>4. QED
  BY <1>1, <1>2, <1>3 DEF SessionInit, StoreTypeOK

(* The types of the store and of the requests; what is not in the store has  *)
(* no record, whatever responses come late; the store is never over its      *)
(* capacity; and no request works with a time from the future.               *)
THEOREM StoreTypes == SessionSpec => []StoreTypeOK
<1>1. StoreTypeOK /\ GridInv /\ [SessionNext]_sessionVars => StoreTypeOK'
  BY NoteKeepsTypes, FreezeKeepsTypes, ResponseKeepsTypes, QuietKeepsTypes
  DEF SessionNext, GridInv, Typed
<1>2. QED
  BY <1>1, InitTypes, GridInvariant, PTL DEF SessionSpec

(* Both together: for any capacity and any number of sessions the store has  *)
(* the sessions used last, each with its own record, and nothing of others.  *)
THEOREM StoreHolds == SessionSpec => []StoreOK
<1>1. StoreTypeOK /\ StoreKeepsMostRecent => StoreOK
  BY DEF StoreOK
<1>2. QED
  BY <1>1, StoreTypes, StoreIsMostRecent, PTL

-----------------------------------------------------------------------------
(* What a record says of the cache against what was noted, heard and         *)
(* signalled since the session came into the store: the six fields the code  *)
(* keeps are enough, whatever requests overlap.                              *)
Matches(rec, times, sig, said) ==
  /\ sig \in {"none", "lost", "rejected"}
  /\ said \in {"nothing", "alive", "gone", "zero"}
  /\ times \subseteq Nat
  /\ \A t \in times : t <= rec.lastSeen
  /\ times = {} <=> rec.lastSeen = Never
  /\ rec.cacheDead <=> sig = "rejected"
  /\ sig = "lost" => said = "gone"
  /\ rec.cacheObserved <=> said # "nothing"
  /\ rec.lastCacheAlive <=> said = "alive"
  /\ rec.everCacheAlive <=> said \in {"alive", "gone"}

RecordsMatch == \A s \in Sessions : Matches(table[s], seen[s], signal[s], heard[s])

HistoryTyped ==
  /\ DOMAIN seen = Sessions /\ DOMAIN signal = Sessions /\ DOMAIN heard = Sessions

CauseInv == HistoryTyped /\ RecordsMatch

LEMMA FreshMatches == Matches(Fresh, {}, "none", "nothing")
BY DEF Matches, Fresh, Never

(* The answer cold is for a cause, and for every cause there is.             *)
LEMMA ColdIsCause ==
  ASSUME NEW rec \in AnyRecord, NEW now \in Nat, NEW times, NEW sig, NEW said,
         Matches(rec, times, sig, said)
  PROVE  /\ IsCold(rec, now) =>
              \/ sig = "rejected" \/ said = "gone"
              \/ times # {} /\ \A t \in times : now - t > Horizon
         /\ sig # "none" => IsCold(rec, now)
<1>1. sig # "none" => IsCold(rec, now)
  BY DEF Matches, IsCold
<1>2. ASSUME IsCold(rec, now), sig # "rejected", said # "gone"
      PROVE  times # {} /\ \A t \in times : now - t > Horizon
  <2>1. BeyondHorizon(rec, now)
    BY <1>2 DEF IsCold, Matches
  <2>2. rec.lastSeen # Never /\ now - rec.lastSeen > Horizon /\ rec.lastSeen \in Nat
    BY <2>1 DEF BeyondHorizon, AnyRecord
  <2>3. times # {}
    BY <2>2 DEF Matches
  <2>4. ASSUME NEW t \in times
        PROVE  now - t > Horizon
    <3>1. t \in Nat /\ t <= rec.lastSeen
      BY DEF Matches
    <3>2. QED
      BY <2>2, <3>1, SessionAssumption
  <2>5. QED
    BY <2>3, <2>4
<1>3. QED
  BY <1>1, <1>2

LEMMA NotedMatches ==
  ASSUME NEW rec \in AnyRecord, NEW now \in Nat, NEW times, NEW sig, NEW said,
         Matches(rec, times, sig, said)
  PROVE  Matches(Noted(rec, now), times \cup {now},
                 IF IsCold(rec, now) THEN "none" ELSE sig, said)
<1> DEFINE new == Noted(rec, now)
<1>1. /\ new.lastSeen = IF now > rec.lastSeen THEN now ELSE rec.lastSeen
      /\ new.cacheDead = FALSE
      /\ new.cacheObserved = rec.cacheObserved
      /\ new.lastCacheAlive = rec.lastCacheAlive
      /\ new.everCacheAlive = rec.everCacheAlive
  BY DEF Noted, AnyRecord
<1>2. rec.lastSeen \in Nat \cup {Never} /\ times \subseteq Nat /\ \A t \in times : t <= rec.lastSeen
  BY DEF AnyRecord, Matches
<1>3. /\ new.lastSeen # Never
      /\ \A t \in times \cup {now} : t \in Nat /\ t <= new.lastSeen
  <2>1. new.lastSeen \in Nat /\ now <= new.lastSeen /\ rec.lastSeen <= new.lastSeen
    BY <1>1, <1>2 DEF Never
  <2>2. new.lastSeen # Never
    BY <2>1 DEF Never
  <2>3. ASSUME NEW t \in times
        PROVE  t \in Nat /\ t <= new.lastSeen
    BY <1>2, <2>1 DEF Never
  <2>4. QED
    BY <2>1, <2>2, <2>3
<1>4. IsCold(rec, now) \/ sig = "none"
  BY ColdIsCause
<1> HIDE DEF new
<1>5. Matches(new, times \cup {now}, "none", said)
  BY <1>1, <1>3 DEF Matches
<1>6. QED
  BY <1>4, <1>5 DEF new

LEMMA FrozenMatches ==
  ASSUME NEW rec \in AnyRecord, NEW g \in Nat, NEW times, NEW sig, NEW said,
         Matches(rec, times, sig, said)
  PROVE  Matches(Frozen(rec, g), times, sig, said)
BY DEF Matches, Frozen, AnyRecord

LEMMA RejectedMatches ==
  ASSUME NEW rec \in AnyRecord, NEW times, NEW sig, NEW said,
         Matches(rec, times, sig, said)
  PROVE  Matches([rec EXCEPT !.cacheDead = TRUE], times, "rejected", said)
BY DEF Matches, AnyRecord

(* One more response: the record and the history agree on what it means.     *)
LEMMA ObservedMatches ==
  ASSUME CauseInv, NEW s \in Sessions, table[s] \in AnyRecord, NEW alive \in BOOLEAN
  PROVE  Matches(Observed(table[s], alive), seen[s], SignalAfter(s, alive), Heard(s, alive))
<1> DEFINE rec == table[s]
           new == Observed(rec, alive)
<1>1. Matches(rec, seen[s], signal[s], heard[s])
  BY DEF CauseInv, RecordsMatch
<1>2. /\ new.lastSeen = rec.lastSeen /\ new.cacheDead = rec.cacheDead
      /\ new.cacheObserved = TRUE /\ new.lastCacheAlive = alive
  BY DEF Observed, AnyRecord
<1>3. CASE alive = TRUE
  <2>1. new.everCacheAlive = TRUE
    BY <1>3 DEF Observed, AnyRecord
  <2>2. /\ Heard(s, alive) = "alive"
        /\ SignalAfter(s, alive) = IF signal[s] = "rejected" THEN "rejected" ELSE "none"
    BY <1>3 DEF Heard, SignalAfter
  <2> HIDE DEF rec, new
  <2>3. Matches(new, seen[s], SignalAfter(s, alive), Heard(s, alive))
    BY <1>1, <1>2, <1>3, <2>1, <2>2 DEF Matches
  <2>4. QED
    BY <2>3 DEF new, rec
<1>4. CASE alive = FALSE
  <2>1. new.everCacheAlive = rec.everCacheAlive
    BY <1>4 DEF Observed, AnyRecord
  <2>2. Heard(s, alive) = IF heard[s] \in {"alive", "gone"} THEN "gone" ELSE "zero"
    BY <1>4 DEF Heard
  <2>3. SignalAfter(s, alive) = IF signal[s] = "rejected" THEN "rejected"
                                ELSE IF heard[s] \in {"alive", "gone"} THEN "lost" ELSE "none"
    BY <2>2 DEF SignalAfter
  <2> HIDE DEF rec, new
  <2>4. Matches(new, seen[s], SignalAfter(s, alive), Heard(s, alive))
    BY <1>1, <1>2, <1>4, <2>1, <2>2, <2>3 DEF Matches
  <2>5. QED
    BY <2>4 DEF new, rec
<1>5. QED
  BY <1>3, <1>4

(* One critical section that touches s: what is evicted is forgotten in the  *)
(* record and in the history alike, and the others are left alone.           *)
LEMMA UpdateMatches ==
  ASSUME CauseInv, lru \in Seq(Sessions), NEW s \in Sessions, NEW rec, Update(s, rec),
         NEW times, NEW sig, NEW said, Matches(rec, times, sig, said),
         NEW x \in Sessions
  PROVE  Matches(table'[x],
                 [Kept(seen, {}, s) EXCEPT ![s] = times][x],
                 [Kept(signal, "none", s) EXCEPT ![s] = sig][x],
                 [Kept(heard, "nothing", s) EXCEPT ![s] = said][x])
<1>1. s \notin Evicted(s)
  BY TouchedStays
<1>2. table' = [y \in Sessions |->
                  IF y = s THEN rec ELSE IF y \in Evicted(s) THEN Fresh ELSE table[y]]
  BY DEF Update
<1>3. CASE x = s
  BY <1>2, <1>3 DEF Kept
<1>4. CASE x # s /\ x \in Evicted(s)
  BY <1>2, <1>4, FreshMatches DEF Kept
<1>5. CASE x # s /\ x \notin Evicted(s)
  BY <1>2, <1>5 DEF Kept, CauseInv, RecordsMatch
<1>6. QED
  BY <1>3, <1>4, <1>5

LEMMA NoteKeepsCauses ==
  ASSUME CauseInv, Typed, NEW r \in Requests, Note(r)
  PROVE  CauseInv'
<1> DEFINE s == SessionOf[r]
           now == stamp[r]
           rec == table[s]
           sig == IF IsCold(rec, now) THEN "none" ELSE signal[s]
<1>1. s \in Sessions /\ rec \in AnyRecord /\ now \in Nat /\ lru \in Seq(Sessions)
  BY SessionAssumption DEF Typed
<1>2. Matches(rec, seen[s], signal[s], heard[s])
  BY <1>1 DEF CauseInv, RecordsMatch
<1>3. Matches(Noted(rec, now), seen[s] \cup {now}, sig, heard[s])
  BY <1>1, <1>2, NotedMatches
<1>4. s \notin Evicted(s)
  BY <1>1, TouchedStays
<1>5. Update(s, Noted(rec, now))
  BY DEF Note
<1>6. /\ Kept(seen, {}, s)[s] = seen[s] /\ Kept(signal, "none", s)[s] = signal[s]
      /\ Kept(heard, "nothing", s)[s] = heard[s]
  BY <1>1, <1>4 DEF Kept
<1>7. /\ seen' = [Kept(seen, {}, s) EXCEPT ![s] = seen[s] \cup {now}]
      /\ signal' = [Kept(signal, "none", s) EXCEPT ![s] = sig]
      /\ heard' = Kept(heard, "nothing", s)
  BY <1>6 DEF Note
<1>8. heard' = [Kept(heard, "nothing", s) EXCEPT ![s] = heard[s]]
  BY <1>6, <1>7 DEF Kept
<1> HIDE DEF s, now, rec, sig
<1>9. RecordsMatch'
  BY <1>1, <1>3, <1>5, <1>7, <1>8, UpdateMatches DEF RecordsMatch
<1>10. HistoryTyped'
  BY <1>7 DEF HistoryTyped, Kept
<1>11. QED
  BY <1>9, <1>10 DEF CauseInv

LEMMA FreezeKeepsCauses ==
  ASSUME CauseInv, Typed, NEW r \in Requests, Freeze(r)
  PROVE  CauseInv'
<1> DEFINE s == SessionOf[r]
<1>1. s \in Sessions /\ table[s] \in AnyRecord /\ lru \in Seq(Sessions)
  BY SessionAssumption DEF Typed
<1>2. PICK g \in Grid : Update(s, Frozen(table[s], g))
  BY DEF Freeze, Settled
<1>3. g \in Nat
  BY SessionAssumption
<1>4. Matches(Frozen(table[s], g), seen[s], signal[s], heard[s])
  BY <1>1, <1>3, FrozenMatches DEF CauseInv, RecordsMatch
<1>5. s \notin Evicted(s)
  BY <1>1, TouchedStays
<1>6. /\ seen' = Kept(seen, {}, s) /\ signal' = Kept(signal, "none", s)
      /\ heard' = Kept(heard, "nothing", s)
  BY DEF Freeze
<1>7. /\ seen' = [Kept(seen, {}, s) EXCEPT ![s] = seen[s]]
      /\ signal' = [Kept(signal, "none", s) EXCEPT ![s] = signal[s]]
      /\ heard' = [Kept(heard, "nothing", s) EXCEPT ![s] = heard[s]]
  BY <1>1, <1>5, <1>6 DEF Kept
<1>8. RecordsMatch'
  BY <1>1, <1>2, <1>4, <1>7, UpdateMatches DEF RecordsMatch
<1>9. QED
  BY <1>6, <1>8 DEF CauseInv, HistoryTyped, Kept

LEMMA RejectionKeepsCauses ==
  ASSUME CauseInv, Typed, NEW r \in Requests, Rejection(r)
  PROVE  CauseInv'
<1> DEFINE s == SessionOf[r]
           rec == [table[s] EXCEPT !.cacheDead = TRUE]
<1>1. s \in Sessions /\ table[s] \in AnyRecord /\ lru \in Seq(Sessions)
  BY SessionAssumption DEF Typed
<1>2. Matches(rec, seen[s], "rejected", heard[s])
  BY <1>1, RejectedMatches DEF CauseInv, RecordsMatch
<1>3. s \notin Evicted(s)
  BY <1>1, TouchedStays
<1>4. /\ Update(s, rec)
      /\ seen' = Kept(seen, {}, s)
      /\ signal' = [Kept(signal, "none", s) EXCEPT ![s] = "rejected"]
      /\ heard' = Kept(heard, "nothing", s)
  BY DEF Rejection
<1>5. /\ seen' = [Kept(seen, {}, s) EXCEPT ![s] = seen[s]]
      /\ heard' = [Kept(heard, "nothing", s) EXCEPT ![s] = heard[s]]
  BY <1>1, <1>3, <1>4 DEF Kept
<1> HIDE DEF rec
<1>6. RecordsMatch'
  BY <1>1, <1>2, <1>4, <1>5, UpdateMatches DEF RecordsMatch
<1>7. QED
  BY <1>4, <1>6 DEF CauseInv, HistoryTyped, Kept

LEMMA OutcomeKeepsCauses ==
  ASSUME CauseInv, Typed, NEW r \in Requests, Outcome(r)
  PROVE  CauseInv'
<1> DEFINE s == SessionOf[r]
<1>1. s \in Sessions /\ table[s] \in AnyRecord
  BY SessionAssumption DEF Typed
<1>2. UNCHANGED seen
  BY DEF Outcome
<1>3. CASE InStore(s)
  <2>1. PICK alive \in BOOLEAN :
          /\ table' = [table EXCEPT ![s] = Observed(table[s], alive)]
          /\ signal' = [signal EXCEPT ![s] = SignalAfter(s, alive)]
          /\ heard' = [heard EXCEPT ![s] = Heard(s, alive)]
    BY <1>3 DEF Outcome
  <2>2. Matches(Observed(table[s], alive), seen[s], SignalAfter(s, alive), Heard(s, alive))
    BY <1>1, ObservedMatches
  <2>3. QED
    BY <1>1, <1>2, <2>1, <2>2 DEF CauseInv, RecordsMatch, HistoryTyped, Typed
<1>4. CASE ~InStore(s)
  BY <1>2, <1>4 DEF Outcome, CauseInv, RecordsMatch, HistoryTyped
<1>5. QED
  BY <1>3, <1>4

LEMMA QuietKeepsCauses ==
  ASSUME CauseInv,
         \/ SessionTick \/ UNCHANGED sessionVars
         \/ \E r \in Requests : SkipCollapse(r) \/ ReadTime(r) \/ Abandon(r) \/ Unaccounted(r)
  PROVE  CauseInv'
<1>1. UNCHANGED <<table, seen, signal, heard>>
  BY DEF SessionTick, sessionVars, SkipCollapse, ReadTime, Abandon, LeaveCollapse, Unaccounted,
         storeVars, historyVars
<1>2. QED
  BY <1>1 DEF CauseInv, RecordsMatch, HistoryTyped

LEMMA InitCauses == SessionInit => CauseInv
BY FreshMatches DEF SessionInit, CauseInv, RecordsMatch, HistoryTyped

THEOREM CauseInvariant == SessionSpec => [](GridInv /\ CauseInv)
<1>1. GridInv /\ CauseInv /\ [SessionNext]_sessionVars => CauseInv'
  BY NoteKeepsCauses, FreezeKeepsCauses, RejectionKeepsCauses, OutcomeKeepsCauses,
     QuietKeepsCauses DEF SessionNext, GridInv
<1>2. QED
  BY <1>1, InitCauses, GridInvariant, PTL DEF SessionSpec

(* Only Note answers whether a session is cold. *)
LEMMA NotedOnlyByNote ==
  ASSUME Typed, [SessionNext]_sessionVars, NEW r \in Requests,
         phase[r] = "stamped", phase'[r] = "collapsing"
  PROVE  Note(r)
<1>1. PICK q \in Requests :
        \/ SkipCollapse(q) \/ ReadTime(q) \/ Note(q) \/ Freeze(q) \/ Abandon(q)
        \/ Outcome(q) \/ Rejection(q) \/ Unaccounted(q)
  BY DEF SessionNext, SessionTick, sessionVars, requestVars
<1>2. q = r
  BY <1>1 DEF Typed, SkipCollapse, ReadTime, Note, Freeze, Abandon, LeaveCollapse, Outcome,
              Rejection, Unaccounted
<1>3. QED
  BY <1>1, <1>2 DEF Typed, SkipCollapse, ReadTime, Freeze, Abandon, LeaveCollapse, Outcome,
                    Rejection, Unaccounted

LEMMA AnswerStep ==
  ASSUME GridInv, CauseInv, DOMAIN cold = Requests, [SessionNext]_sessionVars,
         NEW r \in Requests, phase[r] = "stamped", phase'[r] = "collapsing"
  PROVE  /\ cold'[r] => \/ signal[SessionOf[r]] = "rejected"
                        \/ heard[SessionOf[r]] = "gone"
                        \/ Gap(SessionOf[r], stamp[r])
         /\ signal[SessionOf[r]] # "none" => cold'[r]
<1> DEFINE s == SessionOf[r]
<1>1. Note(r)
  BY NotedOnlyByNote DEF GridInv
<1>2. s \in Sessions /\ table[s] \in AnyRecord /\ stamp[r] \in Nat
  BY SessionAssumption DEF GridInv, Typed
<1>3. cold'[r] = IsCold(table[s], stamp[r])
  BY <1>1 DEF Note
<1>4. Matches(table[s], seen[s], signal[s], heard[s])
  BY <1>2 DEF CauseInv, RecordsMatch
<1>5. QED
  BY <1>2, <1>3, <1>4, ColdIsCause DEF Gap

(* A request repacks its history only for a cause, whatever requests of the  *)
(* session overlap and however late the one that read the time first gets    *)
(* the mutex.                                                                *)
THEOREM ColdForCause == SessionSpec => ColdHasCause
<1>1. GridInv /\ CauseInv /\ StoreTypeOK /\ [SessionNext]_sessionVars =>
        [\A r \in Requests :
           phase[r] = "stamped" /\ phase'[r] = "collapsing" /\ cold'[r] =>
             \/ signal[SessionOf[r]] = "rejected"
             \/ heard[SessionOf[r]] = "gone"
             \/ Gap(SessionOf[r], stamp[r])]_sessionVars
  BY AnswerStep DEF StoreTypeOK
<1>2. QED
  BY <1>1, CauseInvariant, StoreTypes, PTL DEF SessionSpec, ColdHasCause

(* A rejection or a lost cache is told to the next request of the session:   *)
(* no response of an overlapping request hides it, nor a live cache a        *)
(* rejection.                                                                *)
THEOREM SignalsArrive == SessionSpec => SignalReachesNextRequest
<1>1. GridInv /\ CauseInv /\ StoreTypeOK /\ [SessionNext]_sessionVars =>
        [\A r \in Requests :
           phase[r] = "stamped" /\ phase'[r] = "collapsing" /\ signal[SessionOf[r]] # "none"
             => cold'[r]]_sessionVars
  BY AnswerStep DEF StoreTypeOK
<1>2. QED
  BY <1>1, CauseInvariant, StoreTypes, PTL DEF SessionSpec, SignalReachesNextRequest
=============================================================================
