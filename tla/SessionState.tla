---------------------------- MODULE SessionState ----------------------------
(***************************************************************************)
(* What the handler remembers of a session between its requests            *)
(* (sessionStateStore): whether the provider still caches its prefix, and  *)
(* the coarsest grid its history was frozen on.  The store keeps the       *)
(* Capacity sessions used last.                                            *)
(*                                                                         *)
(* An element of Requests is one request of the conversation SessionOf     *)
(* gives it.  It reads the time, takes the store's mutex to note itself,   *)
(* collapses its history outside the mutex, takes it again to record the   *)
(* grid, and much later once more to account its response.  Requests of a  *)
(* session may overlap, and their responses may end in any order.          *)
(***************************************************************************)
EXTENDS Integers, Sequences, FiniteSets

CONSTANTS
  Requests,   \* requests of the Messages API that reach the transform
  Sessions,   \* values of info.FirstUserSha8
  SessionOf,  \* the session of each request
  Capacity,   \* sessionStateCapacity
  Horizon,    \* unknownCacheColdHorizon
  Grid,       \* the steps a history can be frozen on: the base step, doubled
  MaxTime     \* bound on the clock, for model checking only

ASSUME SessionAssumption ==
  /\ SessionOf \in [Requests -> Sessions]
  /\ Capacity \in Nat \ {0}
  /\ Horizon \in Nat
  /\ Grid \in SUBSET (Nat \ {0}) /\ Grid # {}
  /\ MaxTime \in Nat

VARIABLES
  clock,      \* what time.Now returns
  lru,        \* s.lru: the sessions in the store, the one used last in front
  table,      \* s.entries: their records; Fresh for the sessions not in lru
  phase,      \* how far each request is
  stamp,      \* the argument now of noteHistoryRequest
  cold,       \* the answer's cold
  floor,      \* the answer's minFreezeStep
  step,       \* histInfo.freezeStep of the collapse, 0 before it
  whole,      \* that step spans the request's whole history
  recency,    \* history: every session ever touched, the last one in front
  forgotten,  \* history: requests whose recorded grid was evicted
  owed,       \* history: the grids recorded when the request noted itself
  seen,       \* history: stamps noted since the session came into the store
  signal,     \* history: the cold signal of the session that no request consumed
  heard       \* history: what the responses accounted said of the session's cache

storeVars == <<lru, table>>
requestVars == <<phase, stamp, cold, floor, step, whole>>
historyVars == <<recency, forgotten, owed, seen, signal, heard>>
sessionVars == <<clock, storeVars, requestVars, historyVars>>

Never == -1
Fresh == [lastSeen |-> Never, freezeStep |-> 0, cacheDead |-> FALSE,
          cacheObserved |-> FALSE, lastCacheAlive |-> FALSE, everCacheAlive |-> FALSE]

InStore(s) == \E i \in DOMAIN lru : lru[i] = s

SessionInit ==
  /\ clock = 0
  /\ lru = <<>>
  /\ table = [s \in Sessions |-> Fresh]
  /\ phase = [r \in Requests |-> "new"]
  /\ stamp = [r \in Requests |-> 0]
  /\ cold = [r \in Requests |-> FALSE]
  /\ floor = [r \in Requests |-> 0]
  /\ step = [r \in Requests |-> 0]
  /\ whole = [r \in Requests |-> FALSE]
  /\ recency = <<>>
  /\ forgotten = {}
  /\ owed = [r \in Requests |-> {}]
  /\ seen = [s \in Sessions |-> {}]
  /\ signal = [s \in Sessions |-> "none"]
  /\ heard = [s \in Sessions |-> "nothing"]

(* Time passes. *)
SessionTick ==
  /\ clock < MaxTime
  /\ clock' = clock + 1
  /\ UNCHANGED <<storeVars, requestVars, historyVars>>

-----------------------------------------------------------------------------
(* The store. *)

(* The place of s in a list without duplicates, or the one after its end. *)
Place(list, s) ==
  IF \E i \in DOMAIN list : list[i] = s
  THEN CHOOSE i \in DOMAIN list : list[i] = s
  ELSE Len(list) + 1

(* MoveToFront of a session that is in the list, PushFront of one that is not. *)
InFront(list, s) ==
  LET at == Place(list, s)
  IN  [i \in 1 .. (IF at > Len(list) THEN at ELSE Len(list)) |->
         IF i = 1 THEN s ELSE IF i <= at THEN list[i - 1] ELSE list[i]]

(* touchLocked: the session moves or comes to the front, and what is beyond  *)
(* the capacity leaves at the back.                                          *)
Touched(s) ==
  LET list == InFront(lru, s)
  IN  SubSeq(list, 1, IF Len(list) > Capacity THEN Capacity ELSE Len(list))

Evicted(s) ==
  LET list == Touched(s)
  IN  {x \in Sessions : InStore(x) /\ \A i \in DOMAIN list : list[i] # x}

(* One critical section that touches s and leaves rec as its record.  The    *)
(* history follows: what an evicted session meant is forgotten.              *)
Update(s, rec) ==
  LET out == Evicted(s)
  IN  /\ lru' = Touched(s)
      /\ table' = [x \in Sessions |->
                     IF x = s THEN rec ELSE IF x \in out THEN Fresh ELSE table[x]]
      /\ recency' = InFront(recency, s)
      /\ forgotten' = forgotten \cup {q \in Requests : step[q] # 0 /\ SessionOf[q] \in out}

(* Of a history function on sessions, what is left when s is touched. *)
Kept(f, blank, s) ==
  LET out == Evicted(s) IN [x \in Sessions |-> IF x \in out THEN blank ELSE f[x]]

-----------------------------------------------------------------------------
(* The request. *)

(* The request has no room for another image: runHistoryCollapse returns     *)
(* before it looks at the session, but the response is still accounted.      *)
SkipCollapse(r) ==
  /\ phase[r] = "new"
  /\ phase' = [phase EXCEPT ![r] = "sent"]
  /\ UNCHANGED <<clock, storeVars, stamp, cold, floor, step, whole, historyVars>>

(* time.Now() is evaluated before noteHistoryRequest takes s.mu. *)
ReadTime(r) ==
  /\ phase[r] = "new"
  /\ phase' = [phase EXCEPT ![r] = "stamped"]
  /\ stamp' = [stamp EXCEPT ![r] = clock]
  /\ UNCHANGED <<clock, storeVars, cold, floor, step, whole, historyVars>>

BeyondHorizon(rec, now) == rec.lastSeen # Never /\ now - rec.lastSeen > Horizon

(* Mutant: a live cache outweighs a rejection. *)
IsColdUnlessAlive(rec, now) ==
  LET serverSaysAlive == rec.cacheObserved /\ rec.lastCacheAlive
      serverSaysGone == rec.cacheObserved /\ ~rec.lastCacheAlive /\ rec.everCacheAlive
  IN  ~serverSaysAlive /\ (rec.cacheDead \/ serverSaysGone \/ BeyondHorizon(rec, now))

IsCold(rec, now) ==
  LET serverSaysAlive == rec.cacheObserved /\ rec.lastCacheAlive
      serverSaysGone == rec.cacheObserved /\ ~rec.lastCacheAlive /\ rec.everCacheAlive
  IN  \/ rec.cacheDead
      \/ ~serverSaysAlive /\ (serverSaysGone \/ BeyondHorizon(rec, now))

(* Mutant: the request clock may move backwards. *)
NotedAtAnyTime(rec, now) == [rec EXCEPT !.lastSeen = now, !.cacheDead = FALSE]

(* The record after a request was noted. *)
Noted(rec, now) ==
  [rec EXCEPT !.lastSeen = IF now > rec.lastSeen THEN now ELSE rec.lastSeen,
              !.cacheDead = FALSE]

(* noteHistoryRequest.  The signal is consumed here, whatever the collapse   *)
(* comes to afterwards.                                                      *)
Note(r) ==
  LET s == SessionOf[r]
      rec == table[s]
      now == stamp[r]
  IN  /\ phase[r] = "stamped"
      /\ Update(s, Noted(rec, now))
      /\ cold' = [cold EXCEPT ![r] = IsCold(rec, now)]
      /\ floor' = [floor EXCEPT ![r] = rec.freezeStep]
      /\ phase' = [phase EXCEPT ![r] = "collapsing"]
      /\ owed' = [owed EXCEPT ![r] =
                    {step[q] : q \in {p \in Requests : SessionOf[p] = s} \ forgotten}]
      /\ seen' = [Kept(seen, {}, s) EXCEPT ![s] = @ \cup {now}]
      /\ signal' = [Kept(signal, "none", s) EXCEPT ![s] = IF IsCold(rec, now) THEN "none" ELSE @]
      /\ heard' = Kept(heard, "nothing", s)
      /\ stamp' = [stamp EXCEPT ![r] = 0]
      /\ UNCHANGED <<clock, step, whole>>

(* runHistoryCollapse is over: its variables go, here to their first values. *)
LeaveCollapse(r) ==
  /\ phase[r] = "collapsing"
  /\ phase' = [phase EXCEPT ![r] = "sent"]
  /\ cold' = [cold EXCEPT ![r] = FALSE]
  /\ floor' = [floor EXCEPT ![r] = 0]
  /\ owed' = [owed EXCEPT ![r] = {}]

(* The steps collapseHistory can settle on for a history of range messages:  *)
(* doubled from the base step to the floor, then until the pages fit at      *)
(* need, and never once the step spans the whole range.                      *)
Settled(least, range, need) ==
  LET enough == {g \in Grid : g >= range \/ (g >= least /\ g >= need)}
  IN  {g \in enough : \A h \in enough : g <= h}

(* Mutant: the last grid recorded wins. *)
FrozenAsLast(rec, g) == [rec EXCEPT !.freezeStep = g]

(* recordFreezeStep on a record: the floor only rises. *)
Frozen(rec, g) == [rec EXCEPT !.freezeStep = IF g > rec.freezeStep THEN g ELSE rec.freezeStep]

(* The collapse settled on a grid and runHistoryCollapse records it.         *)
(* Packing asks for fewer pages and so for no finer a grid.                  *)
Freeze(r) ==
  LET s == SessionOf[r]
  IN  /\ LeaveCollapse(r)
      /\ \E range, fits, packs \in Grid :
           /\ fits <= packs
           /\ \E g \in Settled(floor[r], range, IF cold[r] THEN packs ELSE fits) :
                /\ step' = [step EXCEPT ![r] = g]
                /\ whole' = [whole EXCEPT ![r] = g >= range]
                /\ Update(s, Frozen(table[s], g))
      /\ seen' = Kept(seen, {}, s)
      /\ signal' = Kept(signal, "none", s)
      /\ heard' = Kept(heard, "nothing", s)
      /\ UNCHANGED <<clock, stamp>>

(* No grid is recorded: the history does not collapse before the grid is     *)
(* computed, or its pages do not fit what is left of the image budget.       *)
Abandon(r) ==
  /\ LeaveCollapse(r)
  /\ UNCHANGED <<clock, storeVars, stamp, step, whole, recency, forgotten, seen, signal, heard>>

-----------------------------------------------------------------------------
(* The response. *)

(* noteCacheOutcome on a record. *)
Observed(rec, alive) ==
  [rec EXCEPT !.cacheObserved = TRUE, !.lastCacheAlive = alive,
              !.everCacheAlive = @ \/ alive]

(* History: what is known of the cache after one more outcome, and the       *)
(* signal it gives: a cache that is gone is one, a live cache takes it back. *)
Heard(s, alive) ==
  IF alive THEN "alive" ELSE IF heard[s] \in {"alive", "gone"} THEN "gone" ELSE "zero"

SignalAfter(s, alive) ==
  IF signal[s] = "rejected" THEN "rejected"
  ELSE IF Heard(s, alive) = "gone" THEN "lost" ELSE "none"

(* Mutant: the accounting does not ask whether the session is still there. *)
OutcomeUnchecked(r) ==
  LET s == SessionOf[r]
  IN  /\ phase[r] = "sent"
      /\ phase' = [phase EXCEPT ![r] = "ended"]
      /\ \E alive \in BOOLEAN : table' = [table EXCEPT ![s] = Observed(@, alive)]
      /\ UNCHANGED <<clock, lru, stamp, cold, floor, step, whole, historyVars>>

(* A 2xx response with usage reached its end: noteCacheOutcome, which leaves *)
(* a session alone that has left the store and does not refresh its place.   *)
Outcome(r) ==
  LET s == SessionOf[r]
  IN  /\ phase[r] = "sent"
      /\ phase' = [phase EXCEPT ![r] = "ended"]
      /\ \E alive \in BOOLEAN :
           IF InStore(s)
           THEN /\ table' = [table EXCEPT ![s] = Observed(@, alive)]
                /\ signal' = [signal EXCEPT ![s] = SignalAfter(s, alive)]
                /\ heard' = [heard EXCEPT ![s] = Heard(s, alive)]
           ELSE UNCHANGED <<table, signal, heard>>
      /\ UNCHANGED <<clock, lru, stamp, cold, floor, step, whole,
                     recency, forgotten, owed, seen>>

(* The provider refused the request for its size: markCacheDead. *)
Rejection(r) ==
  LET s == SessionOf[r]
  IN  /\ phase[r] = "sent"
      /\ phase' = [phase EXCEPT ![r] = "ended"]
      /\ Update(s, [table[s] EXCEPT !.cacheDead = TRUE])
      /\ seen' = Kept(seen, {}, s)
      /\ signal' = [Kept(signal, "none", s) EXCEPT ![s] = "rejected"]
      /\ heard' = Kept(heard, "nothing", s)
      /\ UNCHANGED <<clock, stamp, cold, floor, step, whole, owed>>

(* Nothing is accounted: the body failed or was closed midway, carried no    *)
(* usage, or the request never left pxpipe.                                  *)
Unaccounted(r) ==
  /\ phase[r] = "sent"
  /\ phase' = [phase EXCEPT ![r] = "ended"]
  /\ UNCHANGED <<clock, storeVars, stamp, cold, floor, step, whole, historyVars>>

SessionNext ==
  \/ SessionTick
  \/ \E r \in Requests :
       \/ SkipCollapse(r) \/ ReadTime(r) \/ Note(r) \/ Freeze(r) \/ Abandon(r)
       \/ Outcome(r) \/ Rejection(r) \/ Unaccounted(r)

SessionSpec == SessionInit /\ [][SessionNext]_sessionVars

-----------------------------------------------------------------------------
(* Properties. *)

Record == [lastSeen : Nat \cup {Never}, freezeStep : Grid \cup {0}, cacheDead : BOOLEAN,
           cacheObserved : BOOLEAN, lastCacheAlive : BOOLEAN, everCacheAlive : BOOLEAN]

(* The types of the store, and that only sessions in it have a record. *)
StoreTypeOK ==
  /\ lru \in Seq(Sessions) /\ Len(lru) <= Capacity
  /\ table \in [Sessions -> Record]
  /\ \A s \in Sessions : ~InStore(s) => table[s] = Fresh
  /\ phase \in [Requests -> {"new", "stamped", "collapsing", "sent", "ended"}]
  /\ stamp \in [Requests -> 0 .. clock]
  /\ cold \in [Requests -> BOOLEAN]
  /\ floor \in [Requests -> Grid \cup {0}]
  /\ step \in [Requests -> Grid \cup {0}]
  /\ whole \in [Requests -> BOOLEAN]

(* A request never freezes its history on a finer grid than one recorded for *)
(* its session before it noted itself (a finer one would re-key every chunk  *)
(* already cached), unless its own history is too short for that grid or the *)
(* session left the store in between.                                        *)
GridNeverFiner ==
  [][\A r \in Requests :
       step[r] = 0 /\ step'[r] # 0 =>
         whole'[r] \/ \A g \in owed[r] : step'[r] >= g]_sessionVars

(* The store is what an unbounded list of sessions, the last one used in     *)
(* front, has in its first Capacity places: whatever requests and responses  *)
(* overlap, only the session used longest ago is ever forgotten.             *)
StoreKeepsMostRecent ==
  lru = SubSeq(recency, 1, IF Len(recency) > Capacity THEN Capacity ELSE Len(recency))

(* Whatever evicts whom while requests are under way: the store holds the    *)
(* sessions used last, and a late response brings back no record of another. *)
StoreOK == StoreTypeOK /\ StoreKeepsMostRecent

Gap(s, now) == seen[s] # {} /\ \A t \in seen[s] : now - t > Horizon

(* A request is told that its session is cold (and repacks its history) only *)
(* for a cause: a rejection no request has acted on, a provider whose last   *)
(* word is that the cache is gone, or no request of the session, whenever    *)
(* its goroutine got the mutex, within the horizon.                          *)
ColdHasCause ==
  [][\A r \in Requests :
       phase[r] = "stamped" /\ phase'[r] = "collapsing" /\ cold'[r] =>
         \/ signal[SessionOf[r]] = "rejected"
         \/ heard[SessionOf[r]] = "gone"
         \/ Gap(SessionOf[r], stamp[r])]_sessionVars

(* A rejection or a lost cache reaches the next request of the session, and  *)
(* the response of an overlapping request does not hide a rejection.         *)
SignalReachesNextRequest ==
  [][\A r \in Requests :
       phase[r] = "stamped" /\ phase'[r] = "collapsing" /\ signal[SessionOf[r]] # "none"
         => cold'[r]]_sessionVars

=============================================================================
