-------------------------- MODULE ReliabilityProofs --------------------------
(***************************************************************************)
(* Proofs about the reliability transport, for any number of requests and  *)
(* keys, any hold and any budgets: first of its hold table, then of one    *)
(* exchange, and last of the two together.  What is proved of the table    *)
(* and of the exchange rests on the assumptions of their own modules only; *)
(* that they have the same requests is used in the last part alone.        *)
(***************************************************************************)
EXTENDS ReliabilityTransport, TLAPS

-----------------------------------------------------------------------------
(***************************************************************************)
(* Proofs about the duplicate hold, for any number of requests and keys    *)
(* and any hold.  The two statements one wants, that a young hold is kept  *)
(* and that identical requests exclude each other within the hold, are not *)
(* inductive: they need that the table only holds entries of running       *)
(* requests, that leases are never reused, and that no request works with  *)
(* a time from the future.                                                 *)
(***************************************************************************)

(* Running requests that have a key; theirs are the leases in the table. *)
Holding(r) == phase[r] = "held" /\ Keyed(r)

(* Leases are handed out once: no two running requests share one. *)
LeasesUnique ==
  /\ \A r \in Requests : Holding(r) => lease[r] \in 1 .. nextLease
  /\ \A q, r \in Requests : Holding(q) /\ Holding(r) /\ lease[q] = lease[r] => q = r

(* Times are read before they are used. *)
StampsPast == \A r \in Requests : stamp[r] <= clock

(* Only requests with a key read the clock. *)
StampedKeyed == \A r \in Requests : phase[r] = "stamped" => Keyed(r)

HoldInv ==
  /\ HoldTypeOK
  /\ LeasesUnique
  /\ StampsPast
  /\ StampedKeyed
  /\ NoOrphanEntry
  /\ YoungHoldKept
  /\ HoldExclusion

(* A key is a key: KeyOf of a request that has one is in Keys. *)
LEMMA KeyedInKeys ==
  ASSUME NEW r \in Requests, Keyed(r)
  PROVE  KeyOf[r] \in Keys
BY HoldAssumption DEF Keyed

(* The sweep drops entries or leaves them as they are. *)
LEMMA SweptSubset ==
  ASSUME HoldTypeOK, NEW now \in Nat
  PROVE  /\ Swept(now) \in [Keys -> Entry]
         /\ \A k \in Keys : Swept(now)[k] \in {inFlight[k], NoEntry}
<1>1. NoEntry \in Entry
  BY DEF NoEntry, Entry
<1>2. QED
  BY <1>1 DEF Swept, HoldTypeOK

(* The entry of a young running request is its own, and no sweep drops it,   *)
(* however old the time the sweep works with.                                *)
LEMMA YoungSurvivesSweep ==
  ASSUME HoldInv, NEW now \in Nat, now <= clock,
         NEW q \in Requests, Holding(q), clock - stamp[q] < Hold
  PROVE  Swept(now)[KeyOf[q]] = [lease |-> lease[q], startedAt |-> stamp[q]]
<1> DEFINE k == KeyOf[q]
<1>1. k \in Keys
  BY KeyedInKeys DEF Holding
<1>2. inFlight[k].lease = lease[q] /\ lease[q] \in 1 .. nextLease
  BY DEF HoldInv, YoungHoldKept, LeasesUnique, Holding
<1>3. Present(inFlight, k)
  BY <1>2 DEF Present, NoEntry, HoldInv, HoldTypeOK
<1>4. PICK p \in Requests :
        /\ phase[p] = "held" /\ KeyOf[p] = k
        /\ inFlight[k] = [lease |-> lease[p], startedAt |-> stamp[p]]
  BY <1>1, <1>3 DEF HoldInv, NoOrphanEntry
<1>5. Holding(p) /\ lease[p] = lease[q]
  BY <1>2, <1>4 DEF Holding, Keyed
<1>6. p = q
  BY <1>5 DEF HoldInv, LeasesUnique
<1>7. ~(now - inFlight[k].startedAt >= Hold)
  BY <1>4, <1>6, HoldAssumption DEF HoldInv, HoldTypeOK
<1>8. QED
  BY <1>1, <1>4, <1>6, <1>7 DEF Swept

(* A request that is let through finds every identical one at least Hold old. *)
LEMMA AdmittedAfterHold ==
  ASSUME HoldInv, NEW r \in Requests, Admit(r),
         NEW q \in Requests, Holding(q), KeyOf[q] = KeyOf[r]
  PROVE  clock - stamp[q] >= Hold
<1>1. SUFFICES ASSUME clock - stamp[q] < Hold
               PROVE  FALSE
  BY HoldAssumption DEF HoldInv, HoldTypeOK
<1>2. stamp[r] \in Nat /\ stamp[r] <= clock
  BY DEF HoldInv, HoldTypeOK, StampsPast
<1>3. Swept(stamp[r])[KeyOf[r]] = [lease |-> lease[q], startedAt |-> stamp[q]]
  BY <1>1, <1>2, YoungSurvivesSweep
<1>4. lease[q] \in 1 .. nextLease
  BY DEF HoldInv, LeasesUnique
<1>5. Present(Swept(stamp[r]), KeyOf[r])
  BY <1>3, <1>4 DEF Present, NoEntry, HoldInv, HoldTypeOK
<1>6. stamp[r] - stamp[q] < Hold
  BY <1>1, <1>2, HoldAssumption DEF HoldInv, HoldTypeOK
<1>7. Blocks(Swept(stamp[r]), KeyOf[r], stamp[r])
  BY <1>3, <1>5, <1>6 DEF Blocks
<1>8. QED
  BY <1>7 DEF Admit

-----------------------------------------------------------------------------

LEMMA InitHoldInv == HoldInit => HoldInv
<1> SUFFICES ASSUME HoldInit PROVE HoldInv
  OBVIOUS
<1>1. HoldTypeOK
  BY DEF HoldInit, HoldTypeOK, Entry, NoEntry
<1>2. LeasesUnique /\ StampsPast /\ StampedKeyed /\ NoOrphanEntry /\ YoungHoldKept
      /\ HoldExclusion
  BY DEF HoldInit, LeasesUnique, Holding, StampsPast, StampedKeyed, NoOrphanEntry, Present,
         YoungHoldKept, HoldExclusion
<1>3. QED
  BY <1>1, <1>2 DEF HoldInv

(* Type correctness is preserved by every step. *)
LEMMA TypeStep == HoldInv /\ [HoldNext]_holdVars => HoldTypeOK'
<1> SUFFICES ASSUME HoldInv, [HoldNext]_holdVars PROVE HoldTypeOK'
  OBVIOUS
<1> USE DEF HoldTypeOK
<1>1. HoldTypeOK
  BY DEF HoldInv
<1>2. CASE HoldTick
  BY <1>1, <1>2 DEF HoldTick
<1>3. ASSUME NEW r \in Requests, AcquireUnkeyed(r) \/ ReadClock(r)
      PROVE  HoldTypeOK'
  BY <1>1, <1>3 DEF AcquireUnkeyed, ReadClock
<1>4. ASSUME NEW r \in Requests, Refuse(r) \/ Admit(r)
      PROVE  HoldTypeOK'
  <2>1. stamp[r] \in Nat
    BY <1>1
  <2>2. Swept(stamp[r]) \in [Keys -> Entry] /\ SweepMark(stamp[r]) \in Nat \cup {Never}
    BY <1>1, <2>1, SweptSubset DEF SweepMark
  <2>3. nextLease + 1 \in Nat /\ [lease |-> nextLease + 1, startedAt |-> stamp[r]] \in Entry
    BY <1>1, <2>1 DEF Entry
  <2>4. CASE Refuse(r)
    BY <1>1, <2>2, <2>4 DEF Refuse
  <2>5. CASE Admit(r)
    BY <1>1, <2>2, <2>3, <2>5 DEF Admit
  <2>6. QED
    BY <1>4, <2>4, <2>5
<1>5. ASSUME NEW r \in Requests, Release(r)
      PROVE  HoldTypeOK'
  <2>1. NoEntry \in Entry
    BY DEF NoEntry, Entry
  <2>2. Freed(r) \in [Keys -> Entry]
    BY <1>1, <2>1 DEF Freed
  <2>3. QED
    BY <1>1, <1>5, <2>2 DEF Release
<1>6. CASE UNCHANGED holdVars
  BY <1>1, <1>6 DEF holdVars
<1>7. QED
  BY <1>2, <1>3, <1>4, <1>5, <1>6 DEF HoldNext

(* Leases, times and keys of running requests stay in order. *)
LEMMA OrderStep ==
  HoldInv /\ [HoldNext]_holdVars => LeasesUnique' /\ StampsPast' /\ StampedKeyed'
<1> SUFFICES ASSUME HoldInv, [HoldNext]_holdVars
             PROVE  LeasesUnique' /\ StampsPast' /\ StampedKeyed'
  OBVIOUS
<1>1. HoldTypeOK /\ LeasesUnique /\ StampsPast /\ StampedKeyed
  BY DEF HoldInv
<1> USE DEF HoldTypeOK, LeasesUnique, StampsPast, StampedKeyed, Holding, Keyed
<1>2. CASE HoldTick
  BY <1>1, <1>2 DEF HoldTick
<1>3. ASSUME NEW r \in Requests, AcquireUnkeyed(r)
      PROVE  LeasesUnique' /\ StampsPast' /\ StampedKeyed'
  BY <1>1, <1>3 DEF AcquireUnkeyed
<1>4. ASSUME NEW r \in Requests, ReadClock(r)
      PROVE  LeasesUnique' /\ StampsPast' /\ StampedKeyed'
  BY <1>1, <1>4 DEF ReadClock
<1>5. ASSUME NEW r \in Requests, Refuse(r)
      PROVE  LeasesUnique' /\ StampsPast' /\ StampedKeyed'
  BY <1>1, <1>5 DEF Refuse
<1>6. ASSUME NEW r \in Requests, Admit(r)
      PROVE  LeasesUnique' /\ StampsPast' /\ StampedKeyed'
  BY <1>1, <1>6 DEF Admit
<1>7. ASSUME NEW r \in Requests, Release(r)
      PROVE  LeasesUnique' /\ StampsPast' /\ StampedKeyed'
  BY <1>1, <1>7 DEF Release
<1>8. CASE UNCHANGED holdVars
  BY <1>1, <1>8 DEF holdVars
<1>9. QED
  BY <1>2, <1>3, <1>4, <1>5, <1>6, <1>7, <1>8 DEF HoldNext

(* The entry of a key is that of a running request, after every step. *)
LEMMA OrphanStep == HoldInv /\ [HoldNext]_holdVars => NoOrphanEntry'
<1> SUFFICES ASSUME HoldInv, [HoldNext]_holdVars, NEW k \in Keys, Present(inFlight', k)
             PROVE  \E q \in Requests :
                      /\ phase'[q] = "held" /\ KeyOf[q] = k
                      /\ inFlight'[k] = [lease |-> lease'[q], startedAt |-> stamp'[q]]
  BY DEF NoOrphanEntry, Present
<1> USE DEF HoldTypeOK
<1>1. HoldTypeOK /\ NoOrphanEntry
  BY DEF HoldInv
<1>2. CASE HoldTick \/ UNCHANGED holdVars
  BY <1>1, <1>2 DEF HoldTick, holdVars, NoOrphanEntry, Present
<1>3. ASSUME NEW r \in Requests, AcquireUnkeyed(r) \/ ReadClock(r), inFlight' = inFlight
      PROVE  \E q \in Requests :
               /\ phase'[q] = "held" /\ KeyOf[q] = k
               /\ inFlight'[k] = [lease |-> lease'[q], startedAt |-> stamp'[q]]
  <2>1. PICK q \in Requests :
          /\ phase[q] = "held" /\ KeyOf[q] = k
          /\ inFlight[k] = [lease |-> lease[q], startedAt |-> stamp[q]]
    BY <1>1, <1>3 DEF NoOrphanEntry, Present
  <2>2. q # r
    BY <1>3, <2>1 DEF AcquireUnkeyed, ReadClock
  <2>3. phase'[q] = phase[q] /\ lease'[q] = lease[q] /\ stamp'[q] = stamp[q]
    BY <1>1, <1>3, <2>2 DEF AcquireUnkeyed, ReadClock
  <2>4. QED
    BY <1>3, <2>1, <2>3
<1>4. ASSUME NEW r \in Requests, Refuse(r) \/ Admit(r), inFlight'[k] = Swept(stamp[r])[k]
      PROVE  \E q \in Requests :
               /\ phase'[q] = "held" /\ KeyOf[q] = k
               /\ inFlight'[k] = [lease |-> lease'[q], startedAt |-> stamp'[q]]
  <2>1. inFlight'[k] = inFlight[k] /\ Present(inFlight, k)
    BY <1>1, <1>4, SweptSubset DEF Present
  <2>2. PICK q \in Requests :
          /\ phase[q] = "held" /\ KeyOf[q] = k
          /\ inFlight[k] = [lease |-> lease[q], startedAt |-> stamp[q]]
    BY <1>1, <2>1 DEF NoOrphanEntry
  <2>3. q # r
    BY <1>4, <2>2 DEF Refuse, Admit
  <2>4. phase'[q] = phase[q] /\ lease'[q] = lease[q] /\ stamp'[q] = stamp[q]
    BY <1>1, <1>4, <2>3 DEF Refuse, Admit
  <2>5. QED
    BY <2>1, <2>2, <2>4
<1>5. ASSUME NEW r \in Requests, Admit(r), KeyOf[r] = k
      PROVE  \E q \in Requests :
               /\ phase'[q] = "held" /\ KeyOf[q] = k
               /\ inFlight'[k] = [lease |-> lease'[q], startedAt |-> stamp'[q]]
  <2>1. Swept(stamp[r]) \in [Keys -> Entry]
    BY <1>1, SweptSubset
  <2>2. inFlight'[k] = [lease |-> lease'[r], startedAt |-> stamp'[r]] /\ phase'[r] = "held"
    BY <1>1, <1>5, <2>1 DEF Admit
  <2>3. QED
    BY <1>5, <2>2
<1>6. ASSUME NEW r \in Requests, Release(r)
      PROVE  \E q \in Requests :
               /\ phase'[q] = "held" /\ KeyOf[q] = k
               /\ inFlight'[k] = [lease |-> lease'[q], startedAt |-> stamp'[q]]
  <2>1. inFlight'[k] = inFlight[k] /\ Present(inFlight, k)
    BY <1>1, <1>6 DEF Release, Freed, Present
  <2>2. PICK q \in Requests :
          /\ phase[q] = "held" /\ KeyOf[q] = k
          /\ inFlight[k] = [lease |-> lease[q], startedAt |-> stamp[q]]
    BY <1>1, <2>1 DEF NoOrphanEntry
  <2>3. q # r
    <3>1. SUFFICES ASSUME q = r PROVE FALSE
      OBVIOUS
    <3>2. Keyed(r) /\ inFlight[k].lease = lease[r]
      BY <2>2, <3>1, HoldAssumption DEF Keyed
    <3>3. inFlight'[k] = NoEntry
      BY <1>1, <1>6, <2>2, <3>1, <3>2 DEF Release, Freed
    <3>4. QED
      BY <3>3 DEF Present
  <2>4. phase'[q] = phase[q] /\ lease'[q] = lease[q] /\ stamp'[q] = stamp[q]
    BY <1>1, <1>6, <2>3 DEF Release
  <2>5. QED
    BY <2>1, <2>2, <2>4
<1>7. ASSUME NEW r \in Requests, Admit(r), KeyOf[r] # k
      PROVE  inFlight'[k] = Swept(stamp[r])[k]
  BY <1>1, <1>7, SweptSubset DEF Admit
<1>8. QED
  BY <1>2, <1>3, <1>4, <1>5, <1>6, <1>7
  DEF HoldNext, AcquireUnkeyed, ReadClock, Refuse

(* A young hold survives every step. *)
LEMMA YoungStep == HoldInv /\ [HoldNext]_holdVars => YoungHoldKept'
<1> SUFFICES ASSUME HoldInv, [HoldNext]_holdVars,
                    NEW q \in Requests, phase'[q] = "held", Keyed(q),
                    clock' - stamp'[q] < Hold
             PROVE  inFlight'[KeyOf[q]].lease = lease'[q]
  BY DEF YoungHoldKept, Keyed
<1> USE DEF HoldTypeOK
<1>1. HoldTypeOK /\ LeasesUnique /\ StampsPast /\ YoungHoldKept /\ KeyOf[q] \in Keys
  BY KeyedInKeys DEF HoldInv
<1>2. CASE HoldTick \/ UNCHANGED holdVars
  BY <1>1, <1>2, HoldAssumption DEF HoldTick, holdVars, YoungHoldKept
<1>3. ASSUME NEW r \in Requests, AcquireUnkeyed(r) \/ ReadClock(r)
      PROVE  inFlight'[KeyOf[q]].lease = lease'[q]
  <2>1. q # r
    BY <1>1, <1>3 DEF AcquireUnkeyed, ReadClock
  <2>2. QED
    BY <1>1, <1>3, <2>1 DEF AcquireUnkeyed, ReadClock, YoungHoldKept
<1>4. ASSUME NEW r \in Requests, Refuse(r) \/ Admit(r), q # r
      PROVE  inFlight'[KeyOf[q]].lease = lease'[q]
  <2>1. Holding(q) /\ lease'[q] = lease[q] /\ clock - stamp[q] < Hold
    BY <1>1, <1>4 DEF Refuse, Admit, Holding
  <2>2. stamp[r] \in Nat /\ stamp[r] <= clock
    BY <1>1 DEF StampsPast
  <2>3. Swept(stamp[r])[KeyOf[q]] = [lease |-> lease[q], startedAt |-> stamp[q]]
    BY <2>1, <2>2, YoungSurvivesSweep
  <2>4. CASE Refuse(r)
    BY <2>1, <2>3, <2>4 DEF Refuse
  <2>5. CASE Admit(r)
    <3>1. KeyOf[q] # KeyOf[r]
      BY <1>1, <2>1, <2>5, AdmittedAfterHold, HoldAssumption
    <3>2. inFlight'[KeyOf[q]] = Swept(stamp[r])[KeyOf[q]]
      BY <1>1, <2>5, <3>1, SweptSubset DEF Admit
    <3>3. QED
      BY <2>1, <2>3, <3>2
  <2>6. QED
    BY <1>4, <2>4, <2>5
<1>5. ASSUME Refuse(q)
      PROVE  inFlight'[KeyOf[q]].lease = lease'[q]
  BY <1>1, <1>5 DEF Refuse
<1>6. ASSUME Admit(q)
      PROVE  inFlight'[KeyOf[q]].lease = lease'[q]
  <2>1. Swept(stamp[q]) \in [Keys -> Entry]
    BY <1>1, SweptSubset
  <2>2. QED
    BY <1>1, <1>6, <2>1 DEF Admit
<1>7. ASSUME NEW r \in Requests, Release(r)
      PROVE  inFlight'[KeyOf[q]].lease = lease'[q]
  <2>1. q # r
    BY <1>1, <1>7 DEF Release
  <2>2. Holding(q) /\ inFlight[KeyOf[q]].lease = lease[q] /\ lease'[q] = lease[q]
    BY <1>1, <1>7, <2>1 DEF Release, YoungHoldKept, Holding
  <2>3. CASE ~Keyed(r)
    BY <1>7, <2>2, <2>3 DEF Release
  <2>4. CASE Keyed(r) /\ KeyOf[r] # KeyOf[q]
    BY <1>1, <1>7, <2>2, <2>4 DEF Release, Freed
  <2>5. CASE Keyed(r) /\ KeyOf[r] = KeyOf[q]
    <3>1. lease[r] # lease[q]
      BY <1>1, <1>7, <2>1, <2>2, <2>5 DEF LeasesUnique, Holding, Release
    <3>2. QED
      BY <1>7, <2>2, <2>5, <3>1 DEF Release, Freed
  <2>6. QED
    BY <2>3, <2>4, <2>5
<1>8. QED
  BY <1>2, <1>3, <1>4, <1>5, <1>6, <1>7 DEF HoldNext

(* Identical requests exclude each other within the hold, after every step. *)
LEMMA ExclusionStep == HoldInv /\ [HoldNext]_holdVars => HoldExclusion'
<1> SUFFICES ASSUME HoldInv, [HoldNext]_holdVars,
                    NEW p \in Requests, NEW q \in Requests,
                    phase'[p] = "held", phase'[q] = "held",
                    Keyed(p), KeyOf[p] = KeyOf[q], lease'[p] < lease'[q]
             PROVE  admittedAt'[q] - stamp'[p] >= Hold
  BY DEF HoldExclusion, Keyed
<1> USE DEF HoldTypeOK
<1>1. HoldTypeOK /\ LeasesUnique /\ HoldExclusion /\ Keyed(q)
  BY DEF HoldInv, Keyed
<1>2. CASE HoldTick \/ UNCHANGED holdVars
  BY <1>1, <1>2 DEF HoldTick, holdVars, HoldExclusion
<1>3. ASSUME NEW r \in Requests, AcquireUnkeyed(r) \/ ReadClock(r) \/ Refuse(r) \/ Release(r)
      PROVE  admittedAt'[q] - stamp'[p] >= Hold
  <2>1. p # r /\ q # r
    BY <1>1, <1>3 DEF AcquireUnkeyed, ReadClock, Refuse, Release
  <2>2. QED
    BY <1>1, <1>3, <2>1 DEF AcquireUnkeyed, ReadClock, Refuse, Release, HoldExclusion
<1>4. ASSUME NEW r \in Requests, Admit(r), r # p, r # q
      PROVE  admittedAt'[q] - stamp'[p] >= Hold
  BY <1>1, <1>4 DEF Admit, HoldExclusion
<1>5. ASSUME Admit(q), p # q
      PROVE  admittedAt'[q] - stamp'[p] >= Hold
  <2>1. Holding(p) /\ stamp'[p] = stamp[p] /\ admittedAt'[q] = clock
    BY <1>1, <1>5 DEF Admit, Holding
  <2>2. QED
    BY <1>5, <2>1, AdmittedAfterHold
<1>6. ASSUME Admit(p), p # q
      PROVE  FALSE
  <2>1. Holding(q) /\ lease'[q] = lease[q] /\ lease'[p] = nextLease + 1
    BY <1>1, <1>6 DEF Admit, Holding
  <2>2. lease[q] <= nextLease
    BY <1>1, <2>1 DEF LeasesUnique
  <2>3. QED
    BY <1>1, <2>1, <2>2
<1>7. p # q
  BY <1>1, TypeStep
<1>8. QED
  BY <1>2, <1>3, <1>4, <1>5, <1>6, <1>7 DEF HoldNext

(* The invariant is inductive. *)
LEMMA NextHoldInv == HoldInv /\ [HoldNext]_holdVars => HoldInv'
BY TypeStep, OrderStep, OrphanStep, YoungStep, ExclusionStep DEF HoldInv

THEOREM HoldInvariant == HoldSpec => []HoldInv
BY InitHoldInv, NextHoldInv, PTL DEF HoldSpec

-----------------------------------------------------------------------------

(* Type correctness of the hold table. *)
THEOREM HoldTypeCorrect == HoldSpec => []HoldTypeOK
<1>1. HoldInv => HoldTypeOK
  BY DEF HoldInv
<1>2. QED
  BY <1>1, HoldInvariant, PTL

(* A request younger than Hold is never pushed out of the table. *)
THEOREM YoungHoldsKept == HoldSpec => []YoungHoldKept
<1>1. HoldInv => YoungHoldKept
  BY DEF HoldInv
<1>2. QED
  BY <1>1, HoldInvariant, PTL

(* No entry outlives the request that made it. *)
THEOREM NoOrphans == HoldSpec => []NoOrphanEntry
<1>1. HoldInv => NoOrphanEntry
  BY DEF HoldInv
<1>2. QED
  BY <1>1, HoldInvariant, PTL

(* Identical requests overlap only when the first is at least Hold old. *)
THEOREM Exclusion == HoldSpec => []HoldExclusion
<1>1. HoldInv => HoldExclusion
  BY DEF HoldInv
<1>2. QED
  BY <1>1, HoldInvariant, PTL

(* The request a refusal is blamed on is running and less than Hold old. *)
LEMMA RefusalStep ==
  ASSUME HoldInv, [HoldNext]_holdVars,
         NEW r \in Requests, phase[r] = "stamped", phase'[r] = "refused"
  PROVE  \E q \in Requests \ {r} :
           /\ phase[q] = "held" /\ KeyOf[q] = KeyOf[r]
           /\ stamp[r] - stamp[q] < Hold
<1>1. HoldTypeOK /\ NoOrphanEntry /\ StampedKeyed
  BY DEF HoldInv
<1>2. KeyOf[r] \in Keys
  BY <1>1, KeyedInKeys DEF StampedKeyed
<1>3. Refuse(r)
  BY <1>1 DEF HoldNext, holdVars, HoldTypeOK, HoldTick, AcquireUnkeyed, ReadClock, Refuse,
              Admit, Release
<1>4. Blocks(Swept(stamp[r]), KeyOf[r], stamp[r])
  BY <1>3 DEF Refuse
<1>5. stamp[r] \in Nat
  BY <1>1 DEF HoldTypeOK
<1>6. Swept(stamp[r])[KeyOf[r]] = inFlight[KeyOf[r]]
  BY <1>1, <1>2, <1>4, <1>5, SweptSubset DEF Blocks, Present
<1>7. PICK q \in Requests :
        /\ phase[q] = "held" /\ KeyOf[q] = KeyOf[r]
        /\ inFlight[KeyOf[r]] = [lease |-> lease[q], startedAt |-> stamp[q]]
  BY <1>1, <1>2, <1>4, <1>6 DEF NoOrphanEntry, Blocks, Present
<1>8. stamp[r] - stamp[q] < Hold
  BY <1>4, <1>6, <1>7 DEF Blocks
<1>9. QED
  BY <1>7, <1>8

(* A refusal always has a running identical request to point at. *)
THEOREM RefusalsJustified == HoldSpec => RefusalJustified
<1>1. HoldInv /\ [HoldNext]_holdVars
        => [\A r \in Requests :
              phase[r] = "stamped" /\ phase'[r] = "refused" =>
                \E q \in Requests \ {r} :
                  /\ phase[q] = "held" /\ KeyOf[q] = KeyOf[r]
                  /\ stamp[r] - stamp[q] < Hold]_holdVars
  BY RefusalStep
<1>2. QED
  BY <1>1, HoldInvariant, PTL DEF HoldSpec, RefusalJustified

-----------------------------------------------------------------------------
(***************************************************************************)
(* One exchange with the upstream, for any budgets and any interleaving of *)
(* its goroutines: what is accounted was read to its end, the lease is     *)
(* given back last, and nobody closes a body that somebody else is given.  *)
(*                                                                         *)
(* The argument is about who owns the end of the exchange.  Either         *)
(* RoundTrip never handed a body out, and main releases, or exactly one of *)
(* Read, onTimer and Close set b.done, and tail says how far that one is.  *)
(***************************************************************************)

ReadTails == {"complete", "readCancel", "readRelease"}
TimerTails == {"timerCancel", "timerRelease", "timerClose"}
CloseTails == {"closeCancel", "closeRelease"}

(* Before the body is handed out nobody touches what belongs to it, and a    *)
(* request that was given up never hands one out.                            *)
NothingBeforeHeaders(r) ==
  /\ main[r] # "returned" =>
       /\ caller[r] = "waiting" /\ reader[r] = "idle" /\ callbacks[r] = 0 /\ ~done[r]
  /\ abandoned[r] => main[r] \in {"cancel", "release", "ended"}
  /\ main[r] = "returned" => caller[r] # "waiting"
  /\ caller[r] = "modify" => reader[r] = "idle"
  /\ main[r] = "new" => ~cancelled[r]

(* b.done is set by the first of Read, onTimer and Close, which then has the *)
(* rest of the exchange to do; nothing is left to do while it is not set.    *)
OneFinisher(r) ==
  /\ done[r] <=> tail[r] # "none"
  /\ ~done[r] => ~timeoutErr[r] /\ ~cleanEnd[r] /\ ~missed[r]
  /\ reader[r] = "ending" <=> tail[r] \in ReadTails
  /\ tail[r] \in TimerTails => timeoutErr[r]
  /\ tail[r] \in CloseTails => caller[r] = "finishing"
  /\ tail[r] = "complete" => observer[r] = "attached"

(* After a clean end no Read runs, the response is not looked at again, and  *)
(* it is accounted or about to be.                                           *)
CleanEndKept(r) ==
  /\ cleanEnd[r] =>
       /\ ~timeoutErr[r] /\ ~missed[r]
       /\ reader[r] \in {"idle", "ending"} /\ caller[r] # "modify"
       /\ caller[r] = "copying" => reader[r] = "ending"
       /\ observer[r] = "attached" => completed[r] \/ tail[r] = "complete"
  /\ completed[r] \/ tail[r] = "complete" => cleanEnd[r]

(* Whoever is about to release, or has released, has cancelled before; and   *)
(* the release is the last but for the close of the body.                    *)
CancelledBeforeRelease(r) ==
  /\ released[r] \/ main[r] = "release" \/ tail[r] \in ReleasingTails => cancelled[r]
  /\ released[r] => main[r] = "ended" \/ tail[r] \in {"timerClose", "over"}

(* A body is closed by whoever was left with it: a late base goroutine, the  *)
(* idle timer, or the caller's own Close.                                    *)
ClosedByOwner(r) ==
  body[r] = "closed" => abandoned[r] \/ timeoutErr[r] \/ caller[r] = "closed"

OrderKept(r) ==
  /\ NothingBeforeHeaders(r) /\ OneFinisher(r) /\ CleanEndKept(r)
  /\ CancelledBeforeRelease(r) /\ ClosedByOwner(r)

ExchangeInv == ExchangeTypeOK /\ \A r \in Exchanges : OrderKept(r)
-----------------------------------------------------------------------------

BaseStates == {"new", "running", "response", "bodiless", "error", "sent", "dropped"}
CallerStates ==
  {"waiting", "modify", "copying", "close", "finishing", "closeBody", "closed"}

(* Types, action by action. *)
LEMMA ExchangeTypeStep ==
  ASSUME ExchangeTypeOK, NEW r \in Exchanges,
         Begin(r) \/ Internal(r) \/ Releases(r) \/ Outside(r)
  PROVE  ExchangeTypeOK'
<1> USE ExchangeAssumption
    DEF ExchangeTypeOK, MainStates, TailStates, ReleasingTails, requestVars, responseVars,
        watchVars
<1>1. CASE Begin(r)
  BY <1>1 DEF Begin
<1>2. CASE BaseReturns(r)
  BY <1>2 DEF BaseReturns
<1>3. CASE ClientGone(r)
  BY <1>3 DEF ClientGone
<1>4. CASE TakeResult(r)
  <2>1. left' \in [Exchanges -> 0 .. (HeadersBudget + IdleBudget)]
    BY <1>4 DEF TakeResult, BodyTimeout
  <2>2. /\ main' \in [Exchanges -> MainStates] /\ base' \in [Exchanges -> BaseStates]
        /\ caller' \in [Exchanges -> CallerStates]
    BY <1>4 DEF TakeResult, BaseStates, CallerStates
  <2>5. armed' \in [Exchanges -> BOOLEAN]
    <3>1. armed \in [Exchanges -> BOOLEAN]
      OBVIOUS
    <3>2. CASE base[r] = "response"
      <4>1. armed' = [armed EXCEPT ![r] = IdleBudget > 0]
        BY <1>4, <3>2 DEF TakeResult
      <4>2. QED
        BY <3>1, <4>1
    <3>3. CASE base[r] # "response"
      BY <1>4, <3>1, <3>3 DEF TakeResult
    <3>4. QED
      BY <3>2, <3>3
  <2>3. UNCHANGED <<abandoned, cancelled, body, stream, inTime, reader, observer, completed,
                    missed, cleanEnd, done, timeoutErr, callbacks, tail, released>>
    BY <1>4 DEF TakeResult
  <2>4. QED
    BY <2>1, <2>2, <2>3, <2>5 DEF BaseStates, CallerStates
<1>5. CASE HeadersTimeout(r)
  BY <1>5 DEF HeadersTimeout
<1>6. CASE ContextDone(r)
  BY <1>6 DEF ContextDone
<1>7. CASE DropResult(r)
  BY <1>7 DEF DropResult
<1>8. CASE MainCancels(r)
  BY <1>8 DEF MainCancels
<1>9. CASE MainReleases(r)
  BY <1>9 DEF MainReleases
<1>10. CASE UpstreamSends(r)
  BY <1>10 DEF UpstreamSends
<1>11. CASE ModifyResponse(r)
  BY <1>11 DEF ModifyResponse
<1>12. CASE ReadStart(r)
  BY <1>12 DEF ReadStart
<1>13. CASE BodyReadReturns(r)
  BY <1>13 DEF BodyReadReturns
<1>14. CASE ReadLocksDone(r)
  BY <1>14 DEF ReadLocksDone
<1>15. CASE ReadLocksData(r)
  BY <1>15 DEF ReadLocksData
<1>16. CASE ReadLocksEnd(r)
  BY <1>16 DEF ReadLocksEnd, TailOfRead
<1>17. CASE TimerFires(r)
  BY <1>17 DEF TimerFires
<1>18. CASE OnTimer(r)
  <2>1. callbacks' \in [Exchanges -> 0 .. MaxCallbacks]
    BY <1>18 DEF OnTimer
  <2>2. /\ done' \in [Exchanges -> BOOLEAN] /\ timeoutErr' \in [Exchanges -> BOOLEAN]
        /\ armed' \in [Exchanges -> BOOLEAN] /\ tail' \in [Exchanges -> TailStates]
    <3>1. /\ done \in [Exchanges -> BOOLEAN] /\ timeoutErr \in [Exchanges -> BOOLEAN]
          /\ armed \in [Exchanges -> BOOLEAN]
      OBVIOUS
    <3>2. CASE UNCHANGED <<done, timeoutErr, tail>> /\ armed' = [armed EXCEPT ![r] = TRUE]
      BY <3>1, <3>2
    <3>3. CASE /\ timeoutErr' = [timeoutErr EXCEPT ![r] = TRUE]
               /\ done' = [done EXCEPT ![r] = TRUE]
               /\ tail' = [tail EXCEPT ![r] = "timerCancel"] /\ UNCHANGED armed
      BY <3>1, <3>3
    <3>4. CASE UNCHANGED <<done, timeoutErr, tail, armed>>
      BY <3>1, <3>4
    <3>5. QED
      BY <1>18, <3>2, <3>3, <3>4 DEF OnTimer
  <2>3. UNCHANGED <<requestVars, responseVars, left, released>>
    BY <1>18 DEF OnTimer
  <2>4. QED
    BY <2>1, <2>2, <2>3
<1>19. CASE TailCompletes(r)
  BY <1>19 DEF TailCompletes
<1>20. CASE TailCancels(r)
  BY <1>20 DEF TailCancels, AfterCancel
<1>21. CASE TailReleases(r)
  BY <1>21 DEF TailReleases
<1>22. CASE TimerClosesBody(r)
  BY <1>22 DEF TimerClosesBody
<1>23. CASE CallerAborts(r)
  BY <1>23 DEF CallerAborts
<1>24. CASE CloseFinishes(r)
  <2>1. /\ caller' \in [Exchanges -> CallerStates] /\ done' \in [Exchanges -> BOOLEAN]
        /\ armed' \in [Exchanges -> BOOLEAN] /\ tail' \in [Exchanges -> TailStates]
    <3>1. done \in [Exchanges -> BOOLEAN] /\ armed \in [Exchanges -> BOOLEAN]
      OBVIOUS
    <3>2. CASE done[r]
      BY <1>24, <3>1, <3>2 DEF CloseFinishes, CallerStates
    <3>3. CASE ~done[r]
      <4>1. /\ caller' = [caller EXCEPT ![r] = "finishing"]
            /\ done' = [done EXCEPT ![r] = TRUE]
            /\ armed' = [armed EXCEPT ![r] = FALSE]
            /\ tail' = [tail EXCEPT ![r] = "closeCancel"]
        BY <1>24, <3>3 DEF CloseFinishes
      <4>2. QED
        BY <3>1, <4>1 DEF CallerStates
    <3>4. QED
      BY <3>2, <3>3
  <2>2. UNCHANGED <<requestVars, body, stream, inTime, reader, observer, completed, missed,
                    cleanEnd, timeoutErr, left, callbacks, released>>
    BY <1>24 DEF CloseFinishes
  <2>3. QED
    BY <2>1, <2>2 DEF CallerStates
<1>25. CASE CloseClosesBody(r)
  BY <1>25 DEF CloseClosesBody
<1>26. QED
  BY <1>1, <1>2, <1>3, <1>4, <1>5, <1>6, <1>7, <1>8, <1>9, <1>10,
     <1>11, <1>12, <1>13, <1>14, <1>15, <1>16, <1>17, <1>18, <1>19, <1>20,
     <1>21, <1>22, <1>23, <1>24, <1>25
  DEF Internal, Releases, Outside

LEMMA OrderKeptStep ==
  ASSUME ExchangeInv, NEW r \in Exchanges, NEW q \in Exchanges,
         Begin(r) \/ Internal(r) \/ Releases(r) \/ Outside(r)
  PROVE  OrderKept(q)'
<1> USE DEF ExchangeInv, ExchangeTypeOK, OrderKept, NothingBeforeHeaders, OneFinisher,
            CleanEndKept, CancelledBeforeRelease, ClosedByOwner, ReadTails, TimerTails,
            CloseTails, ReleasingTails, MainStates, TailStates, requestVars, responseVars,
            watchVars
<1>1. CASE Begin(r)
  BY <1>1 DEF Begin
<1>2. CASE BaseReturns(r)
  BY <1>2 DEF BaseReturns
<1>3. CASE ClientGone(r)
  BY <1>3 DEF ClientGone
<1>4. CASE TakeResult(r)
  BY <1>4 DEF TakeResult, BodyTimeout
<1>5. CASE HeadersTimeout(r)
  BY <1>5 DEF HeadersTimeout
<1>6. CASE ContextDone(r)
  BY <1>6 DEF ContextDone
<1>7. CASE DropResult(r)
  BY <1>7 DEF DropResult
<1>8. CASE MainCancels(r)
  BY <1>8 DEF MainCancels
<1>9. CASE MainReleases(r)
  BY <1>9 DEF MainReleases
<1>10. CASE UpstreamSends(r)
  BY <1>10 DEF UpstreamSends
<1>11. CASE ModifyResponse(r)
  BY <1>11 DEF ModifyResponse
<1>12. CASE ReadStart(r)
  BY <1>12 DEF ReadStart
<1>13. CASE BodyReadReturns(r)
  BY <1>13 DEF BodyReadReturns
<1>14. CASE ReadLocksDone(r)
  BY <1>14 DEF ReadLocksDone
<1>15. CASE ReadLocksData(r)
  BY <1>15 DEF ReadLocksData
<1>16. CASE ReadLocksEnd(r)
  <2>1. NothingBeforeHeaders(q)' /\ OneFinisher(q)'
    BY <1>16 DEF ReadLocksEnd, TailOfRead
  <2>2. CleanEndKept(q)'
    <3>1. CASE reader[r] = "eof"
      <4>1. /\ cleanEnd' = [cleanEnd EXCEPT ![r] = TRUE]
            /\ reader' = [reader EXCEPT ![r] = "ending"]
            /\ UNCHANGED <<timeoutErr, missed, caller, observer, completed>>
        BY <1>16, <3>1 DEF ReadLocksEnd
      <4>2. ~timeoutErr[r] /\ ~missed[r] /\ caller[r] # "modify"
        BY <1>16, <3>1 DEF ReadLocksEnd
      <4>3. tail' = [tail EXCEPT ![r] =
                       IF observer[r] = "attached" THEN "complete" ELSE "readCancel"]
        BY <1>16, <3>1 DEF ReadLocksEnd, TailOfRead
      <4>4. QED
        BY <4>1, <4>2, <4>3
    <3>2. CASE reader[r] = "error"
      BY <1>16, <3>2 DEF ReadLocksEnd, TailOfRead
    <3>3. QED
      BY <1>16, <3>1, <3>2 DEF ReadLocksEnd
  <2>3. CancelledBeforeRelease(q)' /\ ClosedByOwner(q)'
    BY <1>16 DEF ReadLocksEnd, TailOfRead
  <2>4. QED
    BY <2>1, <2>2, <2>3
<1>17. CASE TimerFires(r)
  BY <1>17 DEF TimerFires
<1>18. CASE OnTimer(r)
  BY <1>18 DEF OnTimer, Expired
<1>19. CASE TailCompletes(r)
  BY <1>19 DEF TailCompletes
<1>20. CASE TailCancels(r)
  BY <1>20 DEF TailCancels, AfterCancel
<1>21. CASE TailReleases(r)
  BY <1>21 DEF TailReleases
<1>22. CASE TimerClosesBody(r)
  BY <1>22 DEF TimerClosesBody
<1>23. CASE CallerAborts(r)
  BY <1>23 DEF CallerAborts
<1>24. CASE CloseFinishes(r)
  BY <1>24 DEF CloseFinishes
<1>25. CASE CloseClosesBody(r)
  BY <1>25 DEF CloseClosesBody
<1>26. QED
  BY <1>1, <1>2, <1>3, <1>4, <1>5, <1>6, <1>7, <1>8, <1>9, <1>10,
     <1>11, <1>12, <1>13, <1>14, <1>15, <1>16, <1>17, <1>18, <1>19, <1>20,
     <1>21, <1>22, <1>23, <1>24, <1>25
  DEF Internal, Releases, Outside

LEMMA InitExchangeInv == ExchangeInit => ExchangeInv
<1> SUFFICES ASSUME ExchangeInit PROVE ExchangeInv
  OBVIOUS
<1>1. ExchangeTypeOK
  BY ExchangeAssumption DEF ExchangeInit, ExchangeTypeOK, MainStates, TailStates
<1>2. ASSUME NEW r \in Exchanges
      PROVE  OrderKept(r)
  BY DEF ExchangeInit, OrderKept, NothingBeforeHeaders, OneFinisher, CleanEndKept,
         CancelledBeforeRelease, ClosedByOwner, ReadTails, TimerTails,
         CloseTails, ReleasingTails
<1>3. QED
  BY <1>1, <1>2 DEF ExchangeInv

(* Time passing, and nothing happening, keep what the invariant is about.    *)
LEMMA ExchangeQuietStep ==
  ASSUME ExchangeInv, ExchangeTick \/ UNCHANGED exchangeVars
  PROVE  ExchangeInv'
<1>1. /\ UNCHANGED <<requestVars, responseVars>>
      /\ UNCHANGED <<done, timeoutErr, armed, callbacks, tail, released>>
  BY DEF ExchangeTick, exchangeVars, watchVars
<1>2. left' \in [Exchanges -> 0 .. (HeadersBudget + IdleBudget)]
  <2>1. CASE ExchangeTick
    BY <2>1, ExchangeAssumption DEF ExchangeTick, Countdown, ExchangeInv, ExchangeTypeOK
  <2>2. CASE UNCHANGED exchangeVars
    BY <2>2 DEF exchangeVars, watchVars, ExchangeInv, ExchangeTypeOK
  <2>3. QED
    BY <2>1, <2>2
<1>3. ExchangeTypeOK'
  BY <1>1, <1>2 DEF ExchangeInv, ExchangeTypeOK, requestVars, responseVars
<1>4. ASSUME NEW r \in Exchanges
      PROVE  OrderKept(r)'
  BY <1>1
  DEF ExchangeInv, OrderKept, NothingBeforeHeaders, OneFinisher, CleanEndKept,
      CancelledBeforeRelease, ClosedByOwner, requestVars, responseVars
<1>5. QED
  BY <1>3, <1>4 DEF ExchangeInv

LEMMA NextExchangeInv == ExchangeInv /\ [ExchangeNext]_exchangeVars => ExchangeInv'
<1> SUFFICES ASSUME ExchangeInv, [ExchangeNext]_exchangeVars PROVE ExchangeInv'
  OBVIOUS
<1>1. CASE ExchangeTick \/ UNCHANGED exchangeVars
  BY <1>1, ExchangeQuietStep
<1>2. ASSUME NEW r \in Exchanges, Begin(r) \/ Internal(r) \/ Releases(r) \/ Outside(r)
      PROVE  ExchangeInv'
  BY <1>2, ExchangeTypeStep, OrderKeptStep DEF ExchangeInv
<1>3. QED
  BY <1>1, <1>2 DEF ExchangeNext

THEOREM ExchangeInvariant == ExchangeSpec => []ExchangeInv
BY InitExchangeInv, NextExchangeInv, PTL DEF ExchangeSpec

-----------------------------------------------------------------------------

(* What is accounted as complete was read to a clean end, all of it under    *)
(* the observer, and no body is closed under a reader but by its timeout.    *)
THEOREM ExchangesInOrder == ExchangeSpec => []ExchangeOK
<1>1. ExchangeInv => ExchangeOK
  BY DEF ExchangeInv, ExchangeOK, OrderKept, NothingBeforeHeaders, CleanEndKept,
         ClosedByOwner, CompletionExact, NoForeignClose, ExchangeTypeOK
<1>2. QED
  BY <1>1, ExchangeInvariant, PTL

(* Only the two release paths run the closure, and only onTimer raises the   *)
(* idle timeout.                                                             *)
LEMMA ReleasedByReleases ==
  ASSUME NEW r \in Exchanges, Begin(r) \/ Internal(r) \/ Outside(r)
  PROVE  UNCHANGED released
BY DEF Internal, Outside, requestVars, responseVars, watchVars,
       Begin, BaseReturns, ClientGone, TakeResult, HeadersTimeout, ContextDone, DropResult,
       MainCancels, UpstreamSends, ModifyResponse, ReadStart, BodyReadReturns, ReadLocksDone,
       ReadLocksData, ReadLocksEnd, TimerFires, OnTimer, TailCompletes, TailCancels,
       TimerClosesBody, CallerAborts, CloseFinishes, CloseClosesBody

LEMMA TimeoutRaisedByTimer ==
  ASSUME NEW r \in Exchanges, Begin(r) \/ Internal(r) \/ Releases(r) \/ Outside(r)
  PROVE  OnTimer(r) \/ UNCHANGED timeoutErr
BY DEF Internal, Outside, Releases, requestVars, responseVars, watchVars,
       Begin, BaseReturns, ClientGone, TakeResult, HeadersTimeout, ContextDone, DropResult,
       MainCancels, MainReleases, UpstreamSends, ModifyResponse, ReadStart, BodyReadReturns,
       ReadLocksDone, ReadLocksData, ReadLocksEnd, TimerFires, TailCompletes, TailCancels,
       TailReleases, TimerClosesBody, CallerAborts, CloseFinishes, CloseClosesBody

(* Between the deadline and onTimer taking the mutex a chunk may move the    *)
(* deadline; the timeout is raised only when it has passed all the same.     *)
THEOREM TimeoutAtDeadline == ExchangeSpec => TimeoutNeedsDeadline
<1>1. ExchangeInv /\ [ExchangeNext]_exchangeVars
        => [\A r \in Exchanges : ~timeoutErr[r] /\ timeoutErr'[r] => left[r] = 0]_exchangeVars
  <2> SUFFICES ASSUME ExchangeInv, [ExchangeNext]_exchangeVars, NEW r \in Exchanges,
                      ~timeoutErr[r], timeoutErr'[r]
               PROVE  left[r] = 0
    OBVIOUS
  <2>1. PICK q \in Exchanges : OnTimer(q)
    <3>1. ~(ExchangeTick \/ UNCHANGED exchangeVars)
      BY DEF ExchangeTick, exchangeVars, watchVars
    <3>2. QED
      BY <3>1, TimeoutRaisedByTimer DEF ExchangeNext
  <2>2. q = r /\ Expired(r)
    BY <2>1 DEF OnTimer, ExchangeInv, ExchangeTypeOK
  <2>3. QED
    BY <2>2 DEF Expired
<1>2. QED
  BY <1>1, ExchangeInvariant, PTL DEF ExchangeSpec, TimeoutNeedsDeadline
-----------------------------------------------------------------------------
(* The refinement of ExchangeLife, seen at one exchange: a step leaves the   *)
(* abstract state of its exchange alone, or is one of the abstract steps.    *)

LifeSame(r) ==
  Life(r)' = Life(r) /\ EndSeen(r)' = EndSeen(r) /\ completed'[r] = completed[r]

LifeMoves(r) ==
  \/ /\ Life(r) = "new" /\ Life(r)' = "upstream"
     /\ EndSeen(r)' = EndSeen(r) /\ completed'[r] = completed[r]
  \/ /\ Life(r) \in {"upstream", "cancelled"} /\ EndSeen(r) = "open"
     /\ EndSeen(r)' \in {"clean", "cut"}
     /\ Life(r)' = Life(r) /\ completed'[r] = completed[r]
  \/ /\ Life(r) \in {"upstream", "cancelled"} /\ EndSeen(r) = "clean"
     /\ ~completed[r] /\ completed'[r] = TRUE
     /\ Life(r)' = Life(r) /\ EndSeen(r)' = EndSeen(r)
  \/ /\ Life(r) = "upstream" /\ Life(r)' = "cancelled"
     /\ EndSeen(r)' = EndSeen(r) /\ completed'[r] = completed[r]
  \/ /\ Life(r) = "cancelled" /\ Life(r)' = "released"
     /\ EndSeen(r) = "clean" => completed[r]
     /\ EndSeen(r)' = EndSeen(r) /\ completed'[r] = completed[r]

LEMMA LifeStep ==
  ASSUME ExchangeInv, NEW r \in Exchanges,
         Begin(r) \/ Internal(r) \/ Releases(r) \/ Outside(r)
  PROVE  LifeSame(r) \/ LifeMoves(r)
<1> USE DEF ExchangeInv, ExchangeTypeOK, OrderKept, NothingBeforeHeaders, OneFinisher,
            CleanEndKept, CancelledBeforeRelease, ReadTails, ReleasingTails,
            MainStates, TailStates, requestVars, responseVars, watchVars,
            Life, EndSeen, LifeSame, LifeMoves
<1>1. CASE Begin(r)
  BY <1>1 DEF Begin
<1>2. CASE BaseReturns(r)
  BY <1>2 DEF BaseReturns
<1>3. CASE ClientGone(r)
  BY <1>3 DEF ClientGone
<1>4. CASE TakeResult(r)
  BY <1>4 DEF TakeResult
<1>5. CASE HeadersTimeout(r)
  BY <1>5 DEF HeadersTimeout
<1>6. CASE ContextDone(r)
  BY <1>6 DEF ContextDone
<1>7. CASE DropResult(r)
  BY <1>7 DEF DropResult
<1>8. CASE MainCancels(r)
  BY <1>8 DEF MainCancels
<1>9. CASE MainReleases(r)
  BY <1>9 DEF MainReleases
<1>10. CASE UpstreamSends(r)
  BY <1>10 DEF UpstreamSends
<1>11. CASE ModifyResponse(r)
  BY <1>11 DEF ModifyResponse
<1>12. CASE ReadStart(r)
  BY <1>12 DEF ReadStart
<1>13. CASE BodyReadReturns(r)
  BY <1>13 DEF BodyReadReturns
<1>14. CASE ReadLocksDone(r)
  BY <1>14 DEF ReadLocksDone
<1>15. CASE ReadLocksData(r)
  BY <1>15 DEF ReadLocksData
<1>16. CASE ReadLocksEnd(r)
  BY <1>16 DEF ReadLocksEnd, TailOfRead
<1>17. CASE TimerFires(r)
  BY <1>17 DEF TimerFires
<1>18. CASE OnTimer(r)
  BY <1>18 DEF OnTimer, Expired
<1>19. CASE TailCompletes(r)
  <2>1. /\ main[r] # "new" /\ ~released[r]
        /\ done[r] /\ cleanEnd[r] /\ observer[r] = "attached"
    BY <1>19 DEF TailCompletes
  <2>2. UNCHANGED <<main, released, cancelled, done, cleanEnd, observer>>
    BY <1>19 DEF TailCompletes
  <2>3. completed'[r] = TRUE
    BY <1>19 DEF TailCompletes
  <2>4. CASE completed[r]
    BY <2>2, <2>3, <2>4
  <2>5. CASE ~completed[r]
    BY <2>1, <2>2, <2>3, <2>5
  <2>6. QED
    BY <2>4, <2>5
<1>20. CASE TailCancels(r)
  BY <1>20 DEF TailCancels, AfterCancel
<1>21. CASE TailReleases(r)
  BY <1>21 DEF TailReleases
<1>22. CASE TimerClosesBody(r)
  BY <1>22 DEF TimerClosesBody
<1>23. CASE CallerAborts(r)
  BY <1>23 DEF CallerAborts
<1>24. CASE CloseFinishes(r)
  BY <1>24 DEF CloseFinishes
<1>25. CASE CloseClosesBody(r)
  BY <1>25 DEF CloseClosesBody
<1>26. QED
  BY <1>1, <1>2, <1>3, <1>4, <1>5, <1>6, <1>7, <1>8, <1>9, <1>10,
     <1>11, <1>12, <1>13, <1>14, <1>15, <1>16, <1>17, <1>18, <1>19, <1>20,
     <1>21, <1>22, <1>23, <1>24, <1>25
  DEF Internal, Releases, Outside

LEMMA OtherLives ==
  ASSUME ExchangeInv, NEW r \in Exchanges, NEW q \in Exchanges, q # r,
         Begin(r) \/ Internal(r) \/ Releases(r) \/ Outside(r)
  PROVE  LifeSame(q)
<1> USE DEF ExchangeInv, ExchangeTypeOK, requestVars, responseVars, watchVars, Life, EndSeen,
            LifeSame
<1>1. CASE Begin(r)
  BY <1>1 DEF Begin
<1>2. CASE BaseReturns(r)
  BY <1>2 DEF BaseReturns
<1>3. CASE ClientGone(r)
  BY <1>3 DEF ClientGone
<1>4. CASE TakeResult(r)
  BY <1>4 DEF TakeResult
<1>5. CASE HeadersTimeout(r)
  BY <1>5 DEF HeadersTimeout
<1>6. CASE ContextDone(r)
  BY <1>6 DEF ContextDone
<1>7. CASE DropResult(r)
  BY <1>7 DEF DropResult
<1>8. CASE MainCancels(r)
  BY <1>8 DEF MainCancels
<1>9. CASE MainReleases(r)
  BY <1>9 DEF MainReleases
<1>10. CASE UpstreamSends(r)
  BY <1>10 DEF UpstreamSends
<1>11. CASE ModifyResponse(r)
  BY <1>11 DEF ModifyResponse
<1>12. CASE ReadStart(r)
  BY <1>12 DEF ReadStart
<1>13. CASE BodyReadReturns(r)
  BY <1>13 DEF BodyReadReturns
<1>14. CASE ReadLocksDone(r)
  BY <1>14 DEF ReadLocksDone
<1>15. CASE ReadLocksData(r)
  BY <1>15 DEF ReadLocksData
<1>16. CASE ReadLocksEnd(r)
  BY <1>16 DEF ReadLocksEnd
<1>17. CASE TimerFires(r)
  BY <1>17 DEF TimerFires
<1>18. CASE OnTimer(r)
  BY <1>18 DEF OnTimer
<1>19. CASE TailCompletes(r)
  BY <1>19 DEF TailCompletes
<1>20. CASE TailCancels(r)
  BY <1>20 DEF TailCancels
<1>21. CASE TailReleases(r)
  BY <1>21 DEF TailReleases
<1>22. CASE TimerClosesBody(r)
  BY <1>22 DEF TimerClosesBody
<1>23. CASE CallerAborts(r)
  BY <1>23 DEF CallerAborts
<1>24. CASE CloseFinishes(r)
  BY <1>24 DEF CloseFinishes
<1>25. CASE CloseClosesBody(r)
  BY <1>25 DEF CloseClosesBody
<1>26. QED
  BY <1>1, <1>2, <1>3, <1>4, <1>5, <1>6, <1>7, <1>8, <1>9, <1>10,
     <1>11, <1>12, <1>13, <1>14, <1>15, <1>16, <1>17, <1>18, <1>19, <1>20,
     <1>21, <1>22, <1>23, <1>24, <1>25
  DEF Internal, Releases, Outside

LEMMA PromiseStep ==
  ASSUME ExchangeInv, [ExchangeNext]_exchangeVars
  PROVE  [Promise!LifeNext]_Promise!lifeVars
<1> DEFINE life == [r \in Exchanges |-> Life(r)]
           ended == [r \in Exchanges |-> EndSeen(r)]
<1>1. completed \in [Exchanges -> BOOLEAN]
  BY DEF ExchangeInv, ExchangeTypeOK
<1>2. CASE ExchangeTick \/ UNCHANGED exchangeVars
  <2>1. UNCHANGED <<main, released, cancelled, done, cleanEnd, observer, completed>>
    BY <1>2 DEF ExchangeTick, exchangeVars, requestVars, responseVars, watchVars
  <2>2. UNCHANGED Promise!lifeVars
    BY <2>1 DEF Promise!lifeVars, Life, EndSeen
  <2>3. QED
    BY <2>2
<1>3. ASSUME NEW r \in Exchanges, Begin(r) \/ Internal(r) \/ Releases(r) \/ Outside(r)
      PROVE  [Promise!LifeNext]_Promise!lifeVars
  <2>1. completed' \in [Exchanges -> BOOLEAN]
    BY <1>3, ExchangeTypeStep DEF ExchangeInv, ExchangeTypeOK
  <2>2. \A q \in Exchanges \ {r} : LifeSame(q)
    BY <1>3, OtherLives
  <2>3. /\ life' = [life EXCEPT ![r] = Life(r)']
        /\ ended' = [ended EXCEPT ![r] = EndSeen(r)']
        /\ completed' = [completed EXCEPT ![r] = completed'[r]]
    BY <1>1, <2>1, <2>2 DEF LifeSame
  <2>4. life[r] = Life(r) /\ ended[r] = EndSeen(r)
    OBVIOUS
  <2>5. LifeSame(r) => UNCHANGED <<life, ended, completed>>
    BY <1>1, <2>3 DEF LifeSame
  <2>6. LifeMoves(r) =>
          \/ Promise!GoUpstream(r) \/ Promise!End(r) \/ Promise!Account(r)
          \/ Promise!Cancel(r) \/ Promise!GiveUpLease(r)
    BY <1>1, <2>3, <2>4
    DEF LifeMoves, Promise!GoUpstream, Promise!End, Promise!Account, Promise!Cancel,
        Promise!GiveUpLease
  <2>7. QED
    BY <1>3, LifeStep, <2>5, <2>6 DEF Promise!LifeNext, Promise!lifeVars
<1>4. QED
  BY <1>2, <1>3 DEF ExchangeNext

(* The exchange implements its promise: whatever its goroutines do, the      *)
(* response ends once, is accounted once and before the lease goes, and the  *)
(* lease goes once.                                                          *)
THEOREM PromiseKept == ExchangeSpec => KeepsPromise
<1>1. ExchangeInit => Promise!LifeInit
  BY DEF ExchangeInit, Promise!LifeInit, Life, EndSeen
<1>2. ExchangeInv /\ [ExchangeNext]_exchangeVars => [Promise!LifeNext]_Promise!lifeVars
  BY PromiseStep
<1>3. QED
  BY <1>1, <1>2, ExchangeInvariant, PTL DEF ExchangeSpec, KeepsPromise, Promise!LifeSpec

-----------------------------------------------------------------------------
(***************************************************************************)
(* The duplicate hold and the exchange together.  The transport implements *)
(* both, so what is proved of the one and of the other holds of it; what   *)
(* is left is about the two: identical requests exclude each other at the  *)
(* upstream as they do in the table, and a retry that comes within the     *)
(* hold finds the response before it accounted.  The hold table alone says *)
(* neither.  It takes that a request keeps its lease for as long as its    *)
(* upstream context is live, and that the lease goes last, which are facts *)
(* about every path on which the exchange gives the lease back.            *)
(***************************************************************************)

(* Every step of the transport is a step of the hold table, or leaves it     *)
(* alone: the transport inherits what is proved of the table.                *)
LEMMA TransportStepIsHoldStep == [TransportNext]_transportVars => [HoldNext]_holdVars
BY DEF TransportNext, transportVars, Tick, AcquireSteps, Start, Step, GiveBack, HoldNext

THEOREM TransportImplementsHold == TransportSpec => HoldSpec
<1>1. TransportInit => HoldInit
  BY DEF TransportInit
<1>2. QED
  BY <1>1, TransportStepIsHoldStep, PTL DEF TransportSpec, HoldSpec

(* And the same for the exchange: acquire, the hold's clock and the table do *)
(* nothing to an exchange that it would not do without them.                 *)
LEMMA TransportStepIsExchangeStep ==
  [TransportNext]_transportVars => [ExchangeNext]_exchangeVars
BY TransportAssumption
DEF TransportNext, transportVars, Tick, AcquireSteps, Start, Step, GiveBack, ExchangeNext

THEOREM TransportImplementsExchange == TransportSpec => ExchangeSpec
<1>1. TransportInit => ExchangeInit
  BY DEF TransportInit
<1>2. QED
  BY <1>1, TransportStepIsExchangeStep, PTL DEF TransportSpec, ExchangeSpec

-----------------------------------------------------------------------------

(* A request is upstream exactly when it was let through.                    *)
Upstreamed == \A r \in Requests : main[r] # "new" <=> phase[r] \in {"held", "released"}

(* The two halves of giving a lease back happen together.                    *)
ReleasedTogether == \A r \in Requests : released[r] <=> phase[r] = "released"

(* A request with a key that was let through took a lease.                   *)
LeaseTaken ==
  \A r \in Requests :
    /\ lease[r] <= nextLease
    /\ lease[r] # 0 => phase[r] \in {"held", "released"}
    /\ Keyed(r) /\ phase[r] \in {"held", "released"} => lease[r] # 0

(* Who was let through within Hold of an identical request came after that   *)
(* one had given its lease back.                                             *)
EarlierEnded ==
  \A q, r \in Requests :
    (/\ Keyed(q) /\ KeyOf[q] = KeyOf[r] /\ lease[q] # 0 /\ lease[q] < lease[r]
     /\ admittedAt[r] - stamp[q] < Hold)
      => phase[q] = "released"

TransportInv == Upstreamed /\ ReleasedTogether /\ LeaseTaken /\ EarlierEnded

LEMMA InitTransportInv == TransportInit => TransportInv
BY TransportAssumption
DEF TransportInit, HoldInit, ExchangeInit, TransportInv, Upstreamed, ReleasedTogether,
    LeaseTaken, EarlierEnded

(* The steps of an exchange neither begin nor release it. *)
LEMMA InternalKeepsMain ==
  ASSUME ExchangeInv, NEW r \in Exchanges, Internal(r) \/ Outside(r), NEW q \in Exchanges
  PROVE  main'[q] # "new" <=> main[q] # "new"
BY DEF ExchangeInv, ExchangeTypeOK, Internal, Outside, requestVars,
       BaseReturns, ClientGone, TakeResult, HeadersTimeout, ContextDone, DropResult,
       MainCancels, UpstreamSends, ModifyResponse, ReadStart, BodyReadReturns, ReadLocksDone,
       ReadLocksData, ReadLocksEnd, TimerFires, OnTimer, TailCompletes, TailCancels,
       TimerClosesBody, CallerAborts, CloseFinishes, CloseClosesBody

(* acquire before it lets a request through. *)
LEMMA AcquireStep ==
  ASSUME TransportInv, HoldInv, NEW r \in Requests, AcquireSteps(r)
  PROVE  TransportInv'
<1>1. UNCHANGED <<main, released, lease, nextLease, admittedAt>>
  BY DEF AcquireSteps, ReadClock, Refuse, exchangeVars, requestVars, watchVars
<1>2. /\ phase[r] \in {"new", "stamped"}
      /\ \/ phase' = [phase EXCEPT ![r] = "stamped"]
         \/ phase' = [phase EXCEPT ![r] = "refused"]
  BY DEF AcquireSteps, ReadClock, Refuse
<1>3. \A q \in Requests : q # r => stamp'[q] = stamp[q]
  BY DEF AcquireSteps, ReadClock, Refuse, HoldInv, HoldTypeOK
<1>4. lease[r] = 0
  BY <1>2 DEF TransportInv, LeaseTaken
<1>5. QED
  BY <1>1, <1>2, <1>3, <1>4
  DEF TransportInv, Upstreamed, ReleasedTogether, LeaseTaken, EarlierEnded, HoldInv,
      HoldTypeOK, Keyed

(* A request is let through: identical ones that still hold are Hold old.    *)
LEMMA StartStep ==
  ASSUME TransportInv, HoldInv, ExchangeInv, NEW r \in Requests, Start(r)
  PROVE  TransportInv'
<1>1. /\ main' = [main EXCEPT ![r] = "waiting"] /\ UNCHANGED released
      /\ phase' = [phase EXCEPT ![r] = "held"]
      /\ phase[r] \in {"new", "stamped"}
      /\ admittedAt' = [admittedAt EXCEPT ![r] = clock] /\ UNCHANGED stamp
  BY DEF Start, Begin, Admit, AcquireUnkeyed, responseVars, watchVars
<1>2. /\ HoldTypeOK /\ main \in [Requests -> MainStates]
      /\ lease[r] = 0
  BY <1>1, TransportAssumption DEF TransportInv, LeaseTaken, HoldInv, ExchangeInv,
     ExchangeTypeOK
<1>3. Upstreamed' /\ ReleasedTogether'
  BY <1>1, <1>2 DEF TransportInv, Upstreamed, ReleasedTogether, HoldTypeOK
<1>4. CASE AcquireUnkeyed(r)
  <2>1. UNCHANGED <<lease, nextLease>> /\ ~Keyed(r)
    BY <1>4 DEF AcquireUnkeyed
  <2>2. LeaseTaken'
    BY <1>1, <1>2, <2>1 DEF TransportInv, LeaseTaken, HoldTypeOK, Keyed
  <2>3. EarlierEnded'
    BY <1>1, <1>2, <2>1 DEF TransportInv, EarlierEnded, LeaseTaken, HoldTypeOK, Keyed
  <2>4. QED
    BY <1>3, <2>2, <2>3 DEF TransportInv
<1>5. CASE Admit(r)
  <2>1. /\ lease' = [lease EXCEPT ![r] = nextLease + 1] /\ nextLease' = nextLease + 1
        /\ Keyed(r)
    BY <1>5 DEF Admit, HoldInv, StampedKeyed
  <2>2. LeaseTaken'
    BY <1>1, <1>2, <2>1 DEF TransportInv, LeaseTaken, HoldTypeOK, Keyed
  <2>3. EarlierEnded'
    <3> SUFFICES ASSUME NEW p \in Requests, NEW q \in Requests,
                        Keyed(p), KeyOf[p] = KeyOf[q], lease'[p] # 0, lease'[p] < lease'[q],
                        admittedAt'[q] - stamp'[p] < Hold
                 PROVE  phase'[p] = "released"
      BY DEF EarlierEnded, Keyed
    <3>1. p # r
      BY <1>2, <2>1 DEF TransportInv, LeaseTaken, HoldTypeOK
    <3>2. CASE q = r
      <4>1. ~Holding(p)
        BY <1>1, <1>2, <1>5, <3>1, <3>2, AdmittedAfterHold, HoldAssumption DEF HoldTypeOK
      <4>2. phase[p] \in {"held", "released"}
        BY <1>2, <2>1, <3>1 DEF TransportInv, LeaseTaken, HoldTypeOK
      <4>3. QED
        BY <1>1, <1>2, <3>1, <4>1, <4>2 DEF Holding, HoldTypeOK
    <3>3. CASE q # r
      BY <1>1, <1>2, <2>1, <3>1, <3>3 DEF TransportInv, EarlierEnded, HoldTypeOK
    <3>4. QED
      BY <3>2, <3>3
  <2>4. QED
    BY <1>3, <2>2, <2>3 DEF TransportInv
<1>6. QED
  BY <1>4, <1>5 DEF Start

LEMMA ReleasingStep ==
  ASSUME TransportInv, HoldInv, ExchangeInv, NEW r \in Requests, GiveBack(r)
  PROVE  TransportInv'
<1>1. /\ phase[r] = "held" /\ phase' = [phase EXCEPT ![r] = "released"]
      /\ UNCHANGED <<lease, nextLease, admittedAt, stamp>>
  BY DEF GiveBack, Release
<1>2. released' = [released EXCEPT ![r] = TRUE]
  BY DEF GiveBack, Releases, MainReleases, TailReleases
<1>3. \A q \in Requests : main'[q] # "new" <=> main[q] # "new"
  BY TransportAssumption
  DEF GiveBack, Releases, MainReleases, TailReleases, requestVars, ExchangeInv, ExchangeTypeOK
<1>4. HoldTypeOK /\ released \in [Requests -> BOOLEAN]
  BY TransportAssumption DEF HoldInv, ExchangeInv, ExchangeTypeOK
<1>5. QED
  BY <1>1, <1>2, <1>3, <1>4
  DEF TransportInv, Upstreamed, ReleasedTogether, LeaseTaken, EarlierEnded, HoldTypeOK, Keyed

LEMMA NextTransportInv ==
  TransportInv /\ HoldInv /\ ExchangeInv /\ [TransportNext]_transportVars => TransportInv'
<1> SUFFICES ASSUME TransportInv, HoldInv, ExchangeInv, [TransportNext]_transportVars
             PROVE  TransportInv'
  OBVIOUS
<1>1. CASE Tick \/ UNCHANGED transportVars
  <2>1. UNCHANGED <<main, released, phase, lease, nextLease, admittedAt, stamp>>
    BY <1>1 DEF Tick, HoldTick, ExchangeTick, requestVars, watchVars, transportVars, holdVars,
                exchangeVars
  <2>2. QED
    BY <2>1 DEF TransportInv, Upstreamed, ReleasedTogether, LeaseTaken, EarlierEnded
<1>2. ASSUME NEW r \in Requests, Step(r)
      PROVE  TransportInv'
  <2>1. UNCHANGED <<released, phase, lease, nextLease, admittedAt, stamp>>
    BY <1>2, ReleasedByReleases, TransportAssumption DEF Step, holdVars
  <2>2. \A q \in Requests : main'[q] # "new" <=> main[q] # "new"
    BY <1>2, InternalKeepsMain, TransportAssumption DEF Step
  <2>3. QED
    BY <2>1, <2>2 DEF TransportInv, Upstreamed, ReleasedTogether, LeaseTaken, EarlierEnded
<1>3. QED
  BY <1>1, <1>2, AcquireStep, StartStep, ReleasingStep DEF TransportNext

THEOREM TransportInvariant == TransportSpec => [](TransportInv /\ HoldInv /\ ExchangeInv)
BY InitTransportInv, NextTransportInv, TransportImplementsHold, HoldInvariant,
   TransportImplementsExchange, ExchangeInvariant, PTL
DEF TransportSpec

-----------------------------------------------------------------------------

(* The upstream never works on two identical requests at once within the     *)
(* hold, for any number of requests, keys, timeouts and any hold.            *)
THEOREM UpstreamExcluded == TransportSpec => []UpstreamExclusion
<1>1. TransportInv /\ HoldInv /\ ExchangeInv => UpstreamExclusion
  <2> SUFFICES ASSUME TransportInv, HoldInv, ExchangeInv,
                      NEW q \in Requests, NEW r \in Requests,
                      Keyed(q), KeyOf[q] = KeyOf[r], lease[q] < lease[r],
                      UpstreamBusy(q), UpstreamBusy(r)
               PROVE  admittedAt[r] - stamp[q] >= Hold
    BY DEF UpstreamExclusion
  <2>1. ~released[q] /\ ~released[r]
    BY TransportAssumption DEF ExchangeInv, OrderKept, CancelledBeforeRelease, UpstreamBusy
  <2>2. phase[q] = "held" /\ phase[r] = "held"
    BY <2>1 DEF TransportInv, Upstreamed, ReleasedTogether, UpstreamBusy
  <2>3. QED
    BY <2>2 DEF HoldInv, HoldExclusion
<1>2. QED
  BY <1>1, TransportInvariant, PTL

(* A retry within the hold finds the response of the request before it       *)
(* accounted: it was let through only after that one released, and the       *)
(* release is the last thing an exchange does but for closing the body.      *)
THEOREM RetriesFindAccounting == TransportSpec => []RetryFindsAccounting
<1>1. TransportInv /\ HoldInv /\ ExchangeInv => RetryFindsAccounting
  <2> SUFFICES ASSUME TransportInv, HoldInv, ExchangeInv,
                      NEW q \in Requests, NEW r \in Requests,
                      Keyed(q), KeyOf[q] = KeyOf[r], lease[q] < lease[r],
                      admittedAt[r] - stamp[q] < Hold,
                      cleanEnd[q], observer[q] = "attached"
               PROVE  completed[q]
    BY DEF RetryFindsAccounting
  <2>1. OrderKept(q)
    BY TransportAssumption DEF ExchangeInv
  <2>2. done[q] /\ main[q] = "returned"
    BY <2>1 DEF OrderKept, OneFinisher, NothingBeforeHeaders
  <2>3. lease[q] # 0
    BY <2>2 DEF TransportInv, Upstreamed, LeaseTaken
  <2>4. released[q]
    BY <2>3 DEF TransportInv, EarlierEnded, ReleasedTogether
  <2>5. tail[q] # "complete"
    BY <2>1, <2>2, <2>4 DEF OrderKept, CancelledBeforeRelease
  <2>6. QED
    BY <2>1, <2>5 DEF OrderKept, CleanEndKept
<1>2. QED
  BY <1>1, TransportInvariant, PTL
=============================================================================
