---------------------------- MODULE DuplicateHold ----------------------------
(***************************************************************************)
(* The table of identical requests in flight that reliabilityTransport     *)
(* keeps: acquire, the release closure it returns, and the sweep of        *)
(* expired entries that acquire runs on the way.                           *)
(*                                                                         *)
(* An element of Requests is one call of RoundTrip.  Its goroutine reads   *)
(* the time before it takes the mutex, so the two are separate steps and   *)
(* the time acquire works with may be older than everything it finds in    *)
(* the table.  The critical sections under t.mu are atomic.                *)
(***************************************************************************)
EXTENDS Integers, FiniteSets

CONSTANTS
  Requests,          \* calls of RoundTrip
  Keys,              \* values of duplicateKey
  NoKey,             \* the request carries no body digest (or the hold is off)
  KeyOf,             \* the key of each request
  Hold,              \* config.duplicateHold
  SweepSize,         \* inFlightSweepSize
  SweepMinInterval,  \* inFlightSweepMinInterval
  MaxTime            \* bound on the clock, for model checking only

ASSUME HoldAssumption ==
  /\ NoKey \notin Keys
  /\ KeyOf \in [Requests -> Keys \cup {NoKey}]
  /\ Hold \in Nat \ {0}
  /\ SweepSize \in Nat
  /\ SweepMinInterval \in Nat \ {0}
  /\ MaxTime \in Nat

VARIABLES
  clock,        \* what time.Now returns
  inFlight,     \* t.inFlight: an entry per key, NoEntry when the key is absent
  nextLease,    \* t.nextLease
  lastSweptAt,  \* t.lastSweptAt, Never while it is the zero time
  phase,        \* how far each request is
  stamp,        \* the local variable now of acquire
  lease,        \* the lease the release closure captured, 0 for the no-op closure
  admittedAt    \* history: the clock when acquire let the request through

holdVars == <<clock, inFlight, nextLease, lastSweptAt, phase, stamp, lease, admittedAt>>

Never == -1
Entry == [lease : Nat, startedAt : Nat]
NoEntry == [lease |-> 0, startedAt |-> 0]
Keyed(r) == KeyOf[r] # NoKey
Present(table, k) == table[k] # NoEntry

-----------------------------------------------------------------------------

HoldInit ==
  /\ clock = 0
  /\ inFlight = [k \in Keys |-> NoEntry]
  /\ nextLease = 0
  /\ lastSweptAt = Never
  /\ phase = [r \in Requests |-> "new"]
  /\ stamp = [r \in Requests |-> 0]
  /\ lease = [r \in Requests |-> 0]
  /\ admittedAt = [r \in Requests |-> 0]

(* Time passes. *)
HoldTick ==
  /\ clock < MaxTime
  /\ clock' = clock + 1
  /\ UNCHANGED <<inFlight, nextLease, lastSweptAt, phase, stamp, lease, admittedAt>>

(* A request without a digest goes through with a release that does nothing. *)
AcquireUnkeyed(r) ==
  /\ phase[r] = "new" /\ ~Keyed(r)
  /\ phase' = [phase EXCEPT ![r] = "held"]
  /\ admittedAt' = [admittedAt EXCEPT ![r] = clock]
  /\ UNCHANGED <<clock, inFlight, nextLease, lastSweptAt, stamp, lease>>

(* acquire has its key and reads the time, before t.mu.Lock(). *)
ReadClock(r) ==
  /\ phase[r] = "new" /\ Keyed(r)
  /\ phase' = [phase EXCEPT ![r] = "stamped"]
  /\ stamp' = [stamp EXCEPT ![r] = clock]
  /\ UNCHANGED <<clock, inFlight, nextLease, lastSweptAt, lease, admittedAt>>

SweepDue(now) ==
  \/ lastSweptAt = Never
  \/ now - lastSweptAt >= Hold
  \/ /\ Cardinality({k \in Keys : Present(inFlight, k)}) > SweepSize
     /\ now - lastSweptAt >= SweepMinInterval

(* Mutant: the sweep forgets to look at the age of the entries. *)
SweptOfAll(now) ==
  IF SweepDue(now) THEN [k \in Keys |-> NoEntry] ELSE inFlight

(* The table once the sweep at the head of acquire has run, or was not due. *)
Swept(now) ==
  IF SweepDue(now)
  THEN [k \in Keys |-> IF now - inFlight[k].startedAt >= Hold THEN NoEntry ELSE inFlight[k]]
  ELSE inFlight

SweepMark(now) == IF SweepDue(now) THEN now ELSE lastSweptAt

(* Mutant: an absent entry is taken for one that started at the zero time. *)
BlocksEvenAbsent(table, k, now) == now - table[k].startedAt < Hold

Blocks(table, k, now) == Present(table, k) /\ now - table[k].startedAt < Hold

(* errDuplicateRequestInFlight: the sweep stays, the table takes no entry. *)
Refuse(r) ==
  /\ phase[r] = "stamped"
  /\ Blocks(Swept(stamp[r]), KeyOf[r], stamp[r])
  /\ inFlight' = Swept(stamp[r])
  /\ lastSweptAt' = SweepMark(stamp[r])
  /\ phase' = [phase EXCEPT ![r] = "refused"]
  /\ UNCHANGED <<clock, nextLease, stamp, lease, admittedAt>>

(* The request takes a new lease; an entry that expired is overwritten while *)
(* the request that made it may still be running.                            *)
Admit(r) ==
  /\ phase[r] = "stamped"
  /\ ~Blocks(Swept(stamp[r]), KeyOf[r], stamp[r])
  /\ nextLease' = nextLease + 1
  /\ inFlight' = [Swept(stamp[r]) EXCEPT
                    ![KeyOf[r]] = [lease |-> nextLease + 1, startedAt |-> stamp[r]]]
  /\ lastSweptAt' = SweepMark(stamp[r])
  /\ phase' = [phase EXCEPT ![r] = "held"]
  /\ lease' = [lease EXCEPT ![r] = nextLease + 1]
  /\ admittedAt' = [admittedAt EXCEPT ![r] = clock]
  /\ UNCHANGED <<clock, stamp>>

(* Mutant: release drops whatever entry the key has now. *)
FreedOfAnyLease(r) == [inFlight EXCEPT ![KeyOf[r]] = NoEntry]

(* Mutant: release forgets the entry it should drop. *)
FreedOfNothing(r) == inFlight

(* The table after the release closure of r: only its own lease is dropped. *)
Freed(r) ==
  IF inFlight[KeyOf[r]].lease = lease[r]
  THEN [inFlight EXCEPT ![KeyOf[r]] = NoEntry]
  ELSE inFlight

(* The release closure; once.Do makes every later call a no-op. *)
Release(r) ==
  /\ phase[r] = "held"
  /\ inFlight' = IF Keyed(r) THEN Freed(r) ELSE inFlight
  /\ phase' = [phase EXCEPT ![r] = "released"]
  /\ UNCHANGED <<clock, nextLease, lastSweptAt, stamp, lease, admittedAt>>

HoldNext ==
  \/ HoldTick
  \/ \E r \in Requests :
       AcquireUnkeyed(r) \/ ReadClock(r) \/ Refuse(r) \/ Admit(r) \/ Release(r)

HoldSpec == HoldInit /\ [][HoldNext]_holdVars

-----------------------------------------------------------------------------
(* Properties. *)

(* The types of the variables, and that no recorded time is in the future. *)
HoldTypeOK ==
  /\ clock \in Nat
  /\ inFlight \in [Keys -> Entry]
  /\ nextLease \in Nat
  /\ lastSweptAt \in Nat \cup {Never}
  /\ phase \in [Requests -> {"new", "stamped", "held", "refused", "released"}]
  /\ stamp \in [Requests -> Nat]
  /\ lease \in [Requests -> Nat]
  /\ admittedAt \in [Requests -> Nat]

(* A request that holds its key and is younger than Hold is still in the     *)
(* table under its own lease, whatever sweeps, overwrites and releases of    *)
(* older leases happened since, and however late they took the mutex.        *)
YoungHoldKept ==
  \A r \in Requests :
    phase[r] = "held" /\ Keyed(r) /\ clock - stamp[r] < Hold
      => inFlight[KeyOf[r]].lease = lease[r]

(* Every entry belongs to a request that is running: a request that ended    *)
(* leaves nothing behind that would refuse a retry.                          *)
NoOrphanEntry ==
  \A k \in Keys :
    Present(inFlight, k) =>
      \E r \in Requests :
        /\ phase[r] = "held" /\ KeyOf[r] = k
        /\ inFlight[k] = [lease |-> lease[r], startedAt |-> stamp[r]]

(* Two identical requests run at the same time only when the second was let  *)
(* through at least Hold after the first one's start.                        *)
HoldExclusion ==
  \A q, r \in Requests :
    (/\ phase[q] = "held" /\ phase[r] = "held"
     /\ Keyed(q) /\ KeyOf[q] = KeyOf[r]
     /\ lease[q] < lease[r])
      => admittedAt[r] - stamp[q] >= Hold

(* A request is refused only while an identical one is in progress, started  *)
(* less than Hold before the refused one looked at the clock: what the 409   *)
(* answer says ("An identical request is already in progress").              *)
RefusalJustified ==
  [][\A r \in Requests :
       phase[r] = "stamped" /\ phase'[r] = "refused" =>
         \E q \in Requests \ {r} :
           /\ phase[q] = "held" /\ KeyOf[q] = KeyOf[r]
           /\ stamp[r] - stamp[q] < Hold]_holdVars
=============================================================================
