---------------------------- MODULE RenderCache ----------------------------
(***************************************************************************)
(* The cache of rendered images (renderedPageCache).  A call looks its key *)
(* up, renders on a miss, and keeps the result only if the admission slot  *)
(* of its fingerprint shows that somebody asked before (putRepeated).      *)
(* Lookups take no lock: they read the map, draw a ticket from the clock   *)
(* and write it to the entry they found in three separate steps.  Entries  *)
(* are added and evicted under mu, oldest ticket first.                    *)
(*                                                                         *)
(* An element of Calls is one lookup, of a whole text or of one of its     *)
(* pages: both go through get, render and putRepeated with a key of their  *)
(* own.  A call makes at most one entry, so the entry carries its name.    *)
(***************************************************************************)
EXTENDS Integers, Sequences, FiniteSets, SequencesExt, FiniteSetsExt

CONSTANTS
  Calls,        \* lookups
  Keys,         \* renderCacheKey values
  KeyOf,        \* the key of each call
  Fingerprint,  \* of each key; keys that differ in style only share theirs
  SlotOf,       \* the admission slot of each fingerprint
  Size,         \* renderCacheEntryBytes of what each key renders to
  MaxBytes,     \* c.maxBytes; a cache with maxBytes = 0 is never consulted
  Nobody        \* no call

ASSUME CacheAssumption ==
  /\ Calls # {} /\ Nobody \notin Calls
  /\ IsFiniteSet(Calls) /\ IsFiniteSet(Keys)
  /\ KeyOf \in [Calls -> Keys]
  /\ Size \in [Keys -> Nat \ {0}]
  /\ MaxBytes \in Nat \ {0}
  /\ \A k \in Keys : Fingerprint[k] \in DOMAIN SlotOf /\ Fingerprint[k] # 0

VARIABLES
  values,     \* c.values: the call whose entry is stored under a key, or Nobody
  used,       \* entry.used of the entry of a call
  clock,      \* c.clock
  admissions, \* c.admissions: the fingerprint last stored in a slot, 0 at first
  mu,         \* the call that holds c.mu, or Nobody
  entries,    \* c.entries
  bytes,      \* c.bytes
  phase,      \* what each call does next
  entry,      \* the entry a call found
  ticket,     \* what c.clock.Add returned to a call
  candidates, \* the eviction order of the call that holds mu
  ranged,     \* history: used when candidates was collected
  touched,    \* history: the last ticket drawn for an entry
  asked       \* history: the calls that left their fingerprint in a slot

mapVars == <<values, used, clock>>
lockVars == <<mu, entries, bytes, candidates, ranged>>
callVars == <<phase, entry, ticket>>
cacheVars == <<mapVars, admissions, lockVars, callVars, touched, asked>>

Phases == {"get", "found", "stamp", "missed", "mark", "lock", "locked", "sort", "evict",
           "insert", "publish", "account", "done"}

Stored == {values[k] : k \in Keys} \ {Nobody}
BytesOf(S) == MapThenSumSet(LAMBDA o : Size[KeyOf[o]], S)
Goto(c, p) == phase' = [phase EXCEPT ![c] = p]
At(c, p) == phase[c] = p

NotRanged == [c \in Calls |-> 0]

CacheInit ==
  /\ values = [k \in Keys |-> Nobody]
  /\ used = [c \in Calls |-> 0]
  /\ clock = 0
  /\ admissions = [s \in {SlotOf[Fingerprint[k]] : k \in Keys} |-> 0]
  /\ mu = Nobody /\ entries = 0 /\ bytes = 0
  /\ candidates = <<>> /\ ranged = NotRanged
  /\ phase = [c \in Calls |-> "get"]
  /\ entry = [c \in Calls |-> Nobody]
  /\ ticket = [c \in Calls |-> 0]
  /\ touched = [c \in Calls |-> 0]
  /\ asked = {}

-----------------------------------------------------------------------------
(* get, and the render after a miss.                                         *)

Get(c) ==
  /\ At(c, "get")
  /\ entry' = [entry EXCEPT ![c] = values[KeyOf[c]]]
  /\ Goto(c, IF values[KeyOf[c]] = Nobody THEN "missed" ELSE "found")
  /\ UNCHANGED <<mapVars, admissions, lockVars, ticket, touched, asked>>

(* c.clock.Add(1), for the entry found by get or, under mu, by put. *)
DrawTicket(c) ==
  /\ At(c, "found")
  /\ clock' = clock + 1
  /\ ticket' = [ticket EXCEPT ![c] = clock']
  /\ touched' = [touched EXCEPT ![entry[c]] = clock']
  /\ Goto(c, "stamp")
  /\ UNCHANGED <<values, used, admissions, lockVars, entry, asked>>

(* Mutant: put returns the existing entry without unlocking. *)
UnlockedNever(c) == mu

Unlocked(c) == IF mu = c THEN Nobody ELSE mu

(* entry.used.Store: the entry may be stamped by others, or evicted, since   *)
(* it was found.  A put that found an entry unlocks as it ends.              *)
Stamp(c) ==
  /\ At(c, "stamp")
  /\ used' = [used EXCEPT ![entry[c]] = ticket[c]]
  /\ mu' = Unlocked(c)
  /\ entry' = [entry EXCEPT ![c] = Nobody]
  /\ ticket' = [ticket EXCEPT ![c] = 0]
  /\ Goto(c, "done")
  /\ UNCHANGED <<values, clock, admissions, entries, bytes, candidates, ranged, touched, asked>>

RenderFails(c) ==
  /\ At(c, "missed")
  /\ Goto(c, "done")
  /\ UNCHANGED <<mapVars, admissions, lockVars, entry, ticket, touched, asked>>

-----------------------------------------------------------------------------
(* admit.                                                                    *)

FingerprintOf(c) == Fingerprint[KeyOf[c]]
Slot(c) == SlotOf[FingerprintOf(c)]

(* Mutant: an empty slot admits. *)
RepeatedOrEmpty(c) == admissions[Slot(c)] \in {0, FingerprintOf(c)}

Repeated(c) == admissions[Slot(c)] = FingerprintOf(c)

(* slot.Load; a result larger than the cache is returned without it. *)
Admit(c) ==
  /\ At(c, "missed")
  /\ Goto(c, IF ~Repeated(c) THEN "mark"
             ELSE IF Size[KeyOf[c]] > MaxBytes THEN "done" ELSE "lock")
  /\ UNCHANGED <<mapVars, admissions, lockVars, entry, ticket, touched, asked>>

(* slot.Store: whoever stores last owns the slot. *)
Mark(c) ==
  /\ At(c, "mark")
  /\ admissions' = [admissions EXCEPT ![Slot(c)] = FingerprintOf(c)]
  /\ asked' = asked \cup {c}
  /\ Goto(c, "done")
  /\ UNCHANGED <<mapVars, lockVars, entry, ticket, touched>>

-----------------------------------------------------------------------------
(* put.                                                                      *)

Lock(c) ==
  /\ At(c, "lock")
  /\ mu = Nobody
  /\ mu' = c
  /\ Goto(c, "locked")
  /\ UNCHANGED <<mapVars, admissions, entries, bytes, candidates, ranged, entry, ticket, touched,
                 asked>>

(* Mutant: put does not look again under mu. *)
ExistingIgnored(c) == Nobody

Existing(c) == values[KeyOf[c]]

Fits(c) == bytes + Size[KeyOf[c]] <= MaxBytes

(* Another call may have stored the key since get missed it. *)
LookAgain(c) ==
  /\ At(c, "locked")
  /\ entry' = [entry EXCEPT ![c] = Existing(c)]
  /\ Goto(c, IF Existing(c) # Nobody THEN "found" ELSE IF Fits(c) THEN "insert" ELSE "sort")
  /\ ranged' = IF Existing(c) = Nobody /\ ~Fits(c) THEN used ELSE ranged
  /\ UNCHANGED <<mapVars, admissions, mu, entries, bytes, candidates, ticket, touched, asked>>

(* What the comparisons of one sort can have seen of used: gets stamp        *)
(* entries meanwhile, and each comparison loads the stamps anew.             *)
Seen(o) == Min({ranged[o], used[o]}) .. Max({ranged[o], used[o]})

OldestFirst(order, seen) == \A i, j \in DOMAIN order : i < j => seen[order[i]] <= seen[order[j]]

(* Mutant: the comparison is the wrong way round. *)
NewestFirst(order, seen) == \A i, j \in DOMAIN order : i < j => seen[order[j]] <= seen[order[i]]

EvictionOrder(order, seen) == OldestFirst(order, seen)

Sort(c) ==
  /\ At(c, "sort")
  /\ \E order \in SetToSeqs(Stored) :
       \E seen \in [Stored -> 0 .. clock] :
         /\ \A o \in Stored : seen[o] \in Seen(o)
         /\ EvictionOrder(order, seen)
         /\ candidates' = order
  /\ Goto(c, "evict")
  /\ UNCHANGED <<mapVars, admissions, mu, entries, bytes, ranged, entry, ticket, touched, asked>>

Evict(c) ==
  /\ At(c, "evict")
  /\ candidates # <<>> /\ ~Fits(c)
  /\ LET o == Head(candidates) IN
       /\ values' = [values EXCEPT ![KeyOf[o]] = Nobody]
       /\ bytes' = bytes - Size[KeyOf[o]]
  /\ entries' = entries - 1
  /\ candidates' = Tail(candidates)
  /\ UNCHANGED <<used, clock, admissions, mu, ranged, callVars, touched, asked>>

EnoughEvicted(c) ==
  /\ At(c, "evict")
  /\ candidates = <<>> \/ Fits(c)
  /\ candidates' = <<>> /\ ranged' = NotRanged
  /\ Goto(c, "insert")
  /\ UNCHANGED <<mapVars, admissions, mu, entries, bytes, entry, ticket, touched, asked>>

(* The new entry gets its first ticket before others can find it. *)
NewEntry(c) ==
  /\ At(c, "insert")
  /\ clock' = clock + 1
  /\ used' = [used EXCEPT ![c] = clock']
  /\ touched' = [touched EXCEPT ![c] = clock']
  /\ Goto(c, "publish")
  /\ UNCHANGED <<values, admissions, lockVars, entry, ticket, asked>>

(* c.values.Store: from here on gets find the entry. *)
Publish(c) ==
  /\ At(c, "publish")
  /\ values' = [values EXCEPT ![KeyOf[c]] = c]
  /\ Goto(c, "account")
  /\ UNCHANGED <<used, clock, admissions, lockVars, entry, ticket, touched, asked>>

Account(c) ==
  /\ At(c, "account")
  /\ entries' = entries + 1
  /\ bytes' = bytes + Size[KeyOf[c]]
  /\ mu' = Nobody
  /\ Goto(c, "done")
  /\ UNCHANGED <<mapVars, admissions, candidates, ranged, entry, ticket, touched, asked>>

-----------------------------------------------------------------------------
Render(c) == RenderFails(c) \/ Admit(c)

Step(c) ==
  \/ Get(c) \/ DrawTicket(c) \/ Stamp(c)
  \/ Render(c) \/ Mark(c)
  \/ Lock(c) \/ LookAgain(c) \/ Sort(c) \/ Evict(c) \/ EnoughEvicted(c)
  \/ NewEntry(c) \/ Publish(c) \/ Account(c)

CacheNext == \E c \in Calls : Step(c)

(* Every goroutine keeps running, and a call takes mu once. *)
CacheFairness == \A c \in Calls : WF_cacheVars(Step(c))

CacheSpec == CacheInit /\ [][CacheNext]_cacheVars /\ CacheFairness

-----------------------------------------------------------------------------
(* Properties. *)

CacheTypeOK ==
  /\ values \in [Keys -> Calls \cup {Nobody}]
  /\ used \in [Calls -> 0 .. clock] /\ touched \in [Calls -> 0 .. clock]
  /\ clock \in 0 .. Cardinality(Calls)
  /\ mu \in Calls \cup {Nobody}
  /\ entries \in 0 .. Cardinality(Keys) /\ bytes \in 0 .. MaxBytes
  /\ phase \in [Calls -> Phases]
  /\ entry \in [Calls -> Calls \cup {Nobody}]
  /\ ticket \in [Calls -> 0 .. clock]
  /\ ToSet(candidates) \subseteq Stored
  /\ asked \subseteq Calls

(* What the cache retains never exceeds its budget, in the middle of a put   *)
(* too: put evicts before it stores.                                         *)
RetainedWithinBudget == BytesOf(Stored) <= MaxBytes

(* With mu free the two counters describe the map: a key that two calls      *)
(* missed at the same time is stored and counted once.                       *)
CountersExact ==
  mu = Nobody => /\ bytes = BytesOf(Stored)
                 /\ entries = Cardinality(Stored)

(* The cache keeps its books: types, budget and counters, while calls hit,   *)
(* miss, store and evict at the same time.                                   *)
CacheKeepsBooks == CacheTypeOK /\ RetainedWithinBudget /\ CountersExact

(* Nothing is kept that was asked for once only: another call with the       *)
(* fingerprint of the entry has missed and left its mark.                    *)
KeptAfterRepeat ==
  \A o \in Stored : \E c \in asked \ {o} : FingerprintOf(c) = FingerprintOf(o)

(* An entry evicted on a stamp that did not move since put looked at the map *)
(* was used before every entry that is still there was touched: put evicts   *)
(* the least recently used.  The lock-free stamps spoil that order only for  *)
(* entries hit while put sorts, or whose own hits overlap.                   *)
EvictsLeastRecent ==
  [][\A o \in Stored :
       values'[KeyOf[o]] = Nobody /\ used[o] = ranged[o]
         => \A j \in Stored \ {o} : used[o] < touched[j]]_cacheVars

(* Every lookup returns: nobody keeps mu.                                    *)
CallsEnd == <>(\A c \in Calls : At(c, "done"))
=============================================================================
