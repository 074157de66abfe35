------------------------- MODULE RenderCacheProofs -------------------------
(***************************************************************************)
(* For every number of lookups, keys, fingerprints and slots, every size   *)
(* and every budget: the cache keeps nothing that was asked for once only, *)
(* it stays within its budget with counters that are exact whenever mu is  *)
(* free, and put evicts the least recently used entries first.             *)
(***************************************************************************)
EXTENDS RenderCache, FiniteSetTheorems, SequenceTheorems, WellFoundedInduction, TLAPS

-----------------------------------------------------------------------------
(* What is kept was asked for twice.                                         *)

(* From admission on a call carries the promise of another asker. *)
Admitted == {"lock", "locked", "sort", "evict", "insert", "publish", "account"}

OtherAsker(c) == \E d \in asked \ {c} : FingerprintOf(d) = FingerprintOf(c)

(* A fingerprint in a slot was left by a call, and that call is over, so it  *)
(* is another one than the call that finds it there.                         *)
KeepInv ==
  /\ values \in [Keys -> Calls \cup {Nobody}]
  /\ phase \in [Calls -> Phases]
  /\ asked \subseteq {c \in Calls : phase[c] = "done"}
  /\ admissions \in [{SlotOf[Fingerprint[k]] : k \in Keys}
                       -> {0} \cup {Fingerprint[k] : k \in Keys}]
  /\ \A s \in DOMAIN admissions :
       admissions[s] # 0 => \E d \in asked : FingerprintOf(d) = admissions[s]
  /\ \A c \in Calls : phase[c] \in Admitted => OtherAsker(c)
  /\ \A k \in Keys : values[k] # Nobody => OtherAsker(values[k])

(* Nothing is stored, admitted or asked in the initial state.                *)
LEMMA KeepInit == CacheInit => KeepInv
<1> SUFFICES ASSUME CacheInit PROVE KeepInv
  OBVIOUS
<1> QED
  BY CacheAssumption, SMTT(30)
     DEF CacheInit, KeepInv, Phases, Admitted, OtherAsker

(* A step that leaves the map and the slots alone and takes no call past     *)
(* admission keeps the invariant.                                            *)
LEMMA QuietStep ==
  ASSUME KeepInv, NEW c \in Calls, NEW p \in Phases,
         phase' = [phase EXCEPT ![c] = p],
         p \in Admitted => phase[c] \in Admitted,
         phase[c] # "done",
         UNCHANGED <<values, admissions, asked>>
  PROVE  KeepInv'
<1>1. phase' \in [Calls -> Phases]
  BY DEF KeepInv
<1>2. asked' \subseteq {d \in Calls : phase'[d] = "done"}
  BY DEF KeepInv
<1>3. \A d \in Calls : phase'[d] \in Admitted => OtherAsker(d)
  BY DEF KeepInv
<1>4. \A d : OtherAsker(d) => OtherAsker(d)'
  BY DEF OtherAsker, FingerprintOf
<1> QED
  BY <1>1, <1>2, <1>3, <1>4 DEF KeepInv, FingerprintOf

(* Every step of the cache keeps it.                                         *)
LEMMA KeepNext == KeepInv /\ [CacheNext]_cacheVars => KeepInv'
<1> SUFFICES ASSUME KeepInv, [CacheNext]_cacheVars PROVE KeepInv'
  OBVIOUS
<1>1. CASE UNCHANGED cacheVars
  BY <1>1 DEF cacheVars, mapVars, callVars, KeepInv, OtherAsker, FingerprintOf
<1>2. ASSUME NEW c \in Calls, Step(c) PROVE KeepInv'
  <2>1. CASE Get(c)
    BY <2>1, QuietStep, Zenon DEF Get, At, Goto, Phases, Admitted, mapVars
  <2>2. CASE DrawTicket(c)
    BY <2>2, QuietStep DEF DrawTicket, At, Goto, Phases, Admitted
  <2>3. CASE Stamp(c)
    BY <2>3, QuietStep DEF Stamp, At, Goto, Phases, Admitted
  <2>4. CASE RenderFails(c)
    BY <2>4, QuietStep DEF RenderFails, At, Goto, Phases, Admitted, mapVars
  <2>5. CASE Admit(c)
    <3>1. CASE Repeated(c)
      <4>1. admissions[Slot(c)] # 0 /\ Slot(c) \in DOMAIN admissions
        BY <3>1, CacheAssumption DEF KeepInv, Repeated, Slot, FingerprintOf
      <4>2. PICK d \in asked : FingerprintOf(d) = FingerprintOf(c)
        BY <3>1, <4>1 DEF KeepInv, Repeated
      <4>3. d # c
        BY <2>5 DEF Admit, At, KeepInv
      <4>4. OtherAsker(c)
        BY <4>2, <4>3 DEF OtherAsker
      <4>5. \A e : OtherAsker(e) => OtherAsker(e)'
        BY <2>5 DEF Admit, OtherAsker, FingerprintOf
      <4> QED
        BY <2>5, <3>1, <4>4, <4>5
           DEF Admit, At, Goto, KeepInv, Phases, mapVars, FingerprintOf
    <3>2. CASE ~Repeated(c)
      BY <2>5, <3>2, QuietStep DEF Admit, At, Goto, Phases, Admitted, mapVars
    <3> QED
      BY <3>1, <3>2
  <2>6. CASE Mark(c)
    <3>1. asked' = asked \cup {c} /\ phase' = [phase EXCEPT ![c] = "done"]
      BY <2>6 DEF Mark, Goto
    <3>2. \A e : OtherAsker(e) => OtherAsker(e)'
      BY <3>1 DEF OtherAsker, FingerprintOf
    <3>3. /\ phase' \in [Calls -> Phases]
          /\ asked' \subseteq {d \in Calls : phase'[d] = "done"}
          /\ \A d \in Calls : phase'[d] \in Admitted => phase[d] \in Admitted
      BY <3>1 DEF KeepInv, Phases, Admitted
    <3>4. admissions' = [admissions EXCEPT ![Slot(c)] = FingerprintOf(c)]
      BY <2>6 DEF Mark
    <3>5. admissions' \in [{SlotOf[Fingerprint[k]] : k \in Keys}
                              -> {0} \cup {Fingerprint[k] : k \in Keys}]
      BY <3>4, CacheAssumption DEF KeepInv, FingerprintOf
    <3>6. ASSUME NEW s \in DOMAIN admissions', admissions'[s] # 0
          PROVE  \E d \in asked' : FingerprintOf(d) = admissions'[s]
      BY <3>1, <3>4, <3>6 DEF KeepInv
    <3> QED
      BY <2>6, <3>2, <3>3, <3>5, <3>6 DEF Mark, KeepInv, mapVars, FingerprintOf
  <2>7. CASE Lock(c)
    BY <2>7, QuietStep DEF Lock, At, Goto, Phases, Admitted, mapVars
  <2>8. CASE LookAgain(c)
    BY <2>8, QuietStep DEF LookAgain, At, Goto, Phases, Admitted, mapVars
  <2>9. CASE Sort(c)
    BY <2>9, QuietStep DEF Sort, At, Goto, Phases, Admitted, mapVars
  <2>10. CASE Evict(c)
    <3>1. PICK o : values' = [values EXCEPT ![KeyOf[o]] = Nobody]
      BY <2>10 DEF Evict
    <3>2. values' \in [Keys -> Calls \cup {Nobody}]
      BY <3>1 DEF KeepInv
    <3>3. \A k \in Keys : values'[k] # Nobody => values'[k] = values[k]
      BY <3>1 DEF KeepInv
    <3>4. UNCHANGED <<phase, asked, admissions>>
      BY <2>10 DEF Evict, callVars
    <3>5. \A e : OtherAsker(e) => OtherAsker(e)'
      BY <3>4 DEF OtherAsker, FingerprintOf
    <3> QED
      BY <3>2, <3>3, <3>4, <3>5 DEF KeepInv, FingerprintOf
  <2>11. CASE EnoughEvicted(c)
    BY <2>11, QuietStep DEF EnoughEvicted, At, Goto, Phases, Admitted, mapVars
  <2>12. CASE NewEntry(c)
    BY <2>12, QuietStep DEF NewEntry, At, Goto, Phases, Admitted
  <2>13. CASE Publish(c)
    <3>1. /\ values' = [values EXCEPT ![KeyOf[c]] = c]
          /\ phase' = [phase EXCEPT ![c] = "account"]
          /\ phase[c] = "publish"
          /\ UNCHANGED <<admissions, asked>>
      BY <2>13 DEF Publish, Goto, At
    <3>2. OtherAsker(c)
      BY <3>1 DEF KeepInv, Admitted
    <3>3. values' \in [Keys -> Calls \cup {Nobody}]
      BY <3>1 DEF KeepInv
    <3>4. \A k \in Keys : values'[k] # Nobody => values'[k] = values[k] \/ values'[k] = c
      BY <3>1 DEF KeepInv
    <3>5. /\ phase' \in [Calls -> Phases]
          /\ asked' \subseteq {d \in Calls : phase'[d] = "done"}
          /\ \A d \in Calls : phase'[d] \in Admitted => phase[d] \in Admitted
      BY <3>1 DEF KeepInv, Phases, Admitted
    <3>6. \A e : OtherAsker(e) => OtherAsker(e)'
      BY <3>1 DEF OtherAsker, FingerprintOf
    <3> QED
      BY <3>1, <3>2, <3>3, <3>4, <3>5, <3>6 DEF KeepInv, FingerprintOf
  <2>14. CASE Account(c)
    BY <2>14, QuietStep DEF Account, At, Goto, Phases, Admitted, mapVars
  <2> QED
    BY <1>2, <2>1, <2>2, <2>3, <2>4, <2>5, <2>6, <2>7, <2>8, <2>9, <2>10, <2>11, <2>12, <2>13,
       <2>14 DEF Step, Render
<1> QED
  BY <1>1, <1>2 DEF CacheNext

(* KeptAfterRepeat: whatever the cache retains, a lookup other than the one  *)
(* that made it had asked for that fingerprint.                              *)
THEOREM KeptAfterRepeatHolds == CacheSpec => []KeptAfterRepeat
<1>1. KeepInv => KeptAfterRepeat
  BY DEF KeepInv, KeptAfterRepeat, OtherAsker, Stored
<1> QED
  BY <1>1, KeepInit, KeepNext, PTL DEF CacheSpec

-----------------------------------------------------------------------------
(* Sums over the stored entries.  The fold that BytesOf names is a function  *)
(* defined by recursion on sets: that it exists, and that it adds up the     *)
(* sizes in any order, is by induction on the size of the set.               *)

(* A nonempty set of numbers has a least element.                            *)
LEMMA Least ==
  ASSUME NEW T, T \subseteq Nat, T # {}
  PROVE  \E m \in T : \A n \in T : m <= n
<1>1. PICK m \in T : \A y \in T : ~ (<<y, m>> \in OpToRel(<, Nat))
  BY NatLessThanWellFounded, WFMin
<1>2. \A y \in T : ~(y < m)
  BY <1>1 DEF OpToRel
<1>3. m \in Nat /\ \A y \in T : y \in Nat
  OBVIOUS
<1>4. \A y \in T : m <= y
  BY <1>2, <1>3
<1> QED
  BY <1>4

(* A set of numbers with 0 and the successor of each of its elements.        *)
LEMMA SetInduct ==
  ASSUME NEW T, T \subseteq Nat, 0 \in T, \A n \in T : n + 1 \in T
  PROVE  \A n \in Nat : n \in T
<1> SUFFICES ASSUME Nat \ T # {} PROVE FALSE
  OBVIOUS
<1>1. PICK m \in Nat \ T : \A n \in Nat \ T : m <= n
  BY Least
<1>2. m \in Nat /\ m # 0
  OBVIOUS
<1>3. m - 1 \in Nat /\ m - 1 < m
  BY <1>2
<1>4. m - 1 \in T
  BY <1>1, <1>3
<1>5. (m - 1) + 1 = m
  BY <1>2
<1> QED
  BY <1>1, <1>4, <1>5

SizeOf(o) == Size[KeyOf[o]]
First(S) == CHOOSE o \in S : TRUE

(* f adds up the sizes of the subsets of D of at most n elements.            *)
SumsUpTo(f, D, n) ==
  \A S \in SUBSET D :
    Cardinality(S) <= n =>
      /\ S = {} => f[S] = 0
      /\ S # {} => f[S] = SizeOf(First(S)) + f[S \ {First(S)}]

Summing(f, D) == f \in [SUBSET D -> Nat] /\ SumsUpTo(f, D, Cardinality(D))

(* An entry has a positive size.                                             *)
LEMMA SizeType == \A o \in Calls : SizeOf(o) \in Nat \ {0}
  BY CacheAssumption DEF SizeOf

(* The element a fold takes first is one of the set.                         *)
LEMMA FirstIn == ASSUME NEW S, S # {} PROVE First(S) \in S
  BY DEF First

(* Taking an element out of a finite set leaves one fewer.                   *)
LEMMA SmallerSet ==
  ASSUME NEW D, IsFiniteSet(D), NEW S \in SUBSET D, NEW o \in S
  PROVE  /\ S \ {o} \in SUBSET D
         /\ Cardinality(S) \in Nat /\ Cardinality(S \ {o}) \in Nat
         /\ Cardinality(S) = Cardinality(S \ {o}) + 1
<1>1. IsFiniteSet(S)
  BY FS_Subset
<1>2. IsFiniteSet(S \ {o}) /\ Cardinality(S \ {o}) = Cardinality(S) - 1
  BY <1>1, FS_RemoveElement
<1>3. Cardinality(S) \in Nat /\ Cardinality(S \ {o}) \in Nat
  BY <1>1, <1>2, FS_CardinalityType
<1> QED
  BY <1>2, <1>3

(* Such a function exists, whatever the set and the bound.                   *)
LEMMA SumExists ==
  ASSUME NEW D \in SUBSET Calls, IsFiniteSet(D), NEW m \in Nat
  PROVE  \E f \in [SUBSET D -> Nat] : SumsUpTo(f, D, m)
<1> DEFINE T == {n \in Nat : \E f \in [SUBSET D -> Nat] : SumsUpTo(f, D, n)}
<1>1. 0 \in T
  <2> DEFINE z == [S \in SUBSET D |-> 0]
  <2>1. ASSUME NEW S \in SUBSET D, Cardinality(S) <= 0 PROVE S = {}
    BY <2>1, FS_EmptySet, FS_Subset, FS_CardinalityType
  <2>2. SumsUpTo(z, D, 0)
    BY <2>1 DEF SumsUpTo
  <2> QED
    BY <2>2
<1>2. ASSUME NEW n \in T PROVE n + 1 \in T
  <2>1. PICK f \in [SUBSET D -> Nat] : SumsUpTo(f, D, n)
    BY <1>2
  <2> DEFINE g == [S \in SUBSET D |->
                     IF S = {} THEN 0 ELSE SizeOf(First(S)) + f[S \ {First(S)}]]
  <2>2. \A S \in SUBSET D : S # {} => First(S) \in D /\ S \ {First(S)} \in SUBSET D
    BY FirstIn
  <2>3. g \in [SUBSET D -> Nat]
    <3>1. ASSUME NEW S \in SUBSET D, S # {} PROVE SizeOf(First(S)) + f[S \ {First(S)}] \in Nat
      <4>1. SizeOf(First(S)) \in Nat
        BY <3>1, <2>2, SizeType
      <4>2. f[S \ {First(S)}] \in Nat
        BY <3>1, <2>2
      <4> QED
        BY <4>1, <4>2
    <3> QED
      BY <3>1
  <2>4. \A S \in SUBSET D : Cardinality(S) <= n => g[S] = f[S]
    BY <2>1 DEF SumsUpTo
  <2>5. ASSUME NEW S \in SUBSET D, Cardinality(S) <= n + 1, S # {}
        PROVE  g[S] = SizeOf(First(S)) + g[S \ {First(S)}]
    <3>1. First(S) \in S
      BY <2>5, FirstIn
    <3>2. S \ {First(S)} \in SUBSET D /\ Cardinality(S \ {First(S)}) <= n
      BY <2>5, <3>1, SmallerSet
    <3>3. g[S \ {First(S)}] = f[S \ {First(S)}]
      BY <2>4, <3>2
    <3> QED
      BY <2>5, <3>3
  <2>6. SumsUpTo(g, D, n + 1)
    BY <2>5 DEF SumsUpTo
  <2> HIDE DEF g
  <2>7. n + 1 \in Nat
    OBVIOUS
  <2> QED
    BY <2>3, <2>6, <2>7
<1> HIDE DEF T
<1>3. \A n \in Nat : n \in T
  BY <1>1, <1>2, SetInduct DEF T
<1> QED
  BY <1>3 DEF T

(* BytesOf is such a function.                                               *)
LEMMA BytesDef ==
  ASSUME NEW D \in SUBSET Calls, IsFiniteSet(D)
  PROVE  \E f \in [SUBSET D -> Nat] : BytesOf(D) = f[D] /\ SumsUpTo(f, D, Cardinality(D))
<1> DEFINE Rec(f) == f = [S \in SUBSET D |-> IF S = {} THEN 0
                                             ELSE SizeOf(First(S)) + f[S \ {First(S)}]]
<1>1. BytesOf(D) = (CHOOSE f : Rec(f))[D]
  BY Zenon DEF BytesOf, MapThenSumSet, MapThenFoldSet, First, SizeOf
<1>2. Cardinality(D) \in Nat /\ \A S \in SUBSET D : Cardinality(S) <= Cardinality(D)
  BY FS_CardinalityType, FS_Subset
<1>3. PICK f \in [SUBSET D -> Nat] : SumsUpTo(f, D, Cardinality(D))
  BY <1>2, SumExists
<1>4. Rec(f)
  <2>1. \A S \in SUBSET D : f[S] = IF S = {} THEN 0 ELSE SizeOf(First(S)) + f[S \ {First(S)}]
    BY <1>2, <1>3 DEF SumsUpTo
  <2> QED
    BY <2>1
<1> DEFINE h == CHOOSE g : Rec(g)
<1>5. Rec(h)
  <2> HIDE DEF Rec
  <2> QED
    BY <1>4
<1>6. \A S \in SUBSET D : h[S] = IF S = {} THEN 0 ELSE SizeOf(First(S)) + h[S \ {First(S)}]
  <2> HIDE DEF h
  <2> QED
    BY <1>5
<1>7. BytesOf(D) = h[D]
  BY <1>1
<1>8. h = [S \in SUBSET D |-> h[S]]
  <2> HIDE DEF h
  <2> QED
    BY <1>5
<1> HIDE DEF h, Rec
<1>9. SumsUpTo(h, D, Cardinality(D))
  BY <1>6 DEF SumsUpTo
<1>10. h \in [SUBSET D -> Nat]
  <2> DEFINE T == {n \in Nat : \A S \in SUBSET D : Cardinality(S) <= n => h[S] \in Nat}
  <2>1. 0 \in T
    <3>1. ASSUME NEW S \in SUBSET D, Cardinality(S) <= 0 PROVE S = {}
      BY <3>1, FS_EmptySet, FS_Subset, FS_CardinalityType
    <3> QED
      BY <3>1, <1>6
  <2>2. ASSUME NEW n \in T PROVE n + 1 \in T
    <3>1. ASSUME NEW S \in SUBSET D, Cardinality(S) <= n + 1 PROVE h[S] \in Nat
      <4>1. CASE S = {}
        <5>1. h[S] = 0
          BY <1>6, <4>1
        <5> QED
          BY <5>1
      <4>2. CASE S # {}
        <5>1. First(S) \in S /\ First(S) \in Calls
          BY <4>2, FirstIn
        <5>2. S \ {First(S)} \in SUBSET D /\ Cardinality(S \ {First(S)}) <= n
          BY <3>1, <5>1, SmallerSet
        <5>3. h[S \ {First(S)}] \in Nat /\ SizeOf(First(S)) \in Nat
          BY <5>1, <5>2, SizeType
        <5>4. h[S] = SizeOf(First(S)) + h[S \ {First(S)}]
          BY <1>6, <4>2
        <5> QED
          BY <5>3, <5>4
      <4> QED
        BY <4>1, <4>2
    <3>2. n \in Nat
      OBVIOUS
    <3> QED
      BY <3>1, <3>2
  <2> HIDE DEF T
  <2>3. \A n \in Nat : n \in T
    BY <2>1, <2>2, SetInduct DEF T
  <2>4. \A S \in SUBSET D : h[S] \in Nat
    BY <2>3, <1>2 DEF T
  <2> QED
    BY <1>8, <2>4
<1> QED
  BY <1>7, <1>9, <1>10

(* Sets of lookups are finite.                                               *)
LEMMA SubFinite == \A S \in SUBSET Calls : IsFiniteSet(S) /\ Cardinality(S) \in Nat
  BY CacheAssumption, FS_Subset, FS_CardinalityType

(* What such functions say of a set does not depend on their domain.         *)
LEMMA SumsAgree ==
  ASSUME NEW D \in SUBSET Calls, NEW E \in SUBSET D,
         NEW f, Summing(f, D), NEW g, Summing(g, E)
  PROVE  \A S \in SUBSET E : f[S] = g[S]
<1> USE DEF Summing
<1> DEFINE T == {n \in Nat : \A S \in SUBSET E : Cardinality(S) <= n => f[S] = g[S]}
<1>1. /\ \A S \in SUBSET D : Cardinality(S) <= Cardinality(D)
      /\ \A S \in SUBSET E : Cardinality(S) <= Cardinality(E)
  BY SubFinite, FS_Subset
<1>2. 0 \in T
  <2>1. ASSUME NEW S \in SUBSET E, Cardinality(S) <= 0 PROVE S = {}
    BY <2>1, FS_EmptySet, SubFinite
  <2> QED
    BY <1>1, <2>1 DEF SumsUpTo
<1>3. ASSUME NEW n \in T PROVE n + 1 \in T
  <2>1. ASSUME NEW S \in SUBSET E, Cardinality(S) <= n + 1 PROVE f[S] = g[S]
    <3>1. CASE S = {}
      BY <1>1, <3>1 DEF SumsUpTo
    <3>2. CASE S # {}
      <4>1. First(S) \in S
        BY <3>2, FirstIn
      <4>2. S \ {First(S)} \in SUBSET E /\ Cardinality(S \ {First(S)}) <= n
        BY <2>1, <4>1, SmallerSet, SubFinite
      <4>3. f[S \ {First(S)}] = g[S \ {First(S)}]
        BY <4>2
      <4> QED
        BY <1>1, <3>2, <4>3 DEF SumsUpTo
    <3> QED
      BY <3>1, <3>2
  <2>2. n \in Nat
    OBVIOUS
  <2> QED
    BY <2>1, <2>2
<1> HIDE DEF T
<1>4. \A n \in Nat : n \in T
  BY <1>2, <1>3, SetInduct DEF T
<1> QED
  BY <1>4, SubFinite DEF T

(* BytesOf of the empty set, and of any other by its first element.          *)
LEMMA BytesFirst ==
  /\ BytesOf({}) = 0
  /\ \A S \in SUBSET Calls :
       /\ BytesOf(S) \in Nat
       /\ S # {} => BytesOf(S) = SizeOf(First(S)) + BytesOf(S \ {First(S)})
<1>1. ASSUME NEW S \in SUBSET Calls PROVE BytesOf(S) \in Nat
  <2>1. PICK f \in [SUBSET S -> Nat] : BytesOf(S) = f[S]
    BY BytesDef, SubFinite
  <2>2. f[S] \in Nat
    OBVIOUS
  <2> QED
    BY <2>1, <2>2
<1>2. BytesOf({}) = 0
  <2>1. PICK f \in [SUBSET {} -> Nat] :
          BytesOf({}) = f[{}] /\ SumsUpTo(f, {}, Cardinality({}))
    BY BytesDef, FS_EmptySet, Zenon
  <2>2. Cardinality({}) <= Cardinality({})
    BY FS_EmptySet
  <2> QED
    BY <2>1, <2>2 DEF SumsUpTo
<1>3. ASSUME NEW S \in SUBSET Calls, S # {}
      PROVE  BytesOf(S) = SizeOf(First(S)) + BytesOf(S \ {First(S)})
  <2> DEFINE E == S \ {First(S)}
  <2>1. E \in SUBSET S /\ E \in SUBSET Calls
    OBVIOUS
  <2>2. PICK f \in [SUBSET S -> Nat] : BytesOf(S) = f[S] /\ SumsUpTo(f, S, Cardinality(S))
    BY BytesDef, SubFinite
  <2>3. PICK g \in [SUBSET E -> Nat] : BytesOf(E) = g[E] /\ SumsUpTo(g, E, Cardinality(E))
    BY <2>1, BytesDef, SubFinite
  <2>4. f[E] = g[E]
    <3> HIDE DEF E
    <3>1. Summing(f, S) /\ Summing(g, E)
      BY <2>2, <2>3 DEF Summing
    <3>2. \A X \in SUBSET E : f[X] = g[X]
      BY <2>1, <3>1, SumsAgree
    <3> QED
      BY <3>2
  <2>5. f[S] = SizeOf(First(S)) + f[E]
    BY <1>3, <2>2, SubFinite DEF SumsUpTo
  <2> QED
    BY <2>2, <2>3, <2>4, <2>5
<1> QED
  BY <1>1, <1>2, <1>3

(* Taking any entry out of a set takes its size out of the sum: the order in *)
(* which the fold takes them does not matter.                                *)
LEMMA BytesWithout ==
  ASSUME NEW S \in SUBSET Calls, NEW o \in S
  PROVE  BytesOf(S) = BytesOf(S \ {o}) + SizeOf(o)
<1> DEFINE Good(X) == \A x \in X : BytesOf(X) = BytesOf(X \ {x}) + SizeOf(x)
           T == {n \in Nat : \A X \in SUBSET Calls : Cardinality(X) <= n => Good(X)}
<1>1. 0 \in T
  <2>1. ASSUME NEW X \in SUBSET Calls, Cardinality(X) <= 0 PROVE X = {}
    BY <2>1, FS_EmptySet, SubFinite
  <2> QED
    BY <2>1
<1>2. ASSUME NEW n \in T PROVE n + 1 \in T
  <2>1. ASSUME NEW X \in SUBSET Calls, Cardinality(X) <= n + 1, NEW x \in X
        PROVE  BytesOf(X) = BytesOf(X \ {x}) + SizeOf(x)
    <3> DEFINE y == First(X)
    <3>1. y \in X /\ BytesOf(X) = SizeOf(y) + BytesOf(X \ {y})
      BY FirstIn, BytesFirst
    <3> HIDE DEF y
    <3>2. BytesOf(X \ {y}) \in Nat /\ BytesOf(X \ {x}) \in Nat
          /\ BytesOf((X \ {x}) \ {y}) \in Nat
      BY BytesFirst
    <3>3. SizeOf(x) \in Nat /\ SizeOf(y) \in Nat
      BY <3>1, SizeType
    <3>4. CASE x = y
      BY <3>1, <3>2, <3>3, <3>4
    <3>5. CASE x # y
      <4>1. /\ X \ {x} \in SUBSET Calls /\ Cardinality(X \ {x}) <= n
            /\ X \ {y} \in SUBSET Calls /\ Cardinality(X \ {y}) <= n
        BY <2>1, <3>1, SmallerSet, CacheAssumption
      <4>2. Good(X \ {x}) /\ Good(X \ {y})
        BY <4>1
      <4>3. y \in X \ {x} /\ x \in X \ {y} /\ (X \ {x}) \ {y} = (X \ {y}) \ {x}
        BY <3>1, <3>5
      <4>4. BytesOf(X \ {x}) = BytesOf((X \ {x}) \ {y}) + SizeOf(y)
        BY <4>2, <4>3
      <4>5. BytesOf(X \ {y}) = BytesOf((X \ {x}) \ {y}) + SizeOf(x)
        BY <4>2, <4>3
      <4> QED
        BY <3>1, <3>2, <3>3, <4>4, <4>5
    <3> QED
      BY <3>4, <3>5
  <2>2. n \in Nat
    OBVIOUS
  <2> QED
    BY <2>1, <2>2
<1> HIDE DEF T
<1>3. \A n \in Nat : n \in T
  BY <1>1, <1>2, SetInduct DEF T
<1> QED
  BY <1>3, SubFinite DEF T

-----------------------------------------------------------------------------
(* The inductive invariant of the cache.                                     *)

(* Under mu; a call that found an entry there keeps it until it stamps.      *)
Holding == {"locked", "sort", "evict", "insert", "publish", "account"}

(* Who holds mu, and what a call has found.                                  *)
LockOK ==
  /\ mu \in Calls \cup {Nobody}
  /\ phase \in [Calls -> Phases]
  /\ \A c \in Calls : phase[c] \in Holding => mu = c
  /\ \A c \in Calls : mu = c => phase[c] \in Holding \cup {"found", "stamp"}
  /\ entry \in [Calls -> Calls \cup {Nobody}]
  /\ \A c \in Calls : phase[c] \in {"found", "stamp"} => entry[c] # Nobody

(* Counted is the part of the map that c.entries and c.bytes stand for.      *)
Counted == {o \in Stored : phase[o] # "account"}

(* An entry is stored under its own key, by a put that has published it; a   *)
(* put that has found no entry stays the only one to make one.               *)
MapOK ==
  /\ values \in [Keys -> Calls \cup {Nobody}]
  /\ \A k \in Keys : values[k] # Nobody => KeyOf[values[k]] = k
  /\ \A o \in Stored : phase[o] \in {"account", "done"}
  /\ \A c \in Calls : phase[c] \in {"sort", "evict", "insert", "publish"}
                        => values[KeyOf[c]] = Nobody
  /\ \A c \in Calls : phase[c] = "account" => c \in Stored

(* The books, in every state: a put inserts only what fits.                  *)
BookOK ==
  /\ bytes = BytesOf(Counted) /\ entries = Cardinality(Counted)
  /\ bytes <= MaxBytes
  /\ \A c \in Calls : phase[c] \in Holding \cup {"lock"} => Size[KeyOf[c]] <= MaxBytes
  /\ \A c \in Calls : phase[c] \in {"insert", "publish", "account"} => Fits(c)

(* What is left to evict is what is left.                                    *)
EvictionOK ==
  /\ candidates \in Seq(Calls)
  /\ \A c \in Calls : phase[c] = "evict" => /\ ToSet(candidates) = Stored
                                            /\ IsInjective(candidates)
  /\ candidates # <<>> => \E c \in Calls : phase[c] = "evict"

(* The calls that are past their ticket, or need none.                       *)
Drawn == {c \in Calls : phase[c] \in {"stamp", "publish", "account", "done"}}

(* Types of the stamps.                                                      *)
StampOK ==
  /\ clock \in Nat /\ clock <= Cardinality(Drawn)
  /\ used \in [Calls -> 0 .. clock] /\ touched \in [Calls -> 0 .. clock]
  /\ ticket \in [Calls -> 0 .. clock]
  /\ ranged \in [Calls -> 0 .. clock]
  /\ asked \subseteq Calls

(* Holding a ticket not written yet.                                         *)
Pending(c) == phase[c] = "stamp"

(* No two entries ever share a ticket, and a ticket still to be written is   *)
(* on no entry and in no snapshot.                                           *)
TicketOK ==
  /\ \A o \in Calls : used[o] <= touched[o] /\ ranged[o] <= touched[o]
  /\ \A o \in Calls : phase[o] = "publish" \/ o \in Stored => used[o] # 0
  /\ \A o, j \in Calls : o # j /\ used[o] # 0 => used[o] # touched[j]
  /\ \A c \in Calls : Pending(c) =>
       /\ ticket[c] # 0 /\ ticket[c] <= touched[entry[c]]
       /\ \A o \in Calls : used[o] # ticket[c] /\ ranged[o] # ticket[c]
       /\ \A o \in Calls : o # entry[c] => touched[o] # ticket[c]
       /\ \A d \in Calls : Pending(d) /\ d # c => ticket[c] # ticket[d]

(* Of what is left to evict, what comes first was used before the last touch *)
(* of what comes later.                                                      *)
OrderOK ==
  \A c \in Calls : phase[c] = "evict" =>
     \A i, j \in DOMAIN candidates : i < j =>
       LET o == candidates[i] IN
       used[o] = ranged[o] => used[o] < touched[candidates[j]]

(* The seven parts lean on each other: the order and the books on the lock,  *)
(* the lock on the map.                                                      *)
CacheInv == LockOK /\ MapOK /\ EvictionOK /\ BookOK /\ StampOK /\ TicketOK /\ OrderOK

-----------------------------------------------------------------------------
(* Every step keeps it, part by part.                                        *)

(* Taking the head of an eviction order.                                     *)
LEMMA HeadIn ==
  ASSUME NEW s \in Seq(Calls), s # <<>>
  PROVE  Head(s) \in ToSet(s) /\ ToSet(s) \subseteq Calls
  BY DEF ToSet

(* A stored entry is the one under its key.                                  *)
LEMMA StoredAt ==
  MapOK => \A o \in Stored : o \in Calls /\ KeyOf[o] \in Keys /\ values[KeyOf[o]] = o
  BY CacheAssumption DEF MapOK, Stored

(* Deleting an entry takes it, and nothing else, out of the map.             *)
LEMMA StoredGone ==
  ASSUME MapOK, NEW o \in Stored, values' = [values EXCEPT ![KeyOf[o]] = Nobody]
  PROVE  Stored' = Stored \ {o}
<1>1. o \in Calls /\ KeyOf[o] \in Keys /\ values[KeyOf[o]] = o
  BY StoredAt
<1>2. \A k \in Keys : values'[k] = IF k = KeyOf[o] THEN Nobody ELSE values[k]
  BY DEF MapOK
<1>3. \A k \in Keys : values[k] = o => k = KeyOf[o]
  BY <1>1, CacheAssumption DEF MapOK
<1> QED
  BY <1>1, <1>2, <1>3 DEF Stored

(* At first nobody holds mu and nothing is stored.                           *)
LEMMA LockInit == CacheInit => LockOK /\ MapOK
<1> SUFFICES ASSUME CacheInit PROVE LockOK /\ MapOK
  OBVIOUS
<1> QED
  BY CacheAssumption DEF CacheInit, LockOK, MapOK, Holding, Phases, Stored

(* mu stays with the put that took it until that put ends: with its entry    *)
(* counted, or with the stamp of the entry it found.                         *)
LEMMA LockNext == LockOK /\ MapOK /\ [CacheNext]_cacheVars => LockOK'
<1> SUFFICES ASSUME LockOK, MapOK, [CacheNext]_cacheVars PROVE LockOK'
  OBVIOUS
<1>1. CASE UNCHANGED cacheVars
  BY <1>1 DEF cacheVars, mapVars, callVars, lockVars, LockOK
<1>2. ASSUME NEW c \in Calls, Step(c) PROVE LockOK'
  <2> USE CacheAssumption DEF At, Goto, LockOK, Phases, Holding, mapVars, callVars, lockVars
  <2>0. values[KeyOf[c]] \in Calls \cup {Nobody}
    BY DEF MapOK
  <2>1. CASE Get(c)
    <3>1. CASE values[KeyOf[c]] = Nobody
      BY <2>1, <3>1 DEF Get
    <3>2. CASE values[KeyOf[c]] # Nobody
      BY <2>0, <2>1, <3>2 DEF Get
    <3> QED
      BY <3>1, <3>2
  <2>2. CASE DrawTicket(c)
    BY <2>2 DEF DrawTicket
  <2>3. CASE Stamp(c)
    BY <2>3 DEF Stamp, Unlocked
  <2>4. CASE RenderFails(c)
    BY <2>4 DEF RenderFails
  <2>5. CASE Admit(c)
    BY <2>5 DEF Admit
  <2>6. CASE Mark(c)
    BY <2>6 DEF Mark
  <2>7. CASE Lock(c)
    BY <2>7 DEF Lock
  <2>8. CASE LookAgain(c)
    <3>1. CASE Existing(c) # Nobody
      BY <2>0, <2>8, <3>1 DEF LookAgain, Existing
    <3>2. CASE Existing(c) = Nobody /\ Fits(c)
      BY <2>8, <3>2 DEF LookAgain
    <3>3. CASE Existing(c) = Nobody /\ ~Fits(c)
      BY <2>8, <3>3 DEF LookAgain
    <3> QED
      BY <3>1, <3>2, <3>3
  <2>9. CASE Sort(c)
    BY <2>9 DEF Sort
  <2>10. CASE Evict(c)
    BY <2>10 DEF Evict
  <2>11. CASE EnoughEvicted(c)
    BY <2>11 DEF EnoughEvicted
  <2>12. CASE NewEntry(c)
    BY <2>12 DEF NewEntry
  <2>13. CASE Publish(c)
    BY <2>13 DEF Publish
  <2>14. CASE Account(c)
    BY <2>14 DEF Account
  <2> QED
    BY <1>2, <2>1, <2>2, <2>3, <2>4, <2>5, <2>6, <2>7, <2>8, <2>9, <2>10, <2>11, <2>12, <2>13,
       <2>14 DEF Step, Render
<1> QED
  BY <1>1, <1>2 DEF CacheNext

(* A step that leaves the map alone and takes no call to where the map       *)
(* matters keeps MapOK.                                                      *)
LEMMA MapQuiet ==
  ASSUME LockOK, MapOK, NEW c \in Calls, NEW p \in Phases,
         phase' = [phase EXCEPT ![c] = p],
         phase[c] \notin {"done", "publish"},
         phase[c] = "account" => p = "done",
         p = "account" => phase[c] = "account",
         p \in {"sort", "evict", "insert", "publish"} =>
           \/ phase[c] \in {"sort", "evict", "insert", "publish"}
           \/ values[KeyOf[c]] = Nobody,
         UNCHANGED values
  PROVE  MapOK'
  BY CacheAssumption DEF LockOK, MapOK, Stored, Phases

(* Only evictions and publications change the map, both under mu.            *)
LEMMA MapNext == LockOK /\ MapOK /\ EvictionOK /\ [CacheNext]_cacheVars => MapOK'
<1> SUFFICES ASSUME LockOK, MapOK, EvictionOK, [CacheNext]_cacheVars PROVE MapOK'
  OBVIOUS
<1>1. CASE UNCHANGED cacheVars
  BY <1>1 DEF cacheVars, mapVars, callVars, lockVars, MapOK, Stored
<1>2. ASSUME NEW c \in Calls, Step(c) PROVE MapOK'
  <2> USE DEF At, Goto, Phases, mapVars, callVars, lockVars
  <2>1. CASE Get(c)
    BY <2>1, MapQuiet DEF Get
  <2>2. CASE DrawTicket(c)
    BY <2>2, MapQuiet DEF DrawTicket
  <2>3. CASE Stamp(c)
    BY <2>3, MapQuiet DEF Stamp
  <2>4. CASE RenderFails(c)
    BY <2>4, MapQuiet DEF RenderFails
  <2>5. CASE Admit(c)
    BY <2>5, MapQuiet DEF Admit
  <2>6. CASE Mark(c)
    BY <2>6, MapQuiet DEF Mark
  <2>7. CASE Lock(c)
    BY <2>7, MapQuiet DEF Lock
  <2>8. CASE LookAgain(c)
    BY <2>8, MapQuiet DEF LookAgain, Existing
  <2>9. CASE Sort(c)
    BY <2>9, MapQuiet DEF Sort
  <2>10. CASE Evict(c)
    <3> DEFINE o == Head(candidates)
    <3>1. o \in Stored
      BY <2>10, HeadIn DEF Evict, EvictionOK
    <3>2. /\ values' = [values EXCEPT ![KeyOf[o]] = Nobody]
          /\ phase' = phase
      BY <2>10 DEF Evict
    <3> HIDE DEF o
    <3>3. \A d \in Calls : phase[d] \in Holding => d = c
      BY <2>10 DEF Evict, LockOK, Holding
    <3>4. phase[c] = "evict"
      BY <2>10 DEF Evict
    <3>5. values' \in [Keys -> Calls \cup {Nobody}]
      BY <3>2 DEF MapOK
    <3>6. \A k \in Keys : values'[k] # Nobody => values'[k] = values[k]
      BY <3>2 DEF MapOK
    <3>7. \A j \in Stored' : j \in Stored
      BY <3>6 DEF Stored
    <3>8. \A k \in Keys : values'[k] # Nobody => KeyOf[values'[k]] = k
      BY <3>6 DEF MapOK
    <3>9. \A d \in Calls : phase[d] \in {"sort", "evict", "insert", "publish"}
                             => values'[KeyOf[d]] = Nobody
      BY <3>2, CacheAssumption DEF MapOK
    <3>10. \A d \in Calls : phase[d] # "account"
      BY <3>3, <3>4 DEF Holding
    <3> QED
      BY <3>2, <3>5, <3>7, <3>8, <3>9, <3>10 DEF MapOK
  <2>11. CASE EnoughEvicted(c)
    BY <2>11, MapQuiet DEF EnoughEvicted
  <2>12. CASE NewEntry(c)
    BY <2>12, MapQuiet DEF NewEntry
  <2>13. CASE Publish(c)
    <3>1. /\ values' = [values EXCEPT ![KeyOf[c]] = c]
          /\ phase[c] = "publish" /\ phase' = [phase EXCEPT ![c] = "account"]
          /\ values[KeyOf[c]] = Nobody
      BY <2>13 DEF Publish, MapOK
    <3>2. \A d \in Calls : phase[d] \in Holding => d = c
      BY <3>1 DEF LockOK, Holding
    <3>3. KeyOf[c] \in Keys /\ c # Nobody
      BY CacheAssumption
    <3>4. values' \in [Keys -> Calls \cup {Nobody}]
      BY <3>1 DEF MapOK
    <3>5. Stored' = Stored \cup {c}
      BY <3>1, <3>3 DEF MapOK, Stored
    <3>6. c \notin Stored
      BY <3>1, <3>3, StoredAt
    <3>7. \A k \in Keys : values'[k] # Nobody => KeyOf[values'[k]] = k
      BY <3>1, <3>3 DEF MapOK
    <3>8. \A j \in Stored : phase'[j] = phase[j]
      BY <3>1, <3>6 DEF LockOK
    <3>9. \A d \in Calls : phase'[d] \notin {"sort", "evict", "insert", "publish"}
      BY <3>1, <3>2 DEF LockOK, Holding
    <3>10. \A d \in Calls : phase'[d] = "account" => d \in Stored'
      BY <3>1, <3>2, <3>5 DEF LockOK, Holding
    <3>11. phase'[c] = "account"
      BY <3>1 DEF LockOK
    <3>12. \A j \in Stored' : phase'[j] \in {"account", "done"}
      BY <3>5, <3>8, <3>11 DEF MapOK
    <3> QED
      BY <3>4, <3>7, <3>9, <3>10, <3>12 DEF MapOK
  <2>14. CASE Account(c)
    BY <2>14, MapQuiet DEF Account
  <2> QED
    BY <1>2, <2>1, <2>2, <2>3, <2>4, <2>5, <2>6, <2>7, <2>8, <2>9, <2>10, <2>11, <2>12, <2>13,
       <2>14 DEF Step, Render
<1> QED
  BY <1>1, <1>2 DEF CacheNext

(* The order of a sort has every element of the set once.                    *)
LEMMA SortedAll ==
  ASSUME NEW T \in SUBSET Calls, NEW s \in SetToSeqs(T)
  PROVE  s \in Seq(Calls) /\ ToSet(s) = T /\ IsInjective(s) /\ DOMAIN s = 1 .. Cardinality(T)
<1> DEFINE D == 1 .. Cardinality(T)
<1>1. IsFiniteSet(T) /\ Cardinality(T) \in Nat
  BY SubFinite
<1>2. s \in [D -> T] /\ \A i, j \in D : i # j => s[i] # s[j]
  BY DEF SetToSeqs
<1>3. s \in Injection(D, T)
  BY <1>2 DEF Injection, IsInjective
<1>4. Cardinality(D) = Cardinality(T)
  BY <1>1, FS_Interval
<1>5. s \in Surjection(D, T)
  BY <1>1, <1>3, <1>4, FS_Injection
<1>6. \A t \in T : \E i \in D : s[i] = t
  BY <1>5 DEF Surjection
<1>7. ToSet(s) = T
  BY <1>2, <1>6 DEF ToSet
<1>8. s \in Seq(Calls)
  BY <1>1, <1>2
<1> QED
  BY <1>2, <1>3, <1>7, <1>8 DEF Injection

(* Evicting takes the head, and nothing else, out of what is left.           *)
LEMMA TailAll ==
  ASSUME NEW s \in Seq(Calls), s # <<>>, IsInjective(s)
  PROVE  /\ Tail(s) \in Seq(Calls) /\ IsInjective(Tail(s))
         /\ ToSet(Tail(s)) = ToSet(s) \ {Head(s)}
<1>1. /\ Tail(s) \in Seq(Calls) /\ Len(Tail(s)) = Len(s) - 1 /\ Len(s) \in Nat /\ Len(s) > 0
      /\ \A i \in 1 .. Len(Tail(s)) : Tail(s)[i] = s[i + 1]
  BY HeadTailProperties
<1>2. DOMAIN Tail(s) = 1 .. (Len(s) - 1) /\ DOMAIN s = 1 .. Len(s)
  BY <1>1
<1>3. IsInjective(Tail(s))
  <2>1. ASSUME NEW i \in DOMAIN Tail(s), NEW j \in DOMAIN Tail(s), Tail(s)[i] = Tail(s)[j]
        PROVE  i = j
    <3>1. s[i + 1] = s[j + 1] /\ i + 1 \in DOMAIN s /\ j + 1 \in DOMAIN s
      BY <1>1, <1>2, <2>1
    <3>2. i + 1 = j + 1
      BY <3>1 DEF IsInjective
    <3> QED
      BY <1>2, <3>2
  <2> QED
    BY <2>1 DEF IsInjective
<1>4. Head(s) = s[1]
  OBVIOUS
<1>5. \A x \in ToSet(Tail(s)) : x \in ToSet(s) \ {Head(s)}
  <2>1. ASSUME NEW i \in DOMAIN Tail(s) PROVE Tail(s)[i] \in ToSet(s) \ {Head(s)}
    <3>1. Tail(s)[i] = s[i + 1] /\ i + 1 \in DOMAIN s /\ 1 \in DOMAIN s /\ i + 1 # 1
      BY <1>1, <1>2
    <3> QED
      BY <1>4, <3>1 DEF ToSet, IsInjective
  <2> QED
    BY <2>1 DEF ToSet
<1>6. ASSUME NEW x \in ToSet(s), x # Head(s) PROVE x \in ToSet(Tail(s))
  <2>1. PICK i \in DOMAIN s : s[i] = x
    BY DEF ToSet
  <2>2. i # 1 /\ i - 1 \in DOMAIN Tail(s) /\ Tail(s)[i - 1] = s[(i - 1) + 1]
    BY <1>1, <1>2, <1>4, <1>6, <2>1
  <2>3. (i - 1) + 1 = i
    BY <1>2
  <2>4. Tail(s)[i - 1] = x
    BY <2>1, <2>2, <2>3
  <2> QED
    BY <2>2, <2>4 DEF ToSet
<1> QED
  BY <1>1, <1>3, <1>5, <1>6

(* At first nobody evicts.                                                   *)
LEMMA EvictionInit == CacheInit => EvictionOK
  BY DEF CacheInit, EvictionOK

(* A step that neither starts nor ends an eviction, with the same map.       *)
LEMMA EvictionQuiet ==
  ASSUME LockOK, EvictionOK, NEW c \in Calls, NEW p \in Phases,
         phase' = [phase EXCEPT ![c] = p], p # "evict", phase[c] # "evict",
         candidates' = candidates, Stored' = Stored
  PROVE  EvictionOK'
  BY DEF LockOK, EvictionOK

(* A sort orders all that is stored; an eviction takes the head out of both. *)
LEMMA EvictionNext == LockOK /\ MapOK /\ EvictionOK /\ [CacheNext]_cacheVars => EvictionOK'
<1> SUFFICES ASSUME LockOK, MapOK, EvictionOK, [CacheNext]_cacheVars PROVE EvictionOK'
  OBVIOUS
<1>0. values' = values => Stored' = Stored
  BY DEF Stored
<1>1. CASE UNCHANGED cacheVars
  BY <1>0, <1>1 DEF cacheVars, mapVars, callVars, lockVars, EvictionOK
<1>2. ASSUME NEW c \in Calls, Step(c) PROVE EvictionOK'
  <2> USE <1>0 DEF At, Goto, Phases, mapVars, callVars, lockVars
  <2>1. CASE Get(c)
    BY <2>1, EvictionQuiet DEF Get
  <2>2. CASE DrawTicket(c)
    BY <2>2, EvictionQuiet DEF DrawTicket
  <2>3. CASE Stamp(c)
    BY <2>3, EvictionQuiet DEF Stamp
  <2>4. CASE RenderFails(c)
    BY <2>4, EvictionQuiet DEF RenderFails
  <2>5. CASE Admit(c)
    BY <2>5, EvictionQuiet DEF Admit
  <2>6. CASE Mark(c)
    BY <2>6, EvictionQuiet DEF Mark
  <2>7. CASE Lock(c)
    BY <2>7, EvictionQuiet DEF Lock
  <2>8. CASE LookAgain(c)
    BY <2>8, EvictionQuiet DEF LookAgain
  <2>9. CASE Sort(c)
    <3>1. candidates' \in SetToSeqs(Stored)
      BY <2>9 DEF Sort
    <3>2. Stored \in SUBSET Calls
      BY DEF MapOK, Stored
    <3>3. candidates' \in Seq(Calls) /\ ToSet(candidates') = Stored /\ IsInjective(candidates')
      BY <3>1, <3>2, SortedAll
    <3>4. phase' = [phase EXCEPT ![c] = "evict"] /\ Stored' = Stored
      BY <2>9 DEF Sort
    <3>5. phase'[c] = "evict"
      BY <3>4 DEF LockOK
    <3> QED
      BY <3>3, <3>4, <3>5 DEF EvictionOK
  <2>10. CASE Evict(c)
    <3> DEFINE o == Head(candidates)
    <3>1. /\ phase[c] = "evict" /\ phase' = phase /\ candidates # <<>>
          /\ candidates' = Tail(candidates)
          /\ values' = [values EXCEPT ![KeyOf[o]] = Nobody]
      BY <2>10 DEF Evict
    <3>2. o \in Stored /\ candidates \in Seq(Calls) /\ IsInjective(candidates)
          /\ ToSet(candidates) = Stored
      BY <3>1, HeadIn DEF EvictionOK
    <3>3. /\ candidates' \in Seq(Calls) /\ IsInjective(candidates')
          /\ ToSet(candidates') = Stored \ {o}
      BY <3>1, <3>2, TailAll
    <3> HIDE DEF o
    <3>4. Stored' = Stored \ {o}
      BY <3>1, <3>2, StoredGone
    <3> QED
      BY <3>1, <3>3, <3>4 DEF EvictionOK
  <2>11. CASE EnoughEvicted(c)
    <3>1. \A d \in Calls : phase[d] = "evict" => d = c
      BY <2>11 DEF EnoughEvicted, LockOK, Holding
    <3>2. \A d \in Calls : phase'[d] # "evict"
      BY <2>11, <3>1 DEF EnoughEvicted, LockOK
    <3>3. candidates' = <<>>
      BY <2>11 DEF EnoughEvicted
    <3> QED
      BY <3>2, <3>3 DEF EvictionOK
  <2>12. CASE NewEntry(c)
    BY <2>12, EvictionQuiet DEF NewEntry
  <2>13. CASE Publish(c)
    <3>1. phase[c] = "publish" /\ phase' = [phase EXCEPT ![c] = "account"]
          /\ candidates' = candidates
      BY <2>13 DEF Publish
    <3>2. \A d \in Calls : phase[d] # "evict"
      BY <3>1 DEF LockOK, Holding
    <3>3. \A d \in Calls : phase'[d] # "evict"
      BY <3>1, <3>2 DEF LockOK
    <3> QED
      BY <3>1, <3>2, <3>3 DEF EvictionOK
  <2>14. CASE Account(c)
    BY <2>14, EvictionQuiet DEF Account
  <2> QED
    BY <1>2, <2>1, <2>2, <2>3, <2>4, <2>5, <2>6, <2>7, <2>8, <2>9, <2>10, <2>11, <2>12, <2>13,
       <2>14 DEF Step, Render
<1> QED
  BY <1>1, <1>2 DEF CacheNext

(* Entries carry the names of the calls that made them.                      *)
LEMMA StoredCalls == MapOK => Stored \in SUBSET Calls /\ Counted \in SUBSET Calls
  BY DEF MapOK, Stored, Counted

(* What is counted is all there is, but for an entry just published.         *)
LEMMA CountedIs ==
  ASSUME LockOK, MapOK, NEW c \in Calls
  PROVE  /\ phase[c] \in Holding \ {"account"} => Counted = Stored
         /\ phase[c] = "account" => Counted = Stored \ {c} /\ c \in Stored
  BY DEF LockOK, MapOK, Holding, Counted, Stored

(* The books of the empty cache.                                             *)
LEMMA BookInit == CacheInit => BookOK
<1> SUFFICES ASSUME CacheInit PROVE BookOK
  OBVIOUS
<1>1. Counted = {}
  BY DEF CacheInit, Counted, Stored
<1>2. BytesOf(Counted) = 0 /\ Cardinality(Counted) = 0
  BY <1>1, BytesFirst, FS_EmptySet
<1> QED
  BY <1>2, CacheAssumption DEF CacheInit, BookOK, Holding

(* A step that changes neither the map nor the counters.                     *)
LEMMA BookQuiet ==
  ASSUME LockOK, MapOK, BookOK, NEW c \in Calls, NEW p \in Phases,
         phase' = [phase EXCEPT ![c] = p], p # "account", phase[c] # "account",
         p \in Holding \cup {"lock"} =>
           phase[c] \in Holding \cup {"lock"} \/ Size[KeyOf[c]] <= MaxBytes,
         p \in {"insert", "publish"} => phase[c] \in {"insert", "publish"} \/ Fits(c),
         UNCHANGED <<values, bytes, entries>>
  PROVE  BookOK'
<1>1. Stored' = Stored
  BY DEF Stored
<1>2. Counted' = Counted
  BY <1>1 DEF Counted, Stored, MapOK, LockOK
<1>3. \A d \in Calls : Fits(d)' <=> Fits(d)
  BY DEF Fits
<1>4. \A d \in Calls : phase'[d] \in {"insert", "publish", "account"} => Fits(d)
  BY DEF BookOK, LockOK
<1>5. \A d \in Calls : phase'[d] \in Holding \cup {"lock"} => Size[KeyOf[d]] <= MaxBytes
  BY DEF BookOK, LockOK
<1> QED
  BY <1>2, <1>3, <1>4, <1>5 DEF BookOK

(* Evictions take an entry out of the map and its size off the counters in   *)
(* one step; a publication is counted by the step that gives mu back.        *)
LEMMA BookNext == LockOK /\ MapOK /\ EvictionOK /\ BookOK /\ [CacheNext]_cacheVars => BookOK'
<1> SUFFICES ASSUME LockOK, MapOK, EvictionOK, BookOK, [CacheNext]_cacheVars PROVE BookOK'
  OBVIOUS
<1>1. CASE UNCHANGED cacheVars
  BY <1>1 DEF cacheVars, mapVars, callVars, lockVars, BookOK, Counted, Stored, Fits
<1>2. ASSUME NEW c \in Calls, Step(c) PROVE BookOK'
  <2> USE DEF At, Goto, Phases, Holding, mapVars, callVars, lockVars
  <2>0. /\ Size[KeyOf[c]] \in Nat /\ MaxBytes \in Nat
        /\ BytesOf(Counted) \in Nat /\ bytes \in Nat
    BY CacheAssumption, StoredCalls, BytesFirst DEF BookOK
  <2>1. CASE Get(c)
    BY <2>1, BookQuiet DEF Get
  <2>2. CASE DrawTicket(c)
    BY <2>2, BookQuiet DEF DrawTicket
  <2>3. CASE Stamp(c)
    BY <2>3, BookQuiet DEF Stamp
  <2>4. CASE RenderFails(c)
    BY <2>4, BookQuiet DEF RenderFails
  <2>5. CASE Admit(c)
    <3>1. CASE Size[KeyOf[c]] > MaxBytes
      BY <2>5, <3>1, BookQuiet DEF Admit
    <3>2. CASE Size[KeyOf[c]] <= MaxBytes
      BY <2>5, <3>2, BookQuiet DEF Admit
    <3> QED
      BY <2>0, <3>1, <3>2
  <2>6. CASE Mark(c)
    BY <2>6, BookQuiet DEF Mark
  <2>7. CASE Lock(c)
    BY <2>7, BookQuiet DEF Lock
  <2>8. CASE LookAgain(c)
    <3>1. CASE Existing(c) # Nobody
      BY <2>8, <3>1, BookQuiet DEF LookAgain
    <3>2. CASE Existing(c) = Nobody /\ Fits(c)
      BY <2>8, <3>2, BookQuiet DEF LookAgain
    <3>3. CASE Existing(c) = Nobody /\ ~Fits(c)
      BY <2>8, <3>3, BookQuiet DEF LookAgain
    <3> QED
      BY <3>1, <3>2, <3>3
  <2>9. CASE Sort(c)
    BY <2>9, BookQuiet DEF Sort
  <2>10. CASE Evict(c)
    <3> DEFINE o == Head(candidates)
    <3>1. /\ phase[c] = "evict" /\ phase' = phase /\ candidates # <<>>
          /\ values' = [values EXCEPT ![KeyOf[o]] = Nobody]
          /\ bytes' = bytes - Size[KeyOf[o]] /\ entries' = entries - 1
      BY <2>10 DEF Evict
    <3>2. o \in Stored
      BY <3>1, HeadIn DEF EvictionOK
    <3> HIDE DEF o
    <3>3. Stored' = Stored \ {o}
      BY <3>1, <3>2, StoredGone
    <3>4. Counted = Stored
      BY <3>1, CountedIs
    <3>5. Counted' = Counted \ {o}
      BY <3>1, <3>3, <3>4 DEF Counted
    <3>6. Counted \in SUBSET Calls /\ o \in Counted /\ o \in Calls
      BY <3>2, <3>4, StoredCalls
    <3>7. BytesOf(Counted) = BytesOf(Counted') + SizeOf(o)
      BY <3>5, <3>6, BytesWithout
    <3>8. Cardinality(Counted) = Cardinality(Counted') + 1
          /\ Cardinality(Counted) \in Nat /\ Cardinality(Counted') \in Nat
      BY <3>5, <3>6, SmallerSet, CacheAssumption
    <3>9. SizeOf(o) \in Nat /\ BytesOf(Counted') \in Nat /\ SizeOf(o) = Size[KeyOf[o]]
      BY <3>5, <3>6, SizeType, BytesFirst DEF SizeOf
    <3>10. bytes' = BytesOf(Counted') /\ entries' = Cardinality(Counted')
      BY <3>1, <3>7, <3>8, <3>9 DEF BookOK
    <3>11. bytes' <= MaxBytes
      BY <2>0, <3>1, <3>7, <3>9, <3>10 DEF BookOK
    <3>12. \A d \in Calls : phase[d] \notin {"insert", "publish", "account"}
      BY <3>1 DEF LockOK
    <3> QED
      BY <3>1, <3>10, <3>11, <3>12 DEF BookOK
  <2>11. CASE EnoughEvicted(c)
    <3>1. Fits(c)
      <4>1. CASE candidates = <<>>
        <5>1. Counted = {}
          BY <2>11, <4>1, CountedIs DEF EnoughEvicted, EvictionOK, ToSet
        <5>2. bytes = 0
          BY <5>1, BytesFirst DEF BookOK
        <5> QED
          BY <2>0, <2>11, <5>2 DEF Fits, BookOK, EnoughEvicted
      <4> QED
        BY <2>11, <4>1 DEF EnoughEvicted
    <3> QED
      BY <2>11, <3>1, BookQuiet DEF EnoughEvicted
  <2>12. CASE NewEntry(c)
    BY <2>12, BookQuiet DEF NewEntry
  <2>13. CASE Publish(c)
    <3>1. /\ values' = [values EXCEPT ![KeyOf[c]] = c]
          /\ phase[c] = "publish" /\ phase' = [phase EXCEPT ![c] = "account"]
          /\ values[KeyOf[c]] = Nobody
          /\ UNCHANGED <<bytes, entries>>
      BY <2>13 DEF Publish, MapOK
    <3>2. KeyOf[c] \in Keys /\ c # Nobody
      BY CacheAssumption
    <3>3. Stored' = Stored \cup {c} /\ c \notin Stored
      BY <3>1, <3>2, StoredAt DEF MapOK, Stored
    <3>4. \A d \in Calls : phase'[d] = IF d = c THEN "account" ELSE phase[d]
      BY <3>1 DEF LockOK
    <3>5. Counted' = Counted
      BY <3>3, <3>4, StoredCalls DEF Counted
    <3>6. \A d \in Calls : Fits(d)' <=> Fits(d)
      BY <3>1 DEF Fits
    <3> QED
      BY <3>1, <3>4, <3>5, <3>6 DEF BookOK
  <2>14. CASE Account(c)
    <3>1. /\ phase[c] = "account" /\ phase' = [phase EXCEPT ![c] = "done"]
          /\ values' = values
          /\ bytes' = bytes + Size[KeyOf[c]] /\ entries' = entries + 1
      BY <2>14 DEF Account
    <3>2. Stored' = Stored /\ Counted = Stored \ {c} /\ c \in Stored
      BY <3>1, CountedIs DEF Stored
    <3>3. \A d \in Calls : phase'[d] = IF d = c THEN "done" ELSE phase[d]
      BY <3>1 DEF LockOK
    <3>4. \A d \in Calls : phase[d] \in Holding => d = c
      BY <3>1 DEF LockOK
    <3>5. Counted' = Stored
      BY <3>2, <3>3, StoredCalls DEF Counted
    <3>6. Stored \in SUBSET Calls
      BY StoredCalls
    <3>7. BytesOf(Stored) = BytesOf(Counted) + SizeOf(c)
      BY <3>2, <3>6, BytesWithout
    <3>8. Cardinality(Stored) = Cardinality(Counted) + 1
      BY <3>2, <3>6, SmallerSet, CacheAssumption
    <3>9. bytes' = BytesOf(Counted') /\ entries' = Cardinality(Counted')
      BY <3>1, <3>5, <3>7, <3>8 DEF BookOK, SizeOf
    <3>10. bytes' <= MaxBytes
      BY <2>0, <3>1 DEF BookOK, Fits
    <3>11. \A d \in Calls : phase'[d] \notin Holding
      BY <3>3, <3>4
    <3> QED
      BY <3>3, <3>9, <3>10, <3>11 DEF BookOK
  <2> QED
    BY <1>2, <2>1, <2>2, <2>3, <2>4, <2>5, <2>6, <2>7, <2>8, <2>9, <2>10, <2>11, <2>12, <2>13,
       <2>14 DEF Step, Render
<1> QED
  BY <1>1, <1>2 DEF CacheNext

(* At first no ticket has been drawn.                                        *)
LEMMA StampInit == CacheInit => StampOK /\ TicketOK /\ OrderOK
<1> SUFFICES ASSUME CacheInit PROVE StampOK /\ TicketOK /\ OrderOK
  OBVIOUS
<1>1. Drawn = {}
  BY DEF CacheInit, Drawn
<1>2. Cardinality(Drawn) = 0
  BY <1>1, FS_EmptySet
<1>3. Stored = {}
  BY DEF CacheInit, Stored
<1> QED
  BY <1>2, <1>3 DEF CacheInit, StampOK, TicketOK, OrderOK, Pending, NotRanged

(* A call that has drawn has drawn for good, so tickets are no more than     *)
(* calls.                                                                    *)
LEMMA DrawnGrows ==
  ASSUME LockOK, NEW c \in Calls, NEW p \in Phases, phase' = [phase EXCEPT ![c] = p]
  PROVE  /\ (phase[c] \in {"stamp", "publish", "account", "done"} =>
               p \in {"stamp", "publish", "account", "done"})
              => Cardinality(Drawn) <= Cardinality(Drawn')
         /\ phase[c] \in {"found", "insert"} /\ p \in {"stamp", "publish"}
              => Cardinality(Drawn') = Cardinality(Drawn) + 1
<1>1. \A d \in Calls : phase'[d] = IF d = c THEN p ELSE phase[d]
  BY DEF LockOK
<1>2. Drawn' \in SUBSET Calls /\ IsFiniteSet(Drawn') /\ Drawn \in SUBSET Calls
  BY SubFinite DEF Drawn
<1>3. ASSUME phase[c] \in {"stamp", "publish", "account", "done"} =>
               p \in {"stamp", "publish", "account", "done"}
      PROVE  Cardinality(Drawn) <= Cardinality(Drawn')
  <2>1. Drawn \in SUBSET Drawn'
    BY <1>1, <1>3 DEF Drawn
  <2> QED
    BY <1>2, <2>1, FS_Subset
<1>4. ASSUME phase[c] \in {"found", "insert"}, p \in {"stamp", "publish"}
      PROVE  Cardinality(Drawn') = Cardinality(Drawn) + 1
  <2>1. c \in Drawn' /\ Drawn' \ {c} = Drawn
    BY <1>1, <1>4 DEF Drawn
  <2> QED
    BY <1>2, <2>1, SmallerSet, CacheAssumption
<1> QED
  BY <1>3, <1>4

(* There are no more draws than calls.                                       *)
LEMMA DrawnNat == Cardinality(Drawn) \in Nat /\ Cardinality(Drawn) <= Cardinality(Calls)
  BY CacheAssumption, FS_Subset, FS_CardinalityType DEF Drawn

(* The next ticket. *)
LEMMA StampDraw ==
  ASSUME LockOK, StampOK, NEW c \in Calls, NEW o \in Calls, NEW p \in {"stamp", "publish"},
         phase[c] \in {"found", "insert"}, phase' = [phase EXCEPT ![c] = p],
         clock' = clock + 1, touched' = [touched EXCEPT ![o] = clock'],
         \/ used' = used /\ ticket' = [ticket EXCEPT ![c] = clock']
         \/ used' = [used EXCEPT ![o] = clock'] /\ ticket' = ticket,
         UNCHANGED <<ranged, asked>>
  PROVE  StampOK'
<1>1. Cardinality(Drawn') = Cardinality(Drawn) + 1
  BY DrawnGrows DEF Phases
<1>2. clock' \in Nat /\ clock' <= Cardinality(Drawn')
  BY <1>1, DrawnNat DEF StampOK
<1>3. \A n \in 0 .. clock : n \in 0 .. clock'
  BY DEF StampOK
<1>4. clock' \in 0 .. clock'
  BY <1>2
<1> QED
  BY <1>2, <1>3, <1>4 DEF StampOK

(* Every other step leaves the clock alone.                                  *)
LEMMA StampQuiet ==
  ASSUME LockOK, StampOK, NEW c \in Calls, NEW p \in Phases,
         phase' = [phase EXCEPT ![c] = p],
         phase[c] \in {"stamp", "publish", "account", "done"} =>
           p \in {"stamp", "publish", "account", "done"},
         UNCHANGED <<clock, touched>>,
         used' \in [Calls -> 0 .. clock], ticket' \in [Calls -> 0 .. clock],
         ranged' \in [Calls -> 0 .. clock], asked' \subseteq Calls
  PROVE  StampOK'
<1>1. Cardinality(Drawn) <= Cardinality(Drawn')
  BY DrawnGrows
<1>2. Cardinality(Drawn) \in Nat /\ Cardinality(Drawn') \in Nat
  BY DrawnNat, SubFinite DEF Drawn
<1>3. clock' \in Nat /\ clock' <= Cardinality(Drawn')
  BY <1>1, <1>2 DEF StampOK
<1> QED
  BY <1>3 DEF StampOK

(* Every stamp, and every ticket, is one the clock has given.                *)
LEMMA StampNext == LockOK /\ MapOK /\ StampOK /\ [CacheNext]_cacheVars => StampOK'
<1> SUFFICES ASSUME LockOK, MapOK, StampOK, [CacheNext]_cacheVars PROVE StampOK'
  OBVIOUS
<1>1. CASE UNCHANGED cacheVars
  BY <1>1 DEF cacheVars, mapVars, callVars, lockVars, StampOK, Drawn
<1>2. ASSUME NEW c \in Calls, Step(c) PROVE StampOK'
  <2> USE DEF At, Goto, Phases, mapVars, callVars, lockVars, StampOK
  <2>1. CASE Get(c)
    BY <2>1, StampQuiet DEF Get
  <2>2. CASE DrawTicket(c)
    <3>1. entry[c] \in Calls
      BY <2>2 DEF DrawTicket, LockOK
    <3> QED
      BY <2>2, <3>1, StampDraw DEF DrawTicket
  <2>3. CASE Stamp(c)
    <3>1. /\ used' = [used EXCEPT ![entry[c]] = ticket[c]]
          /\ ticket' = [ticket EXCEPT ![c] = 0]
          /\ phase' = [phase EXCEPT ![c] = "done"] /\ phase[c] = "stamp"
          /\ UNCHANGED <<clock, touched, ranged, asked>>
      BY <2>3 DEF Stamp
    <3>2. ticket[c] \in 0 .. clock /\ 0 \in 0 .. clock
      OBVIOUS
    <3>3. used' \in [Calls -> 0 .. clock] /\ ticket' \in [Calls -> 0 .. clock]
      BY <3>1, <3>2
    <3> QED
      BY <3>1, <3>3, StampQuiet
  <2>4. CASE RenderFails(c)
    BY <2>4, StampQuiet DEF RenderFails
  <2>5. CASE Admit(c)
    BY <2>5, StampQuiet DEF Admit
  <2>6. CASE Mark(c)
    BY <2>6, StampQuiet DEF Mark
  <2>7. CASE Lock(c)
    BY <2>7, StampQuiet DEF Lock
  <2>8. CASE LookAgain(c)
    <3>1. ranged' \in [Calls -> 0 .. clock]
      BY <2>8 DEF LookAgain
    <3> QED
      BY <2>8, <3>1, StampQuiet DEF LookAgain
  <2>9. CASE Sort(c)
    BY <2>9, StampQuiet DEF Sort
  <2>10. CASE Evict(c)
    BY <2>10 DEF Evict, Drawn
  <2>11. CASE EnoughEvicted(c)
    <3>1. NotRanged \in [Calls -> 0 .. clock]
      BY DEF NotRanged
    <3> QED
      BY <2>11, <3>1, StampQuiet DEF EnoughEvicted
  <2>12. CASE NewEntry(c)
    BY <2>12, StampDraw DEF NewEntry
  <2>13. CASE Publish(c)
    BY <2>13, StampQuiet DEF Publish
  <2>14. CASE Account(c)
    BY <2>14, StampQuiet DEF Account
  <2> QED
    BY <1>2, <2>1, <2>2, <2>3, <2>4, <2>5, <2>6, <2>7, <2>8, <2>9, <2>10, <2>11, <2>12, <2>13,
       <2>14 DEF Step, Render
<1> QED
  BY <1>1, <1>2 DEF CacheNext

(* A step that stamps nothing, draws nothing and publishes only an entry     *)
(* that has its ticket.                                                      *)
LEMMA TicketQuiet ==
  ASSUME LockOK, StampOK, TicketOK, NEW c \in Calls, NEW p \in Phases,
         phase' = [phase EXCEPT ![c] = p], phase[c] # "stamp", p \notin {"stamp", "publish"},
         \A o \in Stored' : o \in Stored \/ phase[o] = "publish",
         \A o \in Calls : entry'[o] = entry[o] \/ o = c,
         UNCHANGED <<used, touched, ticket>>,
         ranged' = ranged \/ ranged' = used \/ ranged' = NotRanged
  PROVE  TicketOK'
<1>1. \A o \in Calls : Pending(o)' <=> Pending(o)
  BY DEF Pending, LockOK
<1>2. \A o \in Calls : Pending(o) => o # c /\ entry'[o] = entry[o]
  BY DEF Pending
<1>3. \A o \in Calls : phase'[o] = "publish" => phase[o] = "publish"
  BY DEF LockOK
<1>4. \A o \in Calls : ranged'[o] = ranged[o] \/ ranged'[o] = used[o] \/ ranged'[o] = 0
  BY DEF NotRanged
<1>5. \A o \in Calls : 0 <= touched[o]
  BY DEF StampOK
<1> QED
  BY <1>1, <1>2, <1>3, <1>4, <1>5 DEF TicketOK

(* Tickets are given once: what is written to one entry is never what        *)
(* another one was touched with.                                             *)
LEMMA TicketNext ==
  LockOK /\ MapOK /\ EvictionOK /\ StampOK /\ TicketOK /\ [CacheNext]_cacheVars => TicketOK'
<1> SUFFICES ASSUME LockOK, MapOK, EvictionOK, StampOK, TicketOK, [CacheNext]_cacheVars
             PROVE  TicketOK'
  OBVIOUS
<1>0. values' = values => Stored' = Stored
  BY DEF Stored
<1>1. CASE UNCHANGED cacheVars
  BY <1>0, <1>1 DEF cacheVars, mapVars, callVars, lockVars, TicketOK, Pending
<1>2. ASSUME NEW c \in Calls, Step(c) PROVE TicketOK'
  <2> USE DEF At, Goto, Phases, mapVars, callVars, lockVars
  <2>1. CASE Get(c)
    BY <1>0, <2>1, TicketQuiet DEF Get, LockOK
  <2>2. CASE DrawTicket(c)
    <3> DEFINE e == entry[c]
    <3>1. /\ phase[c] = "found" /\ e \in Calls
          /\ clock' = clock + 1
          /\ ticket' = [ticket EXCEPT ![c] = clock + 1]
          /\ touched' = [touched EXCEPT ![e] = clock + 1]
          /\ phase' = [phase EXCEPT ![c] = "stamp"]
          /\ UNCHANGED <<values, used, ranged, entry>>
      BY <2>2 DEF DrawTicket, LockOK
    <3> HIDE DEF e
    <3>2. \A o \in Calls : /\ touched'[o] = IF o = e THEN clock + 1 ELSE touched[o]
                           /\ ticket'[o] = IF o = c THEN clock + 1 ELSE ticket[o]
                           /\ phase'[o] = IF o = c THEN "stamp" ELSE phase[o]
      BY <3>1 DEF StampOK, LockOK
    <3>3. /\ clock \in Nat
          /\ \A o \in Calls : used[o] \in 0 .. clock /\ touched[o] \in 0 .. clock
                              /\ ticket[o] \in 0 .. clock /\ ranged[o] \in 0 .. clock
      BY DEF StampOK
    <3>4. Stored' = Stored
      BY <1>0, <3>1
    <3>5. \A o \in Calls : used[o] <= touched'[o] /\ ranged[o] <= touched'[o]
      BY <3>2, <3>3 DEF TicketOK
    <3>6. \A o \in Calls : phase'[o] = "publish" \/ o \in Stored => used[o] # 0
      BY <3>2 DEF TicketOK
    <3>7. \A o, j \in Calls : o # j /\ used[o] # 0 => used[o] # touched'[j]
      BY <3>2, <3>3 DEF TicketOK
    <3>8. entry'[c] = e /\ \A d \in Calls : entry'[d] = entry[d]
      BY <3>1 DEF e
    <3>9. ASSUME NEW d \in Calls, phase'[d] = "stamp"
          PROVE  /\ ticket'[d] # 0 /\ ticket'[d] <= touched'[entry'[d]]
                 /\ \A o \in Calls : used[o] # ticket'[d] /\ ranged[o] # ticket'[d]
                 /\ \A o \in Calls : o # entry'[d] => touched'[o] # ticket'[d]
                 /\ \A b \in Calls : phase'[b] = "stamp" /\ b # d => ticket'[d] # ticket'[b]
      <4>1. CASE d = c
        BY <3>1, <3>2, <3>3, <3>8, <4>1
      <4>2. CASE d # c
        <5>1. Pending(d) /\ ticket'[d] = ticket[d] /\ entry'[d] = entry[d]
          BY <3>2, <3>8, <3>9, <4>2 DEF Pending
        <5>2. entry[d] \in Calls
          BY <5>1 DEF Pending, LockOK
        <5>3. ticket[d] <= clock /\ ticket[d] # clock + 1
          BY <3>3
        <5>4. ticket[d] # 0 /\ ticket[d] <= touched'[entry[d]]
          BY <3>2, <3>3, <5>1, <5>2 DEF TicketOK
        <5>5. \A o \in Calls : o # entry[d] => touched'[o] # ticket[d]
          BY <3>2, <5>1, <5>3 DEF TicketOK
        <5>6. \A b \in Calls : phase'[b] = "stamp" /\ b # d => ticket[d] # ticket'[b]
          BY <3>2, <5>1, <5>3 DEF TicketOK, Pending
        <5>7. \A o \in Calls : used[o] # ticket[d] /\ ranged[o] # ticket[d]
          BY <5>1 DEF TicketOK
        <5> QED
          BY <5>1, <5>4, <5>5, <5>6, <5>7
      <4> QED
        BY <4>1, <4>2
    <3> QED
      BY <3>1, <3>4, <3>5, <3>6, <3>7, <3>9 DEF TicketOK, Pending
  <2>3. CASE Stamp(c)
    <3> DEFINE e == entry[c]
    <3>1. /\ phase[c] = "stamp" /\ e \in Calls
          /\ used' = [used EXCEPT ![e] = ticket[c]]
          /\ entry' = [entry EXCEPT ![c] = Nobody]
          /\ ticket' = [ticket EXCEPT ![c] = 0]
          /\ phase' = [phase EXCEPT ![c] = "done"]
          /\ UNCHANGED <<values, touched, ranged>>
      BY <2>3 DEF Stamp, LockOK
    <3> HIDE DEF e
    <3>2. \A o \in Calls : /\ used'[o] = IF o = e THEN ticket[c] ELSE used[o]
                           /\ phase'[o] = IF o = c THEN "done" ELSE phase[o]
      BY <3>1 DEF StampOK, LockOK
    <3>3. \A o \in Calls : o # c => ticket'[o] = ticket[o] /\ entry'[o] = entry[o]
      BY <3>1
    <3>4. Stored' = Stored
      BY <1>0, <3>1
    <3>5. Pending(c) /\ e = entry[c]
      BY <3>1 DEF Pending, e
    <3>6. \A o \in Calls : Pending(o)' => Pending(o) /\ o # c
      BY <3>2 DEF Pending
    <3>7. \A o \in Calls : used'[o] <= touched[o]
      BY <3>2, <3>5 DEF TicketOK
    <3>8. \A o \in Calls : phase'[o] = "publish" \/ o \in Stored => used'[o] # 0
      BY <3>2, <3>5 DEF TicketOK
    <3>9. \A o, j \in Calls : o # j /\ used'[o] # 0 => used'[o] # touched[j]
      BY <3>2, <3>5 DEF TicketOK
    <3>10. \A d \in Calls : Pending(d)' => \A o \in Calls : used'[o] # ticket[d]
      BY <3>2, <3>5, <3>6 DEF TicketOK
    <3> QED
      BY <3>1, <3>3, <3>4, <3>6, <3>7, <3>8, <3>9, <3>10 DEF TicketOK
  <2>4. CASE RenderFails(c)
    BY <1>0, <2>4, TicketQuiet DEF RenderFails
  <2>5. CASE Admit(c)
    BY <1>0, <2>5, TicketQuiet DEF Admit
  <2>6. CASE Mark(c)
    BY <1>0, <2>6, TicketQuiet DEF Mark
  <2>7. CASE Lock(c)
    BY <1>0, <2>7, TicketQuiet DEF Lock
  <2>8. CASE LookAgain(c)
    <3>1. \A o \in Calls : entry'[o] = entry[o] \/ o = c
      BY <2>8 DEF LookAgain, LockOK
    <3>2. ranged' = ranged \/ ranged' = used
      BY <2>8 DEF LookAgain
    <3> QED
      BY <1>0, <2>8, <3>1, <3>2, TicketQuiet DEF LookAgain
  <2>9. CASE Sort(c)
    BY <1>0, <2>9, TicketQuiet DEF Sort
  <2>10. CASE Evict(c)
    <3>1. \A o \in Stored' : o \in Stored
      BY <2>10, HeadIn, StoredGone DEF Evict, EvictionOK
    <3> QED
      BY <2>10, <3>1 DEF Evict, TicketOK, Pending
  <2>11. CASE EnoughEvicted(c)
    BY <1>0, <2>11, TicketQuiet DEF EnoughEvicted
  <2>12. CASE NewEntry(c)
    <3>1. /\ phase[c] = "insert"
          /\ clock' = clock + 1
          /\ used' = [used EXCEPT ![c] = clock + 1]
          /\ touched' = [touched EXCEPT ![c] = clock + 1]
          /\ phase' = [phase EXCEPT ![c] = "publish"]
          /\ UNCHANGED <<values, ticket, ranged, entry>>
      BY <2>12 DEF NewEntry
    <3>2. \A o \in Calls : /\ touched'[o] = IF o = c THEN clock + 1 ELSE touched[o]
                           /\ used'[o] = IF o = c THEN clock + 1 ELSE used[o]
                           /\ phase'[o] = IF o = c THEN "publish" ELSE phase[o]
      BY <3>1 DEF StampOK, LockOK
    <3>3. /\ clock \in Nat
          /\ \A o \in Calls : used[o] \in 0 .. clock /\ touched[o] \in 0 .. clock
                              /\ ticket[o] \in 0 .. clock /\ ranged[o] \in 0 .. clock
      BY DEF StampOK
    <3>4. Stored' = Stored
      BY <1>0, <3>1
    <3>5. \A o \in Calls : used'[o] <= touched'[o] /\ ranged[o] <= touched'[o]
      BY <3>2, <3>3 DEF TicketOK
    <3>6. \A o \in Calls : phase'[o] = "publish" \/ o \in Stored => used'[o] # 0
      BY <3>2, <3>3 DEF TicketOK
    <3>7. \A o, j \in Calls : o # j /\ used'[o] # 0 => used'[o] # touched'[j]
      BY <3>2, <3>3 DEF TicketOK
    <3>8. \A d \in Calls : Pending(d)' <=> Pending(d)
      BY <3>1, <3>2 DEF Pending
    <3>9. ASSUME NEW d \in Calls, Pending(d)
          PROVE  /\ ticket[d] # 0 /\ ticket[d] <= touched'[entry[d]]
                 /\ \A o \in Calls : used'[o] # ticket[d] /\ ranged[o] # ticket[d]
                 /\ \A o \in Calls : o # entry[d] => touched'[o] # ticket[d]
                 /\ \A b \in Calls : Pending(b) /\ b # d => ticket[d] # ticket[b]
      <4>1. entry[d] \in Calls
        BY <3>9 DEF Pending, LockOK
      <4>2. ticket[d] # clock + 1
        BY <3>3
      <4>3. ticket[d] # 0 /\ ticket[d] <= touched'[entry[d]]
        BY <3>2, <3>3, <3>9, <4>1 DEF TicketOK
      <4> QED
        BY <3>2, <3>9, <4>2, <4>3 DEF TicketOK
    <3> QED
      BY <3>1, <3>4, <3>5, <3>6, <3>7, <3>8, <3>9 DEF TicketOK
  <2>13. CASE Publish(c)
    <3>1. \A o \in Stored' : o \in Stored \/ phase[o] = "publish"
      BY <2>13, CacheAssumption DEF Publish, MapOK, Stored
    <3> QED
      BY <2>13, <3>1, TicketQuiet DEF Publish
  <2>14. CASE Account(c)
    BY <1>0, <2>14, TicketQuiet DEF Account
  <2> QED
    BY <1>2, <2>1, <2>2, <2>3, <2>4, <2>5, <2>6, <2>7, <2>8, <2>9, <2>10, <2>11, <2>12, <2>13,
       <2>14 DEF Step, Render
<1> QED
  BY <1>1, <1>2 DEF CacheNext

(* A step of a call that does not evict may hit entries: it only raises what *)
(* they were touched with, and moves their stamps away from what was ranged. *)
LEMMA OrderQuiet ==
  ASSUME LockOK, EvictionOK, StampOK, OrderOK, NEW c \in Calls, NEW p \in Phases,
         phase' = [phase EXCEPT ![c] = p], p # "evict", phase[c] # "evict",
         candidates' = candidates,
         phase[c] \notin Holding =>
           \A o \in Calls : /\ touched'[o] \in Int /\ touched[o] <= touched'[o]
                            /\ used'[o] = ranged'[o] => used[o] = ranged[o] /\ used'[o] = used[o]
  PROVE  OrderOK'
<1> SUFFICES ASSUME NEW d \in Calls, phase'[d] = "evict",
                    NEW i \in DOMAIN candidates, NEW j \in DOMAIN candidates, i < j,
                    used'[candidates[i]] = ranged'[candidates[i]]
             PROVE  used'[candidates[i]] < touched'[candidates[j]]
  BY DEF OrderOK
<1>1. phase[d] = "evict" /\ d # c
  BY DEF LockOK
<1>2. phase[c] \notin Holding
  BY <1>1, CacheAssumption DEF LockOK, Holding
<1>3. candidates[i] \in Calls /\ candidates[j] \in Calls
  BY DEF EvictionOK
<1>4. used[candidates[i]] = ranged[candidates[i]]
      /\ used'[candidates[i]] = used[candidates[i]]
      /\ touched[candidates[j]] <= touched'[candidates[j]]
      /\ touched'[candidates[j]] \in Int
  BY <1>2, <1>3
<1>5. used[candidates[i]] < touched[candidates[j]]
  BY <1>1, <1>4 DEF OrderOK
<1>6. used[candidates[i]] \in Int /\ touched[candidates[j]] \in Int
  BY <1>3 DEF StampOK
<1> QED
  BY <1>4, <1>5, <1>6

(* The bounds of what a sort can have seen.                                  *)
LEMMA SeenBetween ==
  ASSUME NEW a \in Nat, NEW b \in Nat, NEW n \in Min({a, b}) .. Max({a, b})
  PROVE  /\ n \in Nat /\ (a = b => n = b)
         /\ \A m \in Nat : a <= m /\ b <= m => n <= m
<1>1. CASE a <= b
  <2>1. Min({a, b}) = a /\ Max({a, b}) = b
    BY <1>1 DEF Min, Max
  <2> QED
    BY <2>1
<1>2. CASE ~(a <= b)
  <2>1. Min({a, b}) = b /\ Max({a, b}) = a
    BY <1>2 DEF Min, Max
  <2> QED
    BY <1>2, <2>1
<1> QED
  BY <1>1, <1>2

(* Sorting puts an entry before another only if its stamp, unless it moved,  *)
(* is older than the last touch of the other; hits during the eviction do    *)
(* not change that.                                                          *)
LEMMA OrderNext ==
  LockOK /\ MapOK /\ EvictionOK /\ StampOK /\ TicketOK /\ OrderOK /\ [CacheNext]_cacheVars
    => OrderOK'
<1> SUFFICES ASSUME LockOK, MapOK, EvictionOK, StampOK, TicketOK, OrderOK,
                    [CacheNext]_cacheVars
             PROVE  OrderOK'
  OBVIOUS
<1>1. CASE UNCHANGED cacheVars
  BY <1>1 DEF cacheVars, mapVars, callVars, lockVars, OrderOK
<1>2. ASSUME NEW c \in Calls, Step(c) PROVE OrderOK'
  <2> USE DEF At, Goto, Phases, mapVars, callVars, lockVars
  <2>0. \A o \in Calls : touched[o] \in Int /\ touched[o] <= touched[o]
    BY DEF StampOK
  <2>1. CASE Get(c)
    BY <2>0, <2>1, OrderQuiet DEF Get
  <2>2. CASE DrawTicket(c)
    <3>1. \A o \in Calls : touched'[o] \in Int /\ touched[o] <= touched'[o]
      BY <2>2 DEF DrawTicket, StampOK
    <3> QED
      BY <2>2, <3>1, OrderQuiet DEF DrawTicket
  <2>3. CASE Stamp(c)
    <3>1. used' = [used EXCEPT ![entry[c]] = ticket[c]] /\ ranged' = ranged
      BY <2>3 DEF Stamp
    <3>2. \A o \in Calls : ranged[o] # ticket[c]
      BY <2>3 DEF Stamp, TicketOK, Pending
    <3>3. \A o \in Calls : used'[o] = ranged'[o] => used[o] = ranged[o] /\ used'[o] = used[o]
      BY <3>1, <3>2 DEF StampOK
    <3> QED
      BY <2>0, <2>3, <3>3, OrderQuiet DEF Stamp
  <2>4. CASE RenderFails(c)
    BY <2>0, <2>4, OrderQuiet DEF RenderFails
  <2>5. CASE Admit(c)
    BY <2>0, <2>5, OrderQuiet DEF Admit
  <2>6. CASE Mark(c)
    BY <2>0, <2>6, OrderQuiet DEF Mark
  <2>7. CASE Lock(c)
    BY <2>0, <2>7, OrderQuiet DEF Lock
  <2>8. CASE LookAgain(c)
    BY <2>8, OrderQuiet DEF LookAgain, Holding
  <2>9. CASE Sort(c)
    <3>1. PICK order \in SetToSeqs(Stored) : \E seen \in [Stored -> 0 .. clock] :
                 /\ \A o \in Stored : seen[o] \in Seen(o)
                 /\ OldestFirst(order, seen)
                 /\ candidates' = order
      BY <2>9 DEF Sort, EvictionOrder
    <3>2. PICK seen \in [Stored -> 0 .. clock] :
                 /\ \A o \in Stored : seen[o] \in Seen(o)
                 /\ OldestFirst(order, seen)
                 /\ candidates' = order
      BY <3>1
    <3>3. Stored \in SUBSET Calls
      BY DEF MapOK, Stored
    <3>4. order \in Seq(Calls) /\ ToSet(order) = Stored /\ IsInjective(order)
      BY <3>3, SortedAll
    <3>5. UNCHANGED <<used, ranged, touched>>
      BY <2>9 DEF Sort
    <3>6. ASSUME NEW i \in DOMAIN order, NEW j \in DOMAIN order, i < j,
                 used[order[i]] = ranged[order[i]]
          PROVE  used[order[i]] < touched[order[j]]
      <4> DEFINE o == order[i]
                 e == order[j]
      <4>1. o \in Stored /\ e \in Stored
        BY <3>4 DEF ToSet
      <4>2. o # e
        BY <3>4, <3>6 DEF IsInjective
      <4>3. seen[o] <= seen[e]
        BY <3>2, <3>6 DEF OldestFirst
      <4>4. used[o] = ranged[o]
        BY <3>6
      <4> HIDE DEF o, e
      <4>5. /\ used[o] \in Nat /\ used[e] \in Nat /\ ranged[o] \in Nat /\ ranged[e] \in Nat
            /\ touched[e] \in Nat
        BY <3>3, <4>1 DEF StampOK
      <4>6. seen[o] = used[o]
        BY <3>2, <4>1, <4>4, <4>5, SeenBetween DEF Seen
      <4>7. used[e] <= touched[e] /\ ranged[e] <= touched[e]
        BY <3>3, <4>1 DEF TicketOK
      <4>8. seen[e] \in Min({ranged[e], used[e]}) .. Max({ranged[e], used[e]})
        BY <3>2, <4>1 DEF Seen
      <4>9. seen[e] \in Nat /\ seen[e] <= touched[e]
        BY <4>5, <4>7, <4>8, SeenBetween
      <4>10. used[o] # touched[e]
        BY <3>3, <4>1, <4>2 DEF TicketOK
      <4>11. used[o] < touched[e]
        BY <4>3, <4>5, <4>6, <4>9, <4>10
      <4> QED
        BY <4>11 DEF o, e
    <3> QED
      BY <3>2, <3>5, <3>6 DEF OrderOK
  <2>10. CASE Evict(c)
    <3>1. /\ phase[c] = "evict" /\ candidates # <<>> /\ candidates' = Tail(candidates)
          /\ UNCHANGED <<phase, used, ranged, touched>>
      BY <2>10 DEF Evict
    <3>2. /\ DOMAIN candidates = 1 .. Len(candidates) /\ Len(candidates) \in Nat
          /\ DOMAIN candidates' = 1 .. (Len(candidates) - 1)
          /\ \A i \in DOMAIN candidates' : candidates'[i] = candidates[i + 1]
      BY <3>1, HeadTailProperties DEF EvictionOK
    <3>3. ASSUME NEW i \in DOMAIN candidates', NEW j \in DOMAIN candidates', i < j,
                 used[candidates'[i]] = ranged[candidates'[i]]
          PROVE  used[candidates'[i]] < touched[candidates'[j]]
      <4>1. /\ candidates'[i] = candidates[i + 1] /\ candidates'[j] = candidates[j + 1]
            /\ i + 1 \in DOMAIN candidates /\ j + 1 \in DOMAIN candidates /\ i + 1 < j + 1
        BY <3>2, <3>3
      <4> QED
        BY <3>1, <3>3, <4>1 DEF OrderOK
    <3> QED
      BY <3>1, <3>3 DEF OrderOK
  <2>11. CASE EnoughEvicted(c)
    <3>1. candidates' = <<>>
      BY <2>11 DEF EnoughEvicted
    <3> QED
      BY <3>1 DEF OrderOK
  <2>12. CASE NewEntry(c)
    BY <2>12, OrderQuiet DEF NewEntry, Holding
  <2>13. CASE Publish(c)
    BY <2>13, OrderQuiet DEF Publish, Holding
  <2>14. CASE Account(c)
    BY <2>14, OrderQuiet DEF Account, Holding
  <2> QED
    BY <1>2, <2>1, <2>2, <2>3, <2>4, <2>5, <2>6, <2>7, <2>8, <2>9, <2>10, <2>11, <2>12, <2>13,
       <2>14 DEF Step, Render
<1> QED
  BY <1>1, <1>2 DEF CacheNext

-----------------------------------------------------------------------------
(* What follows from it.                                                     *)

(* CacheInv holds in every reachable state.                                  *)
THEOREM CacheInvariant == CacheSpec => []CacheInv
<1>1. CacheInit => CacheInv
  BY LockInit, EvictionInit, BookInit, StampInit DEF CacheInv
<1>2. CacheInv /\ [CacheNext]_cacheVars => CacheInv'
  BY LockNext, MapNext, EvictionNext, BookNext, StampNext, TicketNext, OrderNext DEF CacheInv
<1> QED
  BY <1>1, <1>2, PTL DEF CacheSpec

(* There is an entry per key at most.                                        *)
LEMMA EntriesPerKey == MapOK => Cardinality(Stored) <= Cardinality(Keys)
<1> SUFFICES ASSUME MapOK PROVE Cardinality(Stored) <= Cardinality(Keys)
  OBVIOUS
<1> DEFINE f == [o \in Stored |-> KeyOf[o]]
<1>1. f \in Injection(Stored, Keys)
  BY StoredAt DEF Injection, IsInjective
<1> HIDE DEF f
<1> QED
  BY <1>1, CacheAssumption, FS_Injection

(* CacheKeepsBooks: what the cache retains is within its budget, also in the *)
(* middle of a put, and with mu free c.bytes and c.entries are the size and  *)
(* the number of what is stored.                                             *)
THEOREM BooksKept == CacheSpec => []CacheKeepsBooks
<1>1. CacheInv => CacheKeepsBooks
  <2> SUFFICES ASSUME CacheInv PROVE CacheKeepsBooks
    OBVIOUS
  <2> USE DEF CacheInv
  <2>1. /\ Stored \in SUBSET Calls /\ Counted \in SUBSET Stored
        /\ Cardinality(Stored) \in Nat /\ Cardinality(Counted) \in Nat
        /\ Cardinality(Counted) <= Cardinality(Stored)
    BY StoredCalls, SubFinite, FS_Subset DEF Counted
  <2>2. Cardinality(Keys) \in Nat /\ Cardinality(Stored) <= Cardinality(Keys)
    BY EntriesPerKey, CacheAssumption, FS_CardinalityType
  <2>3. entries \in 0 .. Cardinality(Keys)
    BY <2>1, <2>2 DEF BookOK
  <2>4. BytesOf(Counted) \in Nat /\ BytesOf(Stored) \in Nat /\ MaxBytes \in Nat
    BY <2>1, BytesFirst, CacheAssumption
  <2>5. bytes \in 0 .. MaxBytes
    BY <2>4 DEF BookOK
  <2>6. clock \in 0 .. Cardinality(Calls)
    BY DrawnNat, CacheAssumption, FS_CardinalityType DEF StampOK
  <2>7. ToSet(candidates) \subseteq Stored
    BY DEF EvictionOK, ToSet
  <2>8. CacheTypeOK
    BY <2>3, <2>5, <2>6, <2>7 DEF CacheTypeOK, LockOK, MapOK, StampOK
  <2>9. RetainedWithinBudget
    <3>1. CASE \A c \in Calls : phase[c] # "account"
      <4>1. Counted = Stored
        BY <2>1, <3>1 DEF Counted
      <4> QED
        BY <4>1 DEF BookOK, RetainedWithinBudget
    <3>2. CASE \E c \in Calls : phase[c] = "account"
      <4>1. PICK c \in Calls : phase[c] = "account"
        BY <3>2
      <4>2. Counted = Stored \ {c} /\ c \in Stored
        BY <4>1, CountedIs
      <4>3. BytesOf(Stored) = BytesOf(Counted) + SizeOf(c)
        BY <2>1, <4>2, BytesWithout
      <4>4. Fits(c)
        BY <4>1 DEF BookOK
      <4> QED
        BY <4>3, <4>4 DEF BookOK, Fits, SizeOf, RetainedWithinBudget
    <3> QED
      BY <3>1, <3>2
  <2>10. CountersExact
    <3>1. ASSUME mu = Nobody PROVE Counted = Stored
      BY <2>1, <3>1, CacheAssumption DEF Counted, LockOK, Holding
    <3> QED
      BY <3>1 DEF CountersExact, BookOK
  <2> QED
    BY <2>8, <2>9, <2>10 DEF CacheKeepsBooks
<1> QED
  BY <1>1, CacheInvariant, PTL

(* EvictsLeastRecent: an entry evicted on a stamp that did not move was used *)
(* before everything that is kept was last touched.                          *)
THEOREM OldestEvicted == CacheSpec => EvictsLeastRecent
<1>1. CacheInv /\ [CacheNext]_cacheVars =>
        [\A o \in Stored : values'[KeyOf[o]] = Nobody /\ used[o] = ranged[o]
           => \A j \in Stored \ {o} : used[o] < touched[j]]_cacheVars
  <2> SUFFICES ASSUME CacheInv, NEW c \in Calls, Step(c),
                      NEW o \in Stored, values'[KeyOf[o]] = Nobody, used[o] = ranged[o],
                      NEW j \in Stored \ {o}
               PROVE  used[o] < touched[j]
    BY DEF CacheNext
  <2> USE DEF CacheInv
  <2>1. o \in Calls /\ KeyOf[o] \in Keys /\ values[KeyOf[o]] = o /\ o # Nobody
    BY StoredAt, CacheAssumption
  <2>2. CASE Evict(c)
    <3> DEFINE h == Head(candidates)
    <3>1. /\ phase[c] = "evict" /\ candidates # <<>>
          /\ values' = [values EXCEPT ![KeyOf[h]] = Nobody]
      BY <2>2 DEF Evict, At
    <3>2. candidates \in Seq(Calls) /\ ToSet(candidates) = Stored
      BY <3>1 DEF EvictionOK
    <3>3. h \in Stored
      BY <3>1, <3>2, HeadIn
    <3>4. h = candidates[1] /\ 1 \in DOMAIN candidates
      BY <3>1, <3>2
    <3> HIDE DEF h
    <3>5. h = o
      BY <2>1, <3>1, <3>3, StoredAt DEF MapOK
    <3>6. PICK i \in DOMAIN candidates : candidates[i] = j
      BY <3>2 DEF ToSet
    <3>7. i # 1 /\ j # o
      BY <3>4, <3>5, <3>6
    <3>8. DOMAIN candidates = 1 .. Len(candidates) /\ Len(candidates) \in Nat
      BY <3>2
    <3>9. 1 < i
      BY <3>7, <3>8
    <3> QED
      BY <3>1, <3>4, <3>5, <3>6, <3>9 DEF OrderOK
  <2>3. CASE Publish(c)
    BY <2>1, <2>3, CacheAssumption DEF Publish, MapOK
  <2>4. CASE ~Evict(c) /\ ~Publish(c)
    <3>1. values' = values
      BY <2>4 DEF Step, Get, DrawTicket, Stamp, Render, RenderFails, Admit, Mark, Lock, LookAgain,
                  Sort, EnoughEvicted, NewEntry, Account, mapVars
    <3> QED
      BY <2>1, <3>1
  <2> QED
    BY <2>2, <2>3, <2>4
<1> QED
  BY <1>1, CacheInvariant, PTL DEF CacheSpec, EvictsLeastRecent
=============================================================================
