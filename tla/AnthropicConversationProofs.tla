---------------------- MODULE AnthropicConversationProofs ----------------------
(***************************************************************************)
(* Proofs about a conversation through the proxy: the images of a request  *)
(* are counted, its cache markers are never more than the client's, an     *)
(* unpinned number is the one that was shown, what stripping made of an    *)
(* earlier request stays, and everything the client sent arrives, with the *)
(* list of pins said once.                                                 *)
(*                                                                         *)
(* The model's passes are loops over lists, stated as functions on 0 .. n; *)
(* UpTo is the induction that shows such a function exists and what its    *)
(* last value is (TotalIs, PickedIs). A part, a block and a message weigh  *)
(* the images, or the cache markers, that are in them; Load is the sum for *)
(* a list, and the lemmas about lists (an element appended, replaced or    *)
(* picked, two lists joined) are stated once for every kind of weight.     *)
(* Then each pass of the transform has a lemma: the messages it leaves     *)
(* weigh at most as many images more as it takes from the budget, and no   *)
(* marker more. Inv keeps that for the request that is open, with what     *)
(* makes it inductive: the messages and their blocks are well formed, so   *)
(* that they can be weighed; the conversation's own images are what the    *)
(* proxy counted when it opened the request; and the places of the results *)
(* that are still to be imaged stay places of the request when pages take  *)
(* the place of an earlier one.                                            *)
(*                                                                         *)
(* SaidInv is the other invariant: what the client says is made of lines,  *)
(* so that a turn of which nothing is left consists of commands and cannot *)
(* be the turn that the proxy forwarded. Which turns are dropped is then   *)
(* decided by the turns up to it (FirstAgree), and what is picked of the   *)
(* first elements comes first (PickedPrefix). For the numbers of pins, the *)
(* list shown of the first pins grows by one at each pin of the session    *)
(* (Counts): a number that is shown is reached at one pin, another at none.*)
(*                                                                         *)
(* ArriveInv is the third: between stripping and the provider a request is *)
(* tidy (AllTidy: a command only stays in a block that keeps its marker, a *)
(* page of a result shows no more than that result), the turns a collapse  *)
(* may close have no pages yet (FreshInv), and everything is still shown   *)
(* (Arrives). A pass puts a block that carries as much in the place of     *)
(* another (Carries), or a page of all the texts in the place of the turns *)
(* it closes.                                                              *)
(***************************************************************************)
EXTENDS AnthropicConversation, FiniteSetTheorems, WellFoundedInduction, TLAPS

(* Induction up to a bound. *)
LEMMA UpTo ==
  ASSUME NEW n \in Nat, NEW T, 0 \in T, \A i \in 1 .. n : i - 1 \in T => i \in T
  PROVE  n \in T
<1> SUFFICES ASSUME n \notin T PROVE FALSE
  OBVIOUS
<1> DEFINE U == {i \in 0 .. n : i \notin T}
<1>1. PICK m \in U : \A y \in U : ~ (<<y, m>> \in OpToRel(<, Nat))
  <2>1. U \subseteq Nat /\ n \in U
    OBVIOUS
  <2> HIDE DEF U
  <2> QED
    BY <2>1, NatLessThanWellFounded, WFMin
<1>2. m \in 1 .. n /\ m - 1 \in 0 .. n /\ m - 1 < m /\ m - 1 \in Nat /\ m \in Nat
  OBVIOUS
<1>3. m - 1 \notin U
  BY <1>1, <1>2 DEF OpToRel
<1> QED
  BY <1>2, <1>3

-----------------------------------------------------------------------------
(* Loops over a list.                                                        *)

(* The sums of the first numbers. *)
TotalSteps(f, w, n) ==
  f = [i \in 0 .. n |-> IF i = 0 THEN 0 ELSE f[i - 1] + w[i]]

(* They exist. *)
LEMMA TotalExist ==
  ASSUME NEW w, NEW n \in Nat
  PROVE  \E f : TotalSteps(f, w, n)
<1> DEFINE T == {k \in 0 .. n : \E f : TotalSteps(f, w, k)}
<1>1. 0 \in T
  <2> DEFINE f == [i \in 0 .. 0 |-> 0]
  <2>1. TotalSteps(f, w, 0)
    BY DEF TotalSteps
  <2> QED
    BY <2>1
<1>2. ASSUME NEW k \in 1 .. n, k - 1 \in T PROVE k \in T
  <2>1. PICK f : TotalSteps(f, w, k - 1)
    BY <1>2
  <2> DEFINE last == f[k - 1] + w[k]
             g == [i \in 0 .. k |-> IF i <= k - 1 THEN f[i] ELSE last]
  <2>2. \A i \in 0 .. k : i <= k - 1 \/ i = k
    OBVIOUS
  <2>3. \A i \in 0 .. k - 1 : g[i] = f[i]
    OBVIOUS
  <2>4. g[k] = last
    OBVIOUS
  <2>5. \A i \in 0 .. k - 1 : f[i] = IF i = 0 THEN 0 ELSE f[i - 1] + w[i]
    BY <2>1 DEF TotalSteps
  <2>6. g = [i \in 0 .. k |-> g[i]]
    OBVIOUS
  <2> HIDE DEF g
  <2>7. \A i \in 1 .. k : g[i - 1] = f[i - 1]
    BY <2>3
  <2>8. ASSUME NEW i \in 0 .. k PROVE g[i] = IF i = 0 THEN 0 ELSE g[i - 1] + w[i]
    <3>1. CASE i \in 0 .. k - 1
      BY <2>3, <2>5, <2>7, <3>1
    <3>2. CASE i = k
      BY <2>4, <2>7, <3>2
    <3> QED
      BY <2>2, <3>1, <3>2
  <2>9. TotalSteps(g, w, k)
    BY <2>6, <2>8 DEF TotalSteps
  <2> QED
    BY <2>9
<1> HIDE DEF T
<1>3. n \in T
  BY <1>1, <1>2, UpTo
<1> QED
  BY <1>3 DEF T

(* And Total is the last of them. *)
LEMMA TotalIs ==
  ASSUME NEW w, Len(w) \in Nat
  PROVE  \E f : /\ Total(w) = f[Len(w)] /\ f[0] = 0
                /\ \A i \in 1 .. Len(w) : f[i] = f[i - 1] + w[i]
<1> DEFINE n == Len(w)
           h == CHOOSE f : TotalSteps(f, w, n)
<1>1. TotalSteps(h, w, n)
  BY TotalExist
<1>2. Total(w) = h[n]
  BY DEF Total, TotalSteps
<1> HIDE DEF h
<1>3. \A i \in 0 .. n : h[i] = IF i = 0 THEN 0 ELSE h[i - 1] + w[i]
  BY <1>1 DEF TotalSteps
<1>4. h[0] = 0 /\ \A i \in 1 .. n : h[i] = h[i - 1] + w[i]
  BY <1>3
<1> QED
  BY <1>2, <1>4

(* What is picked of the first elements. *)
PickedSteps(f, s, chosen, n) ==
  f = [i \in 0 .. n |-> IF i = 0 THEN <<>>
                     ELSE IF i \in chosen THEN Append(f[i - 1], s[i]) ELSE f[i - 1]]

(* It exists. *)
LEMMA PickedExist ==
  ASSUME NEW s, NEW chosen, NEW n \in Nat
  PROVE  \E f : PickedSteps(f, s, chosen, n)
<1> DEFINE T == {k \in 0 .. n : \E f : PickedSteps(f, s, chosen, k)}
<1>1. 0 \in T
  <2> DEFINE f == [i \in 0 .. 0 |-> <<>>]
  <2>1. PickedSteps(f, s, chosen, 0)
    BY DEF PickedSteps
  <2> QED
    BY <2>1
<1>2. ASSUME NEW k \in 1 .. n, k - 1 \in T PROVE k \in T
  <2>1. PICK f : PickedSteps(f, s, chosen, k - 1)
    BY <1>2
  <2> DEFINE last == IF k \in chosen THEN Append(f[k - 1], s[k]) ELSE f[k - 1]
             g == [i \in 0 .. k |-> IF i <= k - 1 THEN f[i] ELSE last]
  <2>2. \A i \in 0 .. k : i <= k - 1 \/ i = k
    OBVIOUS
  <2>3. \A i \in 0 .. k - 1 : g[i] = f[i]
    OBVIOUS
  <2>4. g[k] = last
    OBVIOUS
  <2>5. \A i \in 0 .. k - 1 : f[i] =
          IF i = 0 THEN <<>> ELSE IF i \in chosen THEN Append(f[i - 1], s[i]) ELSE f[i - 1]
    BY <2>1 DEF PickedSteps
  <2>6. g = [i \in 0 .. k |-> g[i]]
    OBVIOUS
  <2> HIDE DEF g
  <2>7. \A i \in 1 .. k : g[i - 1] = f[i - 1]
    BY <2>3
  <2>8. ASSUME NEW i \in 0 .. k
       PROVE  g[i] =
        IF i = 0 THEN <<>> ELSE IF i \in chosen THEN Append(g[i - 1], s[i]) ELSE g[i - 1]
    <3>1. CASE i \in 0 .. k - 1
      BY <2>3, <2>5, <2>7, <3>1
    <3>2. CASE i = k
      BY <2>4, <2>7, <3>2
    <3> QED
      BY <2>2, <3>1, <3>2
  <2>9. PickedSteps(g, s, chosen, k)
    BY <2>6, <2>8 DEF PickedSteps
  <2> QED
    BY <2>9
<1> HIDE DEF T
<1>3. n \in T
  BY <1>1, <1>2, UpTo
<1> QED
  BY <1>3 DEF T

(* And Picked is the last of it. *)
LEMMA PickedIs ==
  ASSUME NEW s, NEW chosen, Len(s) \in Nat
  PROVE  \E f : /\ Picked(s, chosen) = f[Len(s)] /\ f[0] = <<>>
                /\ \A i \in 1 .. Len(s) :
                     f[i] = IF i \in chosen THEN Append(f[i - 1], s[i]) ELSE f[i - 1]
<1> DEFINE n == Len(s)
           h == CHOOSE f : PickedSteps(f, s, chosen, n)
<1>1. PickedSteps(h, s, chosen, n)
  BY PickedExist
<1>2. Picked(s, chosen) = h[n]
  BY DEF Picked, PickedSteps
<1> HIDE DEF h
<1>3. \A i \in 0 .. n : h[i] =
        IF i = 0 THEN <<>> ELSE IF i \in chosen THEN Append(h[i - 1], s[i]) ELSE h[i - 1]
  BY <1>1 DEF PickedSteps
<1>4. h[0] = <<>> /\ \A i \in 1 .. n : h[i] =
        IF i \in chosen THEN Append(h[i - 1], s[i]) ELSE h[i - 1]
  BY <1>3
<1> QED
  BY <1>2, <1>4

(* What is left of the first blocks. *)
StripSteps(f, blocks, n) ==
  f = [i \in 0 .. n |-> IF i = 0 THEN <<>> ELSE StripBlock(f[i - 1], blocks[i])]

(* It exists. *)
LEMMA StripExist ==
  ASSUME NEW blocks, NEW n \in Nat
  PROVE  \E f : StripSteps(f, blocks, n)
<1> DEFINE T == {k \in 0 .. n : \E f : StripSteps(f, blocks, k)}
<1>1. 0 \in T
  <2> DEFINE f == [i \in 0 .. 0 |-> <<>>]
  <2>1. StripSteps(f, blocks, 0)
    BY DEF StripSteps
  <2> QED
    BY <2>1
<1>2. ASSUME NEW k \in 1 .. n, k - 1 \in T PROVE k \in T
  <2>1. PICK f : StripSteps(f, blocks, k - 1)
    BY <1>2
  <2> DEFINE last == StripBlock(f[k - 1], blocks[k])
             g == [i \in 0 .. k |-> IF i <= k - 1 THEN f[i] ELSE last]
  <2>2. \A i \in 0 .. k : i <= k - 1 \/ i = k
    OBVIOUS
  <2>3. \A i \in 0 .. k - 1 : g[i] = f[i]
    OBVIOUS
  <2>4. g[k] = last
    OBVIOUS
  <2>5. \A i \in 0 .. k - 1 : f[i] = IF i = 0 THEN <<>> ELSE StripBlock(f[i - 1], blocks[i])
    BY <2>1 DEF StripSteps
  <2>6. g = [i \in 0 .. k |-> g[i]]
    OBVIOUS
  <2> HIDE DEF g
  <2>7. \A i \in 1 .. k : g[i - 1] = f[i - 1]
    BY <2>3
  <2>8. ASSUME NEW i \in 0 .. k
       PROVE  g[i] = IF i = 0 THEN <<>> ELSE StripBlock(g[i - 1], blocks[i])
    <3>1. CASE i \in 0 .. k - 1
      BY <2>3, <2>5, <2>7, <3>1
    <3>2. CASE i = k
      BY <2>4, <2>7, <3>2
    <3> QED
      BY <2>2, <3>1, <3>2
  <2>9. StripSteps(g, blocks, k)
    BY <2>6, <2>8 DEF StripSteps
  <2> QED
    BY <2>9
<1> HIDE DEF T
<1>3. n \in T
  BY <1>1, <1>2, UpTo
<1> QED
  BY <1>3 DEF T

(* And StripBlocks is the last of it. *)
LEMMA StripIs ==
  ASSUME NEW blocks, Len(blocks) \in Nat
  PROVE  \E f : /\ StripBlocks(blocks) = f[Len(blocks)] /\ f[0] = <<>>
                /\ \A i \in 1 .. Len(blocks) : f[i] = StripBlock(f[i - 1], blocks[i])
<1> DEFINE n == Len(blocks)
           h == CHOOSE f : StripSteps(f, blocks, n)
<1>1. StripSteps(h, blocks, n)
  BY StripExist
<1>2. StripBlocks(blocks) = h[n]
  BY DEF StripBlocks, StripSteps
<1> HIDE DEF h
<1>3. \A i \in 0 .. n : h[i] = IF i = 0 THEN <<>> ELSE StripBlock(h[i - 1], blocks[i])
  BY <1>1 DEF StripSteps
<1>4. h[0] = <<>> /\ \A i \in 1 .. n : h[i] = StripBlock(h[i - 1], blocks[i])
  BY <1>3
<1> QED
  BY <1>2, <1>4

-----------------------------------------------------------------------------
(* Lists, whatever they hold.                                                *)

IsList(s) == \E S : s \in Seq(S)

(* A list is a function on its places. *)
LEMMA ListIs ==
  ASSUME NEW s, IsList(s)
  PROVE  Len(s) \in Nat /\ DOMAIN s = 1 .. Len(s) /\ s = [i \in 1 .. Len(s) |-> s[i]]
BY DEF IsList

(* And such a function is a list. *)
LEMMA IsListFrom ==
  ASSUME NEW n \in Nat, NEW s, s = [i \in 1 .. n |-> s[i]]
  PROVE  IsList(s) /\ Len(s) = n
<1> DEFINE S == {s[i] : i \in 1 .. n}
<1>1. s \in [1 .. n -> S]
  OBVIOUS
<1> HIDE DEF S
<1>2. s \in Seq(S) /\ Len(s) = n
  BY <1>1
<1> QED
  BY <1>2 DEF IsList

(* Two lists are equal when their lengths and elements are. *)
LEMMA SameList ==
  ASSUME NEW s, NEW t, IsList(s), IsList(t), Len(s) = Len(t),
         \A i \in 1 .. Len(s) : s[i] = t[i]
  PROVE  s = t
<1>1. s = [i \in 1 .. Len(s) |-> s[i]] /\ t = [i \in 1 .. Len(s) |-> t[i]]
  BY ListIs
<1> QED
  BY <1>1

(* Two lists are lists of the elements of both. *)
LEMMA Together ==
  ASSUME NEW s, NEW t, IsList(s), IsList(t)
  PROVE  \E S : s \in Seq(S) /\ t \in Seq(S)
<1>1. PICK A : s \in Seq(A)
  BY DEF IsList
<1>2. PICK B : t \in Seq(B)
  BY DEF IsList
<1>3. s \in Seq(A \cup B) /\ t \in Seq(A \cup B)
  BY <1>1, <1>2
<1> QED
  BY <1>3

(* What Append is. *)
LEMMA ListAppend ==
  ASSUME NEW s, NEW e, IsList(s)
  PROVE  /\ IsList(Append(s, e)) /\ Len(Append(s, e)) = Len(s) + 1
         /\ Append(s, e)[Len(s) + 1] = e
         /\ \A i \in 1 .. Len(s) : Append(s, e)[i] = s[i]
<1>1. PICK A : s \in Seq(A)
  BY DEF IsList
<1> DEFINE S == A \cup {e}
<1>2. s \in Seq(S) /\ e \in S
  BY <1>1
<1> HIDE DEF S
<1>3. Append(s, e) \in Seq(S)
  BY <1>2
<1>4. Len(Append(s, e)) = Len(s) + 1 /\ Append(s, e)[Len(s) + 1] = e
  BY <1>2
<1>5. \A i \in 1 .. Len(s) : Append(s, e)[i] = s[i]
  BY <1>2
<1> QED
  BY <1>3, <1>4, <1>5 DEF IsList

(* What a concatenation is. *)
LEMMA ListConcat ==
  ASSUME NEW s, NEW t, IsList(s), IsList(t)
  PROVE  /\ IsList(s \o t) /\ Len(s \o t) = Len(s) + Len(t)
         /\ \A i \in 1 .. Len(s) : (s \o t)[i] = s[i]
         /\ \A i \in 1 .. Len(t) : (s \o t)[Len(s) + i] = t[i]
<1>1. PICK S : s \in Seq(S) /\ t \in Seq(S)
  BY Together
<1>2. s \o t \in Seq(S) /\ Len(s \o t) = Len(s) + Len(t)
  BY <1>1
<1>3. \A i \in 1 .. Len(s) : (s \o t)[i] = s[i]
  BY <1>1
<1>4. \A i \in 1 .. Len(t) : (s \o t)[Len(s) + i] = t[i]
  BY <1>1
<1> QED
  BY <1>2, <1>3, <1>4 DEF IsList

(* What a part of a list is. *)
LEMMA ListSub ==
  ASSUME NEW s, IsList(s), NEW a \in 1 .. Len(s) + 1, NEW b \in 0 .. Len(s), a <= b + 1
  PROVE  /\ IsList(SubSeq(s, a, b)) /\ Len(SubSeq(s, a, b)) = b - a + 1
         /\ \A i \in 1 .. b - a + 1 : SubSeq(s, a, b)[i] = s[a + i - 1]
<1>1. PICK S : s \in Seq(S)
  BY DEF IsList
<1>2. SubSeq(s, a, b) \in Seq(S) /\ Len(SubSeq(s, a, b)) = b - a + 1
  BY <1>1
<1>3. \A i \in 1 .. b - a + 1 : SubSeq(s, a, b)[i] = s[a + i - 1]
  BY <1>1
<1> QED
  BY <1>2, <1>3 DEF IsList

(* A list with one element replaced. *)
LEMMA ListExcept ==
  ASSUME NEW s, IsList(s), NEW k, NEW e
  PROVE  /\ IsList([s EXCEPT ![k] = e]) /\ Len([s EXCEPT ![k] = e]) = Len(s)
         /\ \A i \in 1 .. Len(s) : [s EXCEPT ![k] = e][i] = IF i = k THEN e ELSE s[i]
<1> DEFINE t == [s EXCEPT ![k] = e]
<1>1. DOMAIN t = 1 .. Len(s) /\ Len(s) \in Nat
  BY ListIs
<1>2. \A i \in 1 .. Len(s) : t[i] = IF i = k THEN e ELSE s[i]
  BY ListIs
<1>3. t = [i \in 1 .. Len(s) |-> t[i]]
  BY <1>1
<1> HIDE DEF t
<1>4. IsList(t) /\ Len(t) = Len(s)
  BY <1>1, <1>3, IsListFrom
<1> QED
  BY <1>2, <1>4 DEF t

(* The empty list, and a list of one. *)
LEMMA ListEmpty == IsList(<<>>) /\ Len(<<>>) = 0
<1>1. <<>> \in Seq({})
  OBVIOUS
<1> QED
  BY <1>1 DEF IsList

(* A list of one element. *)
LEMMA ListOne ==
  ASSUME NEW e
  PROVE  IsList(<<e>>) /\ Len(<<e>>) = 1 /\ <<e>>[1] = e
<1>1. <<e>> \in Seq({e}) /\ <<e>> = Append(<<>>, e)
  OBVIOUS
<1>2. Len(<<e>>) = 1 /\ <<e>>[1] = e
  BY <1>1, ListAppend, ListEmpty
<1> QED
  BY <1>1, <1>2 DEF IsList

-----------------------------------------------------------------------------
(* Sums.                                                                     *)

(* f adds up the first numbers of w. *)
Sums(f, w) == f[0] = 0 /\ \A i \in 1 .. Len(w) : f[i] = f[i - 1] + w[i]

(* A sum is the last of its partial sums. *)
LEMMA TotalSums ==
  ASSUME NEW w \in Seq(Nat)
  PROVE  \E f : Sums(f, w) /\ Total(w) = f[Len(w)]
<1>1. Len(w) \in Nat
  OBVIOUS
<1> QED
  BY <1>1, TotalIs DEF Sums

(* One step of them, and the first. *)
LEMMA SumsStep ==
  ASSUME NEW w, NEW f, Sums(f, w), NEW i \in 1 .. Len(w)
  PROVE  f[i] = f[i - 1] + w[i]
BY DEF Sums

(* Nothing adds up to zero. *)
LEMMA SumsStart ==
  ASSUME NEW w, NEW f, Sums(f, w)
  PROVE  f[0] = 0
BY DEF Sums

(* A sum of numbers is a number. *)
LEMMA TotalNat ==
  ASSUME NEW w \in Seq(Nat)
  PROVE  Total(w) \in Nat
<1>1. PICK f : Sums(f, w) /\ Total(w) = f[Len(w)]
  BY TotalSums
<1> DEFINE T == {k \in 0 .. Len(w) : f[k] \in Nat}
<1>2. 0 \in T
  BY <1>1, SumsStart
<1>3. ASSUME NEW k \in 1 .. Len(w), k - 1 \in T PROVE k \in T
  <2>1. f[k] = f[k - 1] + w[k] /\ w[k] \in Nat
    BY <1>1, SumsStep
  <2> QED
    BY <1>3, <2>1
<1> HIDE DEF T
<1>4. Len(w) \in T
  BY <1>2, <1>3, UpTo
<1> QED
  BY <1>1, <1>4 DEF T

(* What both summands bound, their sum bounds. *)
LEMMA SumGrows ==
  ASSUME NEW a \in Nat, NEW b \in Nat, NEW c \in Nat, NEW d \in Nat, b <= a, d <= c
  PROVE  a + c \in Nat /\ b + d \in Nat /\ b + d <= a + c
OBVIOUS

(* Sums of lists of which one is nowhere more than the other. *)
LEMMA TotalLeq ==
  ASSUME NEW u \in Seq(Nat), NEW w \in Seq(Nat), Len(u) = Len(w),
         \A i \in 1 .. Len(w) : u[i] <= w[i]
  PROVE  Total(u) <= Total(w)
<1>1. PICK f : Sums(f, w) /\ Total(w) = f[Len(w)]
  BY TotalSums
<1>2. PICK g : Sums(g, u) /\ Total(u) = g[Len(u)]
  BY TotalSums
<1> DEFINE T == {k \in 0 .. Len(w) : f[k] \in Nat /\ g[k] \in Nat /\ g[k] <= f[k]}
<1>3. 0 \in T
  <2>1. f[0] = 0 /\ g[0] = 0
    BY <1>1, <1>2, SumsStart
  <2> QED
    BY <2>1
<1>4. ASSUME NEW k \in 1 .. Len(w), k - 1 \in T PROVE k \in T
  <2> DEFINE a == f[k - 1]
             b == g[k - 1]
  <2>1. f[k] = a + w[k]
    BY <1>1, SumsStep
  <2>2. g[k] = b + u[k]
    BY <1>2, SumsStep
  <2>3. w[k] \in Nat /\ u[k] \in Nat /\ u[k] <= w[k]
    OBVIOUS
  <2>4. a \in Nat /\ b \in Nat /\ b <= a
    BY <1>4
  <2>5. f[k] \in Nat /\ g[k] \in Nat /\ g[k] <= f[k]
    <3> HIDE DEF a, b, T
    <3>1. a + w[k] \in Nat /\ b + u[k] \in Nat /\ b + u[k] <= a + w[k]
      BY <2>3, <2>4, SumGrows, Zenon
    <3> QED
      BY <2>1, <2>2, <3>1, Zenon
  <2> QED
    BY <2>5
<1> HIDE DEF T
<1>5. Len(w) \in T
  BY <1>3, <1>4, UpTo
<1> QED
  BY <1>1, <1>2, <1>5 DEF T

(* Lists that differ in one place. *)
DifferAt(p, u, w) == \A i \in 1 .. Len(w) : i # p => u[i] = w[i]
Ahead(d, p, u, w) == u[p] = w[p] + d

(* Their sums differ by as much. *)
LEMMA TotalDiffer ==
  ASSUME NEW u \in Seq(Nat), NEW w \in Seq(Nat), Len(u) = Len(w), NEW p \in 1 .. Len(w),
         NEW d \in Int, Ahead(d, p, u, w), DifferAt(p, u, w)
  PROVE  Total(u) = Total(w) + d
<1>1. PICK f : Sums(f, w) /\ Total(w) = f[Len(w)]
  BY TotalSums
<1>2. PICK g : Sums(g, u) /\ Total(u) = g[Len(u)]
  BY TotalSums
<1> DEFINE D(k) == IF k < p THEN 0 ELSE d
           T == {k \in 0 .. Len(w) : f[k] \in Nat /\ g[k] = f[k] + D(k)}
<1>3. 0 \in T
  <2>1. f[0] = 0 /\ g[0] = 0
    BY <1>1, <1>2, SumsStart
  <2>2. D(0) = 0
    OBVIOUS
  <2> QED
    BY <2>1, <2>2
<1>4. ASSUME NEW k \in 1 .. Len(w), k - 1 \in T PROVE k \in T
  <2>1. f[k] = f[k - 1] + w[k]
    BY <1>1, SumsStep
  <2>2. g[k] = g[k - 1] + u[k]
    BY <1>2, SumsStep
  <2>3. w[k] \in Nat /\ u[k] \in Nat
    OBVIOUS
  <2>4. f[k - 1] \in Nat /\ g[k - 1] = f[k - 1] + D(k - 1)
    BY <1>4
  <2> DEFINE x == D(k - 1)
             y == D(k)
  <2>5. x \in Int /\ y \in Int
    OBVIOUS
  <2>6. u[k] + x = w[k] + y
    <3>1. CASE k = p
      BY <3>1 DEF Ahead
    <3>2. CASE k # p
      <4>1. u[k] = w[k]
        BY <3>2 DEF DifferAt
      <4>2. k < p \/ k - 1 >= p
        BY <3>2
      <4>3. x = y
        BY <4>2
      <4> QED
        BY <4>1, <4>3
    <3> QED
      BY <3>1, <3>2
  <2>7. f[k] \in Nat
    <3>1. f[k - 1] \in Nat
      BY <2>4
    <3> QED
      BY <2>1, <2>3, <3>1
  <2>8. g[k] = f[k] + y
    <3> HIDE DEF x, y, D
    <3>0. g[k - 1] = f[k - 1] + x
      BY <2>4 DEF x
    <3> DEFINE a == f[k - 1]
    <3>n. a \in Nat
      BY <2>4
    <3>1. g[k] = (a + x) + u[k]
      BY <2>2, <3>0
    <3> HIDE DEF a
    <3>2. (a + x) + u[k] = a + (u[k] + x)
      BY <2>3, <2>5, <3>n
    <3>3. a + (w[k] + y) = (a + w[k]) + y
      BY <2>3, <2>5, <3>n
    <3> USE DEF a
    <3> QED
      BY <2>1, <2>6, <3>1, <3>2, <3>3
  <2> QED
    BY <2>7, <2>8 DEF T
<1>5. Len(w) \in T
  <2> HIDE DEF T
  <2> QED
    BY <1>3, <1>4, UpTo
<1>6. D(Len(w)) = d
  OBVIOUS
<1> QED
  BY <1>1, <1>2, <1>5, <1>6

(* What one number is less, the sum is less. *)
LEMMA TotalChange ==
  ASSUME NEW u \in Seq(Nat), NEW w \in Seq(Nat), Len(u) = Len(w), NEW p \in 1 .. Len(w),
         \A i \in 1 .. Len(w) : i # p => u[i] = w[i]
  PROVE  Total(u) + w[p] = Total(w) + u[p]
<1>1. w[p] \in Nat /\ u[p] \in Nat
  OBVIOUS
<1>2. Total(u) \in Nat /\ Total(w) \in Nat
  BY TotalNat
<1> DEFINE d == u[p] - w[p]
<1>3. d \in Int /\ Ahead(d, p, u, w)
  BY <1>1 DEF Ahead
<1>4. DifferAt(p, u, w)
  BY DEF DifferAt
<1> HIDE DEF d
<1>5. Total(u) = Total(w) + d
  BY <1>3, <1>4, TotalDiffer
<1> QED
  BY <1>1, <1>2, <1>3, <1>5 DEF Ahead

(* Sums of the first elements agree when the elements do. *)
LEMMA SumsPrefix ==
  ASSUME NEW u \in Seq(Nat), NEW w \in Seq(Nat), NEW f, NEW g, Len(u) <= Len(w),
         Sums(f, w), Sums(g, u), \A i \in 1 .. Len(u) : w[i] = u[i]
  PROVE  f[Len(u)] = Total(u) /\ Total(u) = g[Len(u)]
<1>0. PICK h : Sums(h, u) /\ Total(u) = h[Len(u)]
  BY TotalSums
<1> DEFINE T == {k \in 0 .. Len(u) : f[k] = h[k] /\ g[k] = h[k]}
<1>1. 0 \in T
  BY <1>0, SumsStart
<1>2. ASSUME NEW k \in 1 .. Len(u), k - 1 \in T PROVE k \in T
  <2>1. k \in 1 .. Len(w) /\ w[k] = u[k]
    OBVIOUS
  <2>2. f[k] = f[k - 1] + w[k]
    BY <2>1, SumsStep
  <2>3. g[k] = g[k - 1] + u[k] /\ h[k] = h[k - 1] + u[k]
    BY <1>0, SumsStep
  <2> QED
    BY <1>2, <2>1, <2>2, <2>3
<1> HIDE DEF T
<1>3. Len(u) \in T
  BY <1>1, <1>2, UpTo
<1> QED
  BY <1>0, <1>3 DEF T

(* Two lists, one after the other. *)
LEMMA TotalConcat ==
  ASSUME NEW u \in Seq(Nat), NEW w \in Seq(Nat)
  PROVE  u \o w \in Seq(Nat) /\ Total(u \o w) = Total(u) + Total(w)
<1> DEFINE v == u \o w
<1>0. v \in Seq(Nat) /\ Len(v) = Len(u) + Len(w)
  OBVIOUS
<1>a. \A i \in 1 .. Len(w) : v[Len(u) + i] = w[i]
  OBVIOUS
<1>b. \A i \in 1 .. Len(u) : v[i] = u[i]
  OBVIOUS
<1> HIDE DEF v
<1>2. PICK g : Sums(g, v) /\ Total(v) = g[Len(v)]
  BY <1>0, TotalSums
<1>3. PICK h : Sums(h, w) /\ Total(w) = h[Len(w)]
  BY TotalSums
<1>4. g[Len(u)] = Total(u)
  <2>1. Len(u) <= Len(v)
    BY <1>0
  <2>2. PICK f : Sums(f, u)
    BY TotalSums
  <2> QED
    BY <1>0, <1>b, <1>2, <2>1, <2>2, SumsPrefix
<1>5. Total(u) \in Nat
  BY TotalNat
<1> DEFINE T == {k \in 0 .. Len(w) : h[k] \in Nat /\ g[Len(u) + k] = Total(u) + h[k]}
<1>6. 0 \in T
  <2>1. h[0] = 0 /\ Len(u) + 0 = Len(u)
    BY <1>3, SumsStart
  <2> QED
    BY <1>4, <1>5, <2>1
<1>7. ASSUME NEW k \in 1 .. Len(w), k - 1 \in T PROVE k \in T
  <2>0. Len(u) + k \in 1 .. Len(v) /\ (Len(u) + k) - 1 = Len(u) + (k - 1)
    BY <1>0
  <2> DEFINE a == h[k - 1]
             sum == Total(u)
             n == Len(u) + k
  <2>1. g[n] = g[Len(u) + (k - 1)] + v[n]
    BY <1>2, <2>0, SumsStep
  <2>2. h[k] = a + w[k] /\ w[k] \in Nat
    BY <1>3, SumsStep
  <2>3. v[n] = w[k]
    BY <1>a
  <2>4. a \in Nat /\ g[Len(u) + (k - 1)] = sum + a
    BY <1>7
  <2>5. h[k] \in Nat /\ g[n] = sum + h[k]
    <3>1. g[n] = (sum + a) + w[k]
      BY <2>1, <2>3, <2>4
    <3>2. sum \in Nat
      BY <1>5
    <3> HIDE DEF a, sum, n, T
    <3> QED
      BY <2>2, <2>4, <3>1, <3>2
  <2> QED
    BY <2>5
<1> HIDE DEF T
<1>8. Len(w) \in T
  BY <1>6, <1>7, UpTo
<1>9. Total(v) = Total(u) + Total(w)
  BY <1>0, <1>2, <1>3, <1>8 DEF T
<1> QED
  BY <1>0, <1>9 DEF v

(* A sum of zeros, and of one number. *)
LEMMA TotalZero ==
  ASSUME NEW w \in Seq(Nat), \A i \in 1 .. Len(w) : w[i] = 0
  PROVE  Total(w) = 0
<1>1. PICK f : Sums(f, w) /\ Total(w) = f[Len(w)]
  BY TotalSums
<1> DEFINE T == {k \in 0 .. Len(w) : f[k] = 0}
<1>2. 0 \in T
  BY <1>1, SumsStart
<1>3. ASSUME NEW k \in 1 .. Len(w), k - 1 \in T PROVE k \in T
  <2>1. f[k] = f[k - 1] + w[k] /\ w[k] = 0
    BY <1>1, SumsStep
  <2> QED
    BY <1>3, <2>1
<1> HIDE DEF T
<1>4. Len(w) \in T
  BY <1>2, <1>3, UpTo
<1> QED
  BY <1>1, <1>4 DEF T

(* A list of one. *)
LEMMA TotalOne ==
  ASSUME NEW w \in Seq(Nat), Len(w) = 1
  PROVE  Total(w) = w[1]
<1>1. PICK f : Sums(f, w) /\ Total(w) = f[Len(w)]
  BY TotalSums
<1>2. f[0] = 0 /\ f[1] = f[1 - 1] + w[1] /\ w[1] \in Nat
  BY <1>1, SumsStart, SumsStep
<1> QED
  BY <1>1, <1>2

(* The empty list. *)
LEMMA TotalEmpty == <<>> \in Seq(Nat) /\ Total(<<>>) = 0
<1>1. <<>> \in Seq(Nat) /\ Len(<<>>) = 0
  OBVIOUS
<1>2. \A i \in 1 .. Len(<<>>) : <<>>[i] = 0
  BY <1>1
<1> QED
  BY <1>1, <1>2, TotalZero, Zenon

(* One number more. *)
LEMMA TotalAppend ==
  ASSUME NEW w \in Seq(Nat), NEW n \in Nat
  PROVE  Append(w, n) \in Seq(Nat) /\ Total(Append(w, n)) = Total(w) + n
<1>1. <<n>> \in Seq(Nat) /\ Append(w, n) = w \o <<n>>
  OBVIOUS
<1>2. Len(<<n>>) = 1 /\ <<n>>[1] = n
  BY ListOne
<1>3. Total(<<n>>) = n
  BY <1>1, <1>2, TotalOne
<1> QED
  BY <1>1, <1>3, TotalConcat

(* Ones up to a place and zeros after it. *)
LEMMA TotalOnes ==
  ASSUME NEW w \in Seq(Nat), NEW n \in Nat,
         \A i \in 1 .. Len(w) : w[i] <= 1 /\ (i > n => w[i] = 0)
  PROVE  Total(w) <= n
<1>1. PICK f : Sums(f, w) /\ Total(w) = f[Len(w)]
  BY TotalSums
<1> DEFINE T == {k \in 0 .. Len(w) : f[k] \in Nat /\ f[k] <= n /\ f[k] <= k}
<1>2. 0 \in T
  BY <1>1, SumsStart
<1>3. ASSUME NEW k \in 1 .. Len(w), k - 1 \in T PROVE k \in T
  <2>1. f[k] = f[k - 1] + w[k] /\ w[k] \in Nat /\ w[k] <= 1 /\ (k > n => w[k] = 0)
    BY <1>1, SumsStep
  <2> QED
    BY <1>3, <2>1
<1> HIDE DEF T
<1>4. Len(w) \in T
  BY <1>2, <1>3, UpTo
<1> QED
  BY <1>1, <1>4 DEF T

(* No number is more than the sum. *)
LEMMA TotalAtLeast ==
  ASSUME NEW w \in Seq(Nat), NEW p \in 1 .. Len(w)
  PROVE  w[p] <= Total(w)
<1> DEFINE u == [i \in 1 .. Len(w) |-> IF i = p THEN w[p] ELSE 0]
           z == [i \in 1 .. Len(w) |-> 0]
<1>1. u \in Seq(Nat) /\ Len(u) = Len(w) /\ z \in Seq(Nat) /\ Len(z) = Len(w)
  OBVIOUS
<1>2. (\A i \in 1 .. Len(w) : u[i] <= w[i]) /\ (\A i \in 1 .. Len(w) : i # p => u[i] = z[i])
  OBVIOUS
<1>3. u[p] = w[p] /\ z[p] = 0 /\ \A i \in 1 .. Len(w) : z[i] = 0
  OBVIOUS
<1> HIDE DEF u, z
<1>4. Total(u) <= Total(w)
  BY <1>1, <1>2, TotalLeq
<1>5. Total(u) + z[p] = Total(z) + u[p]
  BY <1>1, <1>2, TotalChange
<1>6. Total(z) = 0
  BY <1>1, <1>3, TotalZero
<1>7. Total(u) \in Nat /\ Total(w) \in Nat /\ w[p] \in Nat
  BY <1>1, TotalNat
<1> QED
  BY <1>3, <1>4, <1>5, <1>6, <1>7

(* One number among zeros. *)
LEMMA TotalSingle ==
  ASSUME NEW w \in Seq(Nat), NEW p \in 1 .. Len(w), \A i \in 1 .. Len(w) : i # p => w[i] = 0
  PROVE  Total(w) = w[p]
<1> DEFINE z == [i \in 1 .. Len(w) |-> 0]
<1>1. z \in Seq(Nat) /\ Len(z) = Len(w)
  OBVIOUS
<1>2. \A i \in 1 .. Len(w) : z[i] = 0
  OBVIOUS
<1> HIDE DEF z
<1>3. Total(z) = 0
  BY <1>1, <1>2, TotalZero
<1>4. \A i \in 1 .. Len(z) : i # p => w[i] = z[i]
  BY <1>1, <1>2
<1>5. p \in 1 .. Len(z) /\ z[p] = 0
  BY <1>1, <1>2
<1>6. Total(w) + z[p] = Total(z) + w[p]
  BY <1>1, <1>4, <1>5, TotalChange
<1>7. Total(w) \in Nat /\ w[p] \in Nat
  BY TotalNat
<1> QED
  BY <1>3, <1>5, <1>6, <1>7

-----------------------------------------------------------------------------
(* What is picked of a list.                                                 *)

(* f picks from the first elements of s. *)
Grows(f, s, chosen) ==
  f[0] = <<>> /\ \A i \in 1 .. Len(s) :
                   f[i] = IF i \in chosen THEN Append(f[i - 1], s[i]) ELSE f[i - 1]

(* What is picked is the last of what is picked so far. *)
LEMMA PickedGrows ==
  ASSUME NEW s, NEW chosen, Len(s) \in Nat
  PROVE  \E f : Picked(s, chosen) = f[Len(s)] /\ Grows(f, s, chosen)
BY PickedIs DEF Grows

(* Nothing is picked at first. *)
LEMMA GrowsStart ==
  ASSUME NEW s, NEW chosen, NEW f, Grows(f, s, chosen)
  PROVE  f[0] = <<>>
BY DEF Grows

(* One step of it. *)
LEMMA GrowsStep ==
  ASSUME NEW s, NEW chosen, NEW f, Grows(f, s, chosen), NEW i \in 1 .. Len(s)
  PROVE  f[i] = IF i \in chosen THEN Append(f[i - 1], s[i]) ELSE f[i - 1]
BY DEF Grows

(* Picking from two lists of one length takes the same places of both.       *)
Picks(s, t, chosen, a, b) ==
  /\ IsList(a) /\ IsList(b) /\ Len(a) = Len(b) /\ Len(a) <= Len(s)
  /\ \A k \in 1 .. Len(a) : \E j \in 1 .. Len(s) \cap chosen : a[k] = s[j] /\ b[k] = t[j]

(* An element that is picked is picked of both. *)
LEMMA PickedStep ==
  ASSUME NEW s, NEW t, NEW chosen, NEW a, NEW b, NEW k \in 1 .. Len(s), k \in chosen, IsList(s),
         Picks(s, t, chosen, a, b)
  PROVE  Len(a) < k => Picks(s, t, chosen, Append(a, s[k]), Append(b, t[k]))
<1> SUFFICES ASSUME Len(a) < k PROVE Picks(s, t, chosen, Append(a, s[k]), Append(b, t[k]))
  OBVIOUS
<1> DEFINE c == Append(a, s[k])
           d == Append(b, t[k])
<1>0. IsList(a) /\ IsList(b) /\ Len(a) = Len(b) /\ Len(a) \in Nat /\ Len(s) \in Nat
  BY ListIs DEF Picks
<1>1. IsList(c) /\ Len(c) = Len(a) + 1 /\ c[Len(a) + 1] = s[k]
        /\ \A i \in 1 .. Len(a) : c[i] = a[i]
  BY <1>0, ListAppend
<1>2. IsList(d) /\ Len(d) = Len(a) + 1 /\ d[Len(a) + 1] = t[k]
        /\ \A i \in 1 .. Len(a) : d[i] = b[i]
  BY <1>0, ListAppend
<1> HIDE DEF c, d
<1>3. ASSUME NEW i \in 1 .. Len(c) PROVE
       \E j \in 1 .. Len(s) \cap chosen : c[i] = s[j] /\ d[i] = t[j]
  <2>1. CASE i = Len(a) + 1
    BY <1>1, <1>2, <2>1
  <2>2. CASE i \in 1 .. Len(a)
    <3>1. PICK j \in 1 .. Len(s) \cap chosen : a[i] = s[j] /\ b[i] = t[j]
      BY <2>2 DEF Picks
    <3> QED
      BY <1>1, <1>2, <2>2, <3>1
  <2> QED
    BY <1>0, <1>1, <2>1, <2>2
<1>4. Len(c) <= Len(s) /\ Len(c) = Len(d)
  BY <1>0, <1>1, <1>2
<1> QED
  BY <1>1, <1>2, <1>3, <1>4 DEF Picks, c, d

(* And so of the whole lists. *)
LEMMA PickedBoth ==
  ASSUME NEW s, NEW t, NEW chosen, IsList(s), IsList(t), Len(s) = Len(t)
  PROVE  Picks(s, t, chosen, Picked(s, chosen), Picked(t, chosen))
<1>0. Len(s) \in Nat /\ Len(t) \in Nat
  BY ListIs
<1>1. PICK f : Picked(s, chosen) = f[Len(s)] /\ Grows(f, s, chosen)
  BY <1>0, PickedGrows
<1>2. PICK g : Picked(t, chosen) = g[Len(t)] /\ Grows(g, t, chosen)
  BY <1>0, PickedGrows
<1> DEFINE T == {k \in 0 .. Len(s) : Picks(s, t, chosen, f[k], g[k]) /\ Len(f[k]) <= k}
<1>3. 0 \in T
  <2>1. f[0] = <<>> /\ g[0] = <<>>
    BY <1>1, <1>2, GrowsStart
  <2>2. Picks(s, t, chosen, <<>>, <<>>) /\ Len(<<>>) <= 0
    BY <1>0, ListEmpty DEF Picks
  <2> QED
    BY <1>0, <2>1, <2>2
<1>4. ASSUME NEW k \in 1 .. Len(s), k - 1 \in T PROVE k \in T
  <2>0. Picks(s, t, chosen, f[k - 1], g[k - 1]) /\ Len(f[k - 1]) <= k - 1
    BY <1>4
  <2>1. CASE k \in chosen
    <3>1. f[k] = Append(f[k - 1], s[k]) /\ g[k] = Append(g[k - 1], t[k])
      BY <1>1, <1>2, <2>1, GrowsStep
    <3>2. IsList(f[k - 1]) /\ Len(f[k - 1]) \in Nat
      BY <2>0, ListIs DEF Picks
    <3>3. Len(f[k - 1]) < k
      BY <2>0, <3>2
    <3>4. Picks(s, t, chosen, f[k], g[k])
      BY <2>0, <2>1, <3>1, <3>3, PickedStep
    <3>5. Len(f[k]) = Len(f[k - 1]) + 1
      BY <3>1, <3>2, ListAppend
    <3> QED
      BY <2>0, <3>2, <3>4, <3>5
  <2>2. CASE k \notin chosen
    <3>1. f[k] = f[k - 1] /\ g[k] = g[k - 1]
      BY <1>1, <1>2, <2>2, GrowsStep
    <3>2. Len(f[k - 1]) \in Nat
      BY <2>0, ListIs DEF Picks
    <3> QED
      BY <2>0, <3>1, <3>2
  <2> QED
    BY <2>1, <2>2
<1>5. Len(s) \in T
  <2> HIDE DEF T
  <2> QED
    BY <1>0, <1>3, <1>4, UpTo
<1> QED
  BY <1>1, <1>2, <1>5

(* What is picked of numbers adds up to no more.                             *)
LEMMA TotalPicked ==
  ASSUME NEW w \in Seq(Nat), NEW chosen
  PROVE  Picked(w, chosen) \in Seq(Nat) /\ Total(Picked(w, chosen)) <= Total(w)
<1>0. Len(w) \in Nat
  OBVIOUS
<1>1. PICK f : Picked(w, chosen) = f[Len(w)] /\ Grows(f, w, chosen)
  BY <1>0, PickedGrows
<1>2. PICK g : Sums(g, w) /\ Total(w) = g[Len(w)]
  BY TotalSums
<1> DEFINE T == {k \in 0 .. Len(w) : f[k] \in Seq(Nat) /\ g[k] \in Nat /\ Total(f[k]) <= g[k]}
<1>3. 0 \in T
  <2>1. f[0] = <<>> /\ g[0] = 0
    BY <1>1, <1>2, GrowsStart, SumsStart
  <2>2. f[0] \in Seq(Nat) /\ Total(f[0]) = 0
    BY <2>1, TotalEmpty, Zenon
  <2>3. g[0] \in Nat /\ Total(f[0]) <= g[0] /\ 0 \in 0 .. Len(w)
    BY <1>0, <2>1, <2>2
  <2> QED
    BY <2>2, <2>3
<1>4. ASSUME NEW k \in 1 .. Len(w), k - 1 \in T PROVE k \in T
  <2>0. f[k - 1] \in Seq(Nat) /\ g[k - 1] \in Nat /\ Total(f[k - 1]) <= g[k - 1]
    BY <1>4
  <2>1. Total(f[k - 1]) \in Nat
    BY <2>0, TotalNat
  <2>2. g[k] = g[k - 1] + w[k] /\ w[k] \in Nat
    BY <1>2, SumsStep
  <2>3. CASE k \in chosen
    <3>1. f[k] = Append(f[k - 1], w[k])
      BY <1>1, <2>3, GrowsStep
    <3>4. f[k] \in Seq(Nat) /\ Total(f[k]) = Total(f[k - 1]) + w[k]
      BY <2>0, <2>2, <3>1, TotalAppend
    <3> QED
      BY <2>0, <2>1, <2>2, <3>4
  <2>4. CASE k \notin chosen
    <3>1. f[k] = f[k - 1]
      BY <1>1, <2>4, GrowsStep
    <3> QED
      BY <2>0, <2>1, <2>2, <3>1
  <2> QED
    BY <2>3, <2>4
<1>5. Len(w) \in T
  <2> HIDE DEF T
  <2> QED
    BY <1>0, <1>3, <1>4, UpTo
<1> QED
  BY <1>1, <1>2, <1>5

(* As many are picked as ones are counted.                                   *)
LEMMA PickedCount ==
  ASSUME NEW s, IsList(s), NEW chosen, NEW w \in Seq(Nat), Len(w) = Len(s),
         \A i \in 1 .. Len(s) : i \in chosen => w[i] = 1
  PROVE  Len(Picked(s, chosen)) <= Total(w)
<1>0. Len(s) \in Nat
  BY ListIs
<1>1. PICK f : Picked(s, chosen) = f[Len(s)] /\ Grows(f, s, chosen)
  BY <1>0, PickedGrows
<1>2. PICK g : Sums(g, w) /\ Total(w) = g[Len(w)]
  BY TotalSums
<1> DEFINE T == {k \in 0 .. Len(s) : IsList(f[k]) /\ g[k] \in Nat /\ Len(f[k]) <= g[k]}
<1>3. 0 \in T
  <2>1. f[0] = <<>> /\ g[0] = 0
    BY <1>1, <1>2, GrowsStart, SumsStart
  <2> QED
    BY <2>1, ListEmpty
<1>4. ASSUME NEW k \in 1 .. Len(s), k - 1 \in T PROVE k \in T
  <2>0. IsList(f[k - 1]) /\ g[k - 1] \in Nat /\ Len(f[k - 1]) <= g[k - 1]
    BY <1>4
  <2>1. Len(f[k - 1]) \in Nat
    BY <2>0, ListIs
  <2>2. g[k] = g[k - 1] + w[k] /\ w[k] \in Nat
    BY <1>2, SumsStep
  <2>3. CASE k \in chosen
    <3>1. f[k] = Append(f[k - 1], s[k])
      BY <1>1, <2>3, GrowsStep
    <3>2. IsList(f[k]) /\ Len(f[k]) = Len(f[k - 1]) + 1
      BY <2>0, <3>1, ListAppend
    <3>3. g[k] = g[k - 1] + 1
      BY <2>2, <2>3
    <3>4. g[k] \in Nat /\ Len(f[k]) <= g[k]
      BY <2>0, <2>1, <3>2, <3>3
    <3> QED
      BY <3>2, <3>4
  <2>4. CASE k \notin chosen
    <3>1. f[k] = f[k - 1]
      BY <1>1, <2>4, GrowsStep
    <3> QED
      BY <2>0, <2>1, <2>2, <3>1
  <2> QED
    BY <2>3, <2>4
<1>5. Len(s) \in T
  <2> HIDE DEF T
  <2> QED
    BY <1>0, <1>3, <1>4, UpTo
<1> QED
  BY <1>1, <1>2, <1>5

-----------------------------------------------------------------------------
(* What parts, blocks and messages weigh: their images, or their markers.    *)
(* The facts about lists of them are the same for each.                      *)

IsPart(p) == {"type", "cc"} \subseteq DOMAIN p /\ p.cc # "global"
IsParts(s) == IsList(s) /\ \A k \in 1 .. Len(s) : IsPart(s[k])

IsBlock(b) ==
  /\ {"type", "cc"} \subseteq DOMAIN b /\ b.cc # "global"
  /\ b.type = "result" => "parts" \in DOMAIN b /\ IsParts(b.parts)
IsBlocks(s) == IsList(s) /\ \A k \in 1 .. Len(s) : IsBlock(s[k])

IsSystemBlock(b) == {"type", "cc"} \subseteq DOMAIN b /\ b.type = "text"
IsSystem(s) == IsList(s) /\ \A k \in 1 .. Len(s) : IsSystemBlock(s[k])

IsMessage(m) == "blocks" \in DOMAIN m /\ IsBlocks(m.blocks)
IsMessages(s) == IsList(s) /\ \A k \in 1 .. Len(s) : IsMessage(s[k])

Is(kind, x) ==
  CASE kind \in {"part image", "part mark"} -> IsPart(x)
    [] kind \in {"image", "mark"} -> IsBlock(x)
    [] kind = "system mark" -> IsSystemBlock(x)
    [] kind \in {"images", "marks"} -> IsMessage(x)

Weight(kind, x) ==
  CASE kind = "part image" -> IF IsImage(x) THEN 1 ELSE 0
    [] kind = "part mark" -> IF HasMark(x) THEN 1 ELSE 0
    [] kind = "image" -> ImagesOf(x)
    [] kind \in {"mark", "system mark"} -> MarksOf(x)
    [] kind = "images" -> ImagesIn(x.blocks)
    [] kind = "marks" -> MarksIn(x.blocks)

Weights(kind, s) == [k \in DOMAIN s |-> Weight(kind, s[k])]
Load(kind, s) == Total(Weights(kind, s))

(* A list whose elements can be weighed. *)
Fits(kind, x) == Is(kind, x) /\ Weight(kind, x) \in Nat
Weighed(kind, s) == IsList(s) /\ \A k \in 1 .. Len(s) : Fits(kind, s[k])

(* The weights of a list are numbers, one for each element. *)
LEMMA WeightsAre ==
  ASSUME NEW kind, NEW s, Weighed(kind, s)
  PROVE  /\ Weights(kind, s) \in Seq(Nat) /\ Len(Weights(kind, s)) = Len(s) /\ Len(s) \in Nat
         /\ \A k \in 1 .. Len(s) : Weights(kind, s)[k] = Weight(kind, s[k])
<1> DEFINE w == Weights(kind, s)
<1>1. Len(s) \in Nat /\ DOMAIN s = 1 .. Len(s) /\ IsList(s)
  BY ListIs DEF Weighed
<1>2. w \in [1 .. Len(s) -> Nat]
  BY <1>1 DEF Weighed, Weights, Fits
<1>3. \A k \in 1 .. Len(s) : w[k] = Weight(kind, s[k])
  BY <1>1 DEF Weights
<1> HIDE DEF w
<1>4. w \in Seq(Nat) /\ Len(w) = Len(s)
  BY <1>1, <1>2
<1> QED
  BY <1>1, <1>3, <1>4 DEF w

(* And so is their sum. *)
LEMMA LoadNat ==
  ASSUME NEW kind, NEW s, Weighed(kind, s)
  PROVE  Load(kind, s) \in Nat
BY WeightsAre, TotalNat DEF Load

(* Two lists, one after the other. *)
LEMMA LoadConcat ==
  ASSUME NEW kind, NEW s, NEW t, Weighed(kind, s), Weighed(kind, t)
  PROVE  Weighed(kind, s \o t) /\ Load(kind, s \o t) = Load(kind, s) + Load(kind, t)
<1> DEFINE r == s \o t
           v == Weights(kind, r)
           u == Weights(kind, s)
           w == Weights(kind, t)
<1>0. IsList(s) /\ IsList(t) /\ Len(s) \in Nat /\ Len(t) \in Nat
  BY WeightsAre DEF Weighed
<1>1. /\ IsList(r) /\ Len(r) = Len(s) + Len(t)
      /\ \A i \in 1 .. Len(s) : r[i] = s[i]
      /\ \A i \in 1 .. Len(t) : r[Len(s) + i] = t[i]
  BY <1>0, ListConcat
<1>2. /\ u \in Seq(Nat) /\ Len(u) = Len(s)
      /\ \A k \in 1 .. Len(s) : u[k] = Weight(kind, s[k])
  BY WeightsAre
<1>3. /\ w \in Seq(Nat) /\ Len(w) = Len(t)
      /\ \A k \in 1 .. Len(t) : w[k] = Weight(kind, t[k])
  BY WeightsAre
<1> HIDE DEF r, u, v, w
<1>4. \A k \in 1 .. Len(r) : k \in 1 .. Len(s) \/ \E i \in 1 .. Len(t) : k = Len(s) + i
  <2> TAKE k \in 1 .. Len(r)
  <2>1. CASE k <= Len(s)
    BY <1>0, <1>1, <2>1
  <2>2. CASE k > Len(s)
    <3>1. k - Len(s) \in 1 .. Len(t) /\ k = Len(s) + (k - Len(s))
      BY <1>0, <1>1, <2>2
    <3> QED
      BY <3>1
  <2> QED
    BY <1>0, <1>1, <2>1, <2>2
<1>5. Weighed(kind, r)
  <2>1. ASSUME NEW k \in 1 .. Len(r) PROVE Fits(kind, r[k])
    BY <1>1, <1>4 DEF Weighed
  <2> QED
    BY <1>1, <2>1 DEF Weighed
<1>6. v \in Seq(Nat) /\ Len(v) = Len(r)
  BY <1>5, WeightsAre DEF v
<1>7. \A k \in 1 .. Len(r) : v[k] = Weight(kind, r[k])
  BY <1>5, WeightsAre DEF v
<1>8. u \o w \in Seq(Nat)
  BY <1>2, <1>3, TotalConcat
<1>a. IsList(u) /\ IsList(w)
  BY <1>2, <1>3 DEF IsList
<1>b. Len(u \o w) = Len(u) + Len(w)
  BY <1>a, ListConcat
<1>c. \A i \in 1 .. Len(u) : (u \o w)[i] = u[i]
  BY <1>a, ListConcat
<1>d. \A i \in 1 .. Len(w) : (u \o w)[Len(u) + i] = w[i]
  BY <1>a, ListConcat
<1>9. v = u \o w
  <2>1. ASSUME NEW k \in 1 .. Len(v) PROVE v[k] = (u \o w)[k]
    <3>1. CASE k \in 1 .. Len(s)
      BY <1>1, <1>2, <1>6, <1>7, <1>c, <3>1
    <3>2. CASE \E i \in 1 .. Len(t) : k = Len(s) + i
      <4>1. PICK i \in 1 .. Len(t) : k = Len(s) + i
        BY <3>2
      <4>2. v[k] = Weight(kind, t[i])
        BY <1>1, <1>6, <1>7, <4>1
      <4>3. (u \o w)[k] = w[i] /\ w[i] = Weight(kind, t[i])
        BY <1>2, <1>3, <1>d, <4>1
      <4> QED
        BY <4>2, <4>3
    <3> QED
      BY <1>4, <1>6, <3>1, <3>2
  <2>2. IsList(v) /\ IsList(u \o w) /\ Len(v) = Len(u \o w)
    BY <1>1, <1>2, <1>3, <1>6, <1>8, <1>b DEF IsList
  <2> QED
    BY <2>1, <2>2, SameList
<1>10. Total(v) = Total(u) + Total(w)
  BY <1>2, <1>3, <1>9, TotalConcat
<1> QED
  BY <1>5, <1>10 DEF Load, r, u, v, w

(* No element. *)
LEMMA LoadEmpty ==
  ASSUME NEW kind
  PROVE  Weighed(kind, <<>>) /\ Load(kind, <<>>) = 0
<1>1. Weighed(kind, <<>>)
  BY ListEmpty DEF Weighed
<1>2. Weights(kind, <<>>) \in Seq(Nat) /\ Len(Weights(kind, <<>>)) = 0
  BY <1>1, WeightsAre, ListEmpty
<1>3. Total(Weights(kind, <<>>)) = 0
  BY <1>2, TotalZero
<1> QED
  BY <1>1, <1>3 DEF Load

(* One element. *)
LEMMA LoadOne ==
  ASSUME NEW kind, NEW x, Fits(kind, x)
  PROVE  Weighed(kind, <<x>>) /\ Load(kind, <<x>>) = Weight(kind, x)
<1> DEFINE s == <<x>>
<1>0. IsList(s) /\ Len(s) = 1 /\ s[1] = x
  BY ListOne
<1> HIDE DEF s
<1>1. Weighed(kind, s)
  BY <1>0 DEF Weighed
<1>2. Weights(kind, s) \in Seq(Nat) /\ Len(Weights(kind, s)) = 1
  BY <1>0, <1>1, WeightsAre
<1>3. Weights(kind, s)[1] = Weight(kind, x)
  BY <1>0, <1>1, WeightsAre
<1>4. Total(Weights(kind, s)) = Weight(kind, x)
  BY <1>2, <1>3, TotalOne
<1> QED
  BY <1>1, <1>4 DEF Load, s

(* An element more, as two lists joined. *)
LEMMA AppendIs ==
  ASSUME NEW s, NEW x, IsList(s)
  PROVE  Append(s, x) = s \o <<x>>
<1>1. PICK S : s \in Seq(S)
  BY DEF IsList
<1> QED
  BY <1>1

(* One element more. *)
LEMMA LoadAppend ==
  ASSUME NEW kind, NEW s, NEW x, Weighed(kind, s), Fits(kind, x)
  PROVE  Weighed(kind, Append(s, x)) /\ Load(kind, Append(s, x)) = Load(kind, s) + Weight(kind, x)
<1>1. Append(s, x) = s \o <<x>>
  BY AppendIs DEF Weighed
<1> QED
  BY <1>1, LoadOne, LoadConcat

(* One element replaced. *)
LEMMA LoadExcept ==
  ASSUME NEW kind, NEW s, Weighed(kind, s), NEW p \in 1 .. Len(s), NEW x, Fits(kind, x)
  PROVE  /\ Weighed(kind, [s EXCEPT ![p] = x])
         /\ Load(kind, [s EXCEPT ![p] = x]) + Weight(kind, s[p]) = Load(kind, s) + Weight(kind, x)
<1> DEFINE r == [s EXCEPT ![p] = x]
           u == Weights(kind, r)
           w == Weights(kind, s)
<1>1. IsList(s)
  BY DEF Weighed
<1>2. IsList(r) /\ Len(r) = Len(s)
  BY <1>1, ListExcept
<1>3. \A i \in 1 .. Len(s) : r[i] = IF i = p THEN x ELSE s[i]
  BY <1>1, ListExcept
<1> HIDE DEF r
<1>4. Weighed(kind, r)
  BY <1>2, <1>3 DEF Weighed
<1>5. w \in Seq(Nat) /\ Len(w) = Len(s) /\ \A k \in 1 .. Len(s) : w[k] = Weight(kind, s[k])
  BY WeightsAre
<1>6. u \in Seq(Nat) /\ Len(u) = Len(r) /\ \A k \in 1 .. Len(r) : u[k] = Weight(kind, r[k])
  BY <1>4, WeightsAre
<1> HIDE DEF u, w
<1>7. \A i \in 1 .. Len(w) : i # p => u[i] = w[i]
  BY <1>2, <1>3, <1>5, <1>6
<1>8. p \in 1 .. Len(w) /\ Len(u) = Len(w)
  BY <1>2, <1>5, <1>6
<1>9. w[p] = Weight(kind, s[p]) /\ u[p] = Weight(kind, x)
  BY <1>2, <1>3, <1>5, <1>6
<1>10. Total(u) + w[p] = Total(w) + u[p]
  BY <1>5, <1>6, <1>7, <1>8, TotalChange
<1> QED
  BY <1>4, <1>9, <1>10 DEF Load, r, u, w

(* Lists of which one weighs nowhere more than the other. *)
LEMMA LoadLeq ==
  ASSUME NEW kind, NEW s, NEW t, Weighed(kind, s), Weighed(kind, t), Len(s) = Len(t),
         \A k \in 1 .. Len(t) : Weight(kind, s[k]) <= Weight(kind, t[k])
  PROVE  Load(kind, s) <= Load(kind, t)
<1> DEFINE u == Weights(kind, s)
           w == Weights(kind, t)
<1>1. u \in Seq(Nat) /\ Len(u) = Len(s) /\ \A k \in 1 .. Len(s) : u[k] = Weight(kind, s[k])
  BY WeightsAre
<1>2. w \in Seq(Nat) /\ Len(w) = Len(t) /\ \A k \in 1 .. Len(t) : w[k] = Weight(kind, t[k])
  BY WeightsAre
<1> HIDE DEF u, w
<1>3. Total(u) <= Total(w)
  BY <1>1, <1>2, TotalLeq
<1> QED
  BY <1>3 DEF Load, u, w

(* No element weighs more than the list. *)
LEMMA LoadAtLeast ==
  ASSUME NEW kind, NEW s, Weighed(kind, s), NEW p \in 1 .. Len(s)
  PROVE  Weight(kind, s[p]) <= Load(kind, s)
<1> DEFINE w == Weights(kind, s)
<1>1. w \in Seq(Nat) /\ Len(w) = Len(s) /\ w[p] = Weight(kind, s[p])
  BY WeightsAre
<1> HIDE DEF w
<1>2. w[p] <= Total(w)
  BY <1>1, TotalAtLeast
<1> QED
  BY <1>1, <1>2 DEF Load, w

(* What is picked of a list weighs no more. *)
LEMMA LoadPicked ==
  ASSUME NEW kind, NEW s, NEW chosen, Weighed(kind, s)
  PROVE  Weighed(kind, Picked(s, chosen)) /\ Load(kind, Picked(s, chosen)) <= Load(kind, s)
<1> DEFINE w == Weights(kind, s)
           r == Picked(s, chosen)
           u == Picked(w, chosen)
<1>1. w \in Seq(Nat) /\ Len(w) = Len(s) /\ \A k \in 1 .. Len(s) : w[k] = Weight(kind, s[k])
  BY WeightsAre
<1>2. IsList(s) /\ IsList(w)
  BY <1>1 DEF IsList, Weighed
<1>3. Picks(s, w, chosen, r, u)
  BY <1>1, <1>2, PickedBoth
<1>4. u \in Seq(Nat) /\ Total(u) <= Total(w)
  BY <1>1, TotalPicked
<1> HIDE DEF w, r, u
<1>5. IsList(r) /\ Len(r) = Len(u)
  BY <1>3 DEF Picks
<1>6. \A k \in 1 .. Len(r) : \E j \in 1 .. Len(s) : r[k] = s[j] /\ u[k] = w[j]
  BY <1>3 DEF Picks
<1>7. \A k \in 1 .. Len(r) : Weight(kind, r[k]) = u[k] /\ Fits(kind, r[k])
  <2> TAKE k \in 1 .. Len(r)
  <2>1. PICK j \in 1 .. Len(s) : r[k] = s[j] /\ u[k] = w[j]
    BY <1>6
  <2> QED
    BY <1>1, <2>1 DEF Weighed
<1>8. Weighed(kind, r)
  BY <1>5, <1>7 DEF Weighed
<1>9. Weights(kind, r) = u
  <2>1. /\ Weights(kind, r) \in Seq(Nat) /\ Len(Weights(kind, r)) = Len(r)
        /\ \A k \in 1 .. Len(r) : Weights(kind, r)[k] = Weight(kind, r[k])
    BY <1>8, WeightsAre
  <2>2. IsList(Weights(kind, r)) /\ IsList(u)
    BY <1>4, <2>1 DEF IsList
  <2> QED
    BY <1>5, <1>7, <2>1, <2>2, SameList
<1> QED
  BY <1>4, <1>8, <1>9 DEF Load, w, r, u

(* A part of a list, and what is before and after it. *)
LEMMA WeighedSub ==
  ASSUME NEW kind, NEW s, Weighed(kind, s), NEW a \in 1 .. Len(s) + 1, NEW b \in 0 .. Len(s),
         a <= b + 1
  PROVE  Weighed(kind, SubSeq(s, a, b))
<1>0. IsList(s) /\ Len(s) \in Nat
  BY ListIs DEF Weighed
<1>1. IsList(SubSeq(s, a, b)) /\ Len(SubSeq(s, a, b)) = b - a + 1
  BY <1>0, ListSub
<1>2. \A i \in 1 .. b - a + 1 : SubSeq(s, a, b)[i] = s[a + i - 1]
  BY <1>0, ListSub
<1>3. \A i \in 1 .. b - a + 1 : a + i - 1 \in 1 .. Len(s)
  BY <1>0
<1>4. \A i \in 1 .. b - a + 1 : Fits(kind, s[a + i - 1])
  BY <1>3 DEF Weighed
<1> QED
  BY <1>1, <1>2, <1>4 DEF Weighed

(* A list is its first elements and the others. *)
LEMMA SplitAt ==
  ASSUME NEW s, IsList(s), NEW n \in 0 .. Len(s)
  PROVE  s = SubSeq(s, 1, n) \o SubSeq(s, n + 1, Len(s))
<1>1. PICK S : s \in Seq(S)
  BY DEF IsList
<1> DEFINE a == SubSeq(s, 1, n)
           b == SubSeq(s, n + 1, Len(s))
<1>0. Len(s) \in Nat
  BY <1>1
<1>2. IsList(a) /\ Len(a) = n
  BY <1>0, ListSub
<1>3. \A i \in 1 .. n : a[i] = s[i]
  <2>1. \A i \in 1 .. n - 1 + 1 : a[i] = s[1 + i - 1]
    BY <1>0, ListSub
  <2> QED
    BY <2>1
<1>4. IsList(b) /\ Len(b) = Len(s) - n
  BY <1>0, ListSub
<1>5. \A i \in 1 .. Len(s) - n : b[i] = s[n + i]
  <2>1. \A i \in 1 .. Len(s) - (n + 1) + 1 : b[i] = s[n + 1 + i - 1]
    BY <1>0, ListSub
  <2>2. \A i \in Int : n + 1 + i - 1 = n + i
    BY <1>0
  <2> QED
    BY <1>0, <2>1, <2>2
<1> HIDE DEF a, b
<1>6. IsList(a \o b) /\ Len(a \o b) = Len(s)
  BY <1>0, <1>2, <1>4, ListConcat
<1>7. \A i \in 1 .. Len(a) : (a \o b)[i] = a[i]
  BY <1>2, <1>4, ListConcat
<1>8. \A i \in 1 .. Len(b) : (a \o b)[Len(a) + i] = b[i]
  BY <1>2, <1>4, ListConcat
<1>9. \A i \in 1 .. Len(s) : s[i] = (a \o b)[i]
  <2> TAKE i \in 1 .. Len(s)
  <2>1. CASE i <= n
    BY <1>0, <1>2, <1>3, <1>7, <2>1
  <2>2. CASE i > n
    <3>1. i - n \in 1 .. Len(b) /\ n + (i - n) = i
      BY <1>0, <1>4, <2>2
    <3>2. (a \o b)[n + (i - n)] = b[i - n] /\ b[i - n] = s[n + (i - n)]
      BY <1>2, <1>4, <1>5, <1>8, <3>1
    <3> QED
      BY <3>1, <3>2
  <2>3. i <= n \/ i > n
    BY <1>0
  <2> QED
    BY <2>1, <2>2, <2>3
<1> QED
  BY <1>6, <1>9, SameList DEF a, b

(* And weighs what they do. *)
LEMMA LoadSplit ==
  ASSUME NEW kind, NEW s, Weighed(kind, s), NEW n \in 0 .. Len(s)
  PROVE  /\ Weighed(kind, SubSeq(s, 1, n)) /\ Weighed(kind, SubSeq(s, n + 1, Len(s)))
         /\ Load(kind, s) = Load(kind, SubSeq(s, 1, n)) + Load(kind, SubSeq(s, n + 1, Len(s)))
<1>0. IsList(s) /\ Len(s) \in Nat
  BY ListIs DEF Weighed
<1>1. Weighed(kind, SubSeq(s, 1, n))
  BY <1>0, WeighedSub
<1>2. Weighed(kind, SubSeq(s, n + 1, Len(s)))
  BY <1>0, WeighedSub
<1>3. s = SubSeq(s, 1, n) \o SubSeq(s, n + 1, Len(s))
  BY <1>0, SplitAt
<1>4. Load(kind, SubSeq(s, 1, n) \o SubSeq(s, n + 1, Len(s)))
        = Load(kind, SubSeq(s, 1, n)) + Load(kind, SubSeq(s, n + 1, Len(s)))
  BY <1>1, <1>2, LoadConcat
<1> QED
  BY <1>1, <1>2, <1>3, <1>4

(* The kinds, one by one. *)
LEMMA PartWeight ==
  ASSUME NEW p, IsPart(p)
  PROVE  /\ Fits("part image", p) /\ Fits("part mark", p)
         /\ Weight("part image", p) = IF IsImage(p) THEN 1 ELSE 0
         /\ Weight("part mark", p) = IF HasMark(p) THEN 1 ELSE 0
BY DEF Fits, Is, Weight

(* Parts of a result can be weighed, and what can be weighed are parts. *)
LEMMA PartsWeigh ==
  ASSUME NEW s, IsParts(s)
  PROVE  Weighed("part image", s) /\ Weighed("part mark", s)
BY PartWeight DEF IsParts, Weighed

(* A list that is weighed as parts consists of parts; *)
LEMMA PartsAre ==
  ASSUME NEW s, Weighed("part image", s) \/ Weighed("part mark", s)
  PROVE  IsParts(s)
BY DEF IsParts, Weighed, Fits, Is

(* Their sums are those of the model. *)
LEMMA PartLoads ==
  ASSUME NEW s
  PROVE  /\ Load("part image", s) = Total([p \in DOMAIN s |-> IF IsImage(s[p]) THEN 1 ELSE 0])
         /\ Load("part mark", s) = Total([p \in DOMAIN s |-> IF HasMark(s[p]) THEN 1 ELSE 0])
BY DEF Load, Weights, Weight

PartsImages(b) == IF b.type = "result" THEN Load("part image", b.parts) ELSE 0
PartsMarks(b) == IF b.type = "result" THEN Load("part mark", b.parts) ELSE 0

(* What the parts of a block weigh, if it has any. *)
LEMMA PartsNat ==
  ASSUME NEW b, IsBlock(b)
  PROVE  PartsImages(b) \in Nat /\ PartsMarks(b) \in Nat
<1>1. CASE b.type = "result"
  <2>1. Weighed("part image", b.parts) /\ Weighed("part mark", b.parts)
    BY <1>1, PartsWeigh DEF IsBlock
  <2>2. Load("part image", b.parts) \in Nat /\ Load("part mark", b.parts) \in Nat
    BY <2>1, LoadNat
  <2> QED
    BY <1>1, <2>2 DEF PartsImages, PartsMarks
<1>2. CASE b.type # "result"
  BY <1>2 DEF PartsImages, PartsMarks
<1> QED
  BY <1>1, <1>2

(* A block weighs one image, or those of its parts. *)
LEMMA BlockImages ==
  ASSUME NEW b, IsBlock(b)
  PROVE  Fits("image", b) /\ Weight("image", b) = IF IsImage(b) THEN 1 ELSE PartsImages(b)
<1>1. Weight("image", b) = ImagesOf(b)
  BY DEF Weight
<1>2. ImagesOf(b) = IF IsImage(b) THEN 1 ELSE PartsImages(b)
  BY PartLoads DEF ImagesOf, PartsImages
<1>3. ImagesOf(b) \in Nat
  BY <1>2, PartsNat
<1>4. Is("image", b)
  BY DEF Is
<1> QED
  BY <1>1, <1>2, <1>3, <1>4 DEF Fits

(* And one marker, and those of its parts. *)
LEMMA BlockMarks ==
  ASSUME NEW b, IsBlock(b)
  PROVE  Fits("mark", b) /\ Weight("mark", b) = (IF HasMark(b) THEN 1 ELSE 0) + PartsMarks(b)
<1>1. Weight("mark", b) = MarksOf(b)
  BY DEF Weight
<1>2. MarksOf(b) = (IF HasMark(b) THEN 1 ELSE 0) + PartsMarks(b)
  BY PartLoads DEF MarksOf, PartsMarks
<1>3. MarksOf(b) \in Nat
  BY <1>2, PartsNat
<1>4. Is("mark", b)
  BY DEF Is
<1> QED
  BY <1>1, <1>2, <1>3, <1>4 DEF Fits

(* Blocks can be weighed, and what can be weighed are blocks. *)
LEMMA BlocksWeigh ==
  ASSUME NEW s, IsBlocks(s)
  PROVE  Weighed("image", s) /\ Weighed("mark", s)
BY BlockImages, BlockMarks DEF IsBlocks, Weighed

(* one that is weighed as blocks, of blocks; *)
LEMMA BlocksAre ==
  ASSUME NEW s, Weighed("image", s) \/ Weighed("mark", s)
  PROVE  IsBlocks(s)
BY DEF IsBlocks, Weighed, Fits, Is

(* Their sums are those of the model. *)
LEMMA BlockLoads ==
  ASSUME NEW s
  PROVE  Load("image", s) = ImagesIn(s) /\ Load("mark", s) = MarksIn(s)
BY DEF Load, Weights, Weight, ImagesIn, MarksIn

(* A block of the system prompt weighs its marker. *)
LEMMA SystemMarks ==
  ASSUME NEW b, IsSystemBlock(b)
  PROVE  Fits("system mark", b) /\ Weight("system mark", b) = IF HasMark(b) THEN 1 ELSE 0
<1>1. MarksOf(b) = IF HasMark(b) THEN 1 ELSE 0
  BY DEF IsSystemBlock, MarksOf
<1> QED
  BY <1>1 DEF Fits, Is, Weight

(* the system prompt likewise, *)
LEMMA SystemWeighs ==
  ASSUME NEW s
  PROVE  IsSystem(s) <=> Weighed("system mark", s)
<1>1. IsSystem(s) => Weighed("system mark", s)
  BY SystemMarks DEF IsSystem, Weighed
<1>2. Weighed("system mark", s) => IsSystem(s)
  BY DEF IsSystem, Weighed, Fits, Is
<1> QED
  BY <1>1, <1>2

(* The sum is that of the model. *)
LEMMA SystemLoad ==
  ASSUME NEW s
  PROVE  Load("system mark", s) = MarksIn(s)
BY DEF Load, Weights, Weight, MarksIn

(* A message weighs what its blocks do. *)
LEMMA MessageWeight ==
  ASSUME NEW m, IsMessage(m)
  PROVE  /\ Fits("images", m) /\ Fits("marks", m)
         /\ Weight("images", m) = Load("image", m.blocks)
         /\ Weight("marks", m) = Load("mark", m.blocks)
<1>1. Weighed("image", m.blocks) /\ Weighed("mark", m.blocks)
  BY BlocksWeigh DEF IsMessage
<1>2. Load("image", m.blocks) \in Nat /\ Load("mark", m.blocks) \in Nat
  BY <1>1, LoadNat
<1>3. Weight("images", m) = Load("image", m.blocks) /\ Weight("marks", m) = Load("mark", m.blocks)
  BY BlockLoads DEF Weight
<1>4. Is("images", m) /\ Is("marks", m)
  BY DEF Is
<1> QED
  BY <1>2, <1>3, <1>4 DEF Fits

(* Messages can be weighed, and what can be weighed are messages. *)
LEMMA MessagesWeigh ==
  ASSUME NEW s, IsMessages(s)
  PROVE  Weighed("images", s) /\ Weighed("marks", s)
BY MessageWeight DEF IsMessages, Weighed

(* and the messages of a request. *)
LEMMA MessagesAre ==
  ASSUME NEW s, Weighed("images", s) \/ Weighed("marks", s)
  PROVE  IsMessages(s)
BY DEF IsMessages, Weighed, Fits, Is

(* Their sums are those of the model. *)
LEMMA MessageLoads ==
  ASSUME NEW s
  PROVE  Load("images", s) = CountImages(s)
         /\ Load("marks", s) = Total([i \in DOMAIN s |-> MarksIn(s[i].blocks)])
BY DEF Load, Weights, Weight, CountImages

-----------------------------------------------------------------------------
(* The pass that strips commands.                                            *)

BlockKinds == {"image", "mark", "system mark"}

(* A field of a block that is set. *)
LEMMA MarkSet ==
  ASSUME NEW b, NEW cc, {"type", "cc"} \subseteq DOMAIN b
  PROVE  LET c == [b EXCEPT !.cc = cc]
         IN DOMAIN c = DOMAIN b /\ c.type = b.type /\ c.cc = cc
            /\ ("parts" \in DOMAIN b => c.parts = b.parts)
<1> DEFINE c == [b EXCEPT !.cc = cc]
<1>1. DOMAIN c = DOMAIN b
  OBVIOUS
<1>2. \A f \in DOMAIN b : c[f] = IF f = "cc" THEN cc ELSE b[f]
  OBVIOUS
<1> HIDE DEF c
<1>3. c.type = b.type /\ c.cc = cc
  BY <1>2
<1>4. "parts" \in DOMAIN b => c.parts = b.parts
  BY <1>2
<1> QED
  BY <1>1, <1>3, <1>4 DEF c

(* A text without its commands. *)
LEMMA TextSet ==
  ASSUME NEW b, {"type", "cc"} \subseteq DOMAIN b
  PROVE  Cleaned(b).type = b.type /\ Cleaned(b).cc = b.cc /\ DOMAIN Cleaned(b) = DOMAIN b
<1> DEFINE c == Cleaned(b)
<1>1. DOMAIN c = DOMAIN b
  BY DEF Cleaned
<1>2. \A f \in DOMAIN b : f \notin {"lines", "head"} => c[f] = b[f]
  BY DEF Cleaned
<1> HIDE DEF c
<1>3. c.type = b.type /\ c.cc = b.cc
  BY <1>2
<1> QED
  BY <1>1, <1>3 DEF c

(* A block that takes the marker of a text. *)
LEMMA MarkTaken ==
  ASSUME NEW kind \in BlockKinds, NEW b, NEW t, Fits(kind, b), Fits(kind, t)
  PROVE  /\ Fits(kind, [b EXCEPT !.cc = t.cc])
         /\ HasMark(t) => Weight(kind, [b EXCEPT !.cc = t.cc]) <=
              Weight(kind, b) + Weight(kind, t)
<1> DEFINE c == [b EXCEPT !.cc = t.cc]
<1>1. CASE kind = "system mark"
  <2>1. IsSystemBlock(b) /\ IsSystemBlock(t)
    BY <1>1 DEF Fits, Is
  <2>2. DOMAIN c = DOMAIN b /\ c.type = b.type /\ c.cc = t.cc
    BY <2>1, MarkSet DEF IsSystemBlock
  <2> HIDE DEF c
  <2>3. IsSystemBlock(c)
    BY <2>1, <2>2 DEF IsSystemBlock
  <2>4. Weight(kind, c) = IF HasMark(c) THEN 1 ELSE 0
    BY <1>1, <2>3, SystemMarks
  <2>5. Weight(kind, b) = IF HasMark(b) THEN 1 ELSE 0
    BY <1>1, <2>1, SystemMarks
  <2>6. Weight(kind, t) = IF HasMark(t) THEN 1 ELSE 0
    BY <1>1, <2>1, SystemMarks
  <2>7. HasMark(t) => Weight(kind, c) <= Weight(kind, b) + Weight(kind, t)
    BY <2>4, <2>5, <2>6
  <2> QED
    BY <1>1, <2>3, <2>7, SystemMarks DEF c
<1>2. CASE kind \in {"image", "mark"}
  <2>1. IsBlock(b) /\ IsBlock(t)
    BY <1>2 DEF Fits, Is
  <2>2. DOMAIN c = DOMAIN b /\ c.type = b.type /\ c.cc = t.cc
    BY <2>1, MarkSet DEF IsBlock
  <2>3. b.type = "result" => c.parts = b.parts
    BY <2>1, MarkSet DEF IsBlock
  <2> HIDE DEF c
  <2>4. IsBlock(c)
    BY <2>1, <2>2, <2>3 DEF IsBlock
  <2>5. PartsImages(c) = PartsImages(b) /\ PartsMarks(c) = PartsMarks(b)
    BY <2>2, <2>3 DEF PartsImages, PartsMarks
  <2>6. CASE kind = "image"
    <3>1. Weight(kind, c) = Weight(kind, b)
      BY <2>1, <2>2, <2>4, <2>5, <2>6, BlockImages DEF IsImage
    <3>2. Weight(kind, b) \in Nat /\ Weight(kind, t) \in Nat
      BY DEF Fits
    <3>3. Weight(kind, c) <= Weight(kind, b) + Weight(kind, t)
      BY <3>1, <3>2
    <3> QED
      BY <2>4, <2>6, <3>3, BlockImages DEF c
  <2>7. CASE kind = "mark"
    <3>1. Weight(kind, c) = (IF HasMark(c) THEN 1 ELSE 0) + PartsMarks(b)
      BY <2>4, <2>5, <2>7, BlockMarks
    <3>2. Weight(kind, b) = (IF HasMark(b) THEN 1 ELSE 0) + PartsMarks(b)
      BY <2>1, <2>7, BlockMarks
    <3>3. Weight(kind, t) = (IF HasMark(t) THEN 1 ELSE 0) + PartsMarks(t)
      BY <2>1, <2>7, BlockMarks
    <3>4. PartsMarks(b) \in Nat /\ PartsMarks(t) \in Nat
      BY <2>1, PartsNat
    <3>5. HasMark(t) => Weight(kind, c) <= Weight(kind, b) + Weight(kind, t)
      BY <3>1, <3>2, <3>3, <3>4
    <3> QED
      BY <2>4, <2>7, <3>5, BlockMarks DEF c
  <2> QED
    BY <1>2, <2>6, <2>7
<1> QED
  BY <1>1, <1>2 DEF BlockKinds

(* A text that loses its commands. *)
LEMMA CleanedWeighs ==
  ASSUME NEW kind \in BlockKinds, NEW b, Fits(kind, b), b.type = "text"
  PROVE  Fits(kind, Cleaned(b)) /\ Weight(kind, Cleaned(b)) = Weight(kind, b)
<1> DEFINE c == Cleaned(b)
<1>0. {"type", "cc"} \subseteq DOMAIN b
  BY DEF BlockKinds, Fits, Is, IsBlock, IsSystemBlock
<1>1. c.type = b.type /\ c.cc = b.cc /\ DOMAIN c = DOMAIN b
  BY <1>0, TextSet
<1> HIDE DEF c
<1>2. CASE kind = "system mark"
  <2>1. IsSystemBlock(b)
    BY <1>2 DEF Fits, Is
  <2>2. IsSystemBlock(c)
    BY <1>1, <2>1 DEF IsSystemBlock
  <2> QED
    BY <1>1, <1>2, <2>1, <2>2, SystemMarks DEF HasMark, c
<1>3. CASE kind \in {"image", "mark"}
  <2>1. IsBlock(b)
    BY <1>3 DEF Fits, Is
  <2>2. IsBlock(c)
    BY <1>1, <2>1 DEF IsBlock
  <2>3. PartsImages(c) = PartsImages(b) /\ PartsMarks(c) = PartsMarks(b)
    BY <1>1 DEF PartsImages, PartsMarks
  <2>4. IsImage(c) = IsImage(b) /\ HasMark(c) = HasMark(b)
    BY <1>1 DEF IsImage, HasMark
  <2>5. CASE kind = "image"
    BY <2>1, <2>2, <2>3, <2>4, <2>5, BlockImages DEF c
  <2>6. CASE kind = "mark"
    BY <2>1, <2>2, <2>3, <2>4, <2>6, BlockMarks DEF c
  <2> QED
    BY <1>3, <2>5, <2>6
<1> QED
  BY <1>2, <1>3 DEF BlockKinds

(* What one block adds to what is left weighs no more than it.               *)
LEMMA StripOne ==
  ASSUME NEW kind \in BlockKinds, NEW kept, NEW b, Weighed(kind, kept), Fits(kind, b)
  PROVE  /\ Weighed(kind, StripBlock(kept, b))
         /\ Load(kind, StripBlock(kept, b)) <= Load(kind, kept) + Weight(kind, b)
<1> DEFINE r == StripBlock(kept, b)
<1>0. Load(kind, kept) \in Nat /\ Weight(kind, b) \in Nat
  BY LoadNat DEF Fits
<1>1. CASE ~HasCommand(b)
  <2>1. r = Append(kept, b)
    BY <1>1 DEF StripBlock
  <2>2. Weighed(kind, r) /\ Load(kind, r) = Load(kind, kept) + Weight(kind, b)
    BY <2>1, LoadAppend
  <2> QED
    BY <1>0, <2>2
<1>2. CASE HasCommand(b) /\ ~IsBlank(b)
  <2>1. r = Append(kept, Cleaned(b)) /\ b.type = "text"
    BY <1>2 DEF StripBlock, HasCommand
  <2>2. Fits(kind, Cleaned(b)) /\ Weight(kind, Cleaned(b)) = Weight(kind, b)
    BY <2>1, CleanedWeighs
  <2>3. Weighed(kind, r) /\ Load(kind, r) = Load(kind, kept) + Weight(kind, b)
    BY <2>1, <2>2, LoadAppend
  <2> QED
    BY <1>0, <2>3
<1>3. CASE HasCommand(b) /\ IsBlank(b) /\ b.cc = NoMark
  <2>1. r = kept
    BY <1>3 DEF StripBlock
  <2> QED
    BY <1>0, <2>1
<1>4. CASE HasCommand(b) /\ IsBlank(b) /\ b.cc # NoMark /\ kept = <<>>
  <2>1. r = <<b>>
    BY <1>4 DEF StripBlock
  <2>2. Weighed(kind, r) /\ Load(kind, r) = Weight(kind, b)
    BY <2>1, LoadOne
  <2> QED
    BY <1>0, <2>2
<1>5. CASE HasCommand(b) /\ IsBlank(b) /\ b.cc # NoMark /\ kept # <<>>
  <2> DEFINE n == Len(kept)
             last == [kept[n] EXCEPT !.cc = b.cc]
  <2>1. n \in 1 .. Len(kept)
    <3>1. IsList(kept) /\ Len(kept) \in Nat
      BY ListIs DEF Weighed
    <3>2. Len(kept) = 0 => kept = <<>>
      BY <3>1, ListEmpty, SameList
    <3> QED
      BY <1>5, <3>1, <3>2
  <2>2. Fits(kind, kept[n])
    BY <2>1 DEF Weighed
  <2>3. HasMark(b)
    BY <1>5 DEF HasMark
  <2>4. Fits(kind, last) /\ Weight(kind, last) <= Weight(kind, kept[n]) + Weight(kind, b)
    BY <2>2, <2>3, MarkTaken
  <2>5. r = [kept EXCEPT ![n] = last]
    BY <1>5 DEF StripBlock
  <2> HIDE DEF last, n, r
  <2>6. /\ Weighed(kind, r)
        /\ Load(kind, r) + Weight(kind, kept[n]) = Load(kind, kept) + Weight(kind, last)
    <3>1. Fits(kind, last)
      BY <2>4
    <3>2. /\ Weighed(kind, [kept EXCEPT ![n] = last])
          /\ Load(kind, [kept EXCEPT ![n] = last]) + Weight(kind, kept[n])
               = Load(kind, kept) + Weight(kind, last)
      BY <2>1, <3>1, LoadExcept
    <3> QED
      BY <2>5, <3>2
  <2>7. Load(kind, r) \in Nat
    BY <2>6, LoadNat
  <2>8. Weight(kind, kept[n]) \in Nat /\ Weight(kind, last) \in Nat
    BY <2>2, <2>4 DEF Fits
  <2>9. Load(kind, r) <= Load(kind, kept) + Weight(kind, b)
    BY <1>0, <2>4, <2>6, <2>7, <2>8
  <2> QED
    BY <2>6, <2>9 DEF r
<1> QED
  BY <1>1, <1>2, <1>3, <1>4, <1>5

(* What is left of the blocks weighs no more than they.                      *)
LEMMA StripWeighs ==
  ASSUME NEW kind \in BlockKinds, NEW s, Weighed(kind, s)
  PROVE  Weighed(kind, StripBlocks(s)) /\ Load(kind, StripBlocks(s)) <= Load(kind, s)
<1> DEFINE w == Weights(kind, s)
<1>1. w \in Seq(Nat) /\ Len(w) = Len(s) /\ Len(s) \in Nat
  BY WeightsAre
<1>2. \A k \in 1 .. Len(s) : w[k] = Weight(kind, s[k])
  BY WeightsAre
<1>3. PICK f : /\ StripBlocks(s) = f[Len(s)] /\ f[0] = <<>>
               /\ \A i \in 1 .. Len(s) : f[i] = StripBlock(f[i - 1], s[i])
  BY <1>1, StripIs
<1>4. PICK g : Sums(g, w) /\ Total(w) = g[Len(w)]
  BY <1>1, TotalSums
<1> HIDE DEF w
<1> DEFINE T == {k \in 0 .. Len(s) :
                    Weighed(kind, f[k]) /\ g[k] \in Nat /\ Load(kind, f[k]) <= g[k]}
<1>5. 0 \in T
  <2>1. f[0] = <<>> /\ g[0] = 0
    BY <1>3, <1>4, SumsStart
  <2>2. Weighed(kind, f[0]) /\ Load(kind, f[0]) = 0
    BY <2>1, LoadEmpty
  <2>3. 0 \in 0 .. Len(s) /\ g[0] \in Nat /\ Load(kind, f[0]) <= g[0]
    BY <1>1, <2>1, <2>2
  <2> QED
    BY <2>2, <2>3
<1>6. ASSUME NEW k \in 1 .. Len(s), k - 1 \in T PROVE k \in T
  <2>1. Weighed(kind, f[k - 1]) /\ g[k - 1] \in Nat /\ Load(kind, f[k - 1]) <= g[k - 1]
    BY <1>6
  <2>2. f[k] = StripBlock(f[k - 1], s[k])
    BY <1>3
  <2>3. Fits(kind, s[k]) /\ w[k] = Weight(kind, s[k]) /\ w[k] \in Nat
    BY <1>2 DEF Weighed, Fits
  <2>4. Weighed(kind, f[k]) /\ Load(kind, f[k]) <= Load(kind, f[k - 1]) + w[k]
    BY <2>1, <2>2, <2>3, StripOne
  <2>5. g[k] = g[k - 1] + w[k]
    BY <1>1, <1>4, SumsStep
  <2>6. Load(kind, f[k]) \in Nat /\ Load(kind, f[k - 1]) \in Nat
    BY <2>1, <2>4, LoadNat
  <2>7. g[k] \in Nat /\ Load(kind, f[k]) <= g[k]
    BY <2>1, <2>3, <2>4, <2>5, <2>6
  <2> QED
    BY <2>4, <2>7
<1>7. Len(s) \in T
  <2> HIDE DEF T
  <2> QED
    BY <1>1, <1>5, <1>6, UpTo
<1> QED
  BY <1>1, <1>3, <1>4, <1>7 DEF Load, w

(* A message with other blocks. *)
LEMMA BlocksSet ==
  ASSUME NEW m, NEW blocks, "blocks" \in DOMAIN m
  PROVE  /\ [m EXCEPT !.blocks = blocks].blocks = blocks
         /\ DOMAIN [m EXCEPT !.blocks = blocks] = DOMAIN m
OBVIOUS

(* What is left of a message weighs no more than it. *)
LEMMA StripMessageWeighs ==
  ASSUME NEW m, IsMessage(m)
  PROVE  /\ IsMessage(StripMessage(m))
         /\ Weight("images", StripMessage(m)) <= Weight("images", m)
         /\ Weight("marks", StripMessage(m)) <= Weight("marks", m)
<1> DEFINE s == StripBlocks(m.blocks)
           n == [m EXCEPT !.blocks = s]
<1>0. Weight("images", m) \in Nat /\ Weight("marks", m) \in Nat
  BY MessageWeight DEF Fits
<1>1. Weighed("image", m.blocks) /\ Weighed("mark", m.blocks)
  BY BlocksWeigh DEF IsMessage
<1>2. Weighed("image", s) /\ Load("image", s) <= Load("image", m.blocks)
  BY <1>1, StripWeighs DEF BlockKinds
<1>3. Load("mark", s) <= Load("mark", m.blocks)
  BY <1>1, StripWeighs DEF BlockKinds
<1>4. n.blocks = s /\ DOMAIN n = DOMAIN m
  BY BlocksSet DEF IsMessage
<1> HIDE DEF s, n
<1>5. IsMessage(n)
  BY <1>2, <1>4, BlocksAre DEF IsMessage
<1>6. Weight("images", n) <= Weight("images", m)
  BY <1>2, <1>4, <1>5, MessageWeight
<1>7. Weight("marks", n) <= Weight("marks", m)
  BY <1>3, <1>4, <1>5, MessageWeight
<1>8. StripMessage(m) = n \/ StripMessage(m) = m
  BY DEF StripMessage, n, s
<1> QED
  BY <1>0, <1>5, <1>6, <1>7, <1>8

(* And so the messages that stay. *)
LEMMA CommandsWeigh ==
  ASSUME NEW messages, IsMessages(messages)
  PROVE  /\ IsMessages(StripPinCommands(messages))
         /\ Load("images", StripPinCommands(messages)) <= Load("images", messages)
         /\ Load("marks", StripPinCommands(messages)) <= Load("marks", messages)
<1>0. Len(messages) \in Nat /\ DOMAIN messages = 1 .. Len(messages)
  BY ListIs DEF IsMessages
<1> DEFINE t == [i \in DOMAIN messages |-> StripMessage(messages[i])]
<1>1. t = [i \in 1 .. Len(messages) |-> t[i]]
  BY <1>0
<1>2. \A i \in 1 .. Len(messages) : t[i] = StripMessage(messages[i])
  BY <1>0
<1> HIDE DEF t
<1>3. IsList(t) /\ Len(t) = Len(messages)
  BY <1>0, <1>1, IsListFrom
<1>4. IsMessages(t)
  BY <1>2, <1>3, StripMessageWeighs DEF IsMessages
<1>5. Weighed("images", messages) /\ Weighed("marks", messages)
  BY MessagesWeigh
<1>6. Weighed("images", t) /\ Weighed("marks", t)
  BY <1>4, MessagesWeigh
<1>7. \A i \in 1 .. Len(messages) : /\ Weight("images", t[i]) <= Weight("images", messages[i])
                                    /\ Weight("marks", t[i]) <= Weight("marks", messages[i])
  BY <1>2, StripMessageWeighs DEF IsMessages
<1>8. Load("images", t) <= Load("images", messages)
  BY <1>3, <1>5, <1>6, <1>7, LoadLeq
<1>9. Load("marks", t) <= Load("marks", messages)
  BY <1>3, <1>5, <1>6, <1>7, LoadLeq
<1>10. PICK chosen : StripPinCommands(messages) = Picked(t, chosen)
  BY DEF StripPinCommands, t
<1>11. /\ Weighed("images", Picked(t, chosen))
       /\ Load("images", Picked(t, chosen)) <= Load("images", t)
  BY <1>6, LoadPicked
<1>12. Weighed("marks", Picked(t, chosen)) /\ Load("marks", Picked(t, chosen)) <= Load("marks", t)
  BY <1>6, LoadPicked
<1>13. /\ Load("images", t) \in Nat /\ Load("images", Picked(t, chosen)) \in Nat
       /\ Load("images", messages) \in Nat
  BY <1>5, <1>6, <1>11, LoadNat
<1>14. /\ Load("marks", t) \in Nat /\ Load("marks", Picked(t, chosen)) \in Nat
       /\ Load("marks", messages) \in Nat
  BY <1>5, <1>6, <1>12, LoadNat
<1> QED
  BY <1>8, <1>9, <1>10, <1>11, <1>12, <1>13, <1>14, MessagesAre

(* And so what is left of the system prompt. *)
LEMMA SystemStripped ==
  ASSUME NEW system, IsSystem(system)
  PROVE  IsSystem(StripSystem(system)) /\ MarksIn(StripSystem(system)) <= MarksIn(system)
<1>1. Weighed("system mark", system)
  BY SystemWeighs
<1>2. /\ Weighed("system mark", StripBlocks(system))
      /\ Load("system mark", StripBlocks(system)) <= Load("system mark", system)
  BY <1>1, StripWeighs DEF BlockKinds
<1>3. IsSystem(StripBlocks(system))
  BY <1>2, SystemWeighs
<1>4. MarksIn(StripBlocks(system)) <= MarksIn(system)
  <2>1. Load("system mark", StripBlocks(system)) = MarksIn(StripBlocks(system))
    BY SystemLoad
  <2>2. Load("system mark", system) = MarksIn(system)
    BY SystemLoad
  <2>3. Load("system mark", StripBlocks(system)) <= Load("system mark", system)
    BY <1>2
  <2> QED
    BY <2>1, <2>2, <2>3
<1> QED
  BY <1>3, <1>4 DEF StripSystem

-----------------------------------------------------------------------------
(* The pass that makes the slab.                                             *)

(* A message with other blocks, and messages with another message.           *)
LEMMA BlocksChanged ==
  ASSUME NEW m, IsMessage(m), NEW blocks, IsBlocks(blocks)
  PROVE  LET n == [m EXCEPT !.blocks = blocks]
         IN IsMessage(n) /\ Weight("images", n) = Load("image", blocks)
                         /\ Weight("marks", n) = Load("mark", blocks)
<1> DEFINE n == [m EXCEPT !.blocks = blocks]
<1>1. n.blocks = blocks /\ DOMAIN n = DOMAIN m
  BY BlocksSet DEF IsMessage
<1> HIDE DEF n
<1>2. IsMessage(n)
  BY <1>1 DEF IsMessage
<1>3. Weight("images", n) = Load("image", blocks)
  BY <1>1, <1>2, MessageWeight
<1>4. Weight("marks", n) = Load("mark", blocks)
  BY <1>1, <1>2, MessageWeight
<1> QED
  BY <1>2, <1>3, <1>4 DEF n

(* One message replaced. *)
LEMMA MessageChanged ==
  ASSUME NEW s, IsMessages(s), NEW p \in 1 .. Len(s), NEW m, IsMessage(m)
  PROVE  LET t == [s EXCEPT ![p] = m]
         IN /\ IsMessages(t)
            /\ Load("images", t) + Weight("images", s[p])
                 = Load("images", s) + Weight("images", m)
            /\ Load("marks", t) + Weight("marks", s[p]) = Load("marks", s) + Weight("marks", m)
<1>1. Weighed("images", s) /\ Weighed("marks", s)
  BY MessagesWeigh
<1>2. Fits("images", m) /\ Fits("marks", m)
  BY MessageWeight
<1>3. /\ Weighed("images", [s EXCEPT ![p] = m])
      /\ Load("images", [s EXCEPT ![p] = m]) + Weight("images", s[p])
           = Load("images", s) + Weight("images", m)
  BY <1>1, <1>2, LoadExcept
<1>4. Load("marks", [s EXCEPT ![p] = m]) + Weight("marks", s[p])
        = Load("marks", s) + Weight("marks", m)
  BY <1>1, <1>2, LoadExcept
<1>5. IsMessages([s EXCEPT ![p] = m])
  BY <1>3, MessagesAre
<1> QED
  BY <1>3, <1>4, <1>5

(* A message that changes by no more than n images and k markers.            *)
LEMMA ChangeBounded ==
  ASSUME NEW s, IsMessages(s), NEW p \in 1 .. Len(s), NEW blocks, IsBlocks(blocks),
         NEW n \in Nat, Load("image", blocks) <= Load("image", s[p].blocks) + n,
         NEW k \in Nat, Load("mark", blocks) <= Load("mark", s[p].blocks) + k
  PROVE  LET t == [s EXCEPT ![p] = [s[p] EXCEPT !.blocks = blocks]]
         IN /\ IsMessages(t)
            /\ Load("images", t) <= Load("images", s) + n
            /\ Load("marks", t) <= Load("marks", s) + k
<1> DEFINE m == [s[p] EXCEPT !.blocks = blocks]
           t == [s EXCEPT ![p] = m]
<1>0. IsMessage(s[p])
  BY DEF IsMessages
<1>1. IsMessage(m)
  BY <1>0, BlocksChanged
<1>2. Weight("images", m) = Load("image", blocks)
  BY <1>0, BlocksChanged
<1>3. Weight("marks", m) = Load("mark", blocks)
  BY <1>0, BlocksChanged
<1> HIDE DEF m
<1>4. IsMessages(t)
  BY <1>1, MessageChanged
<1>5. Load("images", t) + Weight("images", s[p]) = Load("images", s) + Weight("images", m)
  BY <1>1, MessageChanged
<1>6. Load("marks", t) + Weight("marks", s[p]) = Load("marks", s) + Weight("marks", m)
  BY <1>1, MessageChanged
<1> HIDE DEF t
<1>7. Weight("images", s[p]) = Load("image", s[p].blocks) /\ Weight("images", s[p]) \in Nat
  BY <1>0, MessageWeight DEF Fits
<1>8. Weight("marks", s[p]) = Load("mark", s[p].blocks) /\ Weight("marks", s[p]) \in Nat
  BY <1>0, MessageWeight DEF Fits
<1>9. Weight("images", m) \in Nat /\ Weight("marks", m) \in Nat
  BY <1>1, MessageWeight DEF Fits
<1>10. Load("images", t) \in Nat /\ Load("images", s) \in Nat
  BY <1>4, MessagesWeigh, LoadNat
<1>11. Load("marks", t) \in Nat /\ Load("marks", s) \in Nat
  BY <1>4, MessagesWeigh, LoadNat
<1>12. Load("images", t) <= Load("images", s) + n
  BY <1>2, <1>5, <1>7, <1>9, <1>10
<1>13. Load("marks", t) <= Load("marks", s) + k
  BY <1>3, <1>6, <1>8, <1>9, <1>11
<1> QED
  BY <1>4, <1>12, <1>13 DEF t, m

(* Pages: as many images, and a marker on the last.                          *)
HasOne(cc) == IF cc # NoMark THEN 1 ELSE 0

(* One page. *)
LEMMA PageWeight ==
  ASSUME NEW holds, NEW cc, cc # "global"
  PROVE  LET b == Rendered(holds, cc)
         IN /\ IsBlock(b) /\ IsPart(b)
            /\ Weight("image", b) = 1 /\ Weight("part image", b) = 1
            /\ Weight("mark", b) = HasOne(cc) /\ Weight("part mark", b) = HasOne(cc)
<1> DEFINE b == Rendered(holds, cc)
<1>1. DOMAIN b = {"type", "holds", "cc"} /\ b.type = "page" /\ b.cc = cc
  BY DEF Rendered
<1> HIDE DEF b
<1>2. IsBlock(b) /\ IsPart(b)
  BY <1>1 DEF IsBlock, IsPart
<1>3. IsImage(b) /\ (HasMark(b) <=> cc # NoMark)
  BY <1>1 DEF IsImage, HasMark
<1>4. PartsMarks(b) = 0
  BY <1>1 DEF PartsMarks
<1>5. Weight("image", b) = 1
  BY <1>2, <1>3, BlockImages
<1>6. Weight("part image", b) = 1
  BY <1>2, <1>3, PartWeight
<1>7. Weight("mark", b) = HasOne(cc)
  BY <1>2, <1>3, <1>4, BlockMarks DEF HasOne
<1>8. Weight("part mark", b) = HasOne(cc)
  BY <1>2, <1>3, PartWeight DEF HasOne
<1> QED
  BY <1>2, <1>5, <1>6, <1>7, <1>8 DEF b

(* Pages are blocks, and parts. *)
LEMMA PagesAre ==
  ASSUME NEW holds, NEW cc, cc # "global", NEW n \in Nat
  PROVE  LET s == AsPages(holds, n, cc)
         IN IsList(s) /\ Len(s) = n /\ IsBlocks(s) /\ IsParts(s)
<1> DEFINE s == AsPages(holds, n, cc)
<1>1. s = [i \in 1 .. n |-> s[i]]
  BY DEF AsPages
<1>2. \A i \in 1 .. n : s[i] = Rendered(holds, IF i = n THEN cc ELSE NoMark)
  BY DEF AsPages
<1> HIDE DEF s
<1>3. IsList(s) /\ Len(s) = n
  BY <1>1, IsListFrom
<1>4. \A i \in 1 .. n : (IF i = n THEN cc ELSE NoMark) # "global"
  BY DEF NoMark
<1>5. \A i \in 1 .. n : IsBlock(s[i]) /\ IsPart(s[i])
  BY <1>2, <1>4, PageWeight
<1> QED
  BY <1>3, <1>5 DEF IsBlocks, IsParts, s

PageKinds(i1, m1) == i1 \in {"image", "part image"} /\ m1 \in {"mark", "part mark"}

(* They weigh their number, and one marker if they have one. *)
LEMMA PagesWeigh ==
  ASSUME NEW holds, NEW cc, cc # "global", NEW n \in Nat \ {0},
         NEW i1, NEW m1, PageKinds(i1, m1)
  PROVE  LET s == AsPages(holds, n, cc)
         IN Load(i1, s) <= n /\ Load(m1, s) = HasOne(cc)
<1> DEFINE s == AsPages(holds, n, cc)
           u == Weights(i1, s)
           w == Weights(m1, s)
<1>1. Len(s) = n /\ IsBlocks(s) /\ IsParts(s)
  BY PagesAre
<1>2. \A i \in 1 .. n : s[i] = Rendered(holds, IF i = n THEN cc ELSE NoMark)
  BY DEF AsPages
<1> HIDE DEF s
<1>3. Weighed(i1, s) /\ Weighed(m1, s)
  BY <1>1, BlocksWeigh, PartsWeigh DEF PageKinds
<1>4. u \in Seq(Nat) /\ Len(u) = n /\ \A i \in 1 .. n : u[i] = Weight(i1, s[i])
  BY <1>1, <1>3, WeightsAre
<1>5. w \in Seq(Nat) /\ Len(w) = n /\ \A i \in 1 .. n : w[i] = Weight(m1, s[i])
  BY <1>1, <1>3, WeightsAre
<1> HIDE DEF u, w
<1>0. n \in Nat /\ n \in 1 .. n
  <2>1. n \in Nat /\ n # 0
    OBVIOUS
  <2> QED
    BY <2>1
<1>6. ASSUME NEW i \in 1 .. n PROVE Weight(i1, s[i]) = 1
  <2> DEFINE c == IF i = n THEN cc ELSE NoMark
  <2>1. c # "global" /\ s[i] = Rendered(holds, c)
    BY <1>2 DEF NoMark
  <2> HIDE DEF c
  <2>2. Weight("image", s[i]) = 1 /\ Weight("part image", s[i]) = 1
    BY <2>1, PageWeight
  <2> QED
    BY <2>2 DEF PageKinds
<1>b. Weight(m1, s[n]) = HasOne(cc)
  <2>1. s[n] = Rendered(holds, cc)
    BY <1>0, <1>2
  <2>2. Weight("mark", s[n]) = HasOne(cc) /\ Weight("part mark", s[n]) = HasOne(cc)
    BY <2>1, PageWeight
  <2> QED
    BY <2>2 DEF PageKinds
<1>c. \A i \in 1 .. n : i # n => Weight(m1, s[i]) = 0
  <2> TAKE i \in 1 .. n
  <2> HAVE i # n
  <2>1. s[i] = Rendered(holds, NoMark) /\ NoMark # "global"
    BY <1>2 DEF NoMark
  <2>2. Weight("mark", s[i]) = HasOne(NoMark) /\ Weight("part mark", s[i]) = HasOne(NoMark)
    BY <2>1, PageWeight
  <2> QED
    BY <2>2 DEF HasOne, PageKinds
<1>7. Total(u) <= n
  <2>1. \A i \in 1 .. n : u[i] = 1
    BY <1>4, <1>6
  <2>2. ASSUME NEW i \in 1 .. Len(u) PROVE u[i] <= 1 /\ (i > n => u[i] = 0)
    <3>1. i \in 1 .. n
      BY <1>4
    <3>2. u[i] = 1 /\ ~ (i > n)
      BY <1>0, <2>1, <3>1
    <3> QED
      BY <3>2
  <2> QED
    BY <1>0, <1>4, <2>2, TotalOnes
<1>8. Total(w) = HasOne(cc)
  <2>1. n \in 1 .. Len(w)
    BY <1>0, <1>5
  <2>2. w[n] = HasOne(cc)
    BY <1>0, <1>5, <1>b
  <2>3. \A i \in 1 .. Len(w) : i # n => w[i] = 0
    BY <1>5, <1>c
  <2>4. Total(w) = w[n]
    BY <1>5, <2>1, <2>3, TotalSingle
  <2> QED
    BY <2>2, <2>4
<1> QED
  BY <1>7, <1>8 DEF Load, s, u, w

(* The pages before what the user said first. *)
SlabFor(messages, pages) ==
  [i \in DOMAIN messages |->
     IF i \in FirstUser(messages)
     THEN [messages[i] EXCEPT !.blocks = pages \o <<EndOfContext>> \o @] ELSE messages[i]]

(* They are in one message at most. *)
LEMMA SlabIs ==
  ASSUME NEW messages, IsMessages(messages), NEW pages
  PROVE  \/ SlabFor(messages, pages) = messages
         \/ \E u \in 1 .. Len(messages) :
              SlabFor(messages, pages)
                = [messages EXCEPT ![u] =
                     [messages[u] EXCEPT !.blocks
                       = pages \o <<EndOfContext>> \o messages[u].blocks]]
<1> DEFINE new(i) == [messages[i] EXCEPT !.blocks
  = pages \o <<EndOfContext>> \o messages[i].blocks]
<1>0. /\ DOMAIN messages = 1 .. Len(messages) /\ Len(messages) \in Nat
      /\ messages = [i \in 1 .. Len(messages) |-> messages[i]]
  BY ListIs DEF IsMessages
<1>1. SlabFor(messages, pages)
        = [i \in 1 .. Len(messages) |-> IF i \in FirstUser(messages) THEN new(i) ELSE messages[i]]
  BY <1>0 DEF SlabFor
<1> HIDE DEF new
<1>2. CASE FirstUser(messages) = {}
  <2>1. \A i \in 1 .. Len(messages) : i \notin FirstUser(messages)
    BY <1>2
  <2>2. [i \in 1 .. Len(messages) |-> IF i \in FirstUser(messages) THEN new(i) ELSE messages[i]]
          = [i \in 1 .. Len(messages) |-> messages[i]]
    BY <2>1
  <2> QED
    BY <1>0, <1>1, <2>2
<1>3. CASE FirstUser(messages) # {}
  <2>1. PICK u \in FirstUser(messages) : TRUE
    BY <1>3
  <2>2. u \in 1 .. Len(messages)
    BY <1>0, <2>1 DEF FirstUser, Users
  <2>3. \A i \in 1 .. Len(messages) : i \in FirstUser(messages) <=> i = u
    <3>1. ASSUME NEW i \in FirstUser(messages) PROVE i = u
      <4>1. i <= u /\ u <= i /\ i \in 1 .. Len(messages)
        BY <1>0, <2>1 DEF FirstUser, Users
      <4> QED
        BY <2>2, <4>1
    <3> QED
      BY <2>1, <3>1
  <2>4. [i \in 1 .. Len(messages) |-> IF i \in FirstUser(messages) THEN new(i) ELSE messages[i]]
          = [i \in 1 .. Len(messages) |-> IF i = u THEN new(u) ELSE messages[i]]
    BY <2>3
  <2>5. [i \in 1 .. Len(messages) |-> IF i = u THEN new(u) ELSE messages[i]]
          = [messages EXCEPT ![u] = new(u)]
    BY <1>0
  <2> QED
    BY <1>1, <2>2, <2>4, <2>5 DEF new
<1> QED
  BY <1>2, <1>3

(* The messages weigh as much more as the pages. *)
LEMMA SlabMessages ==
  ASSUME NEW messages, IsMessages(messages), NEW pages, IsBlocks(pages),
         NEW n \in Nat, Load("image", pages) <= n, NEW k \in Nat, Load("mark", pages) <= k
  PROVE  LET t == SlabFor(messages, pages)
         IN /\ IsMessages(t)
            /\ Load("images", t) <= Load("images", messages) + n
            /\ Load("marks", t) <= Load("marks", messages) + k
<1> DEFINE t == SlabFor(messages, pages)
<1>1. CASE t = messages
  <2>1. Load("images", messages) \in Nat /\ Load("marks", messages) \in Nat
    BY MessagesWeigh, LoadNat
  <2> HIDE DEF t
  <2>2. Load("images", t) <= Load("images", messages) + n
    BY <1>1, <2>1
  <2>3. Load("marks", t) <= Load("marks", messages) + k
    BY <1>1, <2>1
  <2> QED
    BY <1>1, <2>2, <2>3 DEF t
<1>2. CASE \E u \in 1 .. Len(messages) :
             t = [messages EXCEPT ![u] =
                    [messages[u] EXCEPT !.blocks
                      = pages \o <<EndOfContext>> \o messages[u].blocks]]
  <2> DEFINE end == <<EndOfContext>>
  <2>1. PICK u \in 1 .. Len(messages) :
          t = [messages EXCEPT ![u] = [messages[u] EXCEPT !.blocks
            = (pages \o end) \o messages[u].blocks]]
    BY <1>2
  <2> HIDE DEF t
  <2>2. IsBlocks(messages[u].blocks)
    BY DEF IsMessages, IsMessage
  <2>3. IsBlocks(end) /\ Load("image", end) = 0 /\ Load("mark", end) = 0
    <3>1. DOMAIN EndOfContext = {"type", "cc"} /\ EndOfContext.type = "boundary"
            /\ EndOfContext.cc = NoMark
      BY DEF EndOfContext
    <3>2. IsBlock(EndOfContext)
      BY <3>1 DEF IsBlock, NoMark
    <3>3. PartsImages(EndOfContext) = 0 /\ PartsMarks(EndOfContext) = 0
      BY <3>1 DEF PartsImages, PartsMarks
    <3>4. ~IsImage(EndOfContext) /\ ~HasMark(EndOfContext)
      BY <3>1 DEF IsImage, HasMark
    <3>5. Fits("image", EndOfContext) /\ Weight("image", EndOfContext) = 0
      BY <3>2, <3>3, <3>4, BlockImages
    <3>6. Fits("mark", EndOfContext) /\ Weight("mark", EndOfContext) = 0
      BY <3>2, <3>3, <3>4, BlockMarks
    <3>7. Weighed("image", end) /\ Load("image", end) = 0
      BY <3>5, LoadOne
    <3>8. Load("mark", end) = 0
      BY <3>6, LoadOne
    <3> QED
      BY <3>7, <3>8, BlocksAre
  <2> HIDE DEF end
  <2> DEFINE head == pages \o end
             all == head \o messages[u].blocks
  <2>4. Weighed("image", pages) /\ Weighed("image", end) /\ Weighed("image", messages[u].blocks)
    BY <2>2, <2>3, BlocksWeigh
  <2>5. Weighed("mark", pages) /\ Weighed("mark", end) /\ Weighed("mark", messages[u].blocks)
    BY <2>2, <2>3, BlocksWeigh
  <2>6. Weighed("image", head) /\ Load("image", head) = Load("image", pages) + 0
    BY <2>3, <2>4, LoadConcat
  <2>7. Weighed("mark", head) /\ Load("mark", head) = Load("mark", pages) + 0
    BY <2>3, <2>5, LoadConcat
  <2> HIDE DEF head
  <2>8. Weighed("image", all)
          /\ Load("image", all) = Load("image", head) + Load("image", messages[u].blocks)
    BY <2>4, <2>6, LoadConcat
  <2>9. Load("mark", all) = Load("mark", head) + Load("mark", messages[u].blocks)
    BY <2>5, <2>7, LoadConcat
  <2> HIDE DEF all
  <2>10. /\ Load("image", pages) \in Nat /\ Load("mark", pages) \in Nat
         /\ Load("image", messages[u].blocks) \in Nat /\ Load("mark", messages[u].blocks) \in Nat
    BY <2>4, <2>5, LoadNat
  <2>11. Load("image", all) <= Load("image", messages[u].blocks) + n
    BY <2>6, <2>8, <2>10
  <2>12. Load("mark", all) <= Load("mark", messages[u].blocks) + k
    BY <2>7, <2>9, <2>10
  <2>13. IsBlocks(all)
    BY <2>8, BlocksAre
  <2>14. t = [messages EXCEPT ![u] = [messages[u] EXCEPT !.blocks = all]]
    BY <2>1 DEF all, head
  <2>15. IsMessages(t)
    BY <2>11, <2>12, <2>13, <2>14, ChangeBounded
  <2>16. Load("images", t) <= Load("images", messages) + n
    BY <2>11, <2>12, <2>13, <2>14, ChangeBounded
  <2>17. Load("marks", t) <= Load("marks", messages) + k
    BY <2>11, <2>12, <2>13, <2>14, ChangeBounded
  <2> QED
    BY <2>15, <2>16, <2>17 DEF t
<1> QED
  BY <1>1, <1>2, SlabIs

(* The system prompt keeps no marker: they go with the text.                 *)
Unmarked(s) == IsSystem(s) /\ \A k \in 1 .. Len(s) : ~HasMark(s[k])

(* Blocks without markers weigh none. *)
LEMMA UnmarkedLoad ==
  ASSUME NEW s, Unmarked(s)
  PROVE  MarksIn(s) = 0
<1> DEFINE w == Weights("system mark", s)
<1>1. Weighed("system mark", s)
  BY SystemWeighs DEF Unmarked
<1>2. w \in Seq(Nat) /\ Len(w) = Len(s)
        /\ \A k \in 1 .. Len(s) : w[k] = Weight("system mark", s[k])
  BY <1>1, WeightsAre
<1> HIDE DEF w
<1>3. \A k \in 1 .. Len(s) : Weight("system mark", s[k]) = 0
  BY SystemMarks DEF Unmarked, IsSystem
<1>4. Total(w) = 0
  BY <1>2, <1>3, TotalZero
<1>5. Load("system mark", s) = MarksIn(s)
  BY SystemLoad
<1> QED
  BY <1>4, <1>5 DEF Load, w

(* What is picked of the unmarked blocks is unmarked. *)
LEMMA UnmarkedPicked ==
  ASSUME NEW s, IsSystem(s), NEW chosen,
         \A k \in 1 .. Len(s) : k \in chosen => ~HasMark(s[k])
  PROVE  Unmarked(Picked(s, chosen))
<1> DEFINE r == Picked(s, chosen)
<1>1. Picks(s, s, chosen, r, r)
  BY PickedBoth DEF IsSystem
<1> HIDE DEF r
<1>2. IsList(r) /\ \A k \in 1 .. Len(r) : \E j \in 1 .. Len(s) \cap chosen : r[k] = s[j]
  BY <1>1 DEF Picks
<1>3. \A k \in 1 .. Len(r) : IsSystemBlock(r[k]) /\ ~HasMark(r[k])
  BY <1>2 DEF IsSystem
<1> QED
  BY <1>2, <1>3 DEF Unmarked, IsSystem, r

(* And two lists of them. *)
LEMMA UnmarkedConcat ==
  ASSUME NEW s, NEW t, Unmarked(s), Unmarked(t)
  PROVE  Unmarked(s \o t)
<1> DEFINE r == s \o t
<1>0. IsList(s) /\ IsList(t) /\ Len(s) \in Nat /\ Len(t) \in Nat
  BY ListIs DEF Unmarked, IsSystem
<1>1. IsList(r) /\ Len(r) = Len(s) + Len(t)
  BY <1>0, ListConcat
<1>2. \A i \in 1 .. Len(s) : r[i] = s[i]
  BY <1>0, ListConcat
<1>3. \A i \in 1 .. Len(t) : r[Len(s) + i] = t[i]
  BY <1>0, ListConcat
<1> HIDE DEF r
<1>4. ASSUME NEW k \in 1 .. Len(r) PROVE IsSystemBlock(r[k]) /\ ~HasMark(r[k])
  <2>1. CASE k <= Len(s)
    <3>1. k \in 1 .. Len(s) /\ r[k] = s[k]
      BY <1>0, <1>2, <2>1
    <3> QED
      BY <3>1 DEF Unmarked, IsSystem
  <2>2. CASE k > Len(s)
    <3>1. k - Len(s) \in 1 .. Len(t) /\ Len(s) + (k - Len(s)) = k
      BY <1>0, <1>1, <2>2
    <3>2. r[k] = t[k - Len(s)]
      BY <1>3, <3>1
    <3> QED
      BY <3>1, <3>2 DEF Unmarked, IsSystem
  <2>3. k <= Len(s) \/ k > Len(s)
    BY <1>0
  <2> QED
    BY <2>1, <2>2, <2>3
<1> QED
  BY <1>1, <1>4 DEF Unmarked, IsSystem, r

(* What is left of the system prompt is picked of the unmarked blocks. *)
LEMMA TailUnmarked ==
  ASSUME NEW system, IsSystem(system)
  PROVE  Unmarked(SystemTail(system))
<1>1. ASSUME NEW kinds PROVE Unmarked(WithText(VolatileTail(system, kinds)))
  <2> DEFINE v == VolatileTail(system, kinds)
  <2>1. v = [i \in 1 .. 3 |-> v[i]]
    BY DEF VolatileTail
  <2>2. \A i \in 1 .. 3 : {"type", "cc"} \subseteq DOMAIN v[i] /\ v[i].type = "text"
          /\ v[i].cc = NoMark
    BY DEF VolatileTail
  <2> HIDE DEF v
  <2>3. IsList(v) /\ Len(v) = 3
    BY <2>1, IsListFrom
  <2>4. IsSystem(v)
    BY <2>2, <2>3 DEF IsSystem, IsSystemBlock
  <2>5. \A k \in 1 .. Len(v) : ~HasMark(v[k])
    BY <2>2, <2>3 DEF HasMark
  <2> QED
    BY <2>4, <2>5, UnmarkedPicked DEF WithText, v
<1>2. Unmarked(Remainder(system))
  <2> DEFINE left == Picked(system, {k \in DOMAIN system : ~InSlabText(system, system[k])})
  <2>1. Unmarked(left)
    <3>1. \A k \in 1 .. Len(system) :
            k \in {j \in DOMAIN system : ~InSlabText(system, system[j])} => ~HasMark(system[k])
      BY DEF InSlabText
    <3> QED
      BY <3>1, UnmarkedPicked
  <2> HIDE DEF left
  <2>2. ASSUME NEW chosen PROVE Unmarked(Picked(left, chosen))
    BY <2>1, UnmarkedPicked DEF Unmarked
  <2>3. ASSUME NEW rest, Unmarked(rest) PROVE Unmarked([k \in DOMAIN rest |-> Unbilled(rest[k])])
    <3> DEFINE t == [k \in DOMAIN rest |-> Unbilled(rest[k])]
    <3>1. IsList(rest) /\ Len(rest) \in Nat /\ DOMAIN rest = 1 .. Len(rest)
      BY <2>3, ListIs DEF Unmarked, IsSystem
    <3>2. t = [k \in 1 .. Len(rest) |-> t[k]]
      BY <3>1
    <3>3. \A k \in 1 .. Len(rest) : t[k] = Unbilled(rest[k])
      BY <3>1
    <3> HIDE DEF t
    <3>4. IsList(t) /\ Len(t) = Len(rest)
      BY <3>1, <3>2, IsListFrom
    <3>5. ASSUME NEW k \in 1 .. Len(rest) PROVE IsSystemBlock(t[k]) /\ ~HasMark(t[k])
      <4>1. IsSystemBlock(rest[k]) /\ ~HasMark(rest[k])
        BY <2>3 DEF Unmarked, IsSystem
      <4> DEFINE b == rest[k]
                 c == Unbilled(b)
      <4>2. DOMAIN c = DOMAIN b /\ \A f \in DOMAIN b : f # "has" => c[f] = b[f]
        BY DEF Unbilled
      <4>3. t[k] = c
        BY <3>3
      <4> HIDE DEF c
      <4>4. {"type", "cc"} \subseteq DOMAIN c /\ c.type = b.type /\ c.cc = b.cc
        BY <4>1, <4>2 DEF IsSystemBlock
      <4> QED
        BY <4>1, <4>3, <4>4 DEF IsSystemBlock, HasMark
    <3> QED
      BY <3>4, <3>5 DEF Unmarked, IsSystem, t
  <2>4. ASSUME NEW s, Unmarked(s) PROVE Unmarked(WithText(s))
    BY <2>4, UnmarkedPicked DEF WithText, Unmarked
  <2> QED
    BY <2>2, <2>3, <2>4 DEF Remainder, left
<1> QED
  BY <1>1, <1>2, UnmarkedConcat DEF SystemTail, TailOfAll

(* The marker of the slab was one of the system prompt. *)
LEMMA SystemMarkCounts ==
  ASSUME NEW system, IsSystem(system)
  PROVE  HasOne(Demoted(SystemMark(system))) <= MarksIn(system)
<1>1. MarksIn(system) \in Nat
  BY SystemWeighs, SystemLoad, LoadNat
<1>2. CASE SystemMark(system) = NoMark
  <2>1. HasOne(Demoted(SystemMark(system))) = 0
    BY <1>2 DEF Demoted, HasOne, NoMark
  <2> QED
    BY <1>1, <2>1
<1>3. CASE SystemMark(system) # NoMark
  <2>1. PICK j \in DOMAIN system : HasMark(system[j])
    BY <1>3 DEF SystemMark
  <2>2. j \in 1 .. Len(system) /\ IsSystemBlock(system[j])
    BY ListIs DEF IsSystem
  <2>3. Weight("system mark", system[j]) = 1
    BY <2>1, <2>2, SystemMarks
  <2>4. Weighed("system mark", system)
    BY SystemWeighs
  <2>5. Weight("system mark", system[j]) <= Load("system mark", system)
    BY <2>2, <2>4, LoadAtLeast
  <2>6. Load("system mark", system) = MarksIn(system)
    BY SystemLoad
  <2>7. MarksIn(system) >= 1
    BY <1>1, <2>3, <2>5, <2>6
  <2>8. ASSUME NEW cc PROVE HasOne(cc) = 0 \/ HasOne(cc) = 1
    BY DEF HasOne
  <2>9. HasOne(Demoted(SystemMark(system))) = 0 \/ HasOne(Demoted(SystemMark(system))) = 1
    BY <2>8
  <2> QED
    BY <1>1, <2>7, <2>9
<1> QED
  BY <1>2, <1>3

-----------------------------------------------------------------------------
(* The pass that collapses the history.                                      *)

(* A set of places that is not empty has a last one. *)
LEMMA LastPlace ==
  ASSUME NEW n \in Nat, NEW S, S \subseteq 1 .. n, S # {}
  PROVE  \E m \in S : \A x \in S : x <= m
<1> DEFINE Below(k) == {x \in S : x <= k}
           T == {k \in 0 .. n : Below(k) # {} => \E m \in Below(k) : \A x \in Below(k) : x <= m}
<1>0. \A x \in S : x \in Int /\ 1 <= x /\ x <= n
  OBVIOUS
<1>1. 0 \in T
  <2>1. \A x \in S : ~ (x <= 0)
    BY <1>0
  <2>2. Below(0) = {}
    BY <2>1, Zenon
  <2> QED
    BY <2>2
<1>2. ASSUME NEW k \in 1 .. n, k - 1 \in T PROVE k \in T
  <2>1. CASE k \in S
    <3>1. k \in Below(k) /\ \A x \in Below(k) : x <= k
      BY <2>1
    <3> QED
      BY <3>1
  <2>2. CASE k \notin S
    <3>1. Below(k) = Below(k - 1)
      <4>1. \A x \in S : x \in Int /\ x # k
        BY <2>2
      <4>2. \A x \in S : x <= k <=> x <= k - 1
        BY <4>1
      <4> QED
        BY <4>2
    <3> HIDE DEF Below
    <3> QED
      BY <1>2, <3>1
  <2> QED
    BY <2>1, <2>2
<1>3. n \in T
  <2> HIDE DEF T
  <2> QED
    BY <1>1, <1>2, UpTo
<1>4. Below(n) = S
  BY <1>0
<1> HIDE DEF Below
<1> QED
  BY <1>3, <1>4

(* The marker of a message is that of one of its blocks. *)
LEMMA MarkOfBlock ==
  ASSUME NEW m, IsMessage(m), MarkOf(m) # NoMark
  PROVE  \E k \in 1 .. Len(m.blocks) : HasMark(m.blocks[k]) /\ MarkOf(m) = m.blocks[k].cc
<1> DEFINE marked == {k \in DOMAIN m.blocks : HasMark(m.blocks[k])}
           last == CHOOSE k \in marked : \A j \in marked : j <= k
<1>0. DOMAIN m.blocks = 1 .. Len(m.blocks) /\ Len(m.blocks) \in Nat
  BY ListIs DEF IsMessage, IsBlocks
<1>1. marked # {} /\ MarkOf(m) = m.blocks[last].cc
  BY DEF MarkOf
<1>2. marked \subseteq 1 .. Len(m.blocks)
  BY <1>0
<1>3. \A k \in marked : HasMark(m.blocks[k])
  OBVIOUS
<1> HIDE DEF marked
<1>4. \E k \in marked : \A j \in marked : j <= k
  BY <1>0, <1>1, <1>2, LastPlace
<1>5. last \in marked
  BY <1>4
<1> QED
  BY <1>1, <1>2, <1>3, <1>5

(* A marked message weighs a marker, and it is not of global scope. *)
LEMMA MarkedWeighs ==
  ASSUME NEW m, IsMessage(m), MarkOf(m) # NoMark
  PROVE  MarkOf(m) # "global" /\ Weight("marks", m) >= 1
<1>1. PICK k \in 1 .. Len(m.blocks) : HasMark(m.blocks[k]) /\ MarkOf(m) = m.blocks[k].cc
  BY MarkOfBlock
<1>2. IsBlock(m.blocks[k])
  BY DEF IsMessage, IsBlocks
<1>3. MarkOf(m) # "global"
  BY <1>1, <1>2 DEF IsBlock
<1>4. Weight("mark", m.blocks[k]) = 1 + PartsMarks(m.blocks[k]) /\ PartsMarks(m.blocks[k]) \in Nat
  BY <1>1, <1>2, BlockMarks, PartsNat
<1>5. Weighed("mark", m.blocks)
  BY BlocksWeigh DEF IsMessage
<1>6. Weight("mark", m.blocks[k]) <= Load("mark", m.blocks) /\ Load("mark", m.blocks) \in Nat
  BY <1>5, LoadAtLeast, LoadNat
<1>7. Weight("marks", m) = Load("mark", m.blocks)
  BY MessageWeight
<1> QED
  BY <1>3, <1>4, <1>6, <1>7

(* Pages of history: a marker for each marked turn, at most. *)
LEMMA HistoryWeighs ==
  ASSUME NEW messages, IsMessages(messages), NEW from \in Nat, NEW to \in from .. Len(messages),
         NEW n \in Nat
  PROVE  LET s == HistoryPages(messages, from, to, n)
         IN /\ IsBlocks(s) /\ Len(s) = n
            /\ Load("image", s) <= n
            /\ Load("mark", s) <= Load("marks", SubSeq(messages, from + 1, to))
<1> DEFINE s == HistoryPages(messages, from, to, n)
           len == to - from
           all == [i \in 1 .. len |-> MarkOf(messages[from + i])]
           chosen == {i \in DOMAIN all : all[i] # NoMark}
           marks == Picked(all, chosen)
           items == UNION {TextOf(messages[i]) : i \in from + 1 .. to}
           mark(p) == IF p <= Len(marks) THEN marks[p] ELSE NoMark
           part == SubSeq(messages, from + 1, to)
           ones == [i \in 1 .. len |-> IF all[i] # NoMark THEN 1 ELSE 0]
<1>0. IsList(messages) /\ Len(messages) \in Nat /\ len \in Nat
  BY ListIs DEF IsMessages
<1>1. s = [p \in 1 .. n |-> Rendered(items, mark(p))]
  BY DEF HistoryPages
<1>2. all = [i \in 1 .. len |-> all[i]] /\ \A i \in 1 .. len : all[i] = MarkOf(messages[from + i])
  OBVIOUS
<1>3. chosen = {i \in 1 .. len : all[i] # NoMark}
  OBVIOUS
<1>4. ones \in Seq(Nat) /\ Len(ones) = len
        /\ \A i \in 1 .. len : ones[i] = IF all[i] # NoMark THEN 1 ELSE 0
  BY <1>0
<1>5. \A i \in 1 .. len : from + i \in 1 .. Len(messages)
  BY <1>0
<1> HIDE DEF all, ones, chosen, len
<1>6. IsList(all) /\ Len(all) = len
  BY <1>0, <1>2, IsListFrom
<1>7. Picks(all, all, chosen, marks, marks) /\ Len(marks) <= Total(ones)
  <2>1. \A i \in 1 .. Len(all) : i \in chosen => ones[i] = 1
    BY <1>3, <1>4, <1>6
  <2>2. Len(ones) = Len(all)
    BY <1>4, <1>6
  <2> QED
    BY <1>4, <1>6, <2>1, <2>2, PickedBoth, PickedCount
<1> HIDE DEF marks
<1>8. IsList(marks) /\ Len(marks) \in Nat
  BY <1>7, ListIs DEF Picks
<1>9. \A p \in 1 .. Len(marks) : marks[p] # "global"
  <2> TAKE p \in 1 .. Len(marks)
  <2>1. PICK j \in 1 .. Len(all) \cap chosen : marks[p] = all[j]
    BY <1>7 DEF Picks
  <2>2. all[j] = MarkOf(messages[from + j]) /\ all[j] # NoMark /\ from + j \in 1 .. Len(messages)
    BY <1>2, <1>3, <1>5, <1>6, <2>1
  <2>3. IsMessage(messages[from + j])
    BY <2>2 DEF IsMessages
  <2> QED
    BY <2>1, <2>2, <2>3, MarkedWeighs
<1>10. ASSUME NEW p \in 1 .. n
       PROVE  mark(p) # "global" /\ (p > Len(marks) => mark(p) = NoMark)
  <2>1. CASE p <= Len(marks)
    <3>1. p \in 1 .. Len(marks) /\ mark(p) = marks[p]
      BY <1>8, <2>1
    <3> QED
      BY <1>8, <1>9, <2>1, <3>1
  <2>2. CASE ~ (p <= Len(marks))
    BY <2>2 DEF NoMark
  <2> QED
    BY <2>1, <2>2
<1> HIDE DEF mark, items
<1>11. s = [p \in 1 .. n |-> s[p]] /\ \A p \in 1 .. n : s[p] = Rendered(items, mark(p))
  BY <1>1
<1> HIDE DEF s
<1>12. IsList(s) /\ Len(s) = n
  BY <1>11, IsListFrom
<1>13. ASSUME NEW p \in 1 .. n
       PROVE  IsBlock(s[p]) /\ Weight("image", s[p]) = 1 /\ Weight("mark", s[p]) = HasOne(mark(p))
  <2>1. s[p] = Rendered(items, mark(p)) /\ mark(p) # "global"
    BY <1>10, <1>11
  <2> QED
    BY <2>1, PageWeight
<1>14. IsBlocks(s)
  BY <1>12, <1>13 DEF IsBlocks
<1> DEFINE u == Weights("image", s)
           w == Weights("mark", s)
<1>15. u \in Seq(Nat) /\ Len(u) = n /\ \A p \in 1 .. n : u[p] = Weight("image", s[p])
  BY <1>12, <1>14, BlocksWeigh, WeightsAre
<1>16. w \in Seq(Nat) /\ Len(w) = n /\ \A p \in 1 .. n : w[p] = Weight("mark", s[p])
  BY <1>12, <1>14, BlocksWeigh, WeightsAre
<1> HIDE DEF u, w
<1>17. Total(u) <= n
  <2>1. \A p \in 1 .. n : u[p] = 1
    BY <1>13, <1>15
  <2>2. ASSUME NEW i \in 1 .. Len(u) PROVE u[i] <= 1 /\ (i > n => u[i] = 0)
    <3>1. i \in 1 .. n
      BY <1>15
    <3> QED
      BY <2>1, <3>1
  <2> QED
    BY <1>15, <2>2, TotalOnes
<1>18. Total(w) <= Len(marks)
  <2>1. ASSUME NEW i \in 1 .. Len(w) PROVE w[i] <= 1 /\ (i > Len(marks) => w[i] = 0)
    <3>1. i \in 1 .. n /\ w[i] = HasOne(mark(i))
      BY <1>13, <1>16
    <3>2. i > Len(marks) => mark(i) = NoMark
      BY <1>10, <3>1
    <3> QED
      BY <3>1, <3>2 DEF HasOne
  <2> QED
    BY <1>8, <1>16, <2>1, TotalOnes
<1>19. Total(ones) <= Load("marks", part)
  <2>0. from + 1 \in 1 .. Len(messages) + 1 /\ to \in 0 .. Len(messages) /\ from + 1 <= to + 1
        /\ to - (from + 1) + 1 = len
    BY <1>0 DEF len
  <2>1. Weighed("marks", part)
    BY <2>0, MessagesWeigh, WeighedSub
  <2>2. Len(part) = len
    BY <1>0, <2>0, ListSub
  <2>3. \A i \in 1 .. len : part[i] = messages[from + i]
    <3>1. \A i \in 1 .. to - (from + 1) + 1 : part[i] = messages[from + 1 + i - 1]
      BY <1>0, <2>0, ListSub
    <3>2. \A i \in Int : from + 1 + i - 1 = from + i
      OBVIOUS
    <3> QED
      BY <2>0, <3>1, <3>2
  <2> DEFINE v == Weights("marks", part)
  <2>4. v \in Seq(Nat) /\ Len(v) = len /\ \A i \in 1 .. len : v[i] = Weight("marks", part[i])
    BY <2>1, <2>2, WeightsAre
  <2> HIDE DEF v, part
  <2>5. ASSUME NEW i \in 1 .. len PROVE ones[i] <= v[i]
    <3>0. part[i] = messages[from + i]
      BY <2>3
    <3>1. v[i] = Weight("marks", messages[from + i]) /\ v[i] \in Nat
      <4>1. v[i] = Weight("marks", part[i]) /\ v[i] \in Nat
        BY <2>4
      <4> QED
        BY <3>0, <4>1
    <3>2. IsMessage(messages[from + i])
      BY <1>5 DEF IsMessages
    <3>3. CASE all[i] # NoMark
      <4>1. Weight("marks", messages[from + i]) >= 1
        BY <1>2, <3>2, <3>3, MarkedWeighs
      <4>2. ones[i] = 1
        BY <1>4, <3>3
      <4> QED
        BY <3>1, <4>1, <4>2
    <3>4. CASE all[i] = NoMark
      <4>1. ones[i] = 0
        BY <1>4, <3>4
      <4> QED
        BY <3>1, <4>1
    <3> QED
      BY <3>3, <3>4
  <2>6. Total(ones) <= Total(v)
    BY <1>4, <2>4, <2>5, TotalLeq
  <2> QED
    BY <2>6 DEF Load, v
<1>20. Total(w) <= Load("marks", part)
  <2>1. Total(w) \in Nat /\ Total(ones) \in Nat
    BY <1>4, <1>16, TotalNat
  <2>2. Weighed("marks", part)
    <3>1. from + 1 \in 1 .. Len(messages) + 1 /\ to \in 0 .. Len(messages) /\ from + 1 <= to + 1
      BY <1>0
    <3> QED
      BY <3>1, MessagesWeigh, WeighedSub
  <2>3. Load("marks", part) \in Nat
    BY <2>2, LoadNat
  <2> QED
    BY <1>7, <1>8, <1>18, <1>19, <2>1, <2>3
<1> QED
  BY <1>12, <1>14, <1>17, <1>20 DEF Load, s, u, w

(* The first elements, and what is between them and a later place. *)
LEMMA SplitTo ==
  ASSUME NEW s, IsList(s), NEW b \in 0 .. Len(s), NEW n \in 0 .. b
  PROVE  SubSeq(s, 1, b) = SubSeq(s, 1, n) \o SubSeq(s, n + 1, b)
<1> DEFINE c == SubSeq(s, 1, b)
           d == SubSeq(s, 1, n)
           e == SubSeq(s, n + 1, b)
<1>0. Len(s) \in Nat /\ b \in Nat /\ n \in Nat /\ n <= b /\ b <= Len(s)
  BY ListIs
<1>1. IsList(c) /\ Len(c) = b /\ IsList(d) /\ Len(d) = n /\ IsList(e) /\ Len(e) = b - n
  BY <1>0, ListSub
<1>2. \A i \in 1 .. b : c[i] = s[i]
  <2>1. \A i \in 1 .. b - 1 + 1 : c[i] = s[1 + i - 1]
    BY <1>0, ListSub
  <2> QED
    BY <2>1
<1>3. \A i \in 1 .. n : d[i] = s[i]
  <2>1. \A i \in 1 .. n - 1 + 1 : d[i] = s[1 + i - 1]
    BY <1>0, ListSub
  <2> QED
    BY <2>1
<1>4. \A i \in 1 .. b - n : e[i] = s[n + i]
  <2>1. \A i \in 1 .. b - (n + 1) + 1 : e[i] = s[n + 1 + i - 1]
    BY <1>0, ListSub
  <2>2. \A i \in Int : n + 1 + i - 1 = n + i
    BY <1>0
  <2> QED
    BY <1>0, <2>1, <2>2
<1> HIDE DEF c, d, e
<1>5. IsList(d \o e) /\ Len(d \o e) = b
  BY <1>0, <1>1, ListConcat
<1>6. \A i \in 1 .. Len(d) : (d \o e)[i] = d[i]
  BY <1>1, ListConcat
<1>7. \A i \in 1 .. Len(e) : (d \o e)[Len(d) + i] = e[i]
  BY <1>1, ListConcat
<1>8. \A i \in 1 .. b : c[i] = (d \o e)[i]
  <2> TAKE i \in 1 .. b
  <2>1. CASE i <= n
    BY <1>0, <1>1, <1>2, <1>3, <1>6, <2>1
  <2>2. CASE i > n
    <3>1. i - n \in 1 .. Len(e) /\ n + (i - n) = i
      BY <1>0, <1>1, <2>2
    <3>2. (d \o e)[n + (i - n)] = e[i - n] /\ e[i - n] = s[n + (i - n)]
      BY <1>1, <1>4, <1>7, <3>1
    <3> QED
      BY <1>2, <3>1, <3>2
  <2>3. i <= n \/ i > n
    BY <1>0
  <2> QED
    BY <2>1, <2>2, <2>3
<1> QED
  BY <1>1, <1>5, <1>8, SameList DEF c, d, e

(* And what they weigh. *)
LEMMA LoadMiddle ==
  ASSUME NEW kind, NEW s, Weighed(kind, s), NEW b \in 0 .. Len(s), NEW n \in 0 .. b
  PROVE  Load(kind, SubSeq(s, 1, b))
    = Load(kind, SubSeq(s, 1, n)) + Load(kind, SubSeq(s, n + 1, b))
<1>0. IsList(s) /\ Len(s) \in Nat
  BY ListIs DEF Weighed
<1>1. SubSeq(s, 1, b) = SubSeq(s, 1, n) \o SubSeq(s, n + 1, b)
  BY <1>0, SplitTo
<1>2. Weighed(kind, SubSeq(s, 1, n))
  BY <1>0, WeighedSub
<1>3. Weighed(kind, SubSeq(s, n + 1, b))
  BY <1>0, WeighedSub
<1> QED
  BY <1>1, <1>2, <1>3, LoadConcat

(* The message that holds the pages weighs what they do. *)
LEMMA SyntheticWeighs ==
  ASSUME NEW pages, IsBlocks(pages)
  PROVE  LET m == Synthetic(pages)
         IN /\ IsMessage(m) /\ m.blocks = <<IntroText>> \o pages
            /\ Weight("images", m) = Load("image", pages)
            /\ Weight("marks", m) = Load("mark", pages)
<1> DEFINE m == Synthetic(pages)
           intro == <<IntroText>>
<1>1. m.blocks = intro \o pages /\ "blocks" \in DOMAIN m
  BY DEF Synthetic
<1> HIDE DEF m
<1>2. DOMAIN IntroText = {"type", "cc"} /\ IntroText.type = "intro" /\ IntroText.cc = NoMark
  BY DEF IntroText
<1>3. IsBlock(IntroText)
  BY <1>2 DEF IsBlock, NoMark
<1>4. PartsImages(IntroText) = 0 /\ PartsMarks(IntroText) = 0
  BY <1>2 DEF PartsImages, PartsMarks
<1>5. ~IsImage(IntroText) /\ ~HasMark(IntroText)
  BY <1>2 DEF IsImage, HasMark
<1>6. Fits("image", IntroText) /\ Weight("image", IntroText) = 0
  BY <1>3, <1>4, <1>5, BlockImages
<1>7. Fits("mark", IntroText) /\ Weight("mark", IntroText) = 0
  BY <1>3, <1>4, <1>5, BlockMarks
<1>8. Weighed("image", intro) /\ Load("image", intro) = 0
  BY <1>6, LoadOne
<1>9. Weighed("mark", intro) /\ Load("mark", intro) = 0
  BY <1>7, LoadOne
<1> HIDE DEF intro
<1>10. Weighed("image", pages) /\ Weighed("mark", pages)
  BY BlocksWeigh
<1>11. Weighed("image", intro \o pages)
         /\ Load("image", intro \o pages) = 0 + Load("image", pages)
  BY <1>8, <1>10, LoadConcat
<1>12. Load("mark", intro \o pages) = 0 + Load("mark", pages)
  BY <1>9, <1>10, LoadConcat
<1>13. Load("image", pages) \in Nat /\ Load("mark", pages) \in Nat
  BY <1>10, LoadNat
<1>14. IsMessage(m)
  BY <1>1, <1>11, BlocksAre DEF IsMessage
<1>15. Weight("images", m) = Load("image", pages)
  <2>1. Weight("images", m) = Load("image", m.blocks)
    BY <1>14, MessageWeight
  <2> QED
    BY <1>1, <1>11, <1>13, <2>1
<1>16. Weight("marks", m) = Load("mark", pages)
  <2>1. Weight("marks", m) = Load("mark", m.blocks)
    BY <1>14, MessageWeight
  <2> QED
    BY <1>1, <1>12, <1>13, <2>1
<1> QED
  BY <1>1, <1>14, <1>15, <1>16 DEF m, intro

(* Turns that become pages weigh no more markers, and as many images.        *)
LEMMA CollapsedWeighs ==
  ASSUME NEW messages, IsMessages(messages), NEW from \in Nat, NEW to \in from .. Len(messages),
         NEW n \in Nat
  PROVE  LET t == Collapsed(messages, from, to, HistoryPages(messages, from, to, n))
         IN /\ IsMessages(t) /\ from + 1 \in 1 .. Len(t)
            /\ Load("images", t) <= Load("images", messages) + n
            /\ Load("marks", t) <= Load("marks", messages)
<1> DEFINE pages == HistoryPages(messages, from, to, n)
           m == Synthetic(pages)
           a == SubSeq(messages, 1, from)
           b == SubSeq(messages, from + 1, to)
           c == SubSeq(messages, to + 1, Len(messages))
           one == <<m>>
           t == (a \o one) \o c
<1>0. IsList(messages) /\ Len(messages) \in Nat /\ to \in Nat /\ from <= to /\ to <= Len(messages)
  BY ListIs DEF IsMessages
<1>1. IsBlocks(pages) /\ Load("image", pages) <= n /\ Load("mark", pages) <= Load("marks", b)
  BY HistoryWeighs
<1> HIDE DEF pages
<1>2. IsMessage(m) /\ Weight("images", m) = Load("image", pages)
        /\ Weight("marks", m) = Load("mark", pages)
  BY <1>1, SyntheticWeighs
<1> HIDE DEF m
<1>3. Weighed("images", messages) /\ Weighed("marks", messages)
  BY MessagesWeigh
<1>p. /\ 1 \in 1 .. Len(messages) + 1 /\ from \in 0 .. Len(messages) /\ 1 <= from + 1
      /\ from + 1 \in 1 .. Len(messages) + 1 /\ to \in 0 .. Len(messages) /\ from + 1 <= to + 1
      /\ to + 1 \in 1 .. Len(messages) + 1 /\ Len(messages) \in 0 .. Len(messages)
      /\ to + 1 <= Len(messages) + 1
  BY <1>0
<1>4. Weighed("images", a) /\ Weighed("images", b) /\ Weighed("images", c)
  BY <1>3, <1>p, WeighedSub
<1>5. Weighed("marks", a) /\ Weighed("marks", b) /\ Weighed("marks", c)
  BY <1>3, <1>p, WeighedSub
<1>6. Load("images", messages) = Load("images", a) + Load("images", b) + Load("images", c)
  <2>1. Load("images", messages) = Load("images", SubSeq(messages, 1, to)) + Load("images", c)
    BY <1>0, <1>3, LoadSplit
  <2>2. Load("images", SubSeq(messages, 1, to)) = Load("images", a) + Load("images", b)
    BY <1>0, <1>3, LoadMiddle
  <2> QED
    BY <2>1, <2>2
<1>7. Load("marks", messages) = Load("marks", a) + Load("marks", b) + Load("marks", c)
  <2>1. Load("marks", messages) = Load("marks", SubSeq(messages, 1, to)) + Load("marks", c)
    BY <1>0, <1>3, LoadSplit
  <2>2. Load("marks", SubSeq(messages, 1, to)) = Load("marks", a) + Load("marks", b)
    BY <1>0, <1>3, LoadMiddle
  <2> QED
    BY <2>1, <2>2
<1>8. Len(a) = from
  BY <1>0, ListSub
<1> HIDE DEF a, b, c
<1>9. Fits("images", m) /\ Fits("marks", m)
  BY <1>2, MessageWeight
<1>10. Weighed("images", one) /\ Load("images", one) = Weight("images", m)
  BY <1>9, LoadOne
<1>11. Weighed("marks", one) /\ Load("marks", one) = Weight("marks", m)
  BY <1>9, LoadOne
<1>12. Len(one) = 1 /\ IsList(one)
  BY ListOne
<1> HIDE DEF one
<1>13. Weighed("images", a \o one)
         /\ Load("images", a \o one) = Load("images", a) + Load("images", one)
  BY <1>4, <1>10, LoadConcat
<1>14. Weighed("marks", a \o one)
         /\ Load("marks", a \o one) = Load("marks", a) + Load("marks", one)
  BY <1>5, <1>11, LoadConcat
<1>15. Weighed("images", t) /\ Load("images", t) = Load("images", a \o one) + Load("images", c)
  BY <1>4, <1>13, LoadConcat
<1>16. Load("marks", t) = Load("marks", a \o one) + Load("marks", c)
  BY <1>5, <1>14, LoadConcat
<1>17. from + 1 \in 1 .. Len(t)
  <2>1. IsList(a) /\ IsList(c) /\ Len(c) \in Nat
    BY <1>4, ListIs DEF Weighed
  <2>2. IsList(a \o one) /\ Len(a \o one) = from + 1
    <3>1. Len(a \o one) = Len(a) + Len(one)
      BY <1>12, <2>1, ListConcat
    <3>2. IsList(a \o one)
      BY <1>12, <2>1, ListConcat
    <3> QED
      BY <1>8, <1>12, <3>1, <3>2
  <2>3. Len(t) = from + 1 + Len(c)
    BY <2>1, <2>2, ListConcat
  <2> QED
    BY <2>1, <2>3
<1>18. IsMessages(t)
  BY <1>15, MessagesAre
<1> HIDE DEF t
<1>19. /\ Load("images", a) \in Nat /\ Load("images", b) \in Nat /\ Load("images", c) \in Nat
       /\ Load("marks", a) \in Nat /\ Load("marks", b) \in Nat /\ Load("marks", c) \in Nat
  BY <1>4, <1>5, LoadNat
<1>20. Load("image", pages) \in Nat /\ Load("mark", pages) \in Nat
  BY <1>1, BlocksWeigh, LoadNat
<1>21. Load("images", t) <= Load("images", messages) + n
  BY <1>1, <1>2, <1>6, <1>10, <1>13, <1>15, <1>19, <1>20
<1>22. Load("marks", t) <= Load("marks", messages)
  BY <1>1, <1>2, <1>7, <1>11, <1>14, <1>16, <1>19, <1>20
<1> QED
  BY <1>17, <1>18, <1>21, <1>22 DEF Collapsed, t, one, a, c, m, pages

-----------------------------------------------------------------------------
(* The anchor that moves to the history.                                     *)

(* A block with another marker. *)
LEMMA MarkedBlock ==
  ASSUME NEW b, IsBlock(b), NEW cc, cc # "global"
  PROVE  LET c == [b EXCEPT !.cc = cc]
         IN /\ IsBlock(c) /\ Weight("image", c) = Weight("image", b)
            /\ Weight("mark", c) + HasOne(b.cc) = Weight("mark", b) + HasOne(cc)
<1> DEFINE c == [b EXCEPT !.cc = cc]
<1>0. {"type", "cc"} \subseteq DOMAIN b
  BY DEF IsBlock
<1>1. DOMAIN c = DOMAIN b /\ c.type = b.type /\ c.cc = cc
        /\ ("parts" \in DOMAIN b => c.parts = b.parts)
  BY <1>0, MarkSet
<1> HIDE DEF c
<1>2. IsBlock(c)
  BY <1>1 DEF IsBlock
<1>3. b.type = "result" => c.parts = b.parts
  BY <1>1 DEF IsBlock
<1>4. PartsImages(c) = PartsImages(b) /\ PartsMarks(c) = PartsMarks(b)
  BY <1>1, <1>3 DEF PartsImages, PartsMarks
<1>5. IsImage(c) <=> IsImage(b)
  BY <1>1 DEF IsImage
<1>6. Weight("image", c) = Weight("image", b)
  <2>1. Weight("image", c) = IF IsImage(c) THEN 1 ELSE PartsImages(c)
    BY <1>2, BlockImages
  <2>2. Weight("image", b) = IF IsImage(b) THEN 1 ELSE PartsImages(b)
    BY BlockImages
  <2> QED
    BY <1>4, <1>5, <2>1, <2>2
<1>7. Weight("mark", c) = HasOne(cc) + PartsMarks(b)
  <2>1. Weight("mark", c) = (IF HasMark(c) THEN 1 ELSE 0) + PartsMarks(c)
    BY <1>2, BlockMarks
  <2> QED
    BY <1>1, <1>4, <2>1 DEF HasMark, HasOne
<1>8. Weight("mark", b) = HasOne(b.cc) + PartsMarks(b)
  <2>1. Weight("mark", b) = (IF HasMark(b) THEN 1 ELSE 0) + PartsMarks(b)
    BY BlockMarks
  <2> QED
    BY <2>1 DEF HasMark, HasOne
<1>9. PartsMarks(b) \in Nat /\ HasOne(cc) \in Nat /\ HasOne(b.cc) \in Nat
  BY PartsNat DEF HasOne
<1> QED
  BY <1>2, <1>6, <1>7, <1>8, <1>9 DEF c

(* A message whose block has another marker. *)
LEMMA WithMarkIs ==
  ASSUME NEW messages, IsMessages(messages), NEW i \in 1 .. Len(messages),
         NEW k \in 1 .. Len(messages[i].blocks), NEW cc
  PROVE  LET blocks == [messages[i].blocks EXCEPT ![k] = [messages[i].blocks[k] EXCEPT !.cc = cc]]
         IN WithMark(messages, i, k, cc) =
              [messages EXCEPT ![i] = [messages[i] EXCEPT !.blocks = blocks]]
<1>1. DOMAIN messages = 1 .. Len(messages)
  BY ListIs DEF IsMessages
<1>2. IsMessage(messages[i])
  BY DEF IsMessages
<1>3. "blocks" \in DOMAIN messages[i] /\ DOMAIN messages[i].blocks = 1 .. Len(messages[i].blocks)
  BY <1>2, ListIs DEF IsMessage, IsBlocks
<1> QED
  BY <1>1, <1>3 DEF WithMark

(* As many images, and the markers that the change of one makes. *)
LEMMA WithMarkWeighs ==
  ASSUME NEW messages, IsMessages(messages), NEW i \in 1 .. Len(messages),
         NEW k \in 1 .. Len(messages[i].blocks), NEW cc, cc # "global"
  PROVE  LET t == WithMark(messages, i, k, cc)
         IN /\ IsMessages(t)
            /\ Load("images", t) = Load("images", messages)
            /\ Load("marks", t) + HasOne(messages[i].blocks[k].cc)
                 = Load("marks", messages) + HasOne(cc)
<1> DEFINE m == messages[i]
           b == m.blocks[k]
           c == [b EXCEPT !.cc = cc]
           blocks == [m.blocks EXCEPT ![k] = c]
           n == [m EXCEPT !.blocks = blocks]
           t == [messages EXCEPT ![i] = n]
<1>1. WithMark(messages, i, k, cc) = t
  BY WithMarkIs
<1>2. IsMessage(m)
  BY DEF IsMessages
<1>3. IsBlocks(m.blocks)
  BY <1>2 DEF IsMessage
<1>4. IsBlock(b)
  BY <1>3 DEF IsBlocks
<1> HIDE DEF b
<1>5. IsBlock(c) /\ Weight("image", c) = Weight("image", b)
  BY <1>4, MarkedBlock
<1>6. Weight("mark", c) + HasOne(b.cc) = Weight("mark", b) + HasOne(cc)
  BY <1>4, MarkedBlock
<1> HIDE DEF c
<1>7. Fits("image", c) /\ Fits("mark", c) /\ Fits("image", b) /\ Fits("mark", b)
  BY <1>4, <1>5, BlockImages, BlockMarks
<1>8. Weighed("image", m.blocks) /\ Weighed("mark", m.blocks)
  BY <1>3, BlocksWeigh
<1>9. k \in 1 .. Len(m.blocks)
  OBVIOUS
<1>10. /\ Weighed("image", blocks)
       /\ Load("image", blocks) + Weight("image", b)
         = Load("image", m.blocks) + Weight("image", c)
  BY <1>7, <1>8, <1>9, LoadExcept DEF b
<1>11. Load("mark", blocks) + Weight("mark", b) = Load("mark", m.blocks) + Weight("mark", c)
  BY <1>7, <1>8, <1>9, LoadExcept DEF b
<1>12. IsBlocks(blocks)
  BY <1>10, BlocksAre
<1> HIDE DEF blocks
<1>13. IsMessage(n) /\ Weight("images", n) = Load("image", blocks)
         /\ Weight("marks", n) = Load("mark", blocks)
  BY <1>2, <1>12, BlocksChanged
<1>14. Weight("images", m) = Load("image", m.blocks)
         /\ Weight("marks", m) = Load("mark", m.blocks)
  BY <1>2, MessageWeight
<1> HIDE DEF n
<1>15. IsMessages(t) /\ Load("images", t) + Weight("images", m)
         = Load("images", messages) + Weight("images", n)
  BY <1>13, MessageChanged
<1>16. Load("marks", t) + Weight("marks", m) = Load("marks", messages) + Weight("marks", n)
  BY <1>13, MessageChanged
<1> HIDE DEF m
<1>17. Load("image", blocks) \in Nat /\ Load("mark", blocks) \in Nat
  BY <1>12, BlocksWeigh, LoadNat
<1>18. Load("image", m.blocks) \in Nat /\ Load("mark", m.blocks) \in Nat
  BY <1>8, LoadNat
<1>19. Weight("image", b) \in Nat /\ Weight("mark", b) \in Nat /\ Weight("image", c) \in Nat
         /\ Weight("mark", c) \in Nat
  BY <1>7 DEF Fits
<1>20. HasOne(b.cc) \in Nat /\ HasOne(cc) \in Nat
  BY DEF HasOne
<1> HIDE DEF t
<1>21. /\ Load("images", t) \in Nat /\ Load("marks", t) \in Nat
       /\ Load("images", messages) \in Nat /\ Load("marks", messages) \in Nat
  BY <1>15, MessagesWeigh, LoadNat
<1>22. Load("images", t) = Load("images", messages)
  BY <1>5, <1>10, <1>13, <1>14, <1>15, <1>17, <1>18, <1>19, <1>21
<1>23. Load("marks", t) + HasOne(b.cc) = Load("marks", messages) + HasOne(cc)
  <2> DEFINE mb == Load("mark", blocks)
             mm == Load("mark", m.blocks)
             wb == Weight("mark", b)
             wc == Weight("mark", c)
             hb == HasOne(b.cc)
             hc == HasOne(cc)
             lt == Load("marks", t)
             lm == Load("marks", messages)
  <2>1. mb \in Nat /\ mm \in Nat /\ wb \in Nat /\ wc \in Nat /\ hb \in Nat /\ hc \in Nat
    BY <1>17, <1>18, <1>19, <1>20
  <2>2. lt \in Nat /\ lm \in Nat
    BY <1>21
  <2>3. wc + hb = wb + hc
    BY <1>6
  <2>4. mb + wb = mm + wc
    BY <1>11
  <2>5. lt + mm = lm + mb
    BY <1>13, <1>14, <1>16
  <2> HIDE DEF mb, mm, wb, wc, hb, hc, lt, lm
  <2>6. lt + hb = lm + hc
    BY <2>1, <2>2, <2>3, <2>4, <2>5
  <2> QED
    BY <2>6 DEF lt, lm, hb, hc
<1> QED
  BY <1>1, <1>15, <1>22, <1>23 DEF t, n, blocks, c, b, m

(* The other blocks keep theirs. *)
LEMMA WithMarkKeeps ==
  ASSUME NEW messages, IsMessages(messages), NEW i \in 1 .. Len(messages),
         NEW k \in 1 .. Len(messages[i].blocks), NEW cc,
         NEW j \in 1 .. Len(messages), NEW l \in 1 .. Len(messages[j].blocks)
  PROVE  LET t == WithMark(messages, i, k, cc)
         IN /\ Len(t) = Len(messages) /\ Len(t[j].blocks) = Len(messages[j].blocks)
            /\ t[j].blocks[l].cc = IF i = j /\ k = l THEN cc ELSE messages[j].blocks[l].cc
<1> DEFINE m == messages[i]
           c == [m.blocks[k] EXCEPT !.cc = cc]
           blocks == [m.blocks EXCEPT ![k] = c]
           n == [m EXCEPT !.blocks = blocks]
           t == [messages EXCEPT ![i] = n]
<1>1. WithMark(messages, i, k, cc) = t
  BY WithMarkIs
<1>2. IsMessage(m)
  BY DEF IsMessages
<1>3. IsBlocks(m.blocks)
  BY <1>2 DEF IsMessage
<1>4. IsBlock(m.blocks[k])
  BY <1>3 DEF IsBlocks
<1>5. c.cc = cc
  BY <1>4, MarkSet DEF IsBlock
<1> HIDE DEF c
<1>6. Len(blocks) = Len(m.blocks)
        /\ \A x \in 1 .. Len(m.blocks) : blocks[x] = IF x = k THEN c ELSE m.blocks[x]
  BY <1>3, ListExcept DEF IsBlocks
<1> HIDE DEF blocks
<1>7. n.blocks = blocks
  BY <1>2, BlocksSet DEF IsMessage
<1> HIDE DEF n
<1>8. Len(t) = Len(messages)
        /\ \A x \in 1 .. Len(messages) : t[x] = IF x = i THEN n ELSE messages[x]
  BY ListExcept DEF IsMessages
<1> HIDE DEF t
<1>9. CASE i = j
  <2>1. t[j] = n /\ m = messages[j]
    BY <1>8, <1>9
  <2>2. t[j].blocks = blocks
    BY <1>7, <2>1
  <2>3. blocks[l] = IF l = k THEN c ELSE messages[j].blocks[l]
    BY <1>6, <2>1
  <2> QED
    BY <1>1, <1>5, <1>6, <1>8, <1>9, <2>1, <2>2, <2>3 DEF t, n, blocks, c, m
<1>10. CASE i # j
  BY <1>1, <1>8, <1>10 DEF t, n, blocks, c, m
<1> QED
  BY <1>9, <1>10

(* The slab's anchor is a marked block. *)
LEMMA AnchorPlaces ==
  ASSUME NEW messages, IsMessages(messages), NEW a \in SlabAnchors(messages)
  PROVE  /\ a[1] \in 1 .. Len(messages) /\ a[2] \in 1 .. Len(messages[a[1]].blocks)
         /\ HasMark(messages[a[1]].blocks[a[2]])
<1>1. DOMAIN messages = 1 .. Len(messages)
  BY ListIs DEF IsMessages
<1>2. PICK i \in DOMAIN messages : a \in {i} \X PagesBeforeBoundary(messages[i])
  BY DEF SlabAnchors
<1>3. a[1] = i /\ a[2] \in PagesBeforeBoundary(messages[i])
  BY <1>2
<1>4. IsMessage(messages[i])
  BY <1>1 DEF IsMessages
<1>5. DOMAIN messages[i].blocks = 1 .. Len(messages[i].blocks)
  BY <1>4, ListIs DEF IsMessage, IsBlocks
<1>6. a[2] \in DOMAIN messages[i].blocks /\ HasMark(messages[i].blocks[a[2]])
  BY <1>3 DEF PagesBeforeBoundary
<1> QED
  BY <1>1, <1>3, <1>5, <1>6

(* There are not more blocks in a message than in all of them. *)
LEMMA BlocksBounded ==
  ASSUME NEW messages, IsMessages(messages)
  PROVE  \E n \in Nat : \A i \in 1 .. Len(messages) : Len(messages[i].blocks) <= n
<1> DEFINE w == [i \in 1 .. Len(messages) |-> Len(messages[i].blocks)]
<1>1. Len(messages) \in Nat
  BY ListIs DEF IsMessages
<1>2. \A i \in 1 .. Len(messages) : Len(messages[i].blocks) \in Nat
  BY ListIs DEF IsMessages, IsMessage, IsBlocks
<1>3. w \in Seq(Nat) /\ Len(w) = Len(messages)
  BY <1>1, <1>2
<1>4. \A i \in 1 .. Len(messages) : w[i] = Len(messages[i].blocks)
  OBVIOUS
<1> HIDE DEF w
<1>5. Total(w) \in Nat
  BY <1>3, TotalNat
<1>6. \A i \in 1 .. Len(messages) : Len(messages[i].blocks) <= Total(w)
  <2> TAKE i \in 1 .. Len(messages)
  <2>1. i \in 1 .. Len(w)
    BY <1>3
  <2>2. w[i] <= Total(w)
    BY <1>3, <2>1, TotalAtLeast
  <2> QED
    BY <1>4, <2>2
<1> QED
  BY <1>5, <1>6

(* There is a last one, which is the one that moves. *)
LEMMA SlabAnchorIs ==
  ASSUME NEW messages, IsMessages(messages), SlabAnchors(messages) # {}
  PROVE  SlabAnchor(messages) \in SlabAnchors(messages)
<1> DEFINE S == {a[2] : a \in SlabAnchors(messages)}
<1>1. PICK n \in Nat : \A i \in 1 .. Len(messages) : Len(messages[i].blocks) <= n
  BY BlocksBounded
<1>2. S \subseteq 1 .. n
  <2> SUFFICES ASSUME NEW a \in SlabAnchors(messages)
               PROVE  a[2] \in 1 .. n
    OBVIOUS
  <2>1. a[1] \in 1 .. Len(messages) /\ a[2] \in 1 .. Len(messages[a[1]].blocks)
    BY AnchorPlaces
  <2>2. IsMessage(messages[a[1]])
    BY <2>1 DEF IsMessages
  <2>3. Len(messages[a[1]].blocks) \in Nat
    BY <2>2, ListIs DEF IsMessage, IsBlocks
  <2>4. Len(messages[a[1]].blocks) <= n
    BY <1>1, <2>1
  <2> QED
    BY <2>1, <2>3, <2>4
<1>3. S # {}
  OBVIOUS
<1>4. PICK m \in S : \A x \in S : x <= m
  BY <1>2, <1>3, LastPlace
<1>5. \E a \in SlabAnchors(messages) : \A b \in SlabAnchors(messages) : b[2] <= a[2]
  BY <1>4
<1> QED
  BY <1>5 DEF SlabAnchor

(* The anchor is on the history instead of the slab, and not on both. *)
LEMMA AnchoredWeighs ==
  ASSUME NEW messages, IsMessages(messages), NEW from \in Nat, NEW carry \in Nat,
         from + 1 \in 1 .. Len(messages), carry + 1 \in 1 .. Len(messages[from + 1].blocks)
  PROVE  LET t == Anchored(messages, from, carry)
         IN /\ IsMessages(t)
            /\ Load("images", t) = Load("images", messages)
            /\ Load("marks", t) <= Load("marks", messages)
<1>n. Load("marks", messages) \in Nat
  BY MessagesWeigh, LoadNat
<1>1. CASE SlabAnchors(messages) = {}
  BY <1>1, <1>n DEF Anchored, MovedAnchor
<1>2. CASE SlabAnchors(messages) # {}
  <2> DEFINE slab == SlabAnchor(messages)
             cc == messages[slab[1]].blocks[slab[2]].cc
             i == slab[1]
             k == slab[2]
             u == WithMark(messages, from + 1, carry + 1, Demoted(cc))
             t == WithMark(u, i, k, NoMark)
  <2>1. slab \in SlabAnchors(messages)
    BY <1>2, SlabAnchorIs
  <2>2. i \in 1 .. Len(messages) /\ k \in 1 .. Len(messages[i].blocks) /\ cc # NoMark
    BY <2>1, AnchorPlaces DEF HasMark
  <2>3. Anchored(messages, from, carry) = t
    BY <1>2 DEF Anchored, MovedAnchor, OnHistory
  <2>4. Demoted(cc) # "global" /\ Demoted(cc) # NoMark /\ NoMark # "global"
    BY <2>2 DEF Demoted, NoMark
  <2>5. HasOne(Demoted(cc)) = 1 /\ HasOne(NoMark) = 0
    BY <2>4 DEF HasOne
  <2> HIDE DEF cc, i, k
  <2>6. IsMessages(u) /\ Load("images", u) = Load("images", messages)
    BY <2>4, WithMarkWeighs
  <2> DEFINE old == messages[from + 1].blocks[carry + 1].cc
  <2>7. Load("marks", u) + HasOne(old) = Load("marks", messages) + HasOne(Demoted(cc))
    BY <2>4, WithMarkWeighs
  <2>8. Len(u) = Len(messages) /\ Len(u[i].blocks) = Len(messages[i].blocks)
    BY <2>2, WithMarkKeeps
  <2>9. u[i].blocks[k].cc =
          IF from + 1 = i /\ carry + 1 = k THEN Demoted(cc) ELSE messages[i].blocks[k].cc
    BY <2>2, WithMarkKeeps
  <2>10. messages[i].blocks[k].cc # NoMark
    BY <2>2 DEF cc, i, k
  <2>11. HasOne(u[i].blocks[k].cc) = 1
    BY <2>4, <2>9, <2>10 DEF HasOne
  <2>12. i \in 1 .. Len(u) /\ k \in 1 .. Len(u[i].blocks)
    BY <2>2, <2>8
  <2> HIDE DEF u
  <2>13. IsMessages(t) /\ Load("images", t) = Load("images", u)
    BY <2>4, <2>6, <2>12, WithMarkWeighs
  <2>14. Load("marks", t) + HasOne(u[i].blocks[k].cc) = Load("marks", u) + HasOne(NoMark)
    BY <2>4, <2>6, <2>12, WithMarkWeighs
  <2> HIDE DEF t
  <2>15. Load("marks", t) \in Nat /\ Load("marks", u) \in Nat
    BY <2>6, <2>13, MessagesWeigh, LoadNat
  <2>16. HasOne(old) \in Nat
    BY DEF HasOne
  <2> HIDE DEF old
  <2> DEFINE lt == Load("marks", t)
             lu == Load("marks", u)
             lm == Load("marks", messages)
             ho == HasOne(old)
  <2>17. lt + 1 = lu + 0 /\ lu + ho = lm + 1
    BY <2>5, <2>7, <2>11, <2>14
  <2>18. lt \in Nat /\ lu \in Nat /\ lm \in Nat /\ ho \in Nat
    BY <1>n, <2>15, <2>16
  <2> HIDE DEF lt, lu, lm, ho
  <2>19. lt <= lm
    BY <2>17, <2>18
  <2> QED
    BY <2>3, <2>6, <2>13, <2>19 DEF lt, lm, t
<1> QED
  BY <1>1, <1>2

(* The pages of the history are in the message that takes its place. *)
LEMMA CollapsedPages ==
  ASSUME NEW messages, IsMessages(messages), NEW from \in Nat, NEW to \in from .. Len(messages),
         NEW n \in Nat
  PROVE  LET t == Collapsed(messages, from, to, HistoryPages(messages, from, to, n))
         IN Len(t[from + 1].blocks) = n + 1
<1> DEFINE pages == HistoryPages(messages, from, to, n)
           m == Synthetic(pages)
           a == SubSeq(messages, 1, from)
           c == SubSeq(messages, to + 1, Len(messages))
           one == <<m>>
           t == (a \o one) \o c
<1>0. IsList(messages) /\ Len(messages) \in Nat /\ to \in Nat /\ from <= to /\ to <= Len(messages)
  BY ListIs DEF IsMessages
<1>1. IsBlocks(pages) /\ Len(pages) = n
  BY HistoryWeighs
<1> HIDE DEF pages
<1>2. m.blocks = <<IntroText>> \o pages
  BY <1>1, SyntheticWeighs
<1>3. Len(m.blocks) = n + 1
  <2>1. Len(<<IntroText>> \o pages) = Len(<<IntroText>>) + Len(pages)
    BY <1>1, ListOne, ListConcat DEF IsBlocks
  <2> QED
    BY <1>1, <1>2, <2>1, ListOne
<1> HIDE DEF m
<1>4. IsList(a) /\ Len(a) = from
  BY <1>0, ListSub
<1>5. IsList(c)
  BY <1>0, ListSub
<1> HIDE DEF a, c
<1>6. IsList(one) /\ Len(one) = 1 /\ one[1] = m
  BY ListOne
<1> HIDE DEF one
<1>7. IsList(a \o one) /\ Len(a \o one) = from + 1
  <2>1. IsList(a \o one) /\ Len(a \o one) = Len(a) + Len(one)
    BY <1>4, <1>6, ListConcat
  <2> QED
    BY <1>4, <1>6, <2>1
<1>8. (a \o one)[from + 1] = m
  <2>1. \A i \in 1 .. Len(one) : (a \o one)[Len(a) + i] = one[i]
    BY <1>4, <1>6, ListConcat
  <2>2. 1 \in 1 .. Len(one)
    BY <1>6
  <2> QED
    BY <1>4, <1>6, <2>1, <2>2
<1>9. t[from + 1] = (a \o one)[from + 1]
  <2>1. \A i \in 1 .. Len(a \o one) : t[i] = (a \o one)[i]
    BY <1>5, <1>7, ListConcat
  <2>2. from + 1 \in 1 .. Len(a \o one)
    BY <1>7
  <2> QED
    BY <2>1, <2>2
<1> QED
  BY <1>3, <1>8, <1>9 DEF Collapsed, t, one, a, c, m, pages

-----------------------------------------------------------------------------
(* The pass that images the results.                                         *)

(* A text among the parts becomes pages. *)
Cut(parts, p, pages) == SubSeq(parts, 1, p - 1) \o pages \o SubSeq(parts, p + 1, Len(parts))

(* How long it is. *)
LEMMA CutIs ==
  ASSUME NEW parts, IsList(parts), NEW p \in 1 .. Len(parts), NEW pages, IsList(pages)
  PROVE  IsList(Cut(parts, p, pages)) /\ Len(Cut(parts, p, pages)) = Len(parts) + Len(pages) - 1
<1> DEFINE a == SubSeq(parts, 1, p - 1)
           c == SubSeq(parts, p + 1, Len(parts))
<1>0. Len(parts) \in Nat /\ p \in Nat /\ 1 <= p /\ p <= Len(parts) /\ Len(pages) \in Nat
  BY ListIs
<1>p. /\ 1 \in 1 .. Len(parts) + 1 /\ p - 1 \in 0 .. Len(parts) /\ 1 <= (p - 1) + 1
      /\ p + 1 \in 1 .. Len(parts) + 1 /\ Len(parts) \in 0 .. Len(parts)
      /\ p + 1 <= Len(parts) + 1
  BY <1>0
<1>1. IsList(a) /\ Len(a) = p - 1
  <2>1. IsList(a) /\ Len(a) = p - 1 - 1 + 1
    BY <1>p, ListSub
  <2> QED
    BY <1>0, <2>1
<1>2. IsList(c) /\ Len(c) = Len(parts) - p
  <2>1. IsList(c) /\ Len(c) = Len(parts) - (p + 1) + 1
    BY <1>p, ListSub
  <2> QED
    BY <1>0, <2>1
<1> HIDE DEF a, c
<1>3. IsList(a \o pages) /\ Len(a \o pages) = p - 1 + Len(pages)
  BY <1>1, ListConcat
<1>4. IsList((a \o pages) \o c) /\ Len((a \o pages) \o c) = p - 1 + Len(pages) + (Len(parts) - p)
  BY <1>2, <1>3, ListConcat
<1>5. Len((a \o pages) \o c) = Len(parts) + Len(pages) - 1
  BY <1>0, <1>4
<1> QED
  BY <1>4, <1>5 DEF Cut, a, c

(* What it weighs: the pages for the text. *)
LEMMA CutLoads ==
  ASSUME NEW kind, NEW parts, Weighed(kind, parts), NEW p \in 1 .. Len(parts),
         NEW pages, Weighed(kind, pages)
  PROVE  /\ Weighed(kind, Cut(parts, p, pages))
         /\ Load(kind, Cut(parts, p, pages)) + Weight(kind, parts[p])
              <= Load(kind, parts) + Load(kind, pages)
<1> DEFINE a == SubSeq(parts, 1, p - 1)
           b == SubSeq(parts, p, p)
           c == SubSeq(parts, p + 1, Len(parts))
<1>0. Len(parts) \in Nat /\ p \in Nat /\ 1 <= p /\ p <= Len(parts) /\ IsList(parts)
  BY ListIs DEF Weighed
<1>p. /\ 1 \in 1 .. Len(parts) + 1 /\ p - 1 \in 0 .. Len(parts) /\ 1 <= (p - 1) + 1
      /\ p \in 1 .. Len(parts) + 1 /\ p \in 0 .. Len(parts) /\ p <= p + 1 /\ p - 1 \in 0 .. p
      /\ p + 1 \in 1 .. Len(parts) + 1 /\ Len(parts) \in 0 .. Len(parts)
      /\ p + 1 <= Len(parts) + 1
      /\ (p - 1) + 1 = p
  BY <1>0
<1>1. Weighed(kind, a)
  BY <1>p, WeighedSub
<1>2. Weighed(kind, b)
  BY <1>p, WeighedSub
<1>3. Weighed(kind, c)
  BY <1>p, WeighedSub
<1>4. Load(kind, parts) = Load(kind, SubSeq(parts, 1, p)) + Load(kind, c)
  BY <1>p, LoadSplit
<1>5. Load(kind, SubSeq(parts, 1, p)) = Load(kind, a) + Load(kind, b)
  <2>1. Load(kind, SubSeq(parts, 1, p))
          = Load(kind, a) + Load(kind, SubSeq(parts, (p - 1) + 1, p))
    BY <1>p, LoadMiddle
  <2> QED
    BY <1>p, <2>1
<1>6. Weight(kind, parts[p]) <= Load(kind, b)
  <2>1. \A i \in 1 .. p - p + 1 : b[i] = parts[p + i - 1]
    BY <1>0, <1>p, ListSub
  <2>2. Len(b) = p - p + 1
    BY <1>0, <1>p, ListSub
  <2>3. 1 \in 1 .. p - p + 1 /\ p + 1 - 1 = p
    BY <1>0
  <2>4. b[1] = parts[p] /\ 1 \in 1 .. Len(b)
    BY <2>1, <2>2, <2>3
  <2> HIDE DEF b
  <2> QED
    BY <1>2, <2>4, LoadAtLeast
<1> HIDE DEF a, b, c
<1>7. Weighed(kind, a \o pages) /\ Load(kind, a \o pages) = Load(kind, a) + Load(kind, pages)
  BY <1>1, LoadConcat
<1>8. /\ Weighed(kind, (a \o pages) \o c)
      /\ Load(kind, (a \o pages) \o c) = Load(kind, a \o pages) + Load(kind, c)
  BY <1>3, <1>7, LoadConcat
<1>9. Cut(parts, p, pages) = (a \o pages) \o c
  BY DEF Cut, a, c
<1> DEFINE la == Load(kind, a)
           lb == Load(kind, b)
           lc == Load(kind, c)
           lp == Load(kind, pages)
           l == Load(kind, parts)
           t == Load(kind, Cut(parts, p, pages))
           w == Weight(kind, parts[p])
<1>10. la \in Nat /\ lb \in Nat /\ lc \in Nat /\ lp \in Nat
  BY <1>1, <1>2, <1>3, LoadNat
<1>11. w \in Nat
  BY DEF Weighed, Fits
<1>12. t = la + lp + lc /\ l = la + lb + lc /\ w <= lb
  BY <1>4, <1>5, <1>6, <1>7, <1>8, <1>9
<1> HIDE DEF la, lb, lc, lp, l, t, w
<1>13. t + w <= l + lp
  BY <1>10, <1>11, <1>12
<1> QED
  BY <1>8, <1>9, <1>13 DEF t, w, l, lp

(* A result with pages in place of a text weighs their images more, and its  *)
(* marker is on the last of them.                                            *)
LEMMA ImagedWeighs ==
  ASSUME NEW b, IsBlock(b), b.type = "result", NEW p \in 1 .. Len(b.parts), NEW n \in Nat \ {0}
  PROVE  LET c == Imaged(b, p, n)
         IN /\ IsBlock(c) /\ c.type = "result" /\ Len(c.parts) = Len(b.parts) + n - 1
            /\ Weight("image", c) <= Weight("image", b) + n
            /\ Weight("mark", c) <= Weight("mark", b)
<1> DEFINE cc == b.parts[p].cc
           pages == AsPages({<<b.at, "result">>}, n, Demoted(cc))
           parts == Cut(b.parts, p, pages)
           c == [b EXCEPT !.parts = parts]
<1>1. {"type", "cc"} \subseteq DOMAIN b /\ b.cc # "global" /\ "parts" \in DOMAIN b
        /\ IsParts(b.parts)
  BY DEF IsBlock
<1>2. Imaged(b, p, n) = c
  BY <1>1 DEF Imaged, Cut
<1>3. IsPart(b.parts[p])
  BY <1>1 DEF IsParts
<1>4. cc # "global"
  BY <1>3 DEF IsPart
<1>5. Demoted(cc) = cc
  BY <1>4 DEF Demoted
<1>6. HasOne(cc) = Weight("part mark", b.parts[p]) /\ Weight("part image", b.parts[p]) \in Nat
  BY <1>3, PartWeight DEF HasOne, HasMark, Fits
<1> HIDE DEF cc
<1>7. IsParts(pages) /\ IsList(pages) /\ Len(pages) = n
  BY <1>4, <1>5, PagesAre
<1>8. Load("part image", pages) <= n /\ Load("part mark", pages) = HasOne(cc)
  <2>1. PageKinds("part image", "part mark")
    BY DEF PageKinds
  <2> QED
    BY <1>4, <1>5, <2>1, PagesWeigh
<1> HIDE DEF pages
<1>9. Weighed("part image", pages) /\ Weighed("part mark", pages)
  BY <1>7, PartsWeigh
<1>10. Weighed("part image", b.parts) /\ Weighed("part mark", b.parts)
  BY <1>1, PartsWeigh
<1>11. /\ Weighed("part image", parts)
       /\ Load("part image", parts) + Weight("part image", b.parts[p])
            <= Load("part image", b.parts) + Load("part image", pages)
  BY <1>9, <1>10, CutLoads
<1>12. Load("part mark", parts) + Weight("part mark", b.parts[p])
         <= Load("part mark", b.parts) + Load("part mark", pages)
  BY <1>9, <1>10, CutLoads
<1>13. Len(parts) = Len(b.parts) + n - 1
  BY <1>1, <1>7, CutIs DEF IsParts
<1>14. IsParts(parts)
  BY <1>11, PartsAre
<1> HIDE DEF parts
<1>15. DOMAIN c = DOMAIN b /\ c.type = b.type /\ c.cc = b.cc /\ c.parts = parts
  BY <1>1
<1> HIDE DEF c
<1>16. IsBlock(c)
  BY <1>1, <1>14, <1>15 DEF IsBlock
<1>17. PartsImages(c) = Load("part image", parts) /\ PartsImages(b) = Load("part image", b.parts)
  BY <1>15 DEF PartsImages
<1>18. PartsMarks(c) = Load("part mark", parts) /\ PartsMarks(b) = Load("part mark", b.parts)
  BY <1>15 DEF PartsMarks
<1>19. /\ PartsImages(c) \in Nat /\ PartsImages(b) \in Nat
       /\ PartsMarks(c) \in Nat /\ PartsMarks(b) \in Nat
  BY <1>16, PartsNat
<1>20. Load("part image", pages) \in Nat /\ Load("part mark", pages) \in Nat
  BY <1>9, LoadNat
<1> DEFINE ic == PartsImages(c)
           ib == PartsImages(b)
           ip == Load("part image", pages)
           iw == Weight("part image", b.parts[p])
           mc == PartsMarks(c)
           mb == PartsMarks(b)
           mp == Load("part mark", pages)
           mw == Weight("part mark", b.parts[p])
<1>N. /\ ic \in Nat /\ ib \in Nat /\ ip \in Nat /\ iw \in Nat
      /\ mc \in Nat /\ mb \in Nat /\ mp \in Nat
  BY <1>6, <1>19, <1>20
<1>I. ic + iw <= ib + ip /\ ip <= n
  BY <1>8, <1>11, <1>17
<1>M. mc + mw <= mb + mp /\ mp = mw
  BY <1>6, <1>8, <1>12, <1>18
<1> HIDE DEF ic, ib, ip, iw, mc, mb, mp, mw
<1>O. ic <= ib + n /\ mc <= mb
  BY <1>N, <1>I, <1>M
<1>21. PartsImages(c) <= PartsImages(b) + n
  BY <1>O DEF ic, ib
<1>22. PartsMarks(c) <= PartsMarks(b)
  BY <1>O DEF mc, mb
<1>23. ~IsImage(c) /\ ~IsImage(b)
  BY <1>15 DEF IsImage
<1>24. Weight("image", c) = PartsImages(c) /\ Weight("image", b) = PartsImages(b)
  BY <1>16, <1>23, BlockImages
<1>25. Weight("mark", c) = (IF HasMark(c) THEN 1 ELSE 0) + PartsMarks(c)
  BY <1>16, BlockMarks
<1>26. Weight("mark", b) = (IF HasMark(b) THEN 1 ELSE 0) + PartsMarks(b)
  BY BlockMarks
<1>27. HasMark(c) <=> HasMark(b)
  BY <1>15 DEF HasMark
<1>28. Weight("image", c) <= Weight("image", b) + n
  BY <1>21, <1>24
<1>29. Weight("mark", c) <= Weight("mark", b)
  BY <1>19, <1>22, <1>25, <1>26, <1>27
<1> QED
  BY <1>2, <1>13, <1>15, <1>16, <1>28, <1>29 DEF c

(* A block that changes by no more than n images and no markers.             *)
LEMMA BlockBounded ==
  ASSUME NEW s, IsMessages(s), NEW i \in 1 .. Len(s), NEW k \in 1 .. Len(s[i].blocks),
         NEW x, IsBlock(x), NEW n \in Nat,
         Weight("image", x) <= Weight("image", s[i].blocks[k]) + n,
         Weight("mark", x) <= Weight("mark", s[i].blocks[k])
  PROVE  LET t == [s EXCEPT ![i].blocks[k] = x]
         IN /\ IsMessages(t)
            /\ Load("images", t) <= Load("images", s) + n
            /\ Load("marks", t) <= Load("marks", s)
<1> DEFINE m == s[i]
           b == m.blocks[k]
           blocks == [m.blocks EXCEPT ![k] = x]
           t == [s EXCEPT ![i] = [s[i] EXCEPT !.blocks = blocks]]
<1>1. IsMessage(m)
  BY DEF IsMessages
<1>2. IsBlocks(m.blocks)
  BY <1>1 DEF IsMessage
<1>3. IsBlock(b)
  BY <1>2 DEF IsBlocks
<1>4. Fits("image", x) /\ Fits("mark", x) /\ Fits("image", b) /\ Fits("mark", b)
  BY <1>3, BlockImages, BlockMarks
<1>5. Weighed("image", m.blocks) /\ Weighed("mark", m.blocks)
  BY <1>2, BlocksWeigh
<1>6. k \in 1 .. Len(m.blocks)
  OBVIOUS
<1>7. /\ Weighed("image", blocks)
      /\ Load("image", blocks) + Weight("image", b) = Load("image", m.blocks) + Weight("image", x)
  BY <1>4, <1>5, <1>6, LoadExcept
<1>8. Load("mark", blocks) + Weight("mark", b) = Load("mark", m.blocks) + Weight("mark", x)
  BY <1>4, <1>5, <1>6, LoadExcept
<1>9. IsBlocks(blocks)
  BY <1>7, BlocksAre
<1>10. Load("image", blocks) \in Nat /\ Load("mark", blocks) \in Nat
  BY <1>9, BlocksWeigh, LoadNat
<1>11. Load("image", m.blocks) \in Nat /\ Load("mark", m.blocks) \in Nat
  BY <1>5, LoadNat
<1>12. /\ Weight("image", b) \in Nat /\ Weight("mark", b) \in Nat
       /\ Weight("image", x) \in Nat /\ Weight("mark", x) \in Nat
  BY <1>4 DEF Fits
<1>13. t = [s EXCEPT ![i].blocks[k] = x]
  <2>1. DOMAIN s = 1 .. Len(s)
    BY ListIs DEF IsMessages
  <2> QED
    BY <1>1, <2>1 DEF IsMessage
<1>w. Weight("image", x) <= Weight("image", b) + n /\ Weight("mark", x) <= Weight("mark", b)
  OBVIOUS
<1> HIDE DEF blocks
<1> DEFINE il == Load("image", blocks)
           im == Load("image", m.blocks)
           ib == Weight("image", b)
           ix == Weight("image", x)
           ml == Load("mark", blocks)
           mm == Load("mark", m.blocks)
           mb == Weight("mark", b)
           mx == Weight("mark", x)
<1>N. /\ il \in Nat /\ im \in Nat /\ ib \in Nat /\ ix \in Nat
      /\ ml \in Nat /\ mm \in Nat /\ mb \in Nat /\ mx \in Nat
  BY <1>10, <1>11, <1>12
<1>E. il + ib = im + ix /\ ml + mb = mm + mx /\ ix <= ib + n /\ mx <= mb
  BY <1>7, <1>8, <1>w
<1> HIDE DEF il, im, ib, ix, ml, mm, mb, mx
<1>L. il <= im + n /\ ml <= mm + 0
  BY <1>N, <1>E
<1>14. Load("image", blocks) <= Load("image", s[i].blocks) + n
  BY <1>L DEF il, im
<1>15. Load("mark", blocks) <= Load("mark", s[i].blocks) + 0
  BY <1>L DEF ml, mm
<1>16. IsMessages(t) /\ Load("images", t) <= Load("images", s) + n
         /\ Load("marks", t) <= Load("marks", s) + 0
  BY <1>9, <1>14, <1>15, ChangeBounded
<1>17. Load("marks", s) \in Nat
  BY MessagesWeigh, LoadNat
<1> HIDE DEF t
<1> QED
  BY <1>13, <1>16, <1>17

(* Only it changes. *)
LEMMA BlockSet ==
  ASSUME NEW s, IsMessages(s), NEW i \in 1 .. Len(s), NEW k \in 1 .. Len(s[i].blocks), NEW x,
         NEW j \in 1 .. Len(s), NEW l \in 1 .. Len(s[j].blocks)
  PROVE  LET t == [s EXCEPT ![i].blocks[k] = x]
         IN /\ Len(t) = Len(s) /\ Len(t[j].blocks) = Len(s[j].blocks)
            /\ t[j].blocks[l] = IF j = i /\ l = k THEN x ELSE s[j].blocks[l]
<1> DEFINE blocks == [s[i].blocks EXCEPT ![k] = x]
           n == [s[i] EXCEPT !.blocks = blocks]
           t == [s EXCEPT ![i] = n]
<1>1. IsMessage(s[i]) /\ DOMAIN s = 1 .. Len(s)
  BY ListIs DEF IsMessages
<1>2. t = [s EXCEPT ![i].blocks[k] = x]
  BY <1>1 DEF IsMessage
<1>3. /\ Len(blocks) = Len(s[i].blocks)
      /\ \A y \in 1 .. Len(s[i].blocks) : blocks[y] = IF y = k THEN x ELSE s[i].blocks[y]
  BY <1>1, ListExcept DEF IsMessage, IsBlocks
<1> HIDE DEF blocks
<1>4. n.blocks = blocks
  BY <1>1, BlocksSet DEF IsMessage
<1> HIDE DEF n
<1>5. Len(t) = Len(s) /\ \A y \in 1 .. Len(s) : t[y] = IF y = i THEN n ELSE s[y]
  BY ListExcept DEF IsMessages
<1> HIDE DEF t
<1>6. CASE j = i
  <2>1. t[j].blocks = blocks /\ s[j].blocks = s[i].blocks
    BY <1>4, <1>5, <1>6
  <2>2. blocks[l] = IF l = k THEN x ELSE s[j].blocks[l]
    BY <1>3, <1>6
  <2> QED
    BY <1>2, <1>3, <1>5, <1>6, <2>1, <2>2
<1>7. CASE j # i
  BY <1>2, <1>5, <1>7
<1> QED
  BY <1>6, <1>7

(* A place of a part of a result.                                            *)
PlaceIn(messages, c) ==
  /\ c[1] \in 1 .. Len(messages) /\ c[2] \in 1 .. Len(messages[c[1]].blocks)
  /\ messages[c[1]].blocks[c[2]].type = "result"
  /\ c[3] \in 1 .. Len(messages[c[1]].blocks[c[2]].parts)
PlacesIn(messages, S) == \A c \in S : PlaceIn(messages, c)

(* The results that are found are in the request. *)
LEMMA CandidatesArePlaces ==
  ASSUME NEW messages, IsMessages(messages)
  PROVE  PlacesIn(messages, Candidates(messages))
<1> SUFFICES ASSUME NEW c \in Candidates(messages)
             PROVE  PlaceIn(messages, c)
  BY DEF PlacesIn
<1>1. DOMAIN messages = 1 .. Len(messages)
  BY ListIs DEF IsMessages
<1>2. PICK i \in Users(messages) :
        c \in UNION {{<<i, k, p>> : p \in TextParts(messages[i].blocks[k])} :
          k \in DOMAIN messages[i].blocks}
  BY DEF Candidates
<1>3. PICK k \in DOMAIN messages[i].blocks :
       c \in {<<i, k, p>> : p \in TextParts(messages[i].blocks[k])}
  BY <1>2
<1>4. PICK p \in TextParts(messages[i].blocks[k]) : c = <<i, k, p>>
  BY <1>3
<1>5. i \in 1 .. Len(messages)
  BY <1>1 DEF Users
<1>6. IsMessage(messages[i])
  BY <1>5 DEF IsMessages
<1>7. k \in 1 .. Len(messages[i].blocks)
  BY <1>6, ListIs DEF IsMessage, IsBlocks
<1> DEFINE b == messages[i].blocks[k]
<1>8. IsBlock(b)
  BY <1>6, <1>7 DEF IsMessage, IsBlocks
<1>9. b.type = "result" /\ p \in DOMAIN b.parts
  BY <1>4 DEF TextParts
<1>10. p \in 1 .. Len(b.parts)
  BY <1>8, <1>9, ListIs DEF IsBlock, IsParts
<1> QED
  BY <1>4, <1>5, <1>7, <1>9, <1>10 DEF PlaceIn

(* The places after one was looked at. *)
Rest(S, c, n) == {Moved(d, c, n) : d \in S \ {c}}

(* They stay places when one of them becomes pages, the later ones moved.    *)
LEMMA PlacesMove ==
  ASSUME NEW messages, IsMessages(messages), NEW S, PlacesIn(messages, S), NEW c \in S,
         NEW n \in Nat \ {0}
  PROVE  PlacesIn([messages EXCEPT ![c[1]].blocks[c[2]]
    = Imaged(messages[c[1]].blocks[c[2]], c[3], n)],
                  Rest(S, c, n))
<1> DEFINE b == messages[c[1]].blocks[c[2]]
           x == Imaged(b, c[3], n)
           t == [messages EXCEPT ![c[1]].blocks[c[2]] = x]
<1> SUFFICES ASSUME NEW d \in S
             PROVE  PlaceIn(t, Moved(d, c, n))
  BY DEF PlacesIn, Rest
<1>1. PlaceIn(messages, c) /\ PlaceIn(messages, d)
  BY DEF PlacesIn
<1>2. c[1] \in 1 .. Len(messages) /\ c[2] \in 1 .. Len(messages[c[1]].blocks)
  BY <1>1 DEF PlaceIn
<1>3. d[1] \in 1 .. Len(messages) /\ d[2] \in 1 .. Len(messages[d[1]].blocks)
  BY <1>1 DEF PlaceIn
<1>4. IsMessage(messages[c[1]]) /\ IsMessage(messages[d[1]])
  BY <1>2, <1>3 DEF IsMessages
<1>5. IsBlock(b) /\ b.type = "result" /\ c[3] \in 1 .. Len(b.parts)
  BY <1>1, <1>2, <1>4 DEF PlaceIn, IsMessage, IsBlocks
<1>6. IsList(b.parts)
  BY <1>5 DEF IsBlock, IsParts
<1>7. x.type = "result" /\ Len(x.parts) = Len(b.parts) + n - 1
  BY <1>5, ImagedWeighs
<1> HIDE DEF x
<1>8. Len(t) = Len(messages) /\ Len(t[d[1]].blocks) = Len(messages[d[1]].blocks)
  BY <1>2, <1>3, BlockSet
<1>9. t[d[1]].blocks[d[2]] = IF d[1] = c[1] /\ d[2] = c[2] THEN x ELSE messages[d[1]].blocks[d[2]]
  BY <1>2, <1>3, BlockSet
<1> HIDE DEF t
<1>10. CASE d[1] = c[1] /\ d[2] = c[2]
  <2>1. Moved(d, c, n) = <<d[1], d[2], d[3] + n - 1>>
    BY <1>10 DEF Moved
  <2>2. t[d[1]].blocks[d[2]] = x
    BY <1>9, <1>10
  <2>3. d[3] \in 1 .. Len(b.parts)
    BY <1>1, <1>10 DEF PlaceIn
  <2>4. d[3] + n - 1 \in 1 .. Len(x.parts)
    <3>1. Len(b.parts) \in Nat
      BY <1>6, ListIs
    <3> DEFINE p == d[3]
               l == Len(b.parts)
    <3>2. p \in 1 .. l /\ l \in Nat /\ Len(x.parts) = l + n - 1
      BY <1>7, <2>3, <3>1
    <3> HIDE DEF p, l
    <3>3. p + n - 1 \in 1 .. (l + n - 1)
      BY <3>2
    <3> QED
      BY <3>2, <3>3 DEF p
  <2> DEFINE e == Moved(d, c, n)
  <2>5. e[1] = d[1] /\ e[2] = d[2] /\ e[3] = d[3] + n - 1
    BY <2>1
  <2> HIDE DEF e
  <2>6. e[1] \in 1 .. Len(t) /\ e[2] \in 1 .. Len(t[e[1]].blocks) /\ t[e[1]].blocks[e[2]] = x
    BY <1>3, <1>8, <2>2, <2>5
  <2>7. e[3] \in 1 .. Len(x.parts)
    BY <2>4, <2>5
  <2>8. PlaceIn(t, e)
    BY <1>7, <2>6, <2>7 DEF PlaceIn
  <2> QED
    BY <2>8 DEF e
<1>11. CASE ~(d[1] = c[1] /\ d[2] = c[2])
  <2>1. Moved(d, c, n) = d
    BY <1>11 DEF Moved
  <2>2. t[d[1]].blocks[d[2]] = messages[d[1]].blocks[d[2]]
    BY <1>9, <1>11
  <2> QED
    BY <1>1, <1>3, <1>8, <2>1, <2>2 DEF PlaceIn
<1> QED
  BY <1>10, <1>11 DEF t, x

(* And when one of them is left as it is. *)
LEMMA PlacesKept ==
  ASSUME NEW messages, NEW S, PlacesIn(messages, S), NEW c
  PROVE  PlacesIn(messages, Rest(S, c, 1))
<1> SUFFICES ASSUME NEW d \in S
             PROVE  PlaceIn(messages, Moved(d, c, 1))
  BY DEF PlacesIn, Rest
<1>1. PlaceIn(messages, d)
  BY DEF PlacesIn
<1>2. CASE d[1] = c[1] /\ d[2] = c[2]
  <2>1. Moved(d, c, 1) = <<d[1], d[2], d[3] + 1 - 1>>
    BY <1>2 DEF Moved
  <2>2. d[3] \in Int
    BY <1>1 DEF PlaceIn
  <2>3. d[3] + 1 - 1 = d[3]
    BY <2>2
  <2> DEFINE e == Moved(d, c, 1)
  <2>4. e[1] = d[1] /\ e[2] = d[2] /\ e[3] = d[3]
    BY <2>1, <2>3
  <2> HIDE DEF e
  <2>5. PlaceIn(messages, e)
    BY <1>1, <2>4 DEF PlaceIn
  <2> QED
    BY <2>5 DEF e
<1>3. CASE ~(d[1] = c[1] /\ d[2] = c[2])
  BY <1>1, <1>3 DEF Moved
<1> QED
  BY <1>2, <1>3

-----------------------------------------------------------------------------
(* The pass that says the pins.                                              *)

(* A block without images, parts or a marker weighs nothing. *)
LEMMA PlainWeighs ==
  ASSUME NEW b, {"type", "cc"} \subseteq DOMAIN b, b.cc = NoMark, b.type = "pins"
  PROVE  IsBlock(b) /\ Weight("image", b) = 0 /\ Weight("mark", b) = 0
<1>1. IsBlock(b)
  BY DEF IsBlock, NoMark
<1>2. PartsImages(b) = 0 /\ PartsMarks(b) = 0
  BY DEF PartsImages, PartsMarks
<1>3. ~IsImage(b) /\ ~HasMark(b)
  BY DEF IsImage, HasMark
<1>4. Weight("image", b) = 0
  BY <1>1, <1>2, <1>3, BlockImages
<1>5. Weight("mark", b) = 0
  BY <1>1, <1>2, <1>3, BlockMarks
<1> QED
  BY <1>1, <1>4, <1>5

(* The list of pins weighs nothing. *)
LEMMA PinsWeigh ==
  ASSUME NEW messages, IsMessages(messages), NEW list
  PROVE  LET t == SayPins(messages, list)
         IN /\ IsMessages(t)
            /\ Load("images", t) <= Load("images", messages)
            /\ Load("marks", t) <= Load("marks", messages)
<1>n. Load("images", messages) \in Nat /\ Load("marks", messages) \in Nat
  BY MessagesWeigh, LoadNat
<1>1. CASE PinBlock(list) = <<>> \/ ~CanAppendPinBlock(messages)
  <2>1. SayPins(messages, list) = messages
    BY <1>1 DEF SayPins, AppendPinBlock
  <2> QED
    BY <1>n, <2>1
<1>2. CASE ~(PinBlock(list) = <<>> \/ ~CanAppendPinBlock(messages))
  <2> DEFINE l == Len(messages)
             old == messages[l].blocks
             b == PinsBlock(PinBlock(list))
             blocks == Append(old, b)
             t == [messages EXCEPT ![l] = [messages[l] EXCEPT !.blocks = blocks]]
  <2>1. IsList(messages) /\ l \in Nat /\ DOMAIN messages = 1 .. l
    BY ListIs DEF IsMessages
  <2>2. l \in 1 .. Len(messages)
    <3>1. messages # <<>>
      BY <1>2 DEF CanAppendPinBlock
    <3>2. l # 0
      <4> SUFFICES ASSUME l = 0
                   PROVE  FALSE
        OBVIOUS
      <4>1. \A i \in 1 .. Len(messages) : messages[i] = <<>>[i]
        BY <2>1
      <4>2. messages = <<>>
        BY <2>1, <4>1, ListEmpty, SameList
      <4> QED
        BY <3>1, <4>2
    <3> QED
      BY <2>1, <3>2
  <2>3. IsMessage(messages[l])
    BY <2>2 DEF IsMessages
  <2>4. SayPins(messages, list) = t
    <3>1. SayPins(messages, list) = [messages EXCEPT ![Len(messages)].blocks = Append(@, b)]
      BY <1>2 DEF SayPins, AppendPinBlock
    <3>2. "blocks" \in DOMAIN messages[l]
      BY <2>3 DEF IsMessage
    <3> QED
      BY <2>1, <2>2, <3>1, <3>2
  <2>5. {"type", "cc"} \subseteq DOMAIN b /\ b.cc = NoMark /\ b.type = "pins"
    BY DEF PinsBlock
  <2> HIDE DEF b
  <2>6. IsBlock(b) /\ Weight("image", b) = 0 /\ Weight("mark", b) = 0
    BY <2>5, PlainWeighs
  <2>7. Fits("image", b) /\ Fits("mark", b)
    BY <2>6, BlockImages, BlockMarks
  <2>8. Weighed("image", old) /\ Weighed("mark", old)
    BY <2>3, BlocksWeigh DEF IsMessage
  <2>9. Weighed("image", blocks) /\ Load("image", blocks) = Load("image", old) + 0
    BY <2>6, <2>7, <2>8, LoadAppend
  <2>10. Load("mark", blocks) = Load("mark", old) + 0
    BY <2>6, <2>7, <2>8, LoadAppend
  <2>11. IsBlocks(blocks)
    BY <2>9, BlocksAre
  <2>12. Load("image", old) \in Nat /\ Load("mark", old) \in Nat
    BY <2>8, LoadNat
  <2>13. Load("image", blocks) <= Load("image", messages[l].blocks) + 0
    BY <2>9, <2>12
  <2>14. Load("mark", blocks) <= Load("mark", messages[l].blocks) + 0
    BY <2>10, <2>12
  <2> HIDE DEF blocks
  <2>15. /\ IsMessages(t) /\ Load("images", t) <= Load("images", messages) + 0
         /\ Load("marks", t) <= Load("marks", messages) + 0
    BY <2>2, <2>11, <2>13, <2>14, ChangeBounded
  <2> HIDE DEF t
  <2> QED
    BY <1>n, <2>4, <2>15
<1> QED
  BY <1>1, <1>2

-----------------------------------------------------------------------------
(* The invariant.                                                            *)

(* What the client has is well formed. *)
ConvInv == IsMessages(conv) /\ IsSystem(setup.system)

(* A request of a conversation fits: it has no more than n images, and no    *)
(* more markers than it came with.                                           *)
IsRequest(r) == {"messages", "system"} \subseteq DOMAIN r /\ IsMessages(r.messages)
                  /\ IsSystem(r.system)

MarkLoad(messages, system) == Load("marks", messages) + MarksIn(system)

RequestFits(r, messages, system, n) ==
  /\ IsRequest(r)
  /\ Load("images", r.messages) <= n
  /\ MarkLoad(r.messages, r.system) <= MarkLoad(messages, system)

(* The proxy has counted what is in the request that is open. *)
OpenInv ==
  pc # "client" =>
    RequestFits(req, conv, setup.system, images + native) /\ native = Load("images", conv)

(* The counters, and what they leave.                                        *)
NumInv ==
  /\ images \in Nat /\ bytes \in Nat /\ native \in Nat /\ BudgetsKept
  /\ pc = "client" => req = Idle

(* The results that are left are places of the request.                      *)
ResInv == pc = "image" => PlacesIn(req.messages, results)

(* What holds of every state.                                                *)
Inv == ConvInv /\ OpenInv /\ NumInv /\ ResInv

(* What is taken of what is left leaves room for the others. *)
LEMMA RoomKept ==
  ASSUME NEW m \in Int, NEW n \in Nat, NEW taken \in Nat, NEW more \in Nat \ {0},
         more <= Greater(0, m - taken - n)
  PROVE  taken + more + n <= Greater(n, m)
BY DEF Greater

(* What a rendering takes of the budgets was left of them. *)
LEMMA RoomTaken ==
  ASSUME images \in Nat, bytes \in Nat, native \in Nat,
         NEW r \in Renderings, r.pages <= ImageHeadroom, r.bytes <= ByteHeadroom
  PROVE  /\ r.pages \in Nat \ {0} /\ r.bytes \in Nat \ {0}
         /\ images + r.pages + native <= Greater(native, MaxImages - SafetyMargin)
         /\ bytes + r.bytes + native <= Greater(native, MaxBytes)
<1>1. r.pages \in Nat \ {0} /\ r.bytes \in Nat \ {0}
  BY ImageAssumption
<1>2. MaxImages - SafetyMargin \in Int /\ MaxBytes \in Int
  BY ImageAssumption
<1>3. r.pages <= Greater(0, MaxImages - SafetyMargin - images - native)
  BY DEF ImageHeadroom, Headroom, HeadroomOfAll
<1>4. r.bytes <= Greater(0, MaxBytes - bytes - native)
  BY DEF ByteHeadroom
<1> DEFINE p == r.pages
           y == r.bytes
           m == MaxImages - SafetyMargin
<1>5. p \in Nat \ {0} /\ y \in Nat \ {0} /\ m \in Int
  BY <1>1, <1>2
<1>6. p <= Greater(0, m - images - native)
  BY <1>3
<1>7. y <= Greater(0, MaxBytes - bytes - native)
  BY <1>4
<1> HIDE DEF p, y, m
<1>8. images + p + native <= Greater(native, m)
  BY <1>5, <1>6, RoomKept
<1>9. bytes + y + native <= Greater(native, MaxBytes)
  BY <1>2, <1>5, <1>7, RoomKept
<1> QED
  BY <1>1, <1>8, <1>9 DEF p, y, m

(* Without images of the proxy there is room for those of the client. *)
LEMMA RoomLeft ==
  ASSUME NEW n \in Nat
  PROVE  /\ 0 + n <= Greater(n, MaxImages - SafetyMargin)
         /\ 0 + n <= Greater(n, MaxBytes)
BY ImageAssumption DEF Greater

(* The protected head is a number of messages. *)
LEMMA HeadIsNat ==
  ASSUME IsMessages(req.messages)
  PROVE  ProtectedHead \in Nat
<1> DEFINE n == Len(req.messages)
           S == {i \in DOMAIN req.messages : \E j \in FirstUser(req.messages) : i <= j}
<1>1. n \in Nat /\ DOMAIN req.messages = 1 .. n
  BY ListIs DEF IsMessages
<1>2. IsFiniteSet(1 .. n)
  BY <1>1, FS_Interval
<1>3. S \subseteq 1 .. n
  BY <1>1
<1>4. IsFiniteSet(S)
  BY <1>2, <1>3, FS_Subset
<1>5. Cardinality(S) \in Nat
  BY <1>4, FS_CardinalityType
<1> QED
  BY <1>5 DEF ProtectedHead

(* What they weigh are numbers. *)
LEMMA MarkLoadNat ==
  ASSUME NEW messages, IsMessages(messages), NEW system, IsSystem(system)
  PROVE  /\ MarkLoad(messages, system) \in Nat /\ Load("images", messages) \in Nat
         /\ Load("marks", messages) \in Nat /\ MarksIn(system) \in Nat
<1>1. Load("images", messages) \in Nat /\ Load("marks", messages) \in Nat
  BY MessagesWeigh, LoadNat
<1>2. MarksIn(system) \in Nat
  <2>1. Load("system mark", system) \in Nat
    BY SystemWeighs, LoadNat
  <2> QED
    BY <2>1, SystemLoad
<1>3. MarkLoad(messages, system) = Load("marks", messages) + MarksIn(system)
  BY DEF MarkLoad
<1> QED
  BY <1>1, <1>2, <1>3

(* A request that takes no more than k images more fits with k more. *)
LEMMA FitsStill ==
  ASSUME NEW r, NEW messages, NEW system, NEW n \in Nat, RequestFits(r, messages, system, n),
         IsMessages(messages), IsSystem(system),
         NEW q, IsRequest(q), NEW k \in Nat,
         Load("images", q.messages) <= Load("images", r.messages) + k,
         MarkLoad(q.messages, q.system) <= MarkLoad(r.messages, r.system)
  PROVE  RequestFits(q, messages, system, n + k)
<1> DEFINE ir == Load("images", r.messages)
           iq == Load("images", q.messages)
           mr == MarkLoad(r.messages, r.system)
           mq == MarkLoad(q.messages, q.system)
           m == MarkLoad(messages, system)
<1>1. ir \in Nat /\ mr \in Nat
  BY MarkLoadNat DEF RequestFits, IsRequest
<1>2. iq \in Nat /\ mq \in Nat
  BY MarkLoadNat DEF IsRequest
<1>3. m \in Nat
  BY MarkLoadNat
<1>4. ir <= n /\ mr <= m /\ iq <= ir + k /\ mq <= mr
  BY DEF RequestFits
<1> HIDE DEF ir, iq, mr, mq, m
<1>5. iq <= n + k /\ mq <= m
  BY <1>1, <1>2, <1>3, <1>4
<1> QED
  BY <1>5 DEF RequestFits, iq, mq, m

(* The request the client sent fits. *)
LEMMA OriginalFits ==
  ASSUME NEW r, IsRequest(r)
  PROVE  RequestFits(r, r.messages, r.system, 0 + Load("images", r.messages))
<1>1. Load("images", r.messages) \in Nat /\ MarkLoad(r.messages, r.system) \in Nat
  BY MarkLoadNat DEF IsRequest
<1> QED
  BY <1>1 DEF RequestFits

(* The messages of a request are replaced. *)
LEMMA MessagesSet ==
  ASSUME NEW r, {"messages", "system"} \subseteq DOMAIN r, NEW messages
  PROVE  LET q == [r EXCEPT !.messages = messages]
         IN DOMAIN q = DOMAIN r /\ q.messages = messages /\ q.system = r.system
OBVIOUS

(* A request whose messages weigh no more than n images more. *)
LEMMA MessagesFit ==
  ASSUME NEW r, IsRequest(r), NEW messages, IsMessages(messages), NEW n \in Nat,
         Load("images", messages) <= Load("images", r.messages) + n,
         Load("marks", messages) <= Load("marks", r.messages)
  PROVE  LET q == [r EXCEPT !.messages = messages]
         IN /\ IsRequest(q)
            /\ Load("images", q.messages) <= Load("images", r.messages) + n
            /\ MarkLoad(q.messages, q.system) <= MarkLoad(r.messages, r.system)
<1> DEFINE q == [r EXCEPT !.messages = messages]
<1>1. DOMAIN q = DOMAIN r /\ q.messages = messages /\ q.system = r.system
  BY MessagesSet DEF IsRequest
<1> HIDE DEF q
<1>2. IsRequest(q)
  BY <1>1 DEF IsRequest
<1> DEFINE a == Load("marks", messages)
           b == Load("marks", r.messages)
           c == MarksIn(r.system)
<1>3. a \in Nat /\ b \in Nat /\ c \in Nat
  BY MarkLoadNat DEF IsRequest
<1>4. MarkLoad(q.messages, q.system) = a + c /\ MarkLoad(r.messages, r.system) = b + c /\ a <= b
  BY <1>1 DEF MarkLoad
<1> HIDE DEF a, b, c
<1>5. a + c <= b + c
  BY <1>3, <1>4
<1> QED
  BY <1>1, <1>2, <1>4, <1>5 DEF q

(* The commands are stripped. *)
LEMMA StrippedFits ==
  ASSUME NEW r, IsRequest(r)
  PROVE  LET q == [r EXCEPT !.messages = StripPinCommands(@), !.system = StripSystem(@)]
         IN /\ IsRequest(q)
            /\ Load("images", q.messages) <= Load("images", r.messages) + 0
            /\ MarkLoad(q.messages, q.system) <= MarkLoad(r.messages, r.system)
<1> DEFINE messages == StripPinCommands(r.messages)
           system == StripSystem(r.system)
           q == [r EXCEPT !.messages = messages, !.system = system]
<1>1. q = [r EXCEPT !.messages = StripPinCommands(@), !.system = StripSystem(@)]
  BY DEF IsRequest
<1>2. DOMAIN q = DOMAIN r /\ q.messages = messages /\ q.system = system
  BY DEF IsRequest
<1>3. /\ IsMessages(messages) /\ Load("images", messages) <= Load("images", r.messages)
      /\ Load("marks", messages) <= Load("marks", r.messages)
  BY CommandsWeigh DEF IsRequest
<1>4. IsSystem(system) /\ MarksIn(system) <= MarksIn(r.system)
  BY SystemStripped DEF IsRequest
<1> HIDE DEF q, messages, system
<1>5. IsRequest(q)
  BY <1>2, <1>3, <1>4 DEF IsRequest
<1> DEFINE a == Load("marks", messages)
           b == Load("marks", r.messages)
           c == MarksIn(system)
           d == MarksIn(r.system)
<1>6. a \in Nat /\ c \in Nat
  BY <1>3, <1>4, MarkLoadNat
<1>7. b \in Nat /\ d \in Nat /\ Load("images", r.messages) \in Nat
  BY MarkLoadNat DEF IsRequest
<1>8. MarkLoad(q.messages, q.system) = a + c /\ MarkLoad(r.messages, r.system) = b + d
        /\ a <= b /\ c <= d
  BY <1>2, <1>3, <1>4 DEF MarkLoad
<1> HIDE DEF a, b, c, d
<1>9. a + c <= b + d
  BY <1>6, <1>7, <1>8
<1>10. Load("images", q.messages) <= Load("images", r.messages) + 0
  BY <1>2, <1>3, <1>7
<1> QED
  BY <1>1, <1>5, <1>8, <1>9, <1>10

(* The slab has as many images as pages, and the marker of the system text.  *)
LEMMA SlabFits ==
  ASSUME NEW r, IsRequest(r), NEW n \in Nat \ {0}
  PROVE  LET q == WithSlab(r, n)
         IN /\ IsRequest(q)
            /\ Load("images", q.messages) <= Load("images", r.messages) + n
            /\ MarkLoad(q.messages, q.system) <= MarkLoad(r.messages, r.system)
<1> DEFINE cc == Demoted(SystemMark(r.system))
           pages == AsPages(SlabItems(r), n, cc)
           k == HasOne(cc)
           q == WithSlab(r, n)
<1>1. IsMessages(r.messages) /\ IsSystem(r.system)
  BY DEF IsRequest
<1>2. cc # "global"
  BY DEF Demoted
<1>3. k \in Nat /\ k <= MarksIn(r.system)
  BY <1>1, SystemMarkCounts DEF HasOne
<1> HIDE DEF cc
<1>4. IsBlocks(pages)
  BY <1>2, PagesAre
<1>5. Load("image", pages) <= n /\ Load("mark", pages) = k
  <2>1. PageKinds("image", "mark")
    BY DEF PageKinds
  <2> QED
    BY <1>2, <2>1, PagesWeigh
<1>6. q.messages = SlabFor(r.messages, pages) /\ q.system = SystemTail(r.system)
      /\ {"messages", "system"} \subseteq DOMAIN q
  BY DEF WithSlab, SlabFor, cc
<1> HIDE DEF pages, k, q
<1>7. Load("mark", pages) <= k
  BY <1>3, <1>5
<1> DEFINE t == SlabFor(r.messages, pages)
<1>8. /\ IsMessages(t) /\ Load("images", t) <= Load("images", r.messages) + n
      /\ Load("marks", t) <= Load("marks", r.messages) + k
  BY <1>1, <1>3, <1>4, <1>5, <1>7, SlabMessages
<1>9. Unmarked(SystemTail(r.system))
  BY <1>1, TailUnmarked
<1>10. IsSystem(SystemTail(r.system)) /\ MarksIn(SystemTail(r.system)) = 0
  BY <1>9, UnmarkedLoad DEF Unmarked
<1> HIDE DEF t
<1>11. IsRequest(q)
  BY <1>6, <1>8, <1>10 DEF IsRequest, t
<1>12. MarkLoad(q.messages, q.system) = Load("marks", t) + 0
  BY <1>6, <1>10 DEF MarkLoad, t
<1> DEFINE a == Load("marks", t)
           b == Load("marks", r.messages)
           d == MarksIn(r.system)
<1>13. a \in Nat /\ b \in Nat /\ d \in Nat
  BY <1>1, <1>8, <1>10, MarkLoadNat
<1>14. a <= b + k /\ k <= d
  BY <1>3, <1>8
<1> HIDE DEF a, b, d
<1>15. a + 0 <= b + d
  BY <1>3, <1>13, <1>14
<1>16. MarkLoad(r.messages, r.system) = b + d
  BY DEF MarkLoad, b, d
<1>17. MarkLoad(q.messages, q.system) <= MarkLoad(r.messages, r.system)
  BY <1>12, <1>15, <1>16 DEF a
<1>18. Load("images", q.messages) <= Load("images", r.messages) + n
  BY <1>6, <1>8 DEF t
<1> QED
  BY <1>11, <1>17, <1>18 DEF q

(* The messages with the history on pages. *)
LayoutOf(r, from, to, n) == Collapsed(r.messages, from, to, HistoryPages(r.messages, from, to, n))

(* The history has as many images as pages, anchored or not. *)
LEMMA HistoryFits ==
  ASSUME NEW r, IsRequest(r), NEW from \in Nat, NEW to \in from .. Len(r.messages),
         NEW n \in Nat, NEW carry \in 0 .. n, NEW anchor \in BOOLEAN, anchor => carry > 0
  PROVE  LET layout == LayoutOf(r, from, to, n)
             q == [r EXCEPT !.messages = IF anchor THEN Anchored(layout, from, carry) ELSE layout]
         IN /\ IsRequest(q)
            /\ Load("images", q.messages) <= Load("images", r.messages) + n
            /\ MarkLoad(q.messages, q.system) <= MarkLoad(r.messages, r.system)
<1> DEFINE t == LayoutOf(r, from, to, n)
           u == IF anchor THEN Anchored(t, from, carry) ELSE t
<1>1. IsMessages(r.messages)
  BY DEF IsRequest
<1>2. IsMessages(t) /\ from + 1 \in 1 .. Len(t)
  BY <1>1, CollapsedWeighs DEF LayoutOf
<1>3. Load("images", t) <= Load("images", r.messages) + n
        /\ Load("marks", t) <= Load("marks", r.messages)
  BY <1>1, CollapsedWeighs DEF LayoutOf
<1>4. Len(t[from + 1].blocks) = n + 1
  BY <1>1, CollapsedPages DEF LayoutOf
<1>5. carry + 1 \in 1 .. Len(t[from + 1].blocks) /\ carry \in Nat
  BY <1>4
<1> HIDE DEF t
<1> DEFINE v == Anchored(t, from, carry)
<1>6. /\ IsMessages(v) /\ Load("images", v) = Load("images", t)
      /\ Load("marks", v) <= Load("marks", t)
  BY <1>2, <1>5, AnchoredWeighs
<1>7. u = v \/ u = t
  OBVIOUS
<1> HIDE DEF v, u
<1>8. Load("marks", v) \in Nat /\ Load("marks", t) \in Nat /\ Load("marks", r.messages) \in Nat
  BY <1>1, <1>2, <1>6, MessagesWeigh, LoadNat
<1>9. /\ IsMessages(u) /\ Load("images", u) <= Load("images", r.messages) + n
      /\ Load("marks", u) <= Load("marks", r.messages)
  BY <1>2, <1>3, <1>6, <1>7, <1>8
<1> DEFINE q == [r EXCEPT !.messages = u]
<1>10. /\ IsRequest(q) /\ Load("images", q.messages) <= Load("images", r.messages) + n
       /\ MarkLoad(q.messages, q.system) <= MarkLoad(r.messages, r.system)
  BY <1>9, MessagesFit
<1> QED
  BY <1>10 DEF q, u, t

(* A result has as many images more as it has pages. *)
LEMMA ResultFits ==
  ASSUME NEW r, IsRequest(r), NEW S, PlacesIn(r.messages, S), NEW c \in S, NEW n \in Nat \ {0}
  PROVE  LET q == [r EXCEPT !.messages[c[1]].blocks[c[2]] = Imaged(@, c[3], n)]
         IN /\ IsRequest(q)
            /\ PlacesIn(q.messages, Rest(S, c, n))
            /\ Load("images", q.messages) <= Load("images", r.messages) + n
            /\ MarkLoad(q.messages, q.system) <= MarkLoad(r.messages, r.system)
<1> DEFINE s == r.messages
           b == s[c[1]].blocks[c[2]]
           x == Imaged(b, c[3], n)
           t == [s EXCEPT ![c[1]].blocks[c[2]] = x]
           q == [r EXCEPT !.messages = t]
<1>1. IsMessages(s) /\ {"messages", "system"} \subseteq DOMAIN r
  BY DEF IsRequest
<1>2. PlaceIn(s, c)
  BY DEF PlacesIn
<1>3. c[1] \in 1 .. Len(s) /\ c[2] \in 1 .. Len(s[c[1]].blocks)
  BY <1>2 DEF PlaceIn
<1>4. IsMessage(s[c[1]])
  BY <1>1, <1>3 DEF IsMessages
<1>5. IsBlock(b)
  BY <1>3, <1>4 DEF IsMessage, IsBlocks
<1>6. b.type = "result" /\ c[3] \in 1 .. Len(b.parts)
  BY <1>2 DEF PlaceIn
<1>7. q = [r EXCEPT !.messages[c[1]].blocks[c[2]] = Imaged(@, c[3], n)]
  <2>1. DOMAIN s = 1 .. Len(s)
    BY <1>1, ListIs DEF IsMessages
  <2>2. "blocks" \in DOMAIN s[c[1]] /\ DOMAIN s[c[1]].blocks = 1 .. Len(s[c[1]].blocks)
    BY <1>4, ListIs DEF IsMessage, IsBlocks
  <2> QED
    BY <1>1, <1>3, <2>1, <2>2
<1>8. PlacesIn(t, Rest(S, c, n))
  BY <1>1, PlacesMove
<1> DEFINE i == c[1]
           k == c[2]
<1>9. IsBlock(x) /\ Weight("image", x) <= Weight("image", b) + n
        /\ Weight("mark", x) <= Weight("mark", b)
  BY <1>5, <1>6, ImagedWeighs
<1> HIDE DEF x
<1>10. i \in 1 .. Len(s) /\ k \in 1 .. Len(s[i].blocks) /\ b = s[i].blocks[k]
         /\ t = [s EXCEPT ![i].blocks[k] = x]
  BY <1>3
<1> HIDE DEF i, k, b, t, s
<1>11. /\ IsMessages(t) /\ Load("images", t) <= Load("images", s) + n
       /\ Load("marks", t) <= Load("marks", s)
  BY <1>1, <1>9, <1>10, BlockBounded
<1>12. /\ IsRequest(q) /\ Load("images", q.messages) <= Load("images", r.messages) + n
       /\ MarkLoad(q.messages, q.system) <= MarkLoad(r.messages, r.system)
  BY <1>11, MessagesFit DEF s
<1>13. q.messages = t
  BY <1>1, MessagesSet
<1> HIDE DEF q
<1> QED
  BY <1>7, <1>8, <1>12, <1>13 DEF q, t, s, x, b

(* The pins are said in a block of text. *)
LEMMA PinsFit ==
  ASSUME NEW r, IsRequest(r), NEW list
  PROVE  LET q == [r EXCEPT !.messages = SayPins(@, list)]
         IN /\ IsRequest(q)
            /\ Load("images", q.messages) <= Load("images", r.messages) + 0
            /\ MarkLoad(q.messages, q.system) <= MarkLoad(r.messages, r.system)
<1> DEFINE t == SayPins(r.messages, list)
<1>1. IsMessages(r.messages)
  BY DEF IsRequest
<1>2. /\ IsMessages(t) /\ Load("images", t) <= Load("images", r.messages)
      /\ Load("marks", t) <= Load("marks", r.messages)
  BY <1>1, PinsWeigh
<1>3. [r EXCEPT !.messages = SayPins(@, list)] = [r EXCEPT !.messages = t]
  BY DEF IsRequest
<1> HIDE DEF t
<1>4. Load("images", t) \in Nat /\ Load("images", r.messages) \in Nat
  BY <1>1, <1>2, MessagesWeigh, LoadNat
<1>5. Load("images", t) <= Load("images", r.messages) + 0
  BY <1>2, <1>4
<1> QED
  BY <1>2, <1>3, <1>5, MessagesFit

-----------------------------------------------------------------------------
(* The client's side.                                                        *)

(* A block that is neither a result nor marked globally is well formed. *)
LEMMA TextIsBlock ==
  ASSUME NEW b, {"type", "cc"} \subseteq DOMAIN b, b.type # "result", b.cc # "global"
  PROVE  IsBlock(b)
BY DEF IsBlock

(* One block is a list of blocks. *)
LEMMA OneBlock ==
  ASSUME NEW b, IsBlock(b)
  PROVE  IsBlocks(<<b>>)
<1> DEFINE s == <<b>>
<1>1. IsList(s) /\ Len(s) = 1 /\ s[1] = b
  BY ListOne
<1> HIDE DEF s
<1>2. IsBlocks(s)
  BY <1>1 DEF IsBlocks
<1> QED
  BY <1>2 DEF s

(* What the user says. *)
LEMMA TurnIsBlocks ==
  ASSUME NEW blocks \in Turns
  PROVE  IsBlocks(blocks)
<1>1. blocks \in Seq(TextBlocks \cup Images)
  BY ConversationAssumption
<1>2. IsList(blocks)
  BY <1>1 DEF IsList
<1>3. ASSUME NEW b \in TextBlocks \cup Images
      PROVE  IsBlock(b)
  <2>1. CASE b \in TextBlocks
    <3>1. b \in [type : {"text"}, rem : BOOLEAN, head : Seq(Lines), lines : Seq(Lines),
             cc : {NoMark, "local"}]
      BY <2>1 DEF TextBlocks
    <3>2. {"type", "cc"} \subseteq DOMAIN b /\ b.type = "text" /\ b.cc \in {NoMark, "local"}
      BY <3>1
    <3>3. b.cc # "global" /\ b.type # "result"
      BY <3>2 DEF NoMark
    <3> QED
      BY <3>2, <3>3, TextIsBlock
  <2>2. CASE b \in Images
    <3>1. {"type", "cc"} \subseteq DOMAIN b /\ b.type = "image" /\ b.cc \in {NoMark, "local"}
      BY <2>2 DEF Images
    <3>2. b.cc # "global" /\ b.type # "result"
      BY <3>1 DEF NoMark
    <3> QED
      BY <3>1, <3>2, TextIsBlock
  <2> QED
    BY <2>1, <2>2
<1>4. \A k \in 1 .. Len(blocks) : blocks[k] \in TextBlocks \cup Images
  BY <1>1
<1> QED
  BY <1>2, <1>3, <1>4 DEF IsBlocks

(* What a tool answers. *)
LEMMA AnswerIsParts ==
  ASSUME NEW parts \in Answers
  PROVE  IsParts(parts)
<1> DEFINE P == [type : {"text", "image"}, cc : {NoMark, "local"}]
<1>1. parts \in Seq(P)
  BY ConversationAssumption
<1>2. IsList(parts)
  BY <1>1 DEF IsList
<1>3. ASSUME NEW p \in P
      PROVE  IsPart(p)
  <2>1. {"type", "cc"} \subseteq DOMAIN p /\ p.cc \in {NoMark, "local"}
    OBVIOUS
  <2> QED
    BY <2>1 DEF IsPart, NoMark
<1> HIDE DEF P
<1>4. \A k \in 1 .. Len(parts) : parts[k] \in P
  BY <1>1
<1> QED
  BY <1>2, <1>3, <1>4 DEF IsParts

(* It is a block. *)
LEMMA ResultIsBlock ==
  ASSUME NEW parts \in Answers, NEW error
  PROVE  IsBlock(ToolResult(parts, error))
<1> DEFINE b == ToolResult(parts, error)
<1>1. {"type", "cc", "parts"} \subseteq DOMAIN b /\ b.cc = NoMark /\ b.parts = parts
  BY DEF ToolResult
<1> HIDE DEF b
<1>2. IsParts(parts)
  BY AnswerIsParts
<1>3. IsBlock(b)
  BY <1>1, <1>2 DEF IsBlock, NoMark
<1> QED
  BY <1>3 DEF b

(* What the user says next. *)
LEMMA UserTurnIsBlocks ==
  ASSUME NEW blocks \in UserTurns
  PROVE  IsBlocks(blocks)
<1>1. CASE blocks \in Turns
  BY <1>1, TurnIsBlocks
<1>2. CASE blocks \in {<<ToolResult(parts, error)>> : parts \in Answers, error \in BOOLEAN}
  <2>1. PICK parts \in Answers, error \in BOOLEAN : blocks = <<ToolResult(parts, error)>>
    BY <1>2
  <2> DEFINE b == ToolResult(parts, error)
  <2>2. IsBlock(b) /\ blocks = <<b>>
    BY <2>1, ResultIsBlock
  <2> HIDE DEF b
  <2> QED
    BY <2>2, OneBlock
<1> QED
  BY <1>1, <1>2 DEF UserTurns

(* The conversation with one message more. *)
LEMMA MessageAdded ==
  ASSUME NEW messages, IsMessages(messages), NEW role, NEW at, NEW blocks, IsBlocks(blocks)
  PROVE  IsMessages(Append(messages, [role |-> role, at |-> at, blocks |-> blocks]))
<1> DEFINE m == [role |-> role, at |-> at, blocks |-> blocks]
<1>1. "blocks" \in DOMAIN m /\ m.blocks = blocks
  OBVIOUS
<1> HIDE DEF m
<1>2. IsMessage(m)
  BY <1>1 DEF IsMessage
<1>3. Weighed("images", messages) /\ Fits("images", m)
  BY <1>2, MessagesWeigh, MessageWeight
<1>4. Weighed("images", Append(messages, m))
  BY <1>3, LoadAppend
<1>5. IsMessages(Append(messages, m))
  BY <1>4, MessagesAre
<1> QED
  BY <1>5 DEF m

(* A system prompt of the client. *)
LEMMA SystemIs ==
  ASSUME NEW system \in Systems
  PROVE  IsSystem(system)
<1>1. system \in Seq(SystemBlocks)
  BY ConversationAssumption
<1>2. IsList(system)
  BY <1>1 DEF IsList
<1>3. ASSUME NEW b \in SystemBlocks
      PROVE  IsSystemBlock(b)
  <2>1. {"type", "cc"} \subseteq DOMAIN b /\ b.type = "text"
    BY DEF SystemBlocks
  <2> QED
    BY <2>1 DEF IsSystemBlock
<1>4. \A k \in 1 .. Len(system) : system[k] \in SystemBlocks
  BY <1>1
<1> QED
  BY <1>2, <1>3, <1>4 DEF IsSystem

-----------------------------------------------------------------------------
(* The invariant holds at first, and every step keeps it.                    *)

LEMMA InvStarts == ConversationInit => Inv
<1> SUFFICES ASSUME ConversationInit
             PROVE  Inv
  OBVIOUS
<1>1. conv = <<>> /\ pc = "client" /\ req = Idle /\ images = 0 /\ bytes = 0 /\ native = 0
  BY DEF ConversationInit
<1>2. IsMessages(<<>>)
  BY ListEmpty DEF IsMessages
<1>3. setup.system \in Systems
  BY DEF ConversationInit
<1>4. ConvInv
  BY <1>1, <1>2, <1>3, SystemIs DEF ConvInv
<1>5. BudgetsKept
  <2>1. 0 + 0 <= Greater(0, MaxImages - SafetyMargin) /\ 0 + 0 <= Greater(0, MaxBytes)
    BY RoomLeft
  <2> QED
    BY <1>1, <2>1 DEF BudgetsKept
<1>6. NumInv
  BY <1>1, <1>5 DEF NumInv
<1>7. OpenInv /\ ResInv
  BY <1>1 DEF OpenInv, ResInv
<1> QED
  BY <1>4, <1>6, <1>7 DEF Inv

(* The client is answered by the proxy, or its request is opened. *)
LEMMA SpeakStep == Inv /\ Speak => Inv'
<1> SUFFICES ASSUME Inv, Speak
             PROVE  Inv'
  OBVIOUS
<1>0. ConvInv /\ NumInv /\ UNCHANGED setup /\ pc = "client"
  BY DEF Inv, Speak
<1>1. PICK blocks \in UserTurns : Received(Append(conv, Message("user", blocks)))
  BY DEF Speak
<1> DEFINE messages == Append(conv, Message("user", blocks))
<1>2. IsMessages(messages)
  <2>1. IsBlocks(blocks)
    BY UserTurnIsBlocks
  <2>2. IsMessages(Append(conv, [role |-> "user", at |-> Len(conv) + 1, blocks |-> blocks]))
    BY <1>0, <2>1, MessageAdded DEF ConvInv
  <2> QED
    BY <2>2 DEF Message
<1>r. Received(messages)
  BY <1>1
<1> HIDE DEF messages
<1>3. CASE IsPinOnlyRequest(messages)
  <2> DEFINE reply == <<Text(<<>>, <<PinReply>>, NoMark)>>
  <2>1. conv' =
         Append(messages, [role |-> "assistant", at |-> Len(messages) + 1, blocks |-> reply])
    BY <1>r, <1>3 DEF Received
  <2>2. UNCHANGED transformVars
    BY <1>r, <1>3 DEF Received
  <2>3. IsBlocks(reply)
    <3> DEFINE b == Text(<<>>, <<PinReply>>, NoMark)
    <3>1. {"type", "cc"} \subseteq DOMAIN b /\ b.type = "text" /\ b.cc = NoMark
      BY DEF Text
    <3> HIDE DEF b
    <3>2. IsBlock(b)
      BY <3>1, TextIsBlock DEF NoMark
    <3>3. IsBlocks(<<b>>)
      BY <3>2, OneBlock
    <3> QED
      BY <3>3 DEF b
  <2> HIDE DEF reply
  <2>4. IsMessages(conv')
    BY <1>2, <2>1, <2>3, MessageAdded
  <2>5. ConvInv'
    BY <1>0, <2>4 DEF ConvInv
  <2>6. NumInv'
    BY <1>0, <2>2 DEF NumInv, BudgetsKept, transformVars
  <2>7. OpenInv' /\ ResInv'
    BY <1>0, <2>2 DEF OpenInv, ResInv, transformVars
  <2> QED
    BY <2>5, <2>6, <2>7 DEF Inv
<1>4. CASE ~IsPinOnlyRequest(messages)
  <2>1. /\ conv' = messages /\ native' = CountImages(messages) /\ images' = 0 /\ bytes' = 0
        /\ pc' = "strip"
        /\ req' = [messages |-> messages, system |-> setup.system, tools |-> setup.tools]
    BY <1>r, <1>4 DEF Received
  <2>2. ConvInv'
    BY <1>0, <1>2, <2>1 DEF ConvInv
  <2>3. native' = Load("images", messages) /\ native' \in Nat
    BY <1>2, <2>1, MessageLoads, MessagesWeigh, LoadNat
  <2>4. NumInv'
    <3>1. 0 + native' <= Greater(native', MaxImages - SafetyMargin)
            /\ 0 + native' <= Greater(native', MaxBytes)
      BY <2>3, RoomLeft
    <3> QED
      BY <2>1, <2>3, <3>1 DEF NumInv, BudgetsKept
  <2>5. IsRequest(req') /\ req'.messages = messages /\ req'.system = setup.system
    BY <1>0, <1>2, <2>1 DEF IsRequest, ConvInv
  <2>6. RequestFits(req', req'.messages, req'.system, 0 + Load("images", req'.messages))
    BY <2>5, OriginalFits
  <2>7. RequestFits(req', conv', setup'.system, images' + native')
    BY <1>0, <2>1, <2>3, <2>5, <2>6
  <2>8. OpenInv'
    BY <2>1, <2>3, <2>7 DEF OpenInv
  <2>9. ResInv'
    BY <2>1 DEF ResInv
  <2> QED
    BY <2>2, <2>4, <2>8, <2>9 DEF Inv
<1> QED
  BY <1>3, <1>4

(* What an action must show: its request, its images and its results.        *)
LEMMA OpenStep ==
  ASSUME Inv, pc # "client", pc' # "client", UNCHANGED <<native, conv, setup>>,
         NEW k \in Nat, images' = images + k, bytes' \in Nat, BudgetsKept',
         IsRequest(req'), ResInv',
         Load("images", req'.messages) <= Load("images", req.messages) + k,
         MarkLoad(req'.messages, req'.system) <= MarkLoad(req.messages, req.system)
  PROVE  Inv'
<1>1. ConvInv /\ images \in Nat /\ native \in Nat
  BY DEF Inv, NumInv
<1>2. RequestFits(req, conv, setup.system, images + native) /\ native = Load("images", conv)
  BY DEF Inv, OpenInv
<1>3. ConvInv'
  BY <1>1 DEF ConvInv
<1>4. NumInv'
  BY <1>1 DEF NumInv
<1>5. images + native \in Nat /\ images' + native' = images + native + k
  BY <1>1
<1>6. RequestFits(req', conv, setup.system, images + native + k)
  BY <1>1, <1>2, <1>5, FitsStill DEF ConvInv
<1>7. RequestFits(req', conv', setup'.system, images' + native')
  BY <1>5, <1>6
<1>8. OpenInv'
  BY <1>2, <1>7 DEF OpenInv
<1> QED
  BY <1>3, <1>4, <1>8 DEF Inv

(* A request that is left as it is. *)
LEMMA SameStep ==
  ASSUME Inv, pc # "client", pc' # "client",
         UNCHANGED <<req, images, bytes, native, conv, setup>>, ResInv'
  PROVE  Inv'
<1>1. ConvInv /\ OpenInv /\ NumInv
  BY DEF Inv
<1>2. ConvInv'
  BY <1>1 DEF ConvInv
<1>3. NumInv'
  BY <1>1 DEF NumInv, BudgetsKept
<1>4. OpenInv'
  BY <1>1 DEF OpenInv
<1> QED
  BY <1>2, <1>3, <1>4 DEF Inv

(* StripPass: the commands weigh nothing, what is left no more than before. *)
LEMMA StripStep == Inv /\ StripPass /\ UNCHANGED <<conv, setup>> => Inv'
<1> SUFFICES ASSUME Inv, StripPass, UNCHANGED <<conv, setup>>
             PROVE  Inv'
  OBVIOUS
<1>1. pc = "strip" /\ pc' = "slab" /\ UNCHANGED <<images, bytes, native, results>>
  BY DEF StripPass
<1>2. NumInv /\ IsRequest(req)
  BY <1>1 DEF Inv, OpenInv, RequestFits
<1>3. ResInv'
  BY <1>1 DEF ResInv
<1>4. CASE CanAppendPinBlock(req.messages)
  <2>1. req' = [req EXCEPT !.messages = StripPinCommands(@), !.system = StripSystem(@)]
    BY <1>4 DEF StripPass
  <2>2. /\ IsRequest(req') /\ Load("images", req'.messages) <= Load("images", req.messages) + 0
        /\ MarkLoad(req'.messages, req'.system) <= MarkLoad(req.messages, req.system)
    BY <1>2, <2>1, StrippedFits
  <2>3. images' = images + 0 /\ bytes' \in Nat /\ BudgetsKept'
    BY <1>1, <1>2 DEF NumInv, BudgetsKept
  <2> QED
    BY <1>1, <1>3, <2>2, <2>3, OpenStep
<1>5. CASE ~CanAppendPinBlock(req.messages)
  <2>1. req' = req
    BY <1>5 DEF StripPass
  <2> QED
    BY <1>1, <1>3, <2>1, SameStep
<1> QED
  BY <1>4, <1>5

(* A pass that images something takes it from the budgets. *)
LEMMA PaidStep ==
  ASSUME Inv, pc # "client", pc' # "client", UNCHANGED <<native, conv, setup>>,
         NEW r \in Renderings, r.pages <= ImageHeadroom, r.bytes <= ByteHeadroom, Take(r),
         IsRequest(req'), ResInv',
         Load("images", req'.messages) <= Load("images", req.messages) + r.pages,
         MarkLoad(req'.messages, req'.system) <= MarkLoad(req.messages, req.system)
  PROVE  Inv'
<1>1. images \in Nat /\ bytes \in Nat /\ native \in Nat
  BY DEF Inv, NumInv
<1>2. r.pages \in Nat \ {0} /\ r.bytes \in Nat \ {0}
  BY <1>1, RoomTaken
<1>3. /\ images + r.pages + native <= Greater(native, MaxImages - SafetyMargin)
      /\ bytes + r.bytes + native <= Greater(native, MaxBytes)
  BY <1>1, RoomTaken
<1>4. images' = images + r.pages /\ bytes' = bytes + r.bytes
  BY DEF Take, TakeBoth
<1>5. BudgetsKept'
  BY <1>3, <1>4 DEF BudgetsKept
<1>6. bytes' \in Nat
  BY <1>1, <1>2, <1>4
<1> DEFINE k == r.pages
<1>7. k \in Nat /\ images' = images + k
        /\ Load("images", req'.messages) <= Load("images", req.messages) + k
  BY <1>2, <1>4
<1> HIDE DEF k
<1> QED
  BY <1>5, <1>6, <1>7, OpenStep

(* Slab: as many images as pages, and the marker of the system prompt. *)
LEMMA SlabStep ==
  ASSUME NEW r \in Renderings
  PROVE  Inv /\ Slab(r) /\ UNCHANGED <<conv, setup>> => Inv'
<1> SUFFICES ASSUME Inv, Slab(r), UNCHANGED <<conv, setup>>
             PROVE  Inv'
  OBVIOUS
<1>1. /\ pc = "slab" /\ pc' = "history" /\ UNCHANGED native
      /\ r.pages <= ImageHeadroom /\ r.bytes <= ByteHeadroom /\ Take(r)
  BY DEF Slab
<1>2. req' = WithSlab(req, r.pages)
  BY DEF Slab
<1>3. IsRequest(req)
  BY <1>1 DEF Inv, OpenInv, RequestFits
<1>4. r.pages \in Nat \ {0}
  BY ImageAssumption
<1>5. /\ IsRequest(req') /\ Load("images", req'.messages) <= Load("images", req.messages) + r.pages
      /\ MarkLoad(req'.messages, req'.system) <= MarkLoad(req.messages, req.system)
  BY <1>2, <1>3, <1>4, SlabFits
<1>6. ResInv'
  BY <1>1 DEF ResInv
<1> QED
  BY <1>1, <1>5, <1>6, PaidStep

(* CollapseHistory: as many images as pages, no marker that was not there. *)
LEMMA CollapseStep ==
  ASSUME NEW to, NEW r \in Renderings, NEW carry
  PROVE  Inv /\ CollapseHistory(to, r, carry) /\ UNCHANGED <<conv, setup>> => Inv'
<1> SUFFICES ASSUME Inv, CollapseHistory(to, r, carry), UNCHANGED <<conv, setup>>
             PROVE  Inv'
  OBVIOUS
<1> DEFINE from == ProtectedHead
           anchor == pc = "history" /\ carry > 0
           layout == LayoutOf(req, from, to, r.pages)
<1>1. /\ pc \in {"history", "early"} /\ pc' = AfterHistory /\ UNCHANGED native /\ Take(r)
      /\ r.bytes <= ByteHeadroom
  BY DEF CollapseHistory
<1>2. r.pages <= HistoryBudget /\ ImageHeadroom > 0
  BY DEF CollapseHistory
<1>3. to \in from + 1 .. Len(req.messages) - 1 /\ carry \in 0 .. r.pages
  BY DEF CollapseHistory
<1>4. req' = [req EXCEPT !.messages = IF anchor THEN Anchored(layout, from, carry) ELSE layout]
  BY DEF CollapseHistory, LayoutOf
<1>5. IsRequest(req)
  BY <1>1 DEF Inv, OpenInv, RequestFits
<1>6. from \in Nat /\ Len(req.messages) \in Nat
  BY <1>5, HeadIsNat, ListIs DEF IsRequest, IsMessages
<1>7. r.pages \in Nat \ {0}
  BY ImageAssumption
<1>8. anchor \in BOOLEAN /\ (anchor => carry > 0)
  OBVIOUS
<1> HIDE DEF from, anchor
<1>9. to \in from .. Len(req.messages)
  BY <1>3, <1>6
<1>10. /\ IsRequest(req') /\ Load("images", req'.messages) <= Load("images", req.messages) + r.pages
       /\ MarkLoad(req'.messages, req'.system) <= MarkLoad(req.messages, req.system)
  BY <1>3, <1>4, <1>5, <1>6, <1>7, <1>8, <1>9, HistoryFits
<1>11. r.pages <= ImageHeadroom
  <2>1. images \in Nat /\ native \in Nat /\ MaxImages \in Nat /\ SafetyMargin \in Nat
          /\ HistoryImages \in Nat \ {0}
    BY ImageAssumption DEF Inv, NumInv
  <2>2. ImageHeadroom \in Int
    BY <2>1 DEF ImageHeadroom, Headroom, HeadroomOfAll, Greater
  <2> DEFINE p == r.pages
  <2>3. p \in Nat /\ p <= HistoryBudget
    BY <1>2, <1>7
  <2> HIDE DEF p
  <2>4. p <= ImageHeadroom
    BY <1>2, <2>1, <2>2, <2>3 DEF HistoryBudget, Greater, Lesser
  <2> QED
    BY <2>4 DEF p
<1>12. pc' # "client" /\ pc' # "image" /\ pc # "client"
  BY <1>1 DEF AfterHistory
<1>13. ResInv'
  BY <1>12 DEF ResInv
<1> QED
  BY <1>1, <1>10, <1>11, <1>12, <1>13, PaidStep

(* FindResults: they are places of the request. *)
LEMMA FindStep == Inv /\ FindResults /\ UNCHANGED <<conv, setup>> => Inv'
<1> SUFFICES ASSUME Inv, FindResults, UNCHANGED <<conv, setup>>
             PROVE  Inv'
  OBVIOUS
<1>1. /\ pc = "results" /\ results' = Candidates(req.messages) /\ pc' \in {"pins", "image"}
      /\ UNCHANGED <<req, images, bytes, native, pins>>
  BY DEF FindResults
<1>2. IsMessages(req.messages)
  BY <1>1 DEF Inv, OpenInv, RequestFits, IsRequest
<1>3. ResInv'
  BY <1>1, <1>2, CandidatesArePlaces DEF ResInv
<1> QED
  BY <1>1, <1>3, SameStep

(* ImageResult: the other places move, and none is lost. *)
LEMMA ImageStep ==
  ASSUME NEW r \in Renderings
  PROVE  Inv /\ ImageResult(r) /\ UNCHANGED <<conv, setup>> => Inv'
<1> SUFFICES ASSUME Inv, ImageResult(r), UNCHANGED <<conv, setup>>
             PROVE  Inv'
  OBVIOUS
<1>1. /\ pc = "image" /\ UNCHANGED native /\ Take(r)
      /\ r.pages <= ImageHeadroom /\ r.bytes <= ByteHeadroom
  BY DEF ImageResult
<1>2. PICK c \in results :
        /\ req' = [req EXCEPT !.messages[c[1]].blocks[c[2]] = Imaged(@, c[3], r.pages)]
        /\ NextResult(c, r.pages)
  BY DEF ImageResult
<1>3. IsRequest(req) /\ PlacesIn(req.messages, results)
  BY <1>1 DEF Inv, OpenInv, ResInv, RequestFits
<1>4. r.pages \in Nat \ {0}
  BY ImageAssumption
<1>5. /\ IsRequest(req') /\ Load("images", req'.messages) <= Load("images", req.messages) + r.pages
      /\ MarkLoad(req'.messages, req'.system) <= MarkLoad(req.messages, req.system)
  BY <1>2, <1>3, <1>4, ResultFits
<1>6. PlacesIn(req'.messages, Rest(results, c, r.pages))
  BY <1>2, <1>3, <1>4, ResultFits
<1>7. results' = Rest(results, c, r.pages) /\ pc' \in {"pins", "image"}
  BY <1>2 DEF NextResult, Rest
<1>8. ResInv'
  BY <1>6, <1>7 DEF ResInv
<1>9. pc # "client" /\ pc' # "client"
  BY <1>1, <1>7
<1> QED
  BY <1>1, <1>5, <1>8, <1>9, PaidStep

(* KeepResult: one place less. *)
LEMMA KeepStep == Inv /\ KeepResult /\ UNCHANGED <<conv, setup>> => Inv'
<1> SUFFICES ASSUME Inv, KeepResult, UNCHANGED <<conv, setup>>
             PROVE  Inv'
  OBVIOUS
<1>1. pc = "image" /\ UNCHANGED <<req, images, bytes, native, pins>>
  BY DEF KeepResult
<1>2. PICK c \in results : NextResult(c, 1)
  BY DEF KeepResult
<1>3. PlacesIn(req.messages, results)
  BY <1>1 DEF Inv, ResInv
<1>4. results' = Rest(results, c, 1) /\ pc' \in {"pins", "image"}
  BY <1>2 DEF NextResult, Rest
<1>5. ResInv'
  BY <1>1, <1>3, <1>4, PlacesKept DEF ResInv
<1>6. pc # "client" /\ pc' # "client"
  BY <1>1, <1>4
<1> QED
  BY <1>1, <1>5, <1>6, SameStep

(* PinPass. *)
LEMMA PinStep == Inv /\ PinPass /\ UNCHANGED <<conv, setup>> => Inv'
<1> SUFFICES ASSUME Inv, PinPass, UNCHANGED <<conv, setup>>
             PROVE  Inv'
  OBVIOUS
<1>1. /\ pc = "pins" /\ pc' = "done" /\ UNCHANGED <<images, bytes, native, pins, results>>
      /\ req' = [req EXCEPT !.messages = SayPins(@, pins)]
  BY DEF PinPass
<1>2. NumInv /\ IsRequest(req)
  BY <1>1 DEF Inv, OpenInv, RequestFits
<1>3. /\ IsRequest(req') /\ Load("images", req'.messages) <= Load("images", req.messages) + 0
      /\ MarkLoad(req'.messages, req'.system) <= MarkLoad(req.messages, req.system)
  BY <1>1, <1>2, PinsFit
<1>4. images' = images + 0 /\ bytes' \in Nat /\ BudgetsKept'
  BY <1>1, <1>2 DEF NumInv, BudgetsKept
<1>5. ResInv'
  BY <1>1 DEF ResInv
<1> QED
  BY <1>1, <1>3, <1>4, <1>5, OpenStep

(* A renderer fails: the request is again what the client sent. *)
LEMMA FailStep == Inv /\ Fail => Inv'
<1> SUFFICES ASSUME Inv, Fail
             PROVE  Inv'
  OBVIOUS
<1>1. /\ pc # "client" /\ pc' = "done" /\ req' = Original /\ images' = 0 /\ bytes' = 0
      /\ UNCHANGED <<native, conv, setup>>
  BY DEF Fail
<1>2. ConvInv /\ NumInv /\ native = Load("images", conv)
  BY <1>1 DEF Inv, OpenInv
<1>3. IsRequest(req') /\ req'.messages = conv /\ req'.system = setup.system
  BY <1>1, <1>2 DEF Original, IsRequest, ConvInv
<1>4. RequestFits(req', req'.messages, req'.system, 0 + Load("images", req'.messages))
  BY <1>3, OriginalFits
<1>5. RequestFits(req', conv', setup'.system, images' + native')
  BY <1>1, <1>2, <1>3, <1>4
<1>6. OpenInv'
  BY <1>1, <1>2, <1>5 DEF OpenInv
<1>7. NumInv'
  <2>1. 0 + native <= Greater(native, MaxImages - SafetyMargin)
          /\ 0 + native <= Greater(native, MaxBytes)
    BY <1>2, RoomLeft DEF NumInv
  <2> QED
    BY <1>1, <1>2, <2>1 DEF NumInv, BudgetsKept
<1>8. ConvInv' /\ ResInv'
  BY <1>1, <1>2 DEF ConvInv, ResInv
<1> QED
  BY <1>6, <1>7, <1>8 DEF Inv

(* The provider answers. *)
LEMMA AnsweredStep ==
  ASSUME NEW blocks, IsBlocks(blocks)
  PROVE  Inv /\ Answered(blocks) => Inv'
<1> SUFFICES ASSUME Inv, Answered(blocks)
             PROVE  Inv'
  OBVIOUS
<1>1. /\ conv' = Append(conv, Message("assistant", blocks)) /\ pc' = "client" /\ req' = Idle
      /\ images' = 0 /\ bytes' = 0 /\ native' = 0 /\ UNCHANGED setup
  BY DEF Answered
<1>2. ConvInv'
  BY <1>1, MessageAdded DEF Inv, ConvInv, Message
<1>3. NumInv'
  <2>1. 0 + 0 <= Greater(0, MaxImages - SafetyMargin) /\ 0 + 0 <= Greater(0, MaxBytes)
    BY RoomLeft
  <2> QED
    BY <1>1, <2>1 DEF NumInv, BudgetsKept
<1>4. OpenInv' /\ ResInv'
  BY <1>1 DEF OpenInv, ResInv
<1> QED
  BY <1>2, <1>3, <1>4 DEF Inv

(* With a text, or with a call. *)
LEMMA AnswerStep == Inv /\ Answer => Inv'
<1> DEFINE text == Text(<<>>, <<Said>>, NoMark)
           call == [type |-> "call", cc |-> NoMark]
<1>1. {"type", "cc"} \subseteq DOMAIN text /\ text.type = "text" /\ text.cc = NoMark
  BY DEF Text
<1>2. {"type", "cc"} \subseteq DOMAIN call /\ call.type = "call" /\ call.cc = NoMark
  OBVIOUS
<1>a. Answer => Answered(<<text>>) \/ Answered(<<call>>)
  BY DEF Answer
<1> HIDE DEF text, call
<1>3. IsBlock(text)
  BY <1>1, TextIsBlock DEF NoMark
<1>4. IsBlock(call)
  BY <1>2, TextIsBlock DEF NoMark
<1>5. IsBlocks(<<text>>) /\ IsBlocks(<<call>>)
  BY <1>3, <1>4, OneBlock
<1>6. Inv /\ Answered(<<text>>) => Inv'
  BY <1>5, AnsweredStep
<1>7. Inv /\ Answered(<<call>>) => Inv'
  BY <1>5, AnsweredStep
<1> QED
  BY <1>a, <1>6, <1>7

(* The passes together. *)
LEMMA TransformKeeps == Inv /\ Transform => Inv'
<1> SUFFICES ASSUME Inv, TransformStep, UNCHANGED <<conv, setup>>
             PROVE  Inv'
  BY DEF Transform
<1>1. CASE StripPass
  BY <1>1, StripStep
<1>2. CASE \E r \in Renderings : Slab(r)
  BY <1>2, SlabStep
<1>3. CASE NoSlab
  <2>1. pc = "slab" /\ pc' = "early" /\ UNCHANGED <<req, images, bytes, native>>
    BY <1>3 DEF NoSlab
  <2>2. ResInv'
    BY <2>1 DEF ResInv
  <2> QED
    BY <2>1, <2>2, SameStep
<1>4. CASE \E r \in Renderings, to \in DOMAIN req.messages, carry \in 0 .. HistoryImages :
             CollapseHistory(to, r, carry)
  BY <1>4, CollapseStep
<1>5. CASE KeepHistory
  <2>1. /\ pc \in {"history", "early"} /\ pc' = AfterHistory
        /\ UNCHANGED <<req, images, bytes, native>>
    BY <1>5 DEF KeepHistory
  <2>2. pc # "client" /\ pc' # "client" /\ pc' # "image"
    BY <2>1 DEF AfterHistory
  <2>3. ResInv'
    BY <2>2 DEF ResInv
  <2> QED
    BY <2>1, <2>2, <2>3, SameStep
<1>6. CASE FindResults
  BY <1>6, FindStep
<1>7. CASE \E r \in Renderings : ImageResult(r)
  BY <1>7, ImageStep
<1>8. CASE KeepResult
  BY <1>8, KeepStep
<1>9. CASE PinPass
  BY <1>9, PinStep
<1> QED
  BY <1>1, <1>2, <1>3, <1>4, <1>5, <1>6, <1>7, <1>8, <1>9 DEF TransformStep

(* The conversation and the request that is open are well formed, and what   *)
(* the proxy has counted is what is in the request.                          *)
THEOREM ConversationInvariant == ConversationSpec => []Inv
<1>1. ConversationInit => Inv
  BY InvStarts
<1>2. Inv /\ [ConversationNext]_conversationVars => Inv'
  <2> SUFFICES ASSUME Inv, [ConversationNext]_conversationVars
               PROVE  Inv'
    OBVIOUS
  <2>1. CASE Speak
    BY <2>1, SpeakStep
  <2>2. CASE Transform
    BY <2>2, TransformKeeps
  <2>3. CASE Fail
    BY <2>3, FailStep
  <2>4. CASE Answer
    BY <2>4, AnswerStep
  <2>5. CASE UNCHANGED conversationVars
    BY <2>5 DEF conversationVars, transformVars, Inv, ConvInv, OpenInv, NumInv, BudgetsKept,
       ResInv
  <2> QED
    BY <2>1, <2>2, <2>3, <2>4, <2>5 DEF ConversationNext
<1> QED
  BY <1>1, <1>2, PTL DEF ConversationSpec

(* Every image that a pass makes is counted, at either level of nesting, and *)
(* those of the proxy leave room for those of the client.                    *)
THEOREM ImagesAreCounted == ConversationSpec => []ImagesAccounted
<1>1. Inv => ImagesAccounted
  <2> SUFFICES ASSUME Inv
               PROVE  WireCounted
    BY DEF Inv, NumInv, ImagesAccounted
  <2>0. images \in Nat /\ native \in Nat
    BY DEF Inv, NumInv
  <2>1. CASE pc = "client"
    <3>1. req.messages = <<>>
      BY <2>1 DEF Inv, NumInv, Idle
    <3>2. CountImages(req.messages) = 0
      BY <3>1, LoadEmpty, MessageLoads
    <3> QED
      BY <2>0, <3>2 DEF WireCounted
  <2>2. CASE pc # "client"
    <3>1. Load("images", req.messages) <= images + native
      BY <2>2 DEF Inv, OpenInv, RequestFits
    <3>2. Load("images", req.messages) = CountImages(req.messages)
      BY MessageLoads
    <3> QED
      BY <3>1, <3>2 DEF WireCounted
  <2> QED
    BY <2>1, <2>2
<1> QED
  BY <1>1, ConversationInvariant, PTL

(* A request has no more cache markers than the client's, and none of global *)
(* scope on a page.                                                          *)
THEOREM MarkersAreBounded == ConversationSpec => []MarkersBounded
<1>1. Inv => MarkersBounded
  <2> SUFFICES ASSUME Inv, pc = "done"
               PROVE  /\ AllMarks(req) <= AllMarks(Original)
                      /\ \A i \in DOMAIN req.messages : \A k \in DOMAIN req.messages[i].blocks :
                           req.messages[i].blocks[k].cc # "global"
    BY DEF MarkersBounded
  <2>1. RequestFits(req, conv, setup.system, images + native)
    BY DEF Inv, OpenInv
  <2>2. AllMarks(req) = MarkLoad(req.messages, req.system)
          /\ MarkLoad(req.messages, req.system) \in Nat
    <3>1. Load("marks", req.messages)
            = Total([i \in DOMAIN req.messages |-> MarksIn(req.messages[i].blocks)])
      BY MessageLoads
    <3>2. IsMessages(req.messages) /\ IsSystem(req.system)
      BY <2>1 DEF RequestFits, IsRequest
    <3>3. /\ Load("marks", req.messages) \in Nat /\ MarksIn(req.system) \in Nat
          /\ MarkLoad(req.messages, req.system) \in Nat
      BY <3>2, MarkLoadNat
    <3>4. AllMarks(req) = MarksIn(req.system) + Load("marks", req.messages)
      BY <3>1 DEF AllMarks
    <3> QED
      BY <3>3, <3>4 DEF MarkLoad
  <2>3. AllMarks(Original) = MarkLoad(conv, setup.system)
    <3>1. Load("marks", conv) = Total([i \in DOMAIN conv |-> MarksIn(conv[i].blocks)])
      BY MessageLoads
    <3>2. IsMessages(conv) /\ IsSystem(setup.system)
      BY DEF Inv, ConvInv
    <3>3. Load("marks", conv) \in Nat /\ MarksIn(setup.system) \in Nat
      BY <3>2, MarkLoadNat
    <3>4. AllMarks(Original) = MarksIn(setup.system) + Load("marks", conv)
      BY <3>1 DEF AllMarks, Original
    <3> QED
      BY <3>3, <3>4 DEF MarkLoad
  <2>4. AllMarks(req) <= AllMarks(Original)
    BY <2>1, <2>2, <2>3 DEF RequestFits
  <2>5. ASSUME NEW i \in DOMAIN req.messages, NEW k \in DOMAIN req.messages[i].blocks
        PROVE  req.messages[i].blocks[k].cc # "global"
    <3>1. IsMessages(req.messages)
      BY <2>1 DEF RequestFits, IsRequest
    <3>2. i \in 1 .. Len(req.messages)
      BY <3>1, ListIs DEF IsMessages
    <3>3. IsBlocks(req.messages[i].blocks)
      BY <3>1, <3>2 DEF IsMessages, IsMessage
    <3>4. k \in 1 .. Len(req.messages[i].blocks)
      BY <3>3, ListIs DEF IsBlocks
    <3> QED
      BY <3>3, <3>4 DEF IsBlocks, IsBlock
  <2> QED
    BY <2>4, <2>5
<1> QED
  BY <1>1, ConversationInvariant, PTL

-----------------------------------------------------------------------------
(* What is picked of a list in two parts.                                    *)

(* Joining lists, the order of joining does not matter. *)
LEMMA ConcatLists ==
  ASSUME NEW a, NEW b, NEW c, IsList(a), IsList(b), IsList(c)
  PROVE  (a \o b) \o c = a \o (b \o c)
<1>1. PICK S : a \in Seq(S) /\ b \in Seq(S)
  BY Together
<1>2. PICK R : c \in Seq(R)
  BY DEF IsList
<1> DEFINE Q == S \cup R
<1>3. a \in Seq(Q) /\ b \in Seq(Q) /\ c \in Seq(Q)
  BY <1>1, <1>2
<1> HIDE DEF Q
<1>4. IsList(a \o b) /\ IsList(b \o c) /\ IsList((a \o b) \o c) /\ IsList(a \o (b \o c))
  BY ListConcat
<1>5. /\ Len((a \o b) \o c) = (Len(a) + Len(b)) + Len(c)
      /\ Len(a \o (b \o c)) = Len(a) + (Len(b) + Len(c))
  BY <1>4, ListConcat
<1>6. Len(a) \in Nat /\ Len(b) \in Nat /\ Len(c) \in Nat
  BY ListIs
<1>7. Len(a \o b) = Len(a) + Len(b) /\ Len(b \o c) = Len(b) + Len(c)
  BY ListConcat
<1>8. ASSUME NEW i \in 1 .. Len(a) + Len(b) + Len(c)
      PROVE  ((a \o b) \o c)[i] = (a \o (b \o c))[i]
  <2>1. CASE i \in 1 .. Len(a)
    <3>1. i \in 1 .. Len(a \o b)
      BY <1>6, <1>7, <2>1
    <3>2. ((a \o b) \o c)[i] = (a \o b)[i] /\ (a \o b)[i] = a[i]
      BY <1>4, <2>1, <3>1, ListConcat
    <3>3. (a \o (b \o c))[i] = a[i]
      BY <1>4, <2>1, ListConcat
    <3> QED
      BY <3>2, <3>3
  <2>2. CASE i - Len(a) \in 1 .. Len(b)
    <3> DEFINE j == i - Len(a)
    <3>0. i = Len(a) + j /\ j \in 1 .. Len(b) /\ j \in 1 .. Len(b \o c)
      BY <1>6, <1>7, <2>2
    <3>1. i \in 1 .. Len(a \o b)
      BY <1>6, <1>7, <2>2
    <3> HIDE DEF j
    <3>2. ((a \o b) \o c)[i] = (a \o b)[i]
      BY <1>4, <3>1, ListConcat
    <3>3. (a \o b)[i] = b[j]
      BY <3>0, ListConcat
    <3>4. (a \o (b \o c))[i] = (b \o c)[j]
      BY <1>4, <3>0, ListConcat
    <3>5. (b \o c)[j] = b[j]
      BY <3>0, ListConcat
    <3> QED
      BY <3>2, <3>3, <3>4, <3>5
  <2>3. CASE i - Len(a) - Len(b) \in 1 .. Len(c)
    <3> DEFINE j == i - Len(a) - Len(b)
               n == Len(b) + j
    <3>0. i = Len(a) + n /\ i = Len(a \o b) + j /\ j \in 1 .. Len(c) /\ n \in 1 .. Len(b \o c)
      BY <1>6, <1>7, <2>3
    <3>d. n = Len(b) + j
      OBVIOUS
    <3> HIDE DEF j, n
    <3>1. ((a \o b) \o c)[i] = c[j]
      BY <1>4, <3>0, ListConcat
    <3>2. (a \o (b \o c))[i] = (b \o c)[n]
      BY <1>4, <3>0, ListConcat
    <3>3. (b \o c)[n] = c[j]
      BY <3>0, <3>d, ListConcat
    <3> QED
      BY <3>1, <3>2, <3>3
  <2> QED
    BY <1>6, <2>1, <2>2, <2>3
<1>9. Len((a \o b) \o c) = Len(a) + Len(b) + Len(c) /\ Len(a \o (b \o c)) = Len(a) + Len(b) + Len(c)
  BY <1>5, <1>6
<1> QED
  BY <1>4, <1>8, <1>9, SameList

(* The same, with names for the lists that are joined. *)
LEMMA ConcatAgain ==
  ASSUME NEW a, NEW b, NEW c, NEW ab, NEW bc, IsList(a), IsList(b), IsList(c),
         ab = a \o b, bc = b \o c
  PROVE  ab \o c = a \o bc
<1>1. (a \o b) \o c = a \o (b \o c)
  BY ConcatLists
<1> QED
  BY <1>1

(* What is picked is a list. *)
LEMMA PickedList ==
  ASSUME NEW s, IsList(s), NEW chosen
  PROVE  IsList(Picked(s, chosen))
BY PickedBoth DEF Picks

(* What is picked so far is one. *)
LEMMA GrowsLists ==
  ASSUME NEW s, IsList(s), NEW chosen, NEW f, Grows(f, s, chosen), NEW n \in 0 .. Len(s)
  PROVE  IsList(f[n])
<1> DEFINE T == {k \in 0 .. n : IsList(f[k])}
<1>0. Len(s) \in Nat
  BY ListIs
<1>1. 0 \in T
  <2>1. f[0] = <<>>
    BY GrowsStart
  <2> QED
    BY <1>0, <2>1, ListEmpty
<1>2. ASSUME NEW k \in 1 .. n, k - 1 \in T PROVE k \in T
  <2>1. k \in 1 .. Len(s) /\ IsList(f[k - 1])
    BY <1>0, <1>2
  <2>2. f[k] = IF k \in chosen THEN Append(f[k - 1], s[k]) ELSE f[k - 1]
    BY <2>1, GrowsStep
  <2>3. IsList(Append(f[k - 1], s[k]))
    BY <2>1, ListAppend
  <2>4. IsList(f[k])
    BY <2>1, <2>2, <2>3
  <2> QED
    BY <2>4
<1>3. n \in T
  <2> HIDE DEF T
  <2> QED
    BY <1>0, <1>1, <1>2, UpTo
<1> QED
  BY <1>3

(* The first places and the others. *)
FirstAgree(a, chosen, n) == \A i \in 1 .. n : i \in a <=> i \in chosen
LaterAgree(b, chosen, n, m) == \A i \in 1 .. m - n : i \in b <=> n + i \in chosen

(* What is picked of a list is what is picked of its first elements, and of  *)
(* the others.                                                               *)
LEMMA PickedSplit ==
  ASSUME NEW s, IsList(s), NEW n \in 0 .. Len(s), NEW chosen, NEW a, NEW b,
         FirstAgree(a, chosen, n), LaterAgree(b, chosen, n, Len(s))
  PROVE  /\ IsList(Picked(SubSeq(s, 1, n), a)) /\ IsList(Picked(SubSeq(s, n + 1, Len(s)), b))
         /\ Picked(s, chosen)
              = Picked(SubSeq(s, 1, n), a) \o Picked(SubSeq(s, n + 1, Len(s)), b)
<1> DEFINE t == SubSeq(s, 1, n)
           u == SubSeq(s, n + 1, Len(s))
<1>0. Len(s) \in Nat
  BY ListIs
<1>1. IsList(t) /\ Len(t) = n /\ \A i \in 1 .. n : t[i] = s[i]
  <2>1. 1 \in 1 .. Len(s) + 1 /\ n \in 0 .. Len(s) /\ 1 <= n + 1
    BY <1>0
  <2>2. IsList(t) /\ Len(t) = n - 1 + 1 /\ \A i \in 1 .. n - 1 + 1 : t[i] = s[1 + i - 1]
    BY <2>1, ListSub
  <2>3. n - 1 + 1 = n /\ \A i \in 1 .. n : 1 + i - 1 = i
    BY <1>0
  <2> QED
    BY <2>2, <2>3
<1>2. IsList(u) /\ Len(u) = Len(s) - n /\ \A i \in 1 .. Len(s) - n : u[i] = s[n + i]
  <2>1. n + 1 \in 1 .. Len(s) + 1 /\ Len(s) \in 0 .. Len(s) /\ n + 1 <= Len(s) + 1
    BY <1>0
  <2>2. /\ IsList(u) /\ Len(u) = Len(s) - (n + 1) + 1
        /\ \A i \in 1 .. Len(s) - (n + 1) + 1 : u[i] = s[n + 1 + i - 1]
    BY <2>1, ListSub
  <2>3. Len(s) - (n + 1) + 1 = Len(s) - n /\ \A i \in 1 .. Len(s) - n : n + 1 + i - 1 = n + i
    BY <1>0
  <2> QED
    BY <2>2, <2>3
<1> HIDE DEF t, u
<1>3. PICK f : Picked(s, chosen) = f[Len(s)] /\ Grows(f, s, chosen)
  BY <1>0, PickedGrows
<1>4. PICK g : Picked(t, a) = g[Len(t)] /\ Grows(g, t, a)
  BY <1>0, <1>1, PickedGrows
<1>5. PICK h : Picked(u, b) = h[Len(u)] /\ Grows(h, u, b)
  BY <1>0, <1>2, PickedGrows
<1>6. f[n] = g[n]
  <2> DEFINE T == {k \in 0 .. n : f[k] = g[k]}
  <2>1. 0 \in T
    <3>1. f[0] = <<>> /\ g[0] = <<>>
      BY <1>3, <1>4, GrowsStart
    <3> QED
      BY <1>0, <3>1
  <2>2. ASSUME NEW k \in 1 .. n, k - 1 \in T PROVE k \in T
    <3>1. k \in 1 .. Len(s) /\ k \in 1 .. Len(t) /\ t[k] = s[k] /\ f[k - 1] = g[k - 1]
      BY <1>0, <1>1, <2>2
    <3>2. f[k] = IF k \in chosen THEN Append(f[k - 1], s[k]) ELSE f[k - 1]
      BY <1>3, <3>1, GrowsStep
    <3>3. g[k] = IF k \in a THEN Append(g[k - 1], t[k]) ELSE g[k - 1]
      BY <1>4, <3>1, GrowsStep
    <3>4. k \in a <=> k \in chosen
      BY DEF FirstAgree
    <3>5. f[k] = g[k]
      BY <3>1, <3>2, <3>3, <3>4
    <3> QED
      BY <3>5
  <2>3. n \in T
    <3> HIDE DEF T
    <3> QED
      BY <1>0, <2>1, <2>2, UpTo
  <2> QED
    BY <2>3
<1> DEFINE m == Len(s) - n
<1>m. m \in Nat /\ n + m = Len(s) /\ n \in Nat /\ n + 0 = n
  BY <1>0
<1>7. f[n + m] = g[n] \o h[m]
  <2> DEFINE T == {k \in 0 .. m : f[n + k] = g[n] \o h[k]}
  <2>0. IsList(g[n])
    <3>1. n \in 0 .. Len(t)
      BY <1>1, <1>m
    <3> QED
      BY <1>1, <1>4, <3>1, GrowsLists
  <2>1. 0 \in T
    <3>1. h[0] = <<>>
      BY <1>5, GrowsStart
    <3>2. g[n] \o <<>> = g[n]
      <4>1. PICK S : g[n] \in Seq(S)
        BY <2>0 DEF IsList
      <4> HIDE DEF m
      <4> QED
        BY <4>1
    <3>3. f[n + 0] = g[n] \o h[0]
      BY <1>6, <1>m, <3>1, <3>2, Zenon
    <3>4. 0 \in 0 .. m
      BY <1>m
    <3> QED
      BY <3>3, <3>4
  <2>2. ASSUME NEW k \in 1 .. m, k - 1 \in T PROVE k \in T
    <3>1. /\ n + k \in 1 .. Len(s) /\ k \in 1 .. Len(u) /\ u[k] = s[n + k]
          /\ (n + k) - 1 = n + (k - 1)
      BY <1>0, <1>2, <1>m
    <3>2. f[n + (k - 1)] = g[n] \o h[k - 1]
      BY <2>2
    <3>3. f[n + k] = IF n + k \in chosen THEN Append(f[n + (k - 1)], s[n + k]) ELSE f[n + (k - 1)]
      BY <1>3, <3>1, GrowsStep
    <3>4. h[k] = IF k \in b THEN Append(h[k - 1], u[k]) ELSE h[k - 1]
      BY <1>5, <3>1, GrowsStep
    <3>5. k \in b <=> n + k \in chosen
      BY DEF LaterAgree
    <3>6. IsList(h[k - 1])
      <4>1. k - 1 \in 0 .. Len(u)
        BY <1>0, <1>2, <1>m
      <4> QED
        BY <1>2, <1>5, <4>1, GrowsLists
    <3>7. Append(g[n] \o h[k - 1], s[n + k]) = g[n] \o Append(h[k - 1], s[n + k])
      <4> DEFINE x == s[n + k]
                 y == h[k - 1]
                 z == g[n]
                 one == <<x>>
      <4>1. IsList(z) /\ IsList(y) /\ IsList(one) /\ IsList(z \o y)
        BY <2>0, <3>6, ListOne, ListConcat
      <4> HIDE DEF x, y, z
      <4>2. Append(z \o y, x) = (z \o y) \o one
        BY <4>1, AppendIs, Zenon
      <4>a. Append(y, x) = y \o one
        BY <4>1, AppendIs
      <4> HIDE DEF one
      <4> DEFINE zy == z \o y
                 yo == y \o one
      <4>b. zy = z \o y /\ yo = y \o one
        OBVIOUS
      <4> HIDE DEF zy, yo
      <4>c. zy \o one = z \o yo
        BY <4>1, <4>b, ConcatAgain
      <4>3. (z \o y) \o one = z \o (y \o one)
        BY <4>b, <4>c, Zenon
      <4>4. Append(z \o y, x) = z \o Append(y, x)
        BY <4>2, <4>a, <4>3, Zenon
      <4> QED
        BY <4>4 DEF x, y, z
    <3>8. f[n + k] = g[n] \o h[k]
      BY <3>1, <3>2, <3>3, <3>4, <3>5, <3>7, Zenon
    <3>9. k \in 0 .. m
      BY <1>m
    <3> QED
      BY <3>8, <3>9
  <2>3. m \in T
    <3> HIDE DEF T, m
    <3> QED
      BY <1>m, <2>1, <2>2, UpTo
  <2> QED
    BY <2>3
<1>8. Picked(t, a) = g[n] /\ Picked(u, b) = h[m] /\ Picked(s, chosen) = f[n + m]
  BY <1>1, <1>2, <1>3, <1>4, <1>5, <1>m
<1>9. IsList(Picked(t, a)) /\ IsList(Picked(u, b))
  BY <1>1, <1>2, PickedList
<1> QED
  BY <1>7, <1>8, <1>9 DEF t, u

(* The first elements of a list. *)
LEMMA FirstOnes ==
  ASSUME NEW s, IsList(s), NEW n \in Nat, n <= Len(s)
  PROVE  /\ IsList(SubSeq(s, 1, n)) /\ Len(SubSeq(s, 1, n)) = n
         /\ \A i \in 1 .. n : SubSeq(s, 1, n)[i] = s[i]
<1>0. Len(s) \in Nat
  BY ListIs
<1>1. 1 \in 1 .. Len(s) + 1 /\ n \in 0 .. Len(s) /\ 1 <= n + 1
  BY <1>0
<1>2. /\ IsList(SubSeq(s, 1, n)) /\ Len(SubSeq(s, 1, n)) = n - 1 + 1
      /\ \A i \in 1 .. n - 1 + 1 : SubSeq(s, 1, n)[i] = s[1 + i - 1]
  BY <1>1, ListSub
<1>3. n - 1 + 1 = n /\ \A i \in 1 .. n : 1 + i - 1 = i
  OBVIOUS
<1> QED
  BY <1>2, <1>3

(* What is picked of the first elements comes first. *)
LEMMA PickedPrefix ==
  ASSUME NEW s, IsList(s), NEW n \in 0 .. Len(s), NEW chosen, NEW a, FirstAgree(a, chosen, n)
  PROVE  IsPrefix(Picked(SubSeq(s, 1, n), a), Picked(s, chosen))
<1> DEFINE b == {i \in 1 .. Len(s) - n : n + i \in chosen}
           p == Picked(SubSeq(s, 1, n), a)
           q == Picked(SubSeq(s, n + 1, Len(s)), b)
<1>1. LaterAgree(b, chosen, n, Len(s))
  BY DEF LaterAgree
<1> HIDE DEF b
<1>2. IsList(p) /\ IsList(q) /\ Picked(s, chosen) = p \o q
  BY <1>1, PickedSplit
<1> HIDE DEF p, q
<1>3. IsPrefix(p, p \o q)
  <2>1. IsList(p \o q) /\ Len(p \o q) = Len(p) + Len(q) /\ \A i \in 1 .. Len(p) : (p \o q)[i] = p[i]
    BY <1>2, ListConcat
  <2>2. Len(p) \in Nat /\ Len(q) \in Nat
    BY <1>2, ListIs
  <2>3. Len(p) <= Len(p \o q)
    BY <2>1, <2>2
  <2>4. IsList(SubSeq(p, 1, Len(p))) /\ Len(SubSeq(p, 1, Len(p))) = Len(p)
        /\ \A i \in 1 .. Len(p) : SubSeq(p, 1, Len(p))[i] = p[i]
    BY <1>2, <2>2, FirstOnes
  <2>5. IsList(SubSeq(p \o q, 1, Len(p))) /\ Len(SubSeq(p \o q, 1, Len(p))) = Len(p)
        /\ \A i \in 1 .. Len(p) : SubSeq(p \o q, 1, Len(p))[i] = (p \o q)[i]
    BY <2>1, <2>2, <2>3, FirstOnes
  <2>6. SubSeq(p, 1, Len(p)) = SubSeq(p \o q, 1, Len(p))
    BY <2>1, <2>4, <2>5, SameList
  <2> QED
    BY <2>3, <2>6 DEF IsPrefix
<1> QED
  BY <1>2, <1>3 DEF p

-----------------------------------------------------------------------------
(* Turns of which stripping leaves nothing.                                  *)

(* A list with an element is not empty. *)
LEMMA NotEmpty ==
  ASSUME NEW s, IsList(s)
  PROVE  s # <<>> <=> Len(s) > 0
<1>1. Len(s) \in Nat
  BY ListIs
<1>2. Len(s) = 0 => s = <<>>
  <2>1. PICK S : s \in Seq(S)
    BY DEF IsList
  <2> QED
    BY <2>1
<1>3. s = <<>> => Len(s) = 0
  BY ListEmpty, Zenon
<1> QED
  BY <1>1, <1>2, <1>3

(* One of the first places is chosen. *)
ChosenUpTo(chosen, k) == \E i \in 1 .. k : i \in chosen

(* What is chosen is picked. *)
LEMMA PickedSome ==
  ASSUME NEW s, IsList(s), NEW chosen, NEW p \in 1 .. Len(s), p \in chosen
  PROVE  Picked(s, chosen) # <<>>
<1>0. Len(s) \in Nat
  BY ListIs
<1>1. PICK f : Picked(s, chosen) = f[Len(s)] /\ Grows(f, s, chosen)
  BY <1>0, PickedGrows
<1> DEFINE T == {k \in 0 .. Len(s) : ChosenUpTo(chosen, k) => Len(f[k]) > 0}
<1>2. 0 \in T
  BY <1>0 DEF ChosenUpTo
<1>3. ASSUME NEW k \in 1 .. Len(s), k - 1 \in T PROVE k \in T
  <2>0. IsList(f[k - 1]) /\ Len(f[k - 1]) \in Nat
    <3>1. k - 1 \in 0 .. Len(s)
      BY <1>0
    <3>2. IsList(f[k - 1])
      BY <1>1, <3>1, GrowsLists
    <3> QED
      BY <3>2, ListIs
  <2>1. f[k] = IF k \in chosen THEN Append(f[k - 1], s[k]) ELSE f[k - 1]
    BY <1>1, GrowsStep
  <2>2. CASE k \in chosen
    <3>1. Len(Append(f[k - 1], s[k])) = Len(f[k - 1]) + 1
      BY <2>0, ListAppend
    <3>2. Len(f[k]) > 0
      BY <2>0, <2>1, <2>2, <3>1
    <3> QED
      BY <3>2
  <2>3. CASE k \notin chosen
    <3>1. ChosenUpTo(chosen, k) => ChosenUpTo(chosen, k - 1)
      BY <1>0, <2>3 DEF ChosenUpTo
    <3>2. ChosenUpTo(chosen, k) => Len(f[k]) > 0
      BY <1>3, <2>1, <2>3, <3>1
    <3> QED
      BY <3>2
  <2> QED
    BY <2>2, <2>3
<1>4. Len(s) \in T
  <2> HIDE DEF T
  <2> QED
    BY <1>0, <1>2, <1>3, UpTo
<1>5. ChosenUpTo(chosen, Len(s))
  BY DEF ChosenUpTo
<1>6. Len(f[Len(s)]) > 0
  BY <1>4, <1>5
<1>7. IsList(Picked(s, chosen))
  BY PickedList
<1> QED
  BY <1>1, <1>6, <1>7, NotEmpty, Zenon

(* Of lines that leave nothing each one is a command. *)
LEMMA LinesGone ==
  ASSUME NEW lines, IsList(lines), StripLines(lines) = <<>>
  PROVE  \A i \in DOMAIN lines : IsCommand(lines[i])
<1> SUFFICES ASSUME NEW i \in DOMAIN lines, ~IsCommand(lines[i]) PROVE FALSE
  OBVIOUS
<1>1. i \in 1 .. Len(lines)
  BY ListIs
<1>2. i \in {k \in DOMAIN lines : ~IsCommand(lines[k])}
  OBVIOUS
<1> QED
  BY <1>1, <1>2, PickedSome DEF StripLines

(* No lines, nothing to strip. *)
LEMMA NoLines == StripLines(<<>>) = <<>>
<1> DEFINE c == {i \in DOMAIN <<>> : ~IsCommand(<<>>[i])}
<1>1. Len(<<>>) \in Nat /\ Len(<<>>) = 0
  BY ListEmpty
<1>2. PICK f : Picked(<<>>, c) = f[Len(<<>>)] /\ Grows(f, <<>>, c)
  BY <1>1, PickedGrows
<1>3. f[0] = <<>>
  BY <1>2, GrowsStart
<1> QED
  BY <1>1, <1>2, <1>3 DEF StripLines

(* A block that leaves nothing.                                              *)
Gone(b) == HasCommand(b) /\ IsBlank(b) /\ b.cc = NoMark

(* Stripping never empties a list that has something in it. *)
LEMMA StripKeeps ==
  ASSUME NEW kept, IsList(kept), NEW b
  PROVE  /\ IsList(StripBlock(kept, b))
         /\ Len(kept) > 0 \/ ~Gone(b) => Len(StripBlock(kept, b)) > 0
<1>0. Len(kept) \in Nat
  BY ListIs
<1>1. ASSUME NEW x PROVE IsList(Append(kept, x)) /\ Len(Append(kept, x)) > 0
  <2>1. IsList(Append(kept, x)) /\ Len(Append(kept, x)) = Len(kept) + 1
    BY ListAppend
  <2> QED
    BY <1>0, <2>1
<1>2. CASE ~HasCommand(b)
  BY <1>1, <1>2 DEF StripBlock
<1>3. CASE HasCommand(b) /\ ~IsBlank(b)
  BY <1>1, <1>3 DEF StripBlock
<1>4. CASE HasCommand(b) /\ IsBlank(b) /\ b.cc = NoMark
  <2>1. StripBlock(kept, b) = kept /\ Gone(b)
    BY <1>4 DEF StripBlock, Gone
  <2> QED
    BY <2>1
<1>5. CASE HasCommand(b) /\ IsBlank(b) /\ b.cc # NoMark /\ kept = <<>>
  <2>1. StripBlock(kept, b) = <<b>>
    BY <1>5 DEF StripBlock
  <2>2. IsList(<<b>>) /\ Len(<<b>>) = 1
    BY ListOne
  <2> QED
    BY <2>1, <2>2
<1>6. CASE HasCommand(b) /\ IsBlank(b) /\ b.cc # NoMark /\ kept # <<>>
  <2> DEFINE e == [kept[Len(kept)] EXCEPT !.cc = b.cc]
             t == [kept EXCEPT ![Len(kept)] = e]
  <2>1. StripBlock(kept, b) = t
    BY <1>6 DEF StripBlock
  <2> HIDE DEF e
  <2>2. IsList(t) /\ Len(t) = Len(kept)
    BY ListExcept
  <2>3. Len(kept) > 0
    BY <1>6, NotEmpty
  <2> QED
    BY <2>1, <2>2, <2>3
<1> QED
  BY <1>2, <1>3, <1>4, <1>5, <1>6

(* A block that stays is among the first. *)
StaysUpTo(blocks, k) == \E i \in 1 .. k : ~Gone(blocks[i])

(* Of blocks that leave nothing each one does. *)
LEMMA BlocksGone ==
  ASSUME NEW blocks, IsList(blocks), StripBlocks(blocks) = <<>>
  PROVE  \A i \in 1 .. Len(blocks) : Gone(blocks[i])
<1>0. Len(blocks) \in Nat
  BY ListIs
<1>1. PICK f : /\ StripBlocks(blocks) = f[Len(blocks)] /\ f[0] = <<>>
               /\ \A i \in 1 .. Len(blocks) : f[i] = StripBlock(f[i - 1], blocks[i])
  BY <1>0, StripIs
<1> DEFINE T == {k \in 0 .. Len(blocks) :
                   IsList(f[k]) /\ (StaysUpTo(blocks, k) => Len(f[k]) > 0)}
<1>2. 0 \in T
  <2>1. IsList(f[0])
    BY <1>1, ListEmpty
  <2>2. ~StaysUpTo(blocks, 0)
    BY DEF StaysUpTo
  <2> QED
    BY <1>0, <2>1, <2>2
<1>3. ASSUME NEW k \in 1 .. Len(blocks), k - 1 \in T PROVE k \in T
  <2>1. f[k] = StripBlock(f[k - 1], blocks[k])
    BY <1>1
  <2>2. IsList(f[k - 1]) /\ (StaysUpTo(blocks, k - 1) => Len(f[k - 1]) > 0)
    BY <1>3
  <2>3. StaysUpTo(blocks, k) => StaysUpTo(blocks, k - 1) \/ ~Gone(blocks[k])
    BY <1>0 DEF StaysUpTo
  <2>4. IsList(f[k]) /\ (StaysUpTo(blocks, k) => Len(f[k]) > 0)
    BY <2>1, <2>2, <2>3, StripKeeps
  <2> QED
    BY <2>4
<1>4. Len(blocks) \in T
  <2> HIDE DEF T
  <2> QED
    BY <1>0, <1>2, <1>3, UpTo
<1>5. f[Len(blocks)] = <<>> /\ Len(<<>>) = 0
  BY <1>1, ListEmpty
<1>6. ~StaysUpTo(blocks, Len(blocks))
  BY <1>4, <1>5
<1> QED
  BY <1>6 DEF StaysUpTo

(* A text of the client: it has a head if it is a reminder.                  *)
IsLines(lines) == IsList(lines) /\ \A i \in 1 .. Len(lines) : lines[i] \in Lines
IsSaid(b) ==
  b.type = "text" => IsLines(b.head) /\ IsLines(b.lines) /\ (b.rem <=> b.head # <<>>)
AllSaid(m) == IsList(m.blocks) /\ \A k \in 1 .. Len(m.blocks) : IsSaid(m.blocks[k])

(* A turn that leaves nothing consists of commands. *)
LEMMA NothingIsSaid ==
  ASSUME NEW m, AllSaid(m), NothingLeft(m)
  PROVE  IsCommandOnlyTurn(m, TRUE)
<1>1. m.role = "user" /\ m.blocks # <<>> /\ StripBlocks(m.blocks) = <<>> /\ IsList(m.blocks)
  BY DEF NothingLeft, AllSaid
<1>2. \A i \in 1 .. Len(m.blocks) : Gone(m.blocks[i]) /\ IsSaid(m.blocks[i])
  BY <1>1, BlocksGone DEF AllSaid
<1>3. DOMAIN m.blocks = 1 .. Len(m.blocks) /\ 1 \in 1 .. Len(m.blocks)
  BY <1>1, ListIs, NotEmpty
<1>4. ASSUME NEW k \in DOMAIN m.blocks
      PROVE  /\ m.blocks[k].type = "text"
             /\ \A i \in DOMAIN m.blocks[k].lines : IsCommand(m.blocks[k].lines[i])
  <2> DEFINE b == m.blocks[k]
  <2>1. Gone(b) /\ IsSaid(b)
    BY <1>2, <1>3
  <2> HIDE DEF b
  <2>2. b.type = "text" /\ StripLines(b.lines) = <<>>
    BY <2>1 DEF Gone, HasCommand, IsBlank
  <2>3. IsList(b.lines)
    BY <2>1, <2>2 DEF IsSaid, IsLines
  <2>4. \A i \in DOMAIN b.lines : IsCommand(b.lines[i])
    BY <2>2, <2>3, LinesGone
  <2> QED
    BY <2>2, <2>4 DEF b
<1>5. m.blocks[1].lines # <<>>
  <2> DEFINE b == m.blocks[1]
  <2>1. Gone(b) /\ IsSaid(b)
    BY <1>2, <1>3
  <2> HIDE DEF b
  <2>2. b.type = "text" /\ ~b.rem /\ (StripLines(b.lines) # b.lines \/ StripLines(b.head) # b.head)
    BY <2>1 DEF Gone, HasCommand, IsBlank
  <2>3. b.head = <<>>
    BY <2>1, <2>2, Zenon DEF IsSaid
  <2>4. b.lines # <<>>
    BY <2>2, <2>3, NoLines, Zenon
  <2> QED
    BY <2>4 DEF b
<1> QED
  BY <1>1, <1>3, <1>4, <1>5 DEF IsCommandOnlyTurn

-----------------------------------------------------------------------------
(* What the client says is made of lines.                                    *)

SaysWell(messages) ==
  /\ IsList(messages)
  /\ \A i \in 1 .. Len(messages) : messages[i].role = "user" => AllSaid(messages[i])

FilesWell(system) == IsList(system) /\ \A k \in 1 .. Len(system) : IsLines(system[k].lines)

(* What the client has said, in its turns and in its system prompt. *)
SaidInv == SaysWell(conv) /\ FilesWell(setup.system)

(* A sequence of lines is a list of them. *)
LEMMA LinesAre ==
  ASSUME NEW lines \in Seq(Lines)
  PROVE  IsLines(lines)
<1>1. IsList(lines)
  BY DEF IsList
<1>2. \A i \in 1 .. Len(lines) : lines[i] \in Lines
  OBVIOUS
<1> QED
  BY <1>1, <1>2 DEF IsLines

(* What the user may say next. *)
LEMMA UserSaysWell ==
  ASSUME NEW blocks \in UserTurns
  PROVE  IsList(blocks) /\ \A k \in 1 .. Len(blocks) : IsSaid(blocks[k])
<1>1. CASE blocks \in Turns
  <2>1. blocks \in Seq(TextBlocks \cup Images)
    BY <1>1, ConversationAssumption
  <2>2. IsList(blocks)
    BY <2>1 DEF IsList
  <2>3. ASSUME NEW b \in TextBlocks \cup Images
        PROVE  IsSaid(b)
    <3>1. CASE b \in TextBlocks
      <4>1. /\ b \in [type : {"text"}, rem : BOOLEAN, head : Seq(Lines), lines : Seq(Lines),
                      cc : {NoMark, "local"}]
            /\ b.rem <=> b.head # <<>>
        BY <3>1 DEF TextBlocks
      <4>2. b.head \in Seq(Lines) /\ b.lines \in Seq(Lines)
        BY <4>1
      <4>3. IsLines(b.head) /\ IsLines(b.lines)
        BY <4>2, LinesAre
      <4> QED
        BY <4>1, <4>3, Zenon DEF IsSaid
    <3>2. CASE b \in Images
      <4>1. b.type # "text"
        BY <3>2 DEF Images
      <4> QED
        BY <4>1 DEF IsSaid
    <3> QED
      BY <3>1, <3>2
  <2>4. \A k \in 1 .. Len(blocks) : blocks[k] \in TextBlocks \cup Images
    BY <2>1
  <2> QED
    BY <2>2, <2>3, <2>4
<1>2. CASE blocks \notin Turns
  <2>1. PICK parts \in Answers, error \in BOOLEAN : blocks = <<ToolResult(parts, error)>>
    BY <1>2 DEF UserTurns
  <2> DEFINE b == ToolResult(parts, error)
  <2>2. b.type # "text"
    BY DEF ToolResult
  <2> HIDE DEF b
  <2>3. IsList(<<b>>) /\ Len(<<b>>) = 1 /\ <<b>>[1] = b
    BY ListOne
  <2>4. IsSaid(b)
    BY <2>2 DEF IsSaid
  <2>5. blocks = <<b>>
    BY <2>1 DEF b
  <2>6. \A k \in 1 .. Len(<<b>>) : IsSaid(<<b>>[k])
    BY <2>3, <2>4
  <2> QED
    BY <2>3, <2>5, <2>6
<1> QED
  BY <1>1, <1>2

(* A conversation with one turn more. *)
LEMMA OneMoreSays ==
  ASSUME NEW messages, SaysWell(messages), NEW m, m.role = "user" => AllSaid(m)
  PROVE  SaysWell(Append(messages, m))
<1>0. IsList(messages) /\ Len(messages) \in Nat
  BY ListIs DEF SaysWell
<1> DEFINE t == Append(messages, m)
<1>1. IsList(t) /\ Len(t) = Len(messages) + 1 /\ t[Len(messages) + 1] = m
      /\ \A i \in 1 .. Len(messages) : t[i] = messages[i]
  BY <1>0, ListAppend
<1> HIDE DEF t
<1>2. ASSUME NEW i \in 1 .. Len(t), t[i].role = "user" PROVE AllSaid(t[i])
  <2>1. CASE i = Len(messages) + 1
    BY <1>1, <1>2, <2>1
  <2>2. CASE i \in 1 .. Len(messages)
    <3>1. t[i] = messages[i]
      BY <1>1, <2>2
    <3>2. messages[i].role = "user"
      BY <1>2, <3>1
    <3> QED
      BY <2>2, <3>1, <3>2 DEF SaysWell
  <2> QED
    BY <1>0, <1>1, <2>1, <2>2
<1>3. SaysWell(t)
  BY <1>1, <1>2 DEF SaysWell
<1> QED
  BY <1>3 DEF t

(* The provider and the proxy say nothing as the user. *)
LEMMA AnswerSays ==
  ASSUME NEW messages, SaysWell(messages), NEW at, NEW blocks
  PROVE  SaysWell(Append(messages, [role |-> "assistant", at |-> at, blocks |-> blocks]))
<1> DEFINE m == [role |-> "assistant", at |-> at, blocks |-> blocks]
<1>1. m.role # "user"
  OBVIOUS
<1> HIDE DEF m
<1>2. SaysWell(Append(messages, m))
  BY <1>1, OneMoreSays
<1> QED
  BY <1>2 DEF m

(* At first nothing is said, and the system prompt is made of lines. *)
LEMMA SaidStarts == ConversationInit => SaidInv
<1> SUFFICES ASSUME ConversationInit
             PROVE  SaidInv
  OBVIOUS
<1>1. conv = <<>> /\ setup.system \in Systems
  BY DEF ConversationInit
<1>2. SaysWell(<<>>)
  BY ListEmpty DEF SaysWell
<1>3. ASSUME NEW system \in Systems PROVE FilesWell(system)
  <2>1. system \in Seq(SystemBlocks)
    BY ConversationAssumption
  <2>2. IsList(system)
    BY <2>1 DEF IsList
  <2>3. \A k \in 1 .. Len(system) : system[k] \in SystemBlocks
    BY <2>1
  <2>4. ASSUME NEW b \in SystemBlocks PROVE IsLines(b.lines)
    <3>1. b.lines \in Seq(Lines)
      BY DEF SystemBlocks
    <3> QED
      BY <3>1, LinesAre
  <2> QED
    BY <2>2, <2>3, <2>4 DEF FilesWell
<1> QED
  BY <1>1, <1>2, <1>3 DEF SaidInv

(* A turn of the user keeps that, *)
LEMMA SaidSpeak == SaidInv /\ Speak => SaidInv'
<1> SUFFICES ASSUME SaidInv, Speak
             PROVE  SaidInv'
  OBVIOUS
<1>1. PICK blocks \in UserTurns : Received(Append(conv, Message("user", blocks)))
  BY DEF Speak
<1> DEFINE m == [role |-> "user", at |-> Len(conv) + 1, blocks |-> blocks]
           messages == Append(conv, m)
<1>2. AllSaid(m)
  <2>1. m.blocks = blocks
    OBVIOUS
  <2> HIDE DEF m
  <2> QED
    BY <2>1, UserSaysWell DEF AllSaid
<1>3. Received(messages)
  BY <1>1 DEF Message
<1> HIDE DEF m
<1>4. SaysWell(messages)
  BY <1>2, OneMoreSays DEF SaidInv
<1> HIDE DEF messages
<1>5. SaysWell(conv')
  <2>1. CASE IsPinOnlyRequest(messages)
    <3> DEFINE reply == <<Text(<<>>, <<PinReply>>, NoMark)>>
    <3>1. conv' = Append(messages,
                         [role |-> "assistant", at |-> Len(messages) + 1, blocks |-> reply])
      BY <1>3, <2>1 DEF Received
    <3> HIDE DEF reply
    <3> QED
      BY <1>4, <3>1, AnswerSays
  <2>2. CASE ~IsPinOnlyRequest(messages)
    <3>1. conv' = messages
      BY <1>3, <2>2 DEF Received
    <3> QED
      BY <1>4, <3>1
  <2> QED
    BY <2>1, <2>2
<1>6. FilesWell(setup'.system)
  BY DEF Speak, SaidInv
<1> QED
  BY <1>5, <1>6 DEF SaidInv

(* and so does an answer. *)
LEMMA SaidAnswered ==
  ASSUME NEW blocks
  PROVE  SaidInv /\ Answered(blocks) => SaidInv'
<1> SUFFICES ASSUME SaidInv, Answered(blocks)
             PROVE  SaidInv'
  OBVIOUS
<1>1. /\ conv' = Append(conv, [role |-> "assistant", at |-> Len(conv) + 1, blocks |-> blocks])
      /\ setup' = setup
  BY DEF Answered, Message
<1>2. SaysWell(conv')
  BY <1>1, AnswerSays DEF SaidInv
<1> QED
  BY <1>1, <1>2 DEF SaidInv

(* Every text and every line of a turn of the user is one of the client's.   *)
THEOREM SaidInvariant == ConversationSpec => []SaidInv
<1>1. ConversationInit => SaidInv
  BY SaidStarts
<1>2. SaidInv /\ [ConversationNext]_conversationVars => SaidInv'
  <2> SUFFICES ASSUME SaidInv, [ConversationNext]_conversationVars
               PROVE  SaidInv'
    OBVIOUS
  <2>1. CASE Speak
    BY <2>1, SaidSpeak
  <2>2. CASE UNCHANGED <<conv, setup>>
    BY <2>2 DEF SaidInv
  <2>3. CASE Answer
    BY <2>3, SaidAnswered DEF Answer
  <2>4. Transform \/ Fail \/ UNCHANGED conversationVars => UNCHANGED <<conv, setup>>
    BY DEF Transform, Fail, conversationVars
  <2> QED
    BY <2>1, <2>2, <2>3, <2>4 DEF ConversationNext
<1> QED
  BY <1>1, <1>2, PTL DEF ConversationSpec

-----------------------------------------------------------------------------
(* Stripping again what was stripped before.                                 *)

GoneOf(messages) == {i \in DOMAIN messages : PairGoes(messages, i)}
KeptOf(messages) == DOMAIN messages \ (GoneOf(messages) \cup {i + 1 : i \in GoneOf(messages)})
StrippedOf(messages) == [i \in DOMAIN messages |-> StripMessage(messages[i])]

(* A turn that goes with its answer consists of commands. *)
LEMMA GoesIsCommands ==
  ASSUME NEW messages, SaysWell(messages), NEW i \in DOMAIN messages, PairGoes(messages, i)
  PROVE  IsCommandOnlyTurn(messages[i], TRUE)
<1>1. CASE IsCommandOnlyTurn(messages[i], FALSE)
  BY <1>1 DEF IsCommandOnlyTurn
<1>2. CASE NothingLeft(messages[i])
  <2>1. i \in 1 .. Len(messages)
    BY ListIs DEF SaysWell
  <2>2. messages[i].role = "user"
    BY <1>2 DEF NothingLeft
  <2>3. AllSaid(messages[i])
    BY <2>1, <2>2 DEF SaysWell
  <2> QED
    BY <1>2, <2>3, NothingIsSaid
<1> QED
  BY <1>1, <1>2 DEF PairGoes, GoesWithAnswer

(* If a turn of the user is not one of commands, what stripping makes of the *)
(* conversation up to it stays when the conversation goes on.                *)
LEMMA StripsPrefix ==
  ASSUME NEW messages, SaysWell(messages), NEW j \in Users(messages),
         ~IsPinOnlyRequest(SubSeq(messages, 1, j))
  PROVE  IsPrefix(StripPinCommands(SubSeq(messages, 1, j)), StripPinCommands(messages))
<1> DEFINE p == SubSeq(messages, 1, j)
<1>0. /\ IsList(messages) /\ Len(messages) \in Nat /\ DOMAIN messages = 1 .. Len(messages)
      /\ j \in 1 .. Len(messages) /\ messages[j].role = "user"
  BY ListIs DEF SaysWell, Users
<1>1. IsList(p) /\ Len(p) = j /\ \A i \in 1 .. j : p[i] = messages[i]
  BY <1>0, FirstOnes
<1>p. ~IsPinOnlyRequest(p)
  OBVIOUS
<1> HIDE DEF p
<1>d. DOMAIN p = 1 .. j
  BY <1>1, ListIs
<1>2. ~IsCommandOnlyTurn(messages[j], TRUE)
  <2> SUFFICES ASSUME IsCommandOnlyTurn(messages[j], TRUE) PROVE FALSE
    OBVIOUS
  <2>1. j \in 1 .. j
    BY <1>0
  <2>2. p[j] = messages[j] /\ p[j].role # "system"
    BY <1>0, <1>1, <2>1
  <2>3. j \in LiveTurns(p) /\ \A k \in LiveTurns(p) : k <= j
    BY <1>d, <2>1, <2>2 DEF LiveTurns
  <2> QED
    BY <1>p, <2>2, <2>3 DEF IsPinOnlyRequest
<1>3. ~PairGoes(messages, j)
  BY <1>0, <1>2, GoesIsCommands
<1>4. ~PairGoes(p, j)
  <2>1. ~(j < Len(p))
    BY <1>0, <1>1
  <2> QED
    BY <2>1, Zenon DEF PairGoes, GoesWithAnswer
<1>5. ASSUME NEW i \in 1 .. j - 1 PROVE PairGoes(p, i) <=> PairGoes(messages, i)
  <2>1. i < Len(p) /\ i < Len(messages) /\ i \in 1 .. j /\ i + 1 \in 1 .. j
    BY <1>0, <1>1
  <2>2. p[i] = messages[i] /\ p[i + 1] = messages[i + 1]
    BY <1>1, <2>1
  <2> QED
    BY <2>1, <2>2 DEF PairGoes, GoesWithAnswer
<1>6. \A i \in 1 .. j : i \in GoneOf(p) <=> i \in GoneOf(messages)
  BY <1>0, <1>d, <1>3, <1>4, <1>5 DEF GoneOf
<1>7. GoneOf(p) \subseteq 1 .. j /\ GoneOf(messages) \subseteq 1 .. Len(messages)
  BY <1>0, <1>d DEF GoneOf
<1>8. FirstAgree(KeptOf(p), KeptOf(messages), j)
  <2> DEFINE A == GoneOf(p)
             B == GoneOf(messages)
  <2>1. /\ A \subseteq 1 .. j /\ B \subseteq 1 .. Len(messages)
        /\ \A i \in 1 .. j : i \in A <=> i \in B
    BY <1>6, <1>7
  <2>2. /\ KeptOf(p) = (1 .. j) \ (A \cup {i + 1 : i \in A})
        /\ KeptOf(messages) = (1 .. Len(messages)) \ (B \cup {i + 1 : i \in B})
    BY <1>0, <1>d DEF KeptOf
  <2> HIDE DEF A, B
  <2>3. \A i \in 1 .. j : i \in {k + 1 : k \in A} <=> i \in {k + 1 : k \in B}
    BY <1>0, <2>1
  <2> QED
    BY <1>0, <2>1, <2>2, <2>3 DEF FirstAgree
<1> DEFINE s == StrippedOf(messages)
           t == StrippedOf(p)
<1>9. IsList(s) /\ Len(s) = Len(messages)
      /\ \A i \in 1 .. Len(messages) : s[i] = StripMessage(messages[i])
  <2>1. s = [i \in 1 .. Len(messages) |-> StripMessage(messages[i])]
    BY <1>0 DEF StrippedOf
  <2>2. \A i \in 1 .. Len(messages) : s[i] = StripMessage(messages[i])
    BY <2>1
  <2>3. s = [i \in 1 .. Len(messages) |-> s[i]]
    BY <2>1
  <2> HIDE DEF s
  <2>4. IsList(s) /\ Len(s) = Len(messages)
    BY <1>0, <2>3, IsListFrom
  <2> QED
    BY <2>2, <2>4
<1>10. IsList(t) /\ Len(t) = j /\ \A i \in 1 .. j : t[i] = StripMessage(p[i])
  <2>1. t = [i \in 1 .. j |-> StripMessage(p[i])]
    BY <1>d DEF StrippedOf
  <2>2. \A i \in 1 .. j : t[i] = StripMessage(p[i])
    BY <2>1
  <2>3. t = [i \in 1 .. j |-> t[i]]
    BY <2>1
  <2> HIDE DEF t
  <2>4. IsList(t) /\ Len(t) = j
    BY <1>0, <2>3, IsListFrom
  <2> QED
    BY <2>2, <2>4
<1>11. /\ StripPinCommands(messages) = Picked(s, KeptOf(messages))
       /\ StripPinCommands(p) = Picked(t, KeptOf(p))
  BY DEF StripPinCommands, KeptOf, GoneOf, StrippedOf
<1> HIDE DEF s, t
<1>12. t = SubSeq(s, 1, j)
  <2> DEFINE u == SubSeq(s, 1, j)
  <2>1. IsList(u) /\ Len(u) = j /\ \A i \in 1 .. j : u[i] = s[i]
    BY <1>0, <1>9, FirstOnes
  <2> HIDE DEF u
  <2>2. \A i \in 1 .. j : t[i] = u[i]
    BY <1>0, <1>1, <1>9, <1>10, <2>1
  <2>3. t = u
    BY <1>10, <2>1, <2>2, SameList
  <2> QED
    BY <2>3 DEF u
<1>13. IsPrefix(Picked(SubSeq(s, 1, j), KeptOf(p)), Picked(s, KeptOf(messages)))
  <2>1. j \in 0 .. Len(s)
    BY <1>0, <1>9
  <2> QED
    BY <1>8, <1>9, <2>1, PickedPrefix
<1>14. IsPrefix(StripPinCommands(p), StripPinCommands(messages))
  BY <1>11, <1>12, <1>13
<1> QED
  BY <1>14 DEF p

(* What stripping made of an earlier request is the beginning of what it     *)
(* makes of a later one, whatever was said between them.                     *)
THEOREM StripsRepeat == ConversationSpec => []StripRepeats
<1>1. SaidInv => StripRepeats
  BY StripsPrefix DEF SaidInv, StripRepeats
<1> QED
  BY <1>1, SaidInvariant, PTL

-----------------------------------------------------------------------------
(* Folding the commands of a conversation.                                   *)

(* The list after the first lines. *)
LinesSteps(f, held, lines, source, n) ==
  f = [i \in 0 .. n |-> IF i = 0 THEN held ELSE ApplyPinLine(f[i - 1], lines[i], source)]

(* It exists. *)
LEMMA LinesExist ==
  ASSUME NEW held, NEW lines, NEW source, NEW n \in Nat
  PROVE  \E f : LinesSteps(f, held, lines, source, n)
<1> DEFINE T == {k \in 0 .. n : \E f : LinesSteps(f, held, lines, source, k)}
<1>1. 0 \in T
  <2> DEFINE f == [i \in 0 .. 0 |-> held]
  <2>1. LinesSteps(f, held, lines, source, 0)
    BY DEF LinesSteps
  <2> QED
    BY <2>1
<1>2. ASSUME NEW k \in 1 .. n, k - 1 \in T PROVE k \in T
  <2>1. PICK f : LinesSteps(f, held, lines, source, k - 1)
    BY <1>2
  <2> DEFINE last == ApplyPinLine(f[k - 1], lines[k], source)
             g == [i \in 0 .. k |-> IF i <= k - 1 THEN f[i] ELSE last]
  <2>2. \A i \in 0 .. k : i <= k - 1 \/ i = k
    OBVIOUS
  <2>3. \A i \in 0 .. k - 1 : g[i] = f[i]
    OBVIOUS
  <2>4. g[k] = last
    OBVIOUS
  <2>5. \A i \in 0 .. k - 1 : f[i] =
        IF i = 0 THEN held ELSE ApplyPinLine(f[i - 1], lines[i], source)
    BY <2>1 DEF LinesSteps
  <2>6. g = [i \in 0 .. k |-> g[i]]
    OBVIOUS
  <2> HIDE DEF g
  <2>7. \A i \in 1 .. k : g[i - 1] = f[i - 1]
    BY <2>3
  <2>8. ASSUME NEW i \in 0 .. k
       PROVE  g[i] = IF i = 0 THEN held ELSE ApplyPinLine(g[i - 1], lines[i], source)
    <3>1. CASE i \in 0 .. k - 1
      BY <2>3, <2>5, <2>7, <3>1
    <3>2. CASE i = k
      BY <2>4, <2>7, <3>2
    <3> QED
      BY <2>2, <3>1, <3>2
  <2>9. LinesSteps(g, held, lines, source, k)
    BY <2>6, <2>8 DEF LinesSteps
  <2> QED
    BY <2>9
<1> HIDE DEF T
<1>3. n \in T
  BY <1>1, <1>2, UpTo
<1> QED
  BY <1>3 DEF T

LinesRun(f, held, lines, source) ==
  f[0] = held /\ \A i \in 1 .. Len(lines) : f[i] = ApplyPinLine(f[i - 1], lines[i], source)

(* And FoldLines is the last of it. *)
LEMMA LinesIs ==
  ASSUME NEW held, NEW lines, NEW source, Len(lines) \in Nat
  PROVE  \E f : FoldLines(held, lines, source) = f[Len(lines)] /\ LinesRun(f, held, lines, source)
<1> DEFINE n == Len(lines)
           h == CHOOSE f : LinesSteps(f, held, lines, source, n)
<1>1. LinesSteps(h, held, lines, source, n)
  BY LinesExist
<1>2. FoldLines(held, lines, source) = h[n]
  BY DEF FoldLines, LinesSteps
<1> HIDE DEF h
<1>3. \A i \in 0 .. n : h[i] = IF i = 0 THEN held ELSE ApplyPinLine(h[i - 1], lines[i], source)
  BY <1>1 DEF LinesSteps
<1>4. LinesRun(h, held, lines, source)
  BY <1>3 DEF LinesRun
<1> QED
  BY <1>2, <1>4

(* The list after the first blocks of a turn. *)
BlocksSteps(f, held, m, idx, n) ==
  f = [i \in 0 .. n |-> IF i = 0 THEN held ELSE FoldBlock(f[i - 1], m, idx, i)]

(* It exists. *)
LEMMA BlocksExist ==
  ASSUME NEW held, NEW m, NEW idx, NEW n \in Nat
  PROVE  \E f : BlocksSteps(f, held, m, idx, n)
<1> DEFINE T == {k \in 0 .. n : \E f : BlocksSteps(f, held, m, idx, k)}
<1>1. 0 \in T
  <2> DEFINE f == [i \in 0 .. 0 |-> held]
  <2>1. BlocksSteps(f, held, m, idx, 0)
    BY DEF BlocksSteps
  <2> QED
    BY <2>1
<1>2. ASSUME NEW k \in 1 .. n, k - 1 \in T PROVE k \in T
  <2>1. PICK f : BlocksSteps(f, held, m, idx, k - 1)
    BY <1>2
  <2> DEFINE last == FoldBlock(f[k - 1], m, idx, k)
             g == [i \in 0 .. k |-> IF i <= k - 1 THEN f[i] ELSE last]
  <2>2. \A i \in 0 .. k : i <= k - 1 \/ i = k
    OBVIOUS
  <2>3. \A i \in 0 .. k - 1 : g[i] = f[i]
    OBVIOUS
  <2>4. g[k] = last
    OBVIOUS
  <2>5. \A i \in 0 .. k - 1 : f[i] = IF i = 0 THEN held ELSE FoldBlock(f[i - 1], m, idx, i)
    BY <2>1 DEF BlocksSteps
  <2>6. g = [i \in 0 .. k |-> g[i]]
    OBVIOUS
  <2> HIDE DEF g
  <2>7. \A i \in 1 .. k : g[i - 1] = f[i - 1]
    BY <2>3
  <2>8. ASSUME NEW i \in 0 .. k
       PROVE  g[i] = IF i = 0 THEN held ELSE FoldBlock(g[i - 1], m, idx, i)
    <3>1. CASE i \in 0 .. k - 1
      BY <2>3, <2>5, <2>7, <3>1
    <3>2. CASE i = k
      BY <2>4, <2>7, <3>2
    <3> QED
      BY <2>2, <3>1, <3>2
  <2>9. BlocksSteps(g, held, m, idx, k)
    BY <2>6, <2>8 DEF BlocksSteps
  <2> QED
    BY <2>9
<1> HIDE DEF T
<1>3. n \in T
  BY <1>1, <1>2, UpTo
<1> QED
  BY <1>3 DEF T

BlocksRun(f, held, m, idx) ==
  /\ f[0] = held
  /\ \A i \in 1 .. Len(m.blocks) : f[i] = FoldBlock(f[i - 1], m, idx, i)

(* For a turn of the user FoldMessage is the last of it. *)
LEMMA BlocksIs ==
  ASSUME NEW held, NEW m, NEW idx, Len(m.blocks) \in Nat, m.role = "user"
  PROVE  \E f : FoldMessage(held, m, idx) = f[Len(m.blocks)] /\ BlocksRun(f, held, m, idx)
<1> DEFINE n == Len(m.blocks)
           h == CHOOSE f : BlocksSteps(f, held, m, idx, n)
<1>1. BlocksSteps(h, held, m, idx, n)
  BY BlocksExist
<1>2. FoldMessage(held, m, idx) = h[n]
  BY DEF FoldMessage, BlocksSteps
<1> HIDE DEF h
<1>3. \A i \in 0 .. n : h[i] = IF i = 0 THEN held ELSE FoldBlock(h[i - 1], m, idx, i)
  BY <1>1 DEF BlocksSteps
<1>4. BlocksRun(h, held, m, idx)
  BY <1>3 DEF BlocksRun
<1> QED
  BY <1>2, <1>4

(* The list after the first blocks of the system prompt. *)
FilesSteps(f, system, n) ==
  f = [i \in 0 .. n |-> IF i = 0 THEN <<>> ELSE FoldLines(f[i - 1], system[i].lines, "file")]

(* It exists. *)
LEMMA FilesExist ==
  ASSUME NEW system, NEW n \in Nat
  PROVE  \E f : FilesSteps(f, system, n)
<1> DEFINE T == {k \in 0 .. n : \E f : FilesSteps(f, system, k)}
<1>1. 0 \in T
  <2> DEFINE f == [i \in 0 .. 0 |-> <<>>]
  <2>1. FilesSteps(f, system, 0)
    BY DEF FilesSteps
  <2> QED
    BY <2>1
<1>2. ASSUME NEW k \in 1 .. n, k - 1 \in T PROVE k \in T
  <2>1. PICK f : FilesSteps(f, system, k - 1)
    BY <1>2
  <2> DEFINE last == FoldLines(f[k - 1], system[k].lines, "file")
             g == [i \in 0 .. k |-> IF i <= k - 1 THEN f[i] ELSE last]
  <2>2. \A i \in 0 .. k : i <= k - 1 \/ i = k
    OBVIOUS
  <2>3. \A i \in 0 .. k - 1 : g[i] = f[i]
    OBVIOUS
  <2>4. g[k] = last
    OBVIOUS
  <2>5. \A i \in 0 .. k - 1 : f[i] =
        IF i = 0 THEN <<>> ELSE FoldLines(f[i - 1], system[i].lines, "file")
    BY <2>1 DEF FilesSteps
  <2>6. g = [i \in 0 .. k |-> g[i]]
    OBVIOUS
  <2> HIDE DEF g
  <2>7. \A i \in 1 .. k : g[i - 1] = f[i - 1]
    BY <2>3
  <2>8. ASSUME NEW i \in 0 .. k
       PROVE  g[i] = IF i = 0 THEN <<>> ELSE FoldLines(g[i - 1], system[i].lines, "file")
    <3>1. CASE i \in 0 .. k - 1
      BY <2>3, <2>5, <2>7, <3>1
    <3>2. CASE i = k
      BY <2>4, <2>7, <3>2
    <3> QED
      BY <2>2, <3>1, <3>2
  <2>9. FilesSteps(g, system, k)
    BY <2>6, <2>8 DEF FilesSteps
  <2> QED
    BY <2>9
<1> HIDE DEF T
<1>3. n \in T
  BY <1>1, <1>2, UpTo
<1> QED
  BY <1>3 DEF T

(* And FoldSystem is the last of it. *)
LEMMA FilesIs ==
  ASSUME NEW system, Len(system) \in Nat
  PROVE  \E f : /\ FoldSystem(system) = f[Len(system)] /\ f[0] = <<>>
                /\ \A i \in 1 .. Len(system) : f[i] = FoldLines(f[i - 1], system[i].lines, "file")
<1> DEFINE n == Len(system)
           h == CHOOSE f : FilesSteps(f, system, n)
<1>1. FilesSteps(h, system, n)
  BY FilesExist
<1>2. FoldSystem(system) = h[n]
  BY DEF FoldSystem, FilesSteps
<1> HIDE DEF h
<1>3. \A i \in 0 .. n : h[i] = IF i = 0 THEN <<>> ELSE FoldLines(h[i - 1], system[i].lines, "file")
  BY <1>1 DEF FilesSteps
<1>4. h[0] = <<>> /\ \A i \in 1 .. n : h[i] = FoldLines(h[i - 1], system[i].lines, "file")
  BY <1>3
<1> QED
  BY <1>2, <1>4

(* The list after the first turns. *)
FoldSteps(f, messages, system, n) ==
  f = [i \in 0 .. n |-> IF i = 0 THEN FoldSystem(system) ELSE FoldMessage(f[i - 1], messages[i], i)]

(* It exists. *)
LEMMA FoldExist ==
  ASSUME NEW messages, NEW system, NEW n \in Nat
  PROVE  \E f : FoldSteps(f, messages, system, n)
<1> DEFINE T == {k \in 0 .. n : \E f : FoldSteps(f, messages, system, k)}
<1>1. 0 \in T
  <2> DEFINE f == [i \in 0 .. 0 |-> FoldSystem(system)]
  <2>1. FoldSteps(f, messages, system, 0)
    BY DEF FoldSteps
  <2> QED
    BY <2>1
<1>2. ASSUME NEW k \in 1 .. n, k - 1 \in T PROVE k \in T
  <2>1. PICK f : FoldSteps(f, messages, system, k - 1)
    BY <1>2
  <2> DEFINE last == FoldMessage(f[k - 1], messages[k], k)
             g == [i \in 0 .. k |-> IF i <= k - 1 THEN f[i] ELSE last]
  <2>2. \A i \in 0 .. k : i <= k - 1 \/ i = k
    OBVIOUS
  <2>3. \A i \in 0 .. k - 1 : g[i] = f[i]
    OBVIOUS
  <2>4. g[k] = last
    OBVIOUS
  <2>5. \A i \in 0 .. k - 1 : f[i] =
        IF i = 0 THEN FoldSystem(system) ELSE FoldMessage(f[i - 1], messages[i], i)
    BY <2>1 DEF FoldSteps
  <2>6. g = [i \in 0 .. k |-> g[i]]
    OBVIOUS
  <2> HIDE DEF g
  <2>7. \A i \in 1 .. k : g[i - 1] = f[i - 1]
    BY <2>3
  <2>8. ASSUME NEW i \in 0 .. k
       PROVE  g[i] = IF i = 0 THEN FoldSystem(system) ELSE FoldMessage(g[i - 1], messages[i], i)
    <3>1. CASE i \in 0 .. k - 1
      BY <2>3, <2>5, <2>7, <3>1
    <3>2. CASE i = k
      BY <2>4, <2>7, <3>2
    <3> QED
      BY <2>2, <3>1, <3>2
  <2>9. FoldSteps(g, messages, system, k)
    BY <2>6, <2>8 DEF FoldSteps
  <2> QED
    BY <2>9
<1> HIDE DEF T
<1>3. n \in T
  BY <1>1, <1>2, UpTo
<1> QED
  BY <1>3 DEF T

FoldRun(f, messages, system) ==
  /\ f[0] = FoldSystem(system)
  /\ \A i \in 1 .. Len(messages) : f[i] = FoldMessage(f[i - 1], messages[i], i)

(* And FoldPins is the last of it. *)
LEMMA FoldIs ==
  ASSUME NEW messages, NEW system, Len(messages) \in Nat
  PROVE  \E f : FoldPins(messages, system) = f[Len(messages)] /\ FoldRun(f, messages, system)
<1> DEFINE n == Len(messages)
           h == CHOOSE f : FoldSteps(f, messages, system, n)
<1>1. FoldSteps(h, messages, system, n)
  BY FoldExist
<1>2. FoldPins(messages, system) = h[n]
  BY DEF FoldPins, FoldSteps
<1> HIDE DEF h
<1>3. \A i \in 0 .. n : h[i] =
        IF i = 0 THEN FoldSystem(system) ELSE FoldMessage(h[i - 1], messages[i], i)
  BY <1>1 DEF FoldSteps
<1>4. FoldRun(h, messages, system)
  BY <1>3 DEF FoldRun
<1> QED
  BY <1>2, <1>4

-----------------------------------------------------------------------------
(* The list in force is a list.                                              *)

(* A set of places that is not empty has a first one. *)
LEMMA FirstPlace ==
  ASSUME NEW n \in Nat, NEW T, T \subseteq 1 .. n, T # {}
  PROVE  /\ (CHOOSE i \in T : \A j \in T : i <= j) \in T
         /\ \A k \in T : (\A j \in T : k <= j) => (CHOOSE i \in T : \A j \in T : i <= j) = k
<1>1. PICK m \in T : \A y \in T : ~ (<<y, m>> \in OpToRel(<, Nat))
  <2>1. T \subseteq Nat
    OBVIOUS
  <2> QED
    BY <2>1, NatLessThanWellFounded, WFMin
<1>2. \A y \in T : m <= y
  <2> SUFFICES ASSUME NEW y \in T PROVE m <= y
    OBVIOUS
  <2>1. m \in Nat /\ y \in Nat
    OBVIOUS
  <2>2. ~(y < m)
    BY <1>1, <2>1 DEF OpToRel
  <2> QED
    BY <2>1, <2>2
<1> DEFINE c == CHOOSE i \in T : \A j \in T : i <= j
<1>3. c \in T /\ \A j \in T : c <= j
  BY <1>2
<1> HIDE DEF c
<1>4. ASSUME NEW k \in T, \A j \in T : k <= j PROVE c = k
  <2>1. c <= k /\ k <= c /\ c \in Nat /\ k \in Nat
    BY <1>3, <1>4
  <2> QED
    BY <2>1
<1> QED
  BY <1>3, <1>4 DEF c

(* A list without one of its elements. *)
LEMMA RemovedList ==
  ASSUME NEW s, IsList(s), NEW i \in 1 .. Len(s)
  PROVE  IsList(RemoveAt(s, i))
<1>0. Len(s) \in Nat
  BY ListIs
<1>1. /\ i - 1 \in Nat /\ i - 1 <= Len(s) /\ i + 1 \in 1 .. Len(s) + 1
      /\ Len(s) \in 0 .. Len(s) /\ i + 1 <= Len(s) + 1
  BY <1>0
<1>2. IsList(SubSeq(s, 1, i - 1))
  BY <1>1, FirstOnes
<1>3. IsList(SubSeq(s, i + 1, Len(s)))
  BY <1>1, ListSub
<1> QED
  BY <1>2, <1>3, ListConcat DEF RemoveAt

(* What an unpin can lift is a pin of the session. *)
LEMMA TargetsAre ==
  ASSUME NEW held, NEW line
  PROVE  Targets(held, line) \subseteq FromSession(held)
BY DEF Targets, Numbered, SessionPin, ByText

(* A command makes a list of a list. *)
LEMMA LineKeepsList ==
  ASSUME NEW held, IsList(held), NEW line, NEW source
  PROVE  IsList(ApplyPinLine(held, line, source))
<1>0. Len(held) \in Nat /\ DOMAIN held = 1 .. Len(held)
  BY ListIs
<1>1. IsList(ApplyUnpin(held, line))
  <2>1. CASE line.arg = "all"
    BY <2>1, PickedList DEF ApplyUnpin
  <2>2. CASE line.arg # "all" /\ Targets(held, line) = {}
    BY <2>2 DEF ApplyUnpin
  <2>3. CASE line.arg # "all" /\ Targets(held, line) # {}
    <3> DEFINE T == Targets(held, line)
               t == CHOOSE i \in T : \A j \in T : i <= j
    <3>1. T \subseteq 1 .. Len(held)
      BY <1>0, TargetsAre DEF FromSession
    <3>2. ApplyUnpin(held, line) = RemoveAt(held, t)
      BY <2>3 DEF ApplyUnpin
    <3>e. T # {}
      BY <2>3
    <3> HIDE DEF T
    <3>3. t \in 1 .. Len(held)
      BY <1>0, <3>1, <3>e, FirstPlace
    <3> HIDE DEF t
    <3> QED
      BY <3>2, <3>3, RemovedList
  <2> QED
    BY <2>1, <2>2, <2>3
<1>2. ASSUME NEW e PROVE IsList(Append(held, e))
  BY ListAppend
<1> QED
  BY <1>1, <1>2 DEF ApplyPinLine

(* So do the commands of a text. *)
LEMMA LinesKeepList ==
  ASSUME NEW held, IsList(held), NEW lines, IsList(lines), NEW source
  PROVE  IsList(FoldLines(held, lines, source))
<1>0. Len(lines) \in Nat
  BY ListIs
<1>1. PICK f : FoldLines(held, lines, source) = f[Len(lines)] /\ LinesRun(f, held, lines, source)
  BY <1>0, LinesIs, Zenon
<1> DEFINE T == {k \in 0 .. Len(lines) : IsList(f[k])}
<1>2. 0 \in T
  BY <1>0, <1>1 DEF LinesRun
<1>3. ASSUME NEW k \in 1 .. Len(lines), k - 1 \in T PROVE k \in T
  <2>1. f[k] = ApplyPinLine(f[k - 1], lines[k], source) /\ IsList(f[k - 1])
    BY <1>1, <1>3 DEF LinesRun
  <2>2. IsList(f[k])
    BY <2>1, LineKeepsList
  <2> QED
    BY <2>2
<1>4. Len(lines) \in T
  <2> HIDE DEF T
  <2> QED
    BY <1>0, <1>2, <1>3, UpTo
<1> QED
  BY <1>1, <1>4

(* A block of a turn. *)
LEMMA BlockKeepsList ==
  ASSUME NEW held, IsList(held), NEW m, AllSaid(m), NEW idx, NEW k \in 1 .. Len(m.blocks)
  PROVE  IsList(FoldBlock(held, m, idx, k))
<1> DEFINE b == m.blocks[k]
           source == IF InLeadingRun(m, idx, k) THEN "file" ELSE "session"
           p == FoldLines(held, b.head, source)
<1>1. IsSaid(b)
  BY DEF AllSaid
<1>2. FoldBlock(held, m, idx, k)
        = IF b.type # "text" THEN held ELSE FoldLines(p, b.lines, "session")
  BY DEF FoldBlock
<1>3. CASE b.type = "text"
  <2>1. IsList(b.head) /\ IsList(b.lines)
    BY <1>1, <1>3 DEF IsSaid, IsLines
  <2> HIDE DEF b, source
  <2>2. IsList(p)
    BY <2>1, LinesKeepList
  <2> HIDE DEF p
  <2>3. IsList(FoldLines(p, b.lines, "session"))
    BY <2>1, <2>2, LinesKeepList
  <2> QED
    BY <1>2, <1>3, <2>3
<1> QED
  BY <1>2, <1>3

(* A turn. *)
LEMMA TurnKeepsList ==
  ASSUME NEW held, IsList(held), NEW m, m.role = "user" => AllSaid(m), NEW idx
  PROVE  IsList(FoldMessage(held, m, idx))
<1>1. CASE m.role # "user"
  BY <1>1 DEF FoldMessage
<1>2. CASE m.role = "user"
  <2>0. AllSaid(m) /\ Len(m.blocks) \in Nat
    BY <1>2, ListIs DEF AllSaid
  <2>1. PICK f : FoldMessage(held, m, idx) = f[Len(m.blocks)] /\ BlocksRun(f, held, m, idx)
    BY <1>2, <2>0, BlocksIs, Zenon
  <2> DEFINE n == Len(m.blocks)
             T == {k \in 0 .. n : IsList(f[k])}
  <2>2. 0 \in T
    BY <2>0, <2>1 DEF BlocksRun
  <2>3. ASSUME NEW k \in 1 .. n, k - 1 \in T PROVE k \in T
    <3>1. f[k] = FoldBlock(f[k - 1], m, idx, k) /\ IsList(f[k - 1])
      BY <2>1, <2>3 DEF BlocksRun
    <3>2. IsList(f[k])
      BY <2>0, <3>1, BlockKeepsList
    <3> QED
      BY <3>2
  <2>4. n \in T
    <3>1. n \in Nat
      BY <2>0
    <3> HIDE DEF T, n
    <3> QED
      BY <3>1, <2>2, <2>3, UpTo
  <2> QED
    BY <2>1, <2>4
<1> QED
  BY <1>1, <1>2

(* The system prompt. *)
LEMMA SystemIsList ==
  ASSUME NEW system, FilesWell(system)
  PROVE  IsList(FoldSystem(system))
<1>0. Len(system) \in Nat
  BY ListIs DEF FilesWell
<1>1. PICK f : /\ FoldSystem(system) = f[Len(system)] /\ f[0] = <<>>
               /\ \A i \in 1 .. Len(system) : f[i] = FoldLines(f[i - 1], system[i].lines, "file")
  BY <1>0, FilesIs
<1> DEFINE T == {k \in 0 .. Len(system) : IsList(f[k])}
<1>2. 0 \in T
  BY <1>0, <1>1, ListEmpty
<1>3. ASSUME NEW k \in 1 .. Len(system), k - 1 \in T PROVE k \in T
  <2>1. f[k] = FoldLines(f[k - 1], system[k].lines, "file") /\ IsList(f[k - 1])
    BY <1>1, <1>3
  <2>2. IsList(system[k].lines)
    BY DEF FilesWell, IsLines
  <2>3. IsList(f[k])
    BY <2>1, <2>2, LinesKeepList
  <2> QED
    BY <2>3
<1>4. Len(system) \in T
  <2> HIDE DEF T
  <2> QED
    BY <1>0, <1>2, <1>3, UpTo
<1> QED
  BY <1>1, <1>4

-----------------------------------------------------------------------------
(* What the proxy shows of a list.                                           *)

(* A list in two parts, with names for the parts. *)
PartsAt(n, v, chosen, s, a, t, b) ==
  /\ IsList(v) /\ n \in 0 .. Len(v)
  /\ FirstAgree(a, chosen, n) /\ LaterAgree(b, chosen, n, Len(v))
  /\ s = SubSeq(v, 1, n) /\ t = SubSeq(v, n + 1, Len(v))

(* The list is what its parts make of it. *)
LEMMA PickedParts ==
  ASSUME NEW n, NEW v, NEW chosen, NEW s, NEW a, NEW t, NEW b, PartsAt(n, v, chosen, s, a, t, b)
  PROVE  Picked(v, chosen) = Picked(s, a) \o Picked(t, b)
BY PickedSplit DEF PartsAt

(* What is shown of two lists. *)
LEMMA ListingConcat ==
  ASSUME NEW s, NEW t, IsList(s), IsList(t)
  PROVE  /\ IsList(Listing(s)) /\ IsList(Listing(t))
         /\ Listing(s \o t) = Listing(s) \o Listing(t)
<1> DEFINE v == s \o t
           n == Len(s)
<1>0. n \in Nat /\ Len(t) \in Nat
  BY ListIs
<1>1. /\ IsList(v) /\ Len(v) = n + Len(t) /\ \A i \in 1 .. n : v[i] = s[i]
      /\ \A i \in 1 .. Len(t) : v[n + i] = t[i]
  BY ListConcat
<1> HIDE DEF v
<1>2. /\ DOMAIN s = 1 .. n /\ DOMAIN t = 1 .. Len(t) /\ DOMAIN v = 1 .. n + Len(t)
  BY <1>1, ListIs
<1> HIDE DEF n
<1>3. SubSeq(v, 1, n) = s
  <2> DEFINE u == SubSeq(v, 1, n)
  <2>1. IsList(u) /\ Len(u) = n /\ \A i \in 1 .. n : u[i] = v[i]
    BY <1>0, <1>1, FirstOnes
  <2> HIDE DEF u
  <2>2. Len(s) = n
    BY DEF n
  <2>3. \A i \in 1 .. n : u[i] = s[i]
    BY <1>1, <2>1
  <2>4. u = s
    BY <2>1, <2>2, <2>3, SameList
  <2> QED
    BY <2>4 DEF u
<1>4. SubSeq(v, n + 1, Len(v)) = t
  <2> DEFINE u == SubSeq(v, n + 1, Len(v))
  <2>0. n + 1 \in 1 .. Len(v) + 1 /\ Len(v) \in 0 .. Len(v) /\ n + 1 <= Len(v) + 1
    BY <1>0, <1>1
  <2>1. /\ IsList(u) /\ Len(u) = Len(v) - (n + 1) + 1
        /\ \A i \in 1 .. Len(v) - (n + 1) + 1 : u[i] = v[n + 1 + i - 1]
    BY <1>1, <2>0, ListSub
  <2> HIDE DEF u
  <2>2. Len(v) - (n + 1) + 1 = Len(t)
    BY <1>0, <1>1
  <2>3. \A i \in 1 .. Len(t) : n + 1 + i - 1 = n + i
    BY <1>0
  <2>4. \A i \in 1 .. Len(t) : u[i] = t[i]
    BY <1>1, <2>1, <2>2, <2>3
  <2>5. u = t
    BY <2>1, <2>2, <2>4, SameList
  <2> QED
    BY <2>5 DEF u
<1>5. FirstAgree(FromSession(s), FromSession(v), n)
  BY <1>0, <1>1, <1>2 DEF FirstAgree, FromSession
<1>6. LaterAgree(FromSession(t), FromSession(v), n, Len(v))
  <2> SUFFICES ASSUME NEW i \in 1 .. Len(v) - n
               PROVE  i \in FromSession(t) <=> n + i \in FromSession(v)
    BY DEF LaterAgree
  <2>1. i \in 1 .. Len(t) /\ n + i \in 1 .. n + Len(t)
    BY <1>0, <1>1
  <2>2. v[n + i] = t[i]
    BY <1>1, <2>1
  <2> QED
    BY <1>2, <2>1, <2>2 DEF FromSession
<1>7. Picked(v, FromSession(v)) = Picked(s, FromSession(s)) \o Picked(t, FromSession(t))
  <2>1. n \in 0 .. Len(v)
    BY <1>0, <1>1
  <2> DEFINE F == FromSession(v)
             G == FromSession(s)
             H == FromSession(t)
  <2>2. FirstAgree(G, F, n) /\ LaterAgree(H, F, n, Len(v))
    BY <1>5, <1>6
  <2>a. IsList(v)
    BY <1>1
  <2> HIDE DEF F, G, H
  <2>3. PartsAt(n, v, F, s, G, t, H)
    BY <1>3, <1>4, <2>a, <2>1, <2>2 DEF PartsAt
  <2>4. Picked(v, F) = Picked(s, G) \o Picked(t, H)
    BY <2>3, PickedParts
  <2> QED
    BY <2>4 DEF F, G, H
<1>8. IsList(Picked(s, FromSession(s))) /\ IsList(Picked(t, FromSession(t)))
  BY PickedList
<1> QED
  BY <1>7, <1>8 DEF Listing, v

(* What is shown of one pin. *)
LEMMA ListingOne ==
  ASSUME NEW x
  PROVE  Listing(<<x>>) = IF x.source = "session" THEN <<x>> ELSE <<>>
<1> DEFINE s == <<x>>
<1>1. IsList(s) /\ Len(s) = 1 /\ s[1] = x
  BY ListOne
<1> HIDE DEF s
<1>2. DOMAIN s = 1 .. 1
  BY <1>1, ListIs
<1>n. Len(s) \in Nat
  BY <1>1
<1>3. PICK f : Picked(s, FromSession(s)) = f[Len(s)] /\ Grows(f, s, FromSession(s))
  BY <1>n, PickedGrows, Zenon
<1>4. f[0] = <<>>
  BY <1>3, GrowsStart
<1>5. 1 \in 1 .. Len(s) /\ 1 - 1 = 0
  BY <1>1
<1>6. f[1] = IF 1 \in FromSession(s) THEN Append(f[0], s[1]) ELSE f[0]
  BY <1>3, <1>5, GrowsStep
<1>7. 1 \in FromSession(s) <=> x.source = "session"
  BY <1>1, <1>2 DEF FromSession
<1>8. Append(<<>>, x) = <<x>>
  OBVIOUS
<1>9. Picked(s, FromSession(s)) = IF x.source = "session" THEN <<x>> ELSE <<>>
  BY <1>1, <1>3, <1>4, <1>6, <1>7, <1>8
<1> QED
  BY <1>9 DEF Listing, s

(* What is shown of a list with one pin more. *)
LEMMA ListingAppend ==
  ASSUME NEW s, IsList(s), NEW x
  PROVE  /\ IsList(Listing(s))
         /\ Listing(Append(s, x))
              = IF x.source = "session" THEN Append(Listing(s), x) ELSE Listing(s)
<1>1. IsList(<<x>>)
  BY ListOne
<1>2. Append(s, x) = s \o <<x>>
  BY AppendIs
<1>3. IsList(Listing(s)) /\ Listing(s \o <<x>>) = Listing(s) \o Listing(<<x>>)
  BY <1>1, ListingConcat
<1> DEFINE r == Listing(s)
<1>4. IsList(r)
  BY <1>3
<1> HIDE DEF r
<1>5. r \o <<x>> = Append(r, x) /\ r \o <<>> = r
  <2>1. r \o <<x>> = Append(r, x)
    BY <1>4, AppendIs
  <2>2. PICK S : r \in Seq(S)
    BY <1>4 DEF IsList
  <2>3. r \o <<>> = r
    BY <2>2
  <2> QED
    BY <2>1, <2>3
<1>6. Listing(s \o <<x>>) = r \o Listing(<<x>>)
  BY <1>3 DEF r
<1>7. CASE x.source = "session"
  <2>1. Listing(<<x>>) = <<x>>
    BY <1>7, ListingOne
  <2> QED
    BY <1>2, <1>3, <1>5, <1>6, <1>7, <2>1, Zenon DEF r
<1>8. CASE x.source # "session"
  <2>1. Listing(<<x>>) = <<>>
    BY <1>8, ListingOne
  <2> QED
    BY <1>2, <1>3, <1>5, <1>6, <1>8, <2>1, Zenon DEF r
<1> QED
  BY <1>7, <1>8

(* A list up to an element, and after it. *)
LEMMA ThreeParts ==
  ASSUME NEW s, IsList(s), NEW k \in 1 .. Len(s)
  PROVE  /\ IsList(SubSeq(s, 1, k - 1)) /\ Len(SubSeq(s, 1, k - 1)) = k - 1
         /\ SubSeq(s, 1, k) = Append(SubSeq(s, 1, k - 1), s[k])
         /\ IsList(SubSeq(s, k + 1, Len(s)))
<1> DEFINE a == SubSeq(s, 1, k - 1)
           b == SubSeq(s, 1, k)
           c == SubSeq(s, k + 1, Len(s))
           d == Append(a, s[k])
<1>0. Len(s) \in Nat /\ k \in Nat /\ k - 1 \in Nat /\ k <= Len(s) /\ k - 1 <= Len(s)
  BY ListIs
<1>1. IsList(a) /\ Len(a) = k - 1 /\ \A i \in 1 .. k - 1 : a[i] = s[i]
  BY <1>0, FirstOnes
<1>2. IsList(b) /\ Len(b) = k /\ \A i \in 1 .. k : b[i] = s[i]
  BY <1>0, FirstOnes
<1>3. IsList(c)
  <2>1. k + 1 \in 1 .. Len(s) + 1 /\ Len(s) \in 0 .. Len(s) /\ k + 1 <= Len(s) + 1
    BY <1>0
  <2> QED
    BY <2>1, ListSub
<1> HIDE DEF a, b, c
<1>4. IsList(d) /\ Len(d) = k /\ d[k] = s[k] /\ \A i \in 1 .. k - 1 : d[i] = a[i]
  <2>1. IsList(d) /\ Len(d) = Len(a) + 1 /\ d[Len(a) + 1] = s[k]
        /\ \A i \in 1 .. Len(a) : d[i] = a[i]
    BY <1>1, ListAppend
  <2>2. Len(a) + 1 = k /\ Len(a) = k - 1
    BY <1>0, <1>1
  <2> HIDE DEF d
  <2> QED
    BY <2>1, <2>2
<1> HIDE DEF d
<1>5. b = d
  <2>1. \A i \in 1 .. k : i = k \/ i \in 1 .. k - 1
    BY <1>0
  <2>2. \A i \in 1 .. k : b[i] = d[i]
    BY <1>1, <1>2, <1>4, <2>1
  <2> QED
    BY <1>2, <1>4, <2>2, SameList
<1>6. SubSeq(s, 1, k) = Append(SubSeq(s, 1, k - 1), s[k])
  BY <1>5, Zenon DEF a, b, d
<1>7. IsList(SubSeq(s, 1, k - 1)) /\ Len(SubSeq(s, 1, k - 1)) = k - 1
  BY <1>1 DEF a
<1>8. IsList(SubSeq(s, k + 1, Len(s)))
  BY <1>3 DEF c
<1> QED
  BY <1>6, <1>7, <1>8, Zenon

-----------------------------------------------------------------------------
(* Numbers that go up by one at the places of a set.                         *)

Up(F, k) == IF k \in F THEN 1 ELSE 0
Counts(L, F, n) ==
  /\ F \subseteq 1 .. n /\ L[0] = 0
  /\ \A k \in 1 .. n : L[k] = L[k - 1] + Up(F, k)

(* They are numbers. *)
LEMMA CountsNat ==
  ASSUME NEW n \in Nat, NEW L, NEW F, Counts(L, F, n), NEW k \in 0 .. n
  PROVE  L[k] \in Nat
<1> DEFINE T == {j \in 0 .. k : L[j] \in Nat}
<1>1. 0 \in T
  BY DEF Counts
<1>2. ASSUME NEW j \in 1 .. k, j - 1 \in T PROVE j \in T
  <2>1. L[j] = L[j - 1] + Up(F, j) /\ L[j - 1] \in Nat
    BY <1>2 DEF Counts
  <2>2. Up(F, j) \in Nat
    BY DEF Up
  <2>3. L[j] \in Nat
    BY <2>1, <2>2
  <2> QED
    BY <2>3
<1>3. k \in T
  <2> HIDE DEF T
  <2> QED
    BY <1>1, <1>2, UpTo
<1> QED
  BY <1>3

(* They never go down. *)
LEMMA CountsGrow ==
  ASSUME NEW n \in Nat, NEW L, NEW F, Counts(L, F, n), NEW i \in 0 .. n, NEW k \in 0 .. n, i <= k
  PROVE  L[i] <= L[k]
<1> DEFINE d == k - i
           T == {j \in 0 .. d : L[i] <= L[i + j]}
<1>0. d \in Nat /\ i + d = k /\ L[i] \in Nat
  BY CountsNat
<1>1. 0 \in T
  <2>1. L[i] <= L[i + 0] /\ 0 \in 0 .. d
    BY <1>0
  <2> QED
    BY <2>1
<1>2. ASSUME NEW j \in 1 .. d, j - 1 \in T PROVE j \in T
  <2>0. i + j \in 1 .. n /\ (i + j) - 1 = i + (j - 1) /\ i + (j - 1) \in 0 .. n /\ j \in 0 .. d
    BY <1>0
  <2>1. L[i + j] = L[i + (j - 1)] + Up(F, i + j) /\ L[i] <= L[i + (j - 1)]
    BY <1>2, <2>0 DEF Counts
  <2>2. L[i + (j - 1)] \in Nat /\ Up(F, i + j) \in Nat
    BY <2>0, CountsNat DEF Up
  <2>3. L[i] <= L[i + j]
    <3> DEFINE x == L[i + (j - 1)]
               y == Up(F, i + j)
               z == L[i + j]
               w == L[i]
    <3>1. z = x + y /\ w <= x /\ x \in Nat /\ y \in Nat /\ w \in Nat
      BY <1>0, <2>1, <2>2
    <3> HIDE DEF x, y, z, w
    <3>2. w <= z
      BY <3>1
    <3> QED
      BY <3>2 DEF w, z
  <2> QED
    BY <2>0, <2>3
<1>3. d \in T
  <2> HIDE DEF T, d
  <2> QED
    BY <1>0, <1>1, <1>2, UpTo
<1>4. L[i] <= L[i + d]
  BY <1>3
<1> HIDE DEF d
<1> QED
  BY <1>0, <1>4

(* Every number but zero is reached at a place of the set, *)
LEMMA CountsReach ==
  ASSUME NEW n \in Nat, NEW L, NEW F, Counts(L, F, n), NEW c \in 1 .. L[n]
  PROVE  \E k \in F : L[k] = c
<1> DEFINE T == {j \in 0 .. n : c <= L[j] => \E k \in F : L[k] = c}
<1>0. c \in Nat /\ c > 0
  BY CountsNat
<1>1. 0 \in T
  <2>1. ~(c <= L[0])
    BY <1>0 DEF Counts
  <2> QED
    BY <2>1
<1>2. ASSUME NEW j \in 1 .. n, j - 1 \in T PROVE j \in T
  <2>1. L[j] = L[j - 1] + Up(F, j)
    BY DEF Counts
  <2>2. L[j - 1] \in Nat /\ L[j] \in Nat
    BY CountsNat
  <2>3. c <= L[j - 1] => \E k \in F : L[k] = c
    BY <1>2
  <2>4. ASSUME c <= L[j], ~(c <= L[j - 1]) PROVE j \in F /\ L[j] = c
    BY <1>0, <2>1, <2>2, <2>4 DEF Up
  <2>5. c <= L[j] => \E k \in F : L[k] = c
    BY <2>3, <2>4
  <2> QED
    BY <2>5
<1>3. n \in T
  <2> HIDE DEF T
  <2> QED
    BY <1>1, <1>2, UpTo
<1>4. L[n] \in Nat
  BY CountsNat
<1> QED
  BY <1>0, <1>3, <1>4

(* and only there. *)
LEMMA CountsOnce ==
  ASSUME NEW n \in Nat, NEW L, NEW F, Counts(L, F, n), NEW i \in F, NEW k \in F, L[i] = L[k]
  PROVE  i = k /\ L[i] \in 1 .. L[n]
<1>0. i \in 1 .. n /\ k \in 1 .. n
  BY DEF Counts
<1>1. ASSUME NEW a \in F, NEW b \in F, a < b PROVE L[a] < L[b]
  <2>0. a \in 0 .. n /\ b \in 1 .. n /\ b - 1 \in 0 .. n /\ a <= b - 1
    BY <1>1 DEF Counts
  <2>1. L[a] <= L[b - 1] /\ L[a] \in Nat /\ L[b - 1] \in Nat
    BY <2>0, CountsGrow, CountsNat
  <2>2. L[b] = L[b - 1] + Up(F, b) /\ Up(F, b) = 1
    BY <2>0 DEF Counts, Up
  <2> QED
    BY <2>1, <2>2
<1>2. ~(i < k) /\ ~(k < i)
  <2>1. L[i] \in Nat /\ L[k] \in Nat
    BY <1>0, CountsNat
  <2> QED
    BY <1>1, <2>1
<1>3. L[i] \in Nat /\ L[n] \in Nat /\ L[i - 1] \in Nat /\ L[i] <= L[n]
  BY <1>0, CountsNat, CountsGrow
<1>4. L[i] = L[i - 1] + 1
  BY <1>0 DEF Counts, Up
<1> QED
  BY <1>0, <1>2, <1>3, <1>4

(* They count the set. *)
LEMMA CountsCard ==
  ASSUME NEW n \in Nat, NEW L, NEW F, Counts(L, F, n), NEW k \in 0 .. n
  PROVE  Cardinality(F \cap (1 .. k)) = L[k]
<1> DEFINE S(j) == F \cap (1 .. j)
           T == {j \in 0 .. k : IsFiniteSet(S(j)) /\ Cardinality(S(j)) = L[j]}
<1>1. 0 \in T
  <2>1. S(0) = {}
    OBVIOUS
  <2> QED
    BY <2>1, FS_EmptySet DEF Counts
<1>2. ASSUME NEW j \in 1 .. k, j - 1 \in T PROVE j \in T
  <2>0. j \in 1 .. n /\ j \in 0 .. k
    OBVIOUS
  <2>1. L[j] = L[j - 1] + Up(F, j)
    BY <2>0 DEF Counts
  <2>2. IsFiniteSet(S(j - 1)) /\ Cardinality(S(j - 1)) = L[j - 1]
    BY <1>2
  <2>3. L[j - 1] \in Nat
    BY <2>0, CountsNat
  <2>4. CASE j \in F
    <3>1. S(j) = S(j - 1) \cup {j} /\ j \notin S(j - 1)
      BY <2>4
    <3>2. IsFiniteSet(S(j)) /\ Cardinality(S(j)) = Cardinality(S(j - 1)) + 1
      <4> DEFINE A == S(j - 1)
                 B == S(j)
      <4>1. IsFiniteSet(A) /\ B = A \cup {j} /\ j \notin A
        BY <2>2, <3>1
      <4> HIDE DEF A, B
      <4>2. IsFiniteSet(B) /\ Cardinality(B) = Cardinality(A) + 1
        BY <4>1, FS_AddElement
      <4> QED
        BY <4>2 DEF A, B
    <3>3. Up(F, j) = 1
      BY <2>4 DEF Up
    <3>4. IsFiniteSet(S(j)) /\ Cardinality(S(j)) = L[j]
      <4> HIDE DEF S
      <4> QED
        BY <2>1, <2>2, <2>3, <3>2, <3>3
    <3> QED
      BY <2>0, <3>4
  <2>5. CASE j \notin F
    <3>1. S(j) = S(j - 1)
      BY <2>5
    <3>2. L[j] = L[j - 1]
      BY <2>1, <2>3, <2>5 DEF Up
    <3>3. IsFiniteSet(S(j)) /\ Cardinality(S(j)) = L[j]
      <4> HIDE DEF S
      <4> QED
        BY <2>2, <3>1, <3>2
    <3> QED
      BY <2>0, <3>3
  <2> QED
    BY <2>4, <2>5
<1>3. k \in T
  <2> HIDE DEF T
  <2> QED
    BY <1>1, <1>2, UpTo
<1> QED
  BY <1>3

-----------------------------------------------------------------------------
(* Lifting a pin by its number.                                              *)

(* How many pins are shown of the first ones. *)
Shows(s) == [k \in 0 .. Len(s) |-> Len(Listing(SubSeq(s, 1, k)))]

(* Nothing is shown of nothing. *)
LEMMA ListingNone == Len(Listing(<<>>)) = 0
<1> DEFINE F == FromSession(<<>>)
<1>1. Len(<<>>) \in Nat /\ Len(<<>>) = 0
  BY ListEmpty
<1>2. PICK f : Picked(<<>>, F) = f[Len(<<>>)] /\ Grows(f, <<>>, F)
  BY <1>1, PickedGrows
<1>3. f[0] = <<>>
  BY <1>2, GrowsStart
<1> QED
  BY <1>1, <1>2, <1>3 DEF Listing

(* They go up by one at each pin of the session. *)
LEMMA ListingCounts ==
  ASSUME NEW s, IsList(s)
  PROVE  Counts(Shows(s), FromSession(s), Len(s)) /\ Shows(s)[Len(s)] = Len(Listing(s))
<1> DEFINE n == Len(s)
           F == FromSession(s)
           L == Shows(s)
<1>0. n \in Nat /\ DOMAIN s = 1 .. n
  BY ListIs
<1>1. \A k \in 0 .. n : L[k] = Len(Listing(SubSeq(s, 1, k)))
  BY DEF Shows
<1>2. F \subseteq 1 .. n
  BY <1>0 DEF FromSession
<1>3. L[0] = 0
  <2>1. IsList(SubSeq(s, 1, 0)) /\ Len(SubSeq(s, 1, 0)) = 0
    BY <1>0, FirstOnes
  <2> DEFINE e == SubSeq(s, 1, 0)
  <2> HIDE DEF e
  <2>2. IsList(e) /\ Len(e) = 0
    BY <2>1 DEF e
  <2>3. e = <<>>
    BY <2>2, NotEmpty
  <2>4. L[0] = Len(Listing(e))
    BY <1>0, <1>1 DEF e
  <2> QED
    BY <2>3, <2>4, ListingNone, Zenon
<1>4. ASSUME NEW k \in 1 .. n PROVE L[k] = L[k - 1] + Up(F, k)
  <2> DEFINE a == SubSeq(s, 1, k - 1)
             b == SubSeq(s, 1, k)
             x == s[k]
  <2>0. k \in 0 .. n /\ k - 1 \in 0 .. n
    BY <1>0
  <2>1. IsList(a) /\ b = Append(a, x)
    BY ThreeParts, Zenon
  <2>2. L[k] = Len(Listing(b)) /\ L[k - 1] = Len(Listing(a))
    BY <1>1, <2>0
  <2>3. k \in F <=> x.source = "session"
    BY <1>0 DEF FromSession
  <2> HIDE DEF a, b, x, L, F
  <2>4. /\ IsList(Listing(a))
        /\ Listing(Append(a, x))
             = IF x.source = "session" THEN Append(Listing(a), x) ELSE Listing(a)
    BY <2>1, ListingAppend
  <2>5. Len(Append(Listing(a), x)) = Len(Listing(a)) + 1 /\ Len(Listing(a)) \in Nat
    BY <2>4, ListAppend, ListIs
  <2>6. CASE k \in F
    <3>1. Listing(b) = Append(Listing(a), x)
      BY <2>1, <2>3, <2>4, <2>6
    <3> QED
      BY <2>2, <2>5, <2>6, <3>1 DEF Up
  <2>7. CASE k \notin F
    <3>1. Listing(b) = Listing(a)
      BY <2>1, <2>3, <2>4, <2>7
    <3> QED
      BY <2>2, <2>5, <2>7, <3>1 DEF Up
  <2> QED
    BY <2>6, <2>7
<1>5. L[n] = Len(Listing(s))
  <2> DEFINE e == SubSeq(s, 1, n)
  <2>1. IsList(e) /\ Len(e) = n /\ \A i \in 1 .. n : e[i] = s[i]
    BY <1>0, FirstOnes
  <2> HIDE DEF e
  <2>2. e = s
    BY <2>1, SameList
  <2>3. L[n] = Len(Listing(e))
    BY <1>0, <1>1 DEF e
  <2> QED
    BY <2>2, <2>3
<1>6. Counts(L, F, n)
  <2> HIDE DEF L, F, n
  <2> QED
    BY <1>2, <1>3, <1>4 DEF Counts
<1> QED
  BY <1>5, <1>6

(* A number stands for the pin that is shown under it. *)
LEMMA NumberFinds ==
  ASSUME NEW s, IsList(s), NEW c \in Nat, c > 0
  PROVE  /\ c \in 1 .. Len(Listing(s))
              => \E k \in FromSession(s) : SessionPin(s, c) = {k} /\ Shows(s)[k] = c
         /\ c \notin 1 .. Len(Listing(s)) => SessionPin(s, c) = {}
<1> DEFINE n == Len(s)
           F == FromSession(s)
           L == Shows(s)
<1>1. n \in Nat /\ Counts(L, F, n) /\ L[n] = Len(Listing(s))
  BY ListIs, ListingCounts
<1>2. ASSUME NEW k \in F PROVE Cardinality(F \cap (1 .. k)) = L[k]
  <2>1. k \in 0 .. n
    BY <1>1 DEF Counts
  <2> HIDE DEF n, F, L
  <2> QED
    BY <1>1, <2>1, CountsCard
<1>3. SessionPin(s, c) = {k \in F : L[k] = c}
  BY <1>2 DEF SessionPin
<1> HIDE DEF n, F, L
<1>4. ASSUME c \in 1 .. L[n]
      PROVE  \E k \in F : {j \in F : L[j] = c} = {k} /\ L[k] = c
  <2>1. PICK k \in F : L[k] = c
    BY <1>1, <1>4, CountsReach
  <2>2. ASSUME NEW j \in F, L[j] = c PROVE j = k
    BY <1>1, <2>1, <2>2, CountsOnce
  <2>3. {j \in F : L[j] = c} = {k}
    BY <2>1, <2>2
  <2> QED
    BY <2>1, <2>3
<1>5. ASSUME c \notin 1 .. L[n]
      PROVE  {j \in F : L[j] = c} = {}
  <2>1. ASSUME NEW j \in F, L[j] = c PROVE FALSE
    <3>1. L[j] \in 1 .. L[n]
      BY <1>1, CountsOnce
    <3> QED
      BY <1>5, <2>1, <3>1
  <2> QED
    BY <2>1
<1>6. /\ c \in 1 .. L[n] => \E k \in F : SessionPin(s, c) = {k} /\ L[k] = c
      /\ c \notin 1 .. L[n] => SessionPin(s, c) = {}
  BY <1>3, <1>4, <1>5
<1> QED
  BY <1>1, <1>6 DEF F, L

(* The middle element of a list is taken out. *)
LEMMA RemoveMiddle ==
  ASSUME NEW a, NEW x, NEW b, IsList(a), IsList(b)
  PROVE  RemoveAt(Append(a, x) \o b, Len(a) + 1) = a \o b
<1> DEFINE c == Append(a, x)
           d == c \o b
           n == Len(a)
           u == SubSeq(d, 1, (n + 1) - 1)
           w == SubSeq(d, n + 1 + 1, Len(d))
<1>0. n \in Nat /\ Len(b) \in Nat
  BY ListIs
<1>1. IsList(c) /\ Len(c) = n + 1 /\ \A i \in 1 .. n : c[i] = a[i]
  BY ListAppend
<1> HIDE DEF c
<1>2. /\ IsList(d) /\ Len(d) = Len(c) + Len(b) /\ \A i \in 1 .. Len(c) : d[i] = c[i]
      /\ \A i \in 1 .. Len(b) : d[Len(c) + i] = b[i]
  BY <1>1, ListConcat
<1> HIDE DEF d
<1>a. Len(a) = n
  OBVIOUS
<1> HIDE DEF n
<1>3. u = a
  <2> DEFINE v == SubSeq(d, 1, n)
  <2>1. n <= Len(d)
    BY <1>0, <1>1, <1>2
  <2>2. IsList(v) /\ Len(v) = n /\ \A i \in 1 .. n : v[i] = d[i]
    BY <1>0, <1>2, <2>1, FirstOnes
  <2>3. u = v
    <3>1. (n + 1) - 1 = n
      BY <1>0
    <3> QED
      BY <3>1
  <2> HIDE DEF v, u
  <2>4. \A i \in 1 .. n : v[i] = a[i]
    BY <1>0, <1>1, <1>2, <2>2
  <2>5. v = a
    BY <1>a, <2>2, <2>4, SameList
  <2> QED
    BY <2>3, <2>5
<1>4. w = b
  <2>0. n + 1 + 1 \in 1 .. Len(d) + 1 /\ Len(d) \in 0 .. Len(d) /\ n + 1 + 1 <= Len(d) + 1
    BY <1>0, <1>1, <1>2
  <2>1. /\ IsList(w) /\ Len(w) = Len(d) - (n + 1 + 1) + 1
        /\ \A i \in 1 .. Len(d) - (n + 1 + 1) + 1 : w[i] = d[n + 1 + 1 + i - 1]
    BY <1>2, <2>0, ListSub
  <2> HIDE DEF w
  <2>2. Len(d) - (n + 1 + 1) + 1 = Len(b)
    BY <1>0, <1>1, <1>2
  <2>3. \A i \in 1 .. Len(b) : n + 1 + 1 + i - 1 = Len(c) + i
    BY <1>0, <1>1
  <2>4. \A i \in 1 .. Len(b) : w[i] = b[i]
    BY <1>2, <2>1, <2>2, <2>3
  <2>5. w = b
    BY <2>1, <2>2, <2>4, SameList
  <2> QED
    BY <2>5
<1>5. RemoveAt(d, n + 1) = u \o w
  BY Zenon DEF RemoveAt
<1>6. RemoveAt(d, n + 1) = a \o b
  <2> HIDE DEF u, w
  <2> QED
    BY <1>3, <1>4, <1>5, Zenon
<1> QED
  BY <1>6 DEF c, d, n

(* Without a pin of the session a list shows the others. *)
LEMMA ListingWithout ==
  ASSUME NEW s, IsList(s), NEW k \in FromSession(s)
  PROVE  Listing(RemoveAt(s, k)) = RemoveAt(Listing(s), Shows(s)[k])
<1> DEFINE a == SubSeq(s, 1, k - 1)
           b == SubSeq(s, k + 1, Len(s))
           c == SubSeq(s, 1, k)
           x == s[k]
<1>0. k \in 1 .. Len(s) /\ x.source = "session" /\ Len(s) \in Nat
  BY ListIs DEF FromSession
<1>1. IsList(a) /\ c = Append(a, x) /\ IsList(b)
  BY <1>0, ThreeParts, Zenon
<1>2. s = c \o b
  <2>1. k \in 0 .. Len(s)
    BY <1>0
  <2> QED
    BY <2>1, SplitAt
<1>3. Shows(s)[k] = Len(Listing(c))
  BY <1>0 DEF Shows
<1>4. RemoveAt(s, k) = a \o b
  BY DEF RemoveAt
<1> HIDE DEF a, b, c, x
<1>5. IsList(c)
  BY <1>1, ListAppend
<1>6. Listing(a \o b) = Listing(a) \o Listing(b) /\ IsList(Listing(a)) /\ IsList(Listing(b))
  BY <1>1, ListingConcat
<1>7. Listing(c \o b) = Listing(c) \o Listing(b)
  BY <1>1, <1>5, ListingConcat
<1> DEFINE p == Listing(a)
           q == Listing(b)
<1>p. IsList(p) /\ IsList(q)
  BY <1>6
<1>8. Listing(c) = Append(p, x)
  <2>1. Listing(Append(a, x)) = Append(Listing(a), x)
    BY <1>0, <1>1, ListingAppend
  <2> QED
    BY <1>1, <2>1
<1>9. Listing(s) = Append(p, x) \o q
  <2>1. Listing(s) = Listing(c \o b)
    BY <1>2, Zenon
  <2> QED
    BY <1>7, <1>8, <2>1, Zenon
<1>10. Listing(RemoveAt(s, k)) = p \o q
  BY <1>4, <1>6
<1> HIDE DEF p, q
<1>11. Len(Append(p, x)) = Len(p) + 1
  BY <1>p, ListAppend
<1>12. RemoveAt(Append(p, x) \o q, Len(p) + 1) = p \o q
  BY <1>p, RemoveMiddle
<1>13. Shows(s)[k] = Len(p) + 1
  BY <1>3, <1>8, <1>11, Zenon
<1> QED
  BY <1>9, <1>10, <1>12, <1>13, Zenon

(* Unpinning a number lifts what is shown under it, and nothing else. *)
LEMMA LiftsShown ==
  ASSUME NEW s, IsList(s), NEW line, line.n \in Nat, line.n > 0, line.arg # "all"
  PROVE  Listing(ApplyUnpin(s, line))
           = IF line.n \in DOMAIN Listing(s) THEN RemoveAt(Listing(s), line.n) ELSE Listing(s)
<1> DEFINE c == line.n
           T == Targets(s, line)
           t == CHOOSE i \in T : \A j \in T : i <= j
<1>0. IsList(Listing(s))
  BY PickedList DEF Listing
<1>1. DOMAIN Listing(s) = 1 .. Len(Listing(s))
  BY <1>0, ListIs
<1>a. T = SessionPin(s, c)
  BY DEF Targets, Numbered
<1>2. ApplyUnpin(s, line) = IF T = {} THEN s ELSE RemoveAt(s, t)
  BY DEF ApplyUnpin
<1>c. c \in Nat /\ c > 0
  OBVIOUS
<1> HIDE DEF c, T
<1>3. CASE c \in 1 .. Len(Listing(s))
  <2>1. PICK k \in FromSession(s) : T = {k} /\ Shows(s)[k] = c
    BY <1>a, <1>c, <1>3, NumberFinds
  <2>2. k \in 1 .. Len(s) /\ Len(s) \in Nat
    BY ListIs DEF FromSession
  <2>3. t = k
    <3>1. T \subseteq 1 .. Len(s) /\ T # {} /\ k \in T /\ \A j \in T : k <= j
      BY <2>1, <2>2
    <3> QED
      BY <2>2, <3>1, FirstPlace
  <2>4. Listing(RemoveAt(s, k)) = RemoveAt(Listing(s), c)
    <3>1. Listing(RemoveAt(s, k)) = RemoveAt(Listing(s), Shows(s)[k])
      BY <2>1, ListingWithout
    <3> QED
      BY <2>1, <3>1, Zenon
  <2>5. ApplyUnpin(s, line) = RemoveAt(s, k)
    <3>1. T # {}
      BY <2>1
    <3> QED
      BY <1>2, <2>3, <3>1, Zenon
  <2> QED
    BY <1>1, <1>3, <2>4, <2>5, Zenon DEF c
<1>4. CASE c \notin 1 .. Len(Listing(s))
  <2>1. T = {}
    BY <1>a, <1>c, <1>4, NumberFinds
  <2>2. ApplyUnpin(s, line) = s
    BY <1>2, <2>1, Zenon
  <2> QED
    BY <1>1, <1>4, <2>2, Zenon DEF c
<1> QED
  BY <1>3, <1>4

-----------------------------------------------------------------------------
(* A turn that unpins a number.                                              *)

(* One of the first places is not chosen. *)
SkipsUpTo(chosen, k) == \E i \in 1 .. k : i \notin chosen

(* A list from which all is picked was chosen as a whole. *)
LEMMA PickedAll ==
  ASSUME NEW s, IsList(s), NEW chosen, Picked(s, chosen) = s
  PROVE  \A i \in 1 .. Len(s) : i \in chosen
<1>0. Len(s) \in Nat
  BY ListIs
<1>1. PICK f : Picked(s, chosen) = f[Len(s)] /\ Grows(f, s, chosen)
  BY <1>0, PickedGrows
<1> DEFINE T == {k \in 0 .. Len(s) :
                   /\ Len(f[k]) \in Nat /\ Len(f[k]) <= k
                   /\ SkipsUpTo(chosen, k) => Len(f[k]) < k}
<1>2. 0 \in T
  <2>1. f[0] = <<>>
    BY <1>1, GrowsStart
  <2>2. Len(f[0]) = 0
    BY <2>1, ListEmpty, Zenon
  <2>3. ~SkipsUpTo(chosen, 0)
    BY DEF SkipsUpTo
  <2> QED
    BY <1>0, <2>2, <2>3
<1>3. ASSUME NEW k \in 1 .. Len(s), k - 1 \in T PROVE k \in T
  <2>1. f[k] = IF k \in chosen THEN Append(f[k - 1], s[k]) ELSE f[k - 1]
    BY <1>1, GrowsStep
  <2>2. /\ Len(f[k - 1]) \in Nat /\ Len(f[k - 1]) <= k - 1
        /\ SkipsUpTo(chosen, k - 1) => Len(f[k - 1]) < k - 1
    BY <1>3
  <2>3. IsList(f[k - 1])
    <3>1. k - 1 \in 0 .. Len(s)
      BY <1>0
    <3> QED
      BY <1>1, <3>1, GrowsLists
  <2>4. Len(Append(f[k - 1], s[k])) = Len(f[k - 1]) + 1
    BY <2>3, ListAppend
  <2>5. SkipsUpTo(chosen, k) => SkipsUpTo(chosen, k - 1) \/ k \notin chosen
    BY <1>0 DEF SkipsUpTo
  <2> DEFINE a == Len(f[k - 1])
             b == Len(f[k])
  <2>6. /\ k \in chosen => b = a + 1
        /\ k \notin chosen => b = a
    BY <2>1, <2>4
  <2>7. a \in Nat /\ a <= k - 1 /\ (SkipsUpTo(chosen, k - 1) => a < k - 1)
    BY <2>2
  <2> HIDE DEF a, b
  <2>8. b \in Nat /\ b <= k /\ (SkipsUpTo(chosen, k) => b < k)
    BY <1>0, <2>5, <2>6, <2>7
  <2> QED
    BY <2>8 DEF b
<1>4. Len(s) \in T
  <2> HIDE DEF T
  <2> QED
    BY <1>0, <1>2, <1>3, UpTo
<1>5. Len(f[Len(s)]) = Len(s)
  BY <1>1
<1>6. ~SkipsUpTo(chosen, Len(s))
  BY <1>0, <1>4, <1>5
<1> QED
  BY <1>6 DEF SkipsUpTo

(* Lines without a command change nothing. *)
LEMMA SayingKeeps ==
  ASSUME NEW held, NEW lines, IsList(lines), NEW source, StripLines(lines) = lines
  PROVE  FoldLines(held, lines, source) = held
<1>0. Len(lines) \in Nat /\ DOMAIN lines = 1 .. Len(lines)
  BY ListIs
<1>1. \A i \in 1 .. Len(lines) : ~IsCommand(lines[i])
  <2> DEFINE c == {i \in DOMAIN lines : ~IsCommand(lines[i])}
  <2>1. Picked(lines, c) = lines
    BY DEF StripLines
  <2>2. \A i \in c : ~IsCommand(lines[i])
    OBVIOUS
  <2> HIDE DEF c
  <2>3. \A i \in 1 .. Len(lines) : i \in c
    BY <2>1, PickedAll
  <2> QED
    BY <2>2, <2>3
<1>2. PICK f : FoldLines(held, lines, source) = f[Len(lines)] /\ LinesRun(f, held, lines, source)
  BY <1>0, LinesIs, Zenon
<1> DEFINE T == {k \in 0 .. Len(lines) : f[k] = held}
<1>3. 0 \in T
  BY <1>0, <1>2 DEF LinesRun
<1>4. ASSUME NEW k \in 1 .. Len(lines), k - 1 \in T PROVE k \in T
  <2>1. f[k] = ApplyPinLine(f[k - 1], lines[k], source) /\ f[k - 1] = held
    BY <1>2, <1>4 DEF LinesRun
  <2>2. f[k] = held
    BY <1>1, <2>1 DEF ApplyPinLine
  <2> QED
    BY <2>2
<1>5. Len(lines) \in T
  <2> HIDE DEF T
  <2> QED
    BY <1>0, <1>3, <1>4, UpTo
<1> QED
  BY <1>2, <1>5

(* One line is one command. *)
LEMMA OneLine ==
  ASSUME NEW held, NEW lines, Len(lines) = 1, NEW source
  PROVE  FoldLines(held, lines, source) = ApplyPinLine(held, lines[1], source)
<1>0. Len(lines) \in Nat /\ 1 \in 1 .. Len(lines) /\ 1 - 1 = 0
  OBVIOUS
<1>1. PICK f : FoldLines(held, lines, source) = f[Len(lines)] /\ LinesRun(f, held, lines, source)
  BY <1>0, LinesIs, Zenon
<1>2. f[1] = ApplyPinLine(f[0], lines[1], source) /\ f[0] = held
  BY <1>0, <1>1 DEF LinesRun
<1> QED
  BY <1>1, <1>2

(* A turn that unpins a number is applied as that command. *)
LEMMA UnpinTurn ==
  ASSUME NEW held, NEW m, AllSaid(m), OnlyUnpins(m), NEW idx
  PROVE  LET line == m.blocks[1].lines[1]
         IN /\ line.n \in Nat /\ line.n > 0 /\ line.arg # "all"
            /\ FoldMessage(held, m, idx) = ApplyUnpin(held, line)
<1> DEFINE b == m.blocks[1]
           line == b.lines[1]
<1>1. /\ m.role = "user" /\ Len(m.blocks) = 1 /\ IsList(m.blocks)
      /\ Len(b.lines) = 1 /\ line.n > 0 /\ StripLines(b.head) = b.head
  BY DEF OnlyUnpins, IsCommandOnlyTurn, AllSaid
<1>2. DOMAIN m.blocks = 1 .. 1
  BY <1>1, ListIs
<1>3. b.type = "text" /\ IsSaid(b)
  BY <1>1, <1>2 DEF OnlyUnpins, IsCommandOnlyTurn, AllSaid
<1>4. IsLines(b.head) /\ IsLines(b.lines)
  BY <1>3 DEF IsSaid
<1>5. line \in Lines
  BY <1>1, <1>4 DEF IsLines
<1> DEFINE source == IF InLeadingRun(m, idx, 1) THEN "file" ELSE "session"
           one == FoldLines(held, b.head, source)
           two == FoldLines(one, b.lines, "session")
<1>6. FoldBlock(held, m, idx, 1) = two
  BY <1>3 DEF FoldBlock
<1>7. FoldMessage(held, m, idx) = FoldBlock(held, m, idx, 1)
  <2>0. Len(m.blocks) \in Nat /\ 1 \in 1 .. Len(m.blocks) /\ 1 - 1 = 0
    BY <1>1
  <2>1. PICK f : FoldMessage(held, m, idx) = f[Len(m.blocks)] /\ BlocksRun(f, held, m, idx)
    BY <1>1, <2>0, BlocksIs, Zenon
  <2>2. f[1] = FoldBlock(f[0], m, idx, 1) /\ f[0] = held
    BY <2>0, <2>1 DEF BlocksRun
  <2> QED
    BY <1>1, <2>1, <2>2
<1> HIDE DEF b, source
<1>8. one = held
  BY <1>1, <1>4, SayingKeeps DEF IsLines
<1> HIDE DEF one
<1>9. two = ApplyPinLine(held, line, "session")
  BY <1>1, <1>8, OneLine
<1> HIDE DEF two, line
<1>10. line.n \in Nat /\ line.verb = "unpin" /\ line.arg = NoText
  BY <1>1, <1>5 DEF Lines, line
<1>11. ApplyPinLine(held, line, "session") = ApplyUnpin(held, line)
  BY <1>10 DEF ApplyPinLine, IsCommand
<1>12. line.arg # "all"
  BY <1>10 DEF NoText
<1>13. FoldMessage(held, m, idx) = ApplyUnpin(held, line)
  BY <1>6, <1>7, <1>9, <1>11, Zenon
<1>14. line.n > 0
  BY <1>1 DEF line
<1> QED
  BY <1>10, <1>12, <1>13, <1>14 DEF b, line

-----------------------------------------------------------------------------
(* The list is folded again from the whole conversation.                     *)

(* What was in force after the first turns is what they make of the list. *)
LEMMA FoldUpTo ==
  ASSUME NEW messages, IsList(messages), NEW system, NEW f, FoldRun(f, messages, system),
         NEW n \in 0 .. Len(messages)
  PROVE  FoldPins(SubSeq(messages, 1, n), system) = f[n]
<1> DEFINE p == SubSeq(messages, 1, n)
<1>0. Len(messages) \in Nat /\ n \in Nat /\ n <= Len(messages)
  BY ListIs
<1>1. IsList(p) /\ Len(p) = n /\ \A i \in 1 .. n : p[i] = messages[i]
  BY <1>0, FirstOnes
<1> HIDE DEF p
<1>n. Len(p) \in Nat
  BY <1>0, <1>1
<1>2. PICK g : FoldPins(p, system) = g[Len(p)] /\ FoldRun(g, p, system)
  BY <1>n, FoldIs, Zenon
<1> DEFINE T == {k \in 0 .. n : g[k] = f[k]}
<1>3. 0 \in T
  BY <1>0, <1>2 DEF FoldRun
<1>4. ASSUME NEW k \in 1 .. n, k - 1 \in T PROVE k \in T
  <2>1. k \in 1 .. Len(messages) /\ k \in 1 .. Len(p) /\ p[k] = messages[k]
    BY <1>0, <1>1
  <2>2. g[k] = FoldMessage(g[k - 1], p[k], k) /\ g[k - 1] = f[k - 1]
    BY <1>2, <1>4, <2>1 DEF FoldRun
  <2>3. f[k] = FoldMessage(f[k - 1], messages[k], k)
    BY <2>1 DEF FoldRun
  <2>4. g[k] = f[k]
    BY <2>1, <2>2, <2>3
  <2> QED
    BY <2>4
<1>5. n \in T
  <2> HIDE DEF T
  <2> QED
    BY <1>0, <1>3, <1>4, UpTo
<1> QED
  BY <1>1, <1>2, <1>5 DEF p

(* And that is a list. *)
LEMMA FoldLists ==
  ASSUME NEW messages, SaysWell(messages), NEW system, FilesWell(system),
         NEW f, FoldRun(f, messages, system), NEW n \in 0 .. Len(messages)
  PROVE  IsList(f[n])
<1>0. Len(messages) \in Nat /\ n \in Nat
  BY ListIs DEF SaysWell
<1> DEFINE T == {k \in 0 .. n : IsList(f[k])}
<1>1. 0 \in T
  BY <1>0, SystemIsList DEF FoldRun
<1>2. ASSUME NEW k \in 1 .. n, k - 1 \in T PROVE k \in T
  <2>1. k \in 1 .. Len(messages)
    BY <1>0
  <2>2. f[k] = FoldMessage(f[k - 1], messages[k], k) /\ IsList(f[k - 1])
    BY <1>2, <2>1 DEF FoldRun
  <2>3. messages[k].role = "user" => AllSaid(messages[k])
    BY <2>1 DEF SaysWell
  <2>4. IsList(f[k])
    BY <2>2, <2>3, TurnKeepsList
  <2> QED
    BY <2>4
<1>3. n \in T
  <2> HIDE DEF T
  <2> QED
    BY <1>0, <1>1, <1>2, UpTo
<1> QED
  BY <1>3

(* "unpin n" lifts the pin that the answer before it showed as n.            *)
LEMMA UnpinHits ==
  ASSUME SaidInv, NEW i \in DOMAIN conv, i > 2, IsPinReply(conv[i - 1]), OnlyUnpins(conv[i])
  PROVE  LET shown == ListedAt(i - 2)
             n == conv[i].blocks[1].lines[1].n
         IN ListedAt(i) = IF n \in DOMAIN shown THEN RemoveAt(shown, n) ELSE shown
<1> DEFINE system == setup.system
<1>0. /\ IsList(conv) /\ Len(conv) \in Nat /\ i \in 1 .. Len(conv) /\ FilesWell(system)
      /\ SaysWell(conv)
  BY ListIs DEF SaidInv, SaysWell
<1>1. /\ i \in 0 .. Len(conv) /\ i - 1 \in 1 .. Len(conv) /\ i - 2 \in 0 .. Len(conv)
      /\ (i - 1) - 1 = i - 2
  BY <1>0
<1> HIDE DEF system
<1>2. PICK f : FoldPins(conv, system) = f[Len(conv)] /\ FoldRun(f, conv, system)
  BY <1>0, FoldIs, Zenon
<1> DEFINE held == f[i - 2]
           m == conv[i]
           line == m.blocks[1].lines[1]
<1>3. IsList(held)
  BY <1>0, <1>1, <1>2, FoldLists
<1>4. f[i - 1] = held
  <2>1. f[i - 1] = FoldMessage(f[(i - 1) - 1], conv[i - 1], i - 1)
    BY <1>1, <1>2 DEF FoldRun
  <2>2. conv[i - 1].role # "user"
    BY DEF IsPinReply
  <2> QED
    BY <1>1, <2>1, <2>2 DEF FoldMessage
<1>5. f[i] = FoldMessage(held, m, i)
  <2>1. f[i] = FoldMessage(f[i - 1], m, i)
    BY <1>0, <1>2 DEF FoldRun
  <2> QED
    BY <1>4, <2>1
<1>6. AllSaid(m)
  <2>1. m.role = "user"
    BY DEF OnlyUnpins, IsCommandOnlyTurn
  <2> QED
    BY <1>0, <2>1 DEF SaysWell
<1>o. OnlyUnpins(m)
  OBVIOUS
<1>7. /\ line.n \in Nat /\ line.n > 0 /\ line.arg # "all"
      /\ FoldMessage(held, m, i) = ApplyUnpin(held, line)
  <2> HIDE DEF held, m
  <2> QED
    BY <1>o, <1>6, UnpinTurn
<1>8. ListedAt(i) = Listing(f[i]) /\ ListedAt(i - 2) = Listing(held)
  <2>1. FoldPins(SubSeq(conv, 1, i), system) = f[i]
    BY <1>0, <1>1, <1>2, FoldUpTo
  <2>2. FoldPins(SubSeq(conv, 1, i - 2), system) = f[i - 2]
    BY <1>0, <1>1, <1>2, FoldUpTo
  <2> QED
    BY <2>1, <2>2 DEF ListedAt, system
<1>l. line = conv[i].blocks[1].lines[1]
  OBVIOUS
<1> HIDE DEF held, line
<1>9. Listing(ApplyUnpin(held, line))
        = IF line.n \in DOMAIN Listing(held) THEN RemoveAt(Listing(held), line.n) ELSE Listing(held)
  BY <1>3, <1>7, LiftsShown
<1>10. ListedAt(i) = Listing(ApplyUnpin(held, line))
  BY <1>5, <1>7, <1>8, Zenon
<1> QED
  BY <1>8, <1>9, <1>10, <1>l, Zenon

(* Whatever was pinned and lifted before, by commands and by files, the      *)
(* number of an unpin means the pin that the proxy's last answer showed.     *)
THEOREM UnpinsHitListed == ConversationSpec => []UnpinHitsListed
<1>1. SaidInv => UnpinHitsListed
  BY UnpinHits DEF UnpinHitsListed
<1> QED
  BY <1>1, SaidInvariant, PTL
-----------------------------------------------------------------------------
(* What a request shows. A pass may put a block in the place of another that *)
(* carries what the other one did.                                           *)

(* A page says what is on it, and a result the turn it belongs to; the pages *)
(* of a result are what became of its texts.                                 *)
ResultPages(parts, at) ==
  \A p \in 1 .. Len(parts) : parts[p].type = "page" => parts[p].holds \subseteq {<<at, "result">>}
IsResult(b, at) ==
  {"type", "at", "parts"} \subseteq DOMAIN b /\ b.at = at /\ IsList(b.parts)
          /\ ResultPages(b.parts, at)
IsPlaced(b, at) ==
  /\ b.type = "page" => {"type", "holds"} \subseteq DOMAIN b
  /\ b.type = "result" => IsResult(b, at)

(* A command that is left is in a block that stays for its marker. *)
CommandStays(b) == HasCommand(b) => IsBlank(b) /\ HasMark(b)

(* A turn on its way to the provider, before the list of pins is said. *)
IsTurn(m) == {"role", "at", "blocks"} \subseteq DOMAIN m /\ IsList(m.blocks)
IsWire(b, m) ==
  IsPlaced(b, m.at) /\ b.type # "pins" /\ (m.role = "user" => CommandStays(b))
IsTidy(m) == IsTurn(m) /\ \A k \in 1 .. Len(m.blocks) : IsWire(m.blocks[k], m)
AllTidy(messages) == IsList(messages) /\ \A i \in 1 .. Len(messages) : IsTidy(messages[i])

(* What is shown of a block. *)
TextIn(parts) == \E p \in DOMAIN parts : parts[p].type = "text"
ResultShows(b, at) ==
  PageItems(b.parts) \cup (IF TextIn(b.parts) THEN {<<at, "result">>} ELSE {})
BlockShows(b, at) ==
  (IF b.type = "text" THEN {<<at, "text">>} ELSE {})
    \cup (IF b.type = "result" THEN ResultShows(b, at) ELSE {})
    \cup (IF b.type = "page" THEN b.holds ELSE {})

(* A turn shows what its blocks show. *)
LEMMA ShownBlocks ==
  ASSUME NEW m
  PROVE  Shown(m) = UNION {BlockShows(m.blocks[k], m.at) : k \in DOMAIN m.blocks}
<1> DEFINE B(k) == BlockShows(m.blocks[k], m.at)
           U == UNION {B(k) : k \in DOMAIN m.blocks}
<1>1. ASSUME NEW x \in Shown(m) PROVE x \in U
  <2>1. CASE x \in TextOf(m)
    <3>1. CASE \E k \in DOMAIN m.blocks : m.blocks[k].type = "text" /\ x = <<m.at, "text">>
      BY <3>1 DEF BlockShows
    <3>2. CASE \E k \in DOMAIN m.blocks :
                 /\ m.blocks[k].type = "result" /\ x = <<m.at, "result">>
                 /\ \E p \in DOMAIN m.blocks[k].parts : m.blocks[k].parts[p].type = "text"
      BY <3>2 DEF BlockShows, ResultShows, TextIn
    <3> QED
      BY <2>1, <3>1, <3>2 DEF TextOf
  <2>2. CASE x \in PageItems(m.blocks)
    <3>1. PICK k \in DOMAIN m.blocks : m.blocks[k].type = "page" /\ x \in m.blocks[k].holds
      BY <2>2 DEF PageItems
    <3> QED
      BY <3>1 DEF BlockShows
  <2>3. CASE \E k \in DOMAIN m.blocks :
               m.blocks[k].type = "result" /\ x \in PageItems(m.blocks[k].parts)
    BY <2>3 DEF BlockShows, ResultShows
  <2> QED
    BY <1>1, <2>1, <2>2, <2>3 DEF Shown
<1>2. ASSUME NEW k \in DOMAIN m.blocks PROVE B(k) \subseteq Shown(m)
  <2> DEFINE b == m.blocks[k]
  <2>1. CASE b.type = "text"
    <3>1. B(k) = {<<m.at, "text">>}
      BY <2>1 DEF BlockShows
    <3>2. <<m.at, "text">> \in TextOf(m)
      BY <2>1 DEF TextOf
    <3> QED
      BY <3>1, <3>2 DEF Shown
  <2>2. CASE b.type = "page"
    <3>1. B(k) = b.holds
      BY <2>2 DEF BlockShows
    <3>2. b.holds \subseteq PageItems(m.blocks)
      BY <2>2 DEF PageItems
    <3> QED
      BY <3>1, <3>2 DEF Shown
  <2>3. CASE b.type = "result"
    <3>1. B(k) = ResultShows(b, m.at)
      BY <2>3 DEF BlockShows
    <3>2. PageItems(b.parts) \subseteq Shown(m)
      BY <2>3 DEF Shown
    <3>3. TextIn(b.parts) => <<m.at, "result">> \in TextOf(m)
      BY <2>3 DEF TextOf, TextIn
    <3>4. TextOf(m) \subseteq Shown(m)
      BY DEF Shown
    <3> QED
      BY <3>1, <3>2, <3>3, <3>4 DEF ResultShows
  <2>4. CASE b.type \notin {"text", "page", "result"}
    BY <2>4 DEF BlockShows
  <2> QED
    BY <2>1, <2>2, <2>3, <2>4
<1> QED
  BY <1>1, <1>2

(* A block that carries what another one did. *)
CarriesResult(c, b) ==
  /\ c.type = "result" /\ IsResult(c, b.at)
  /\ PageItems(b.parts) \subseteq PageItems(c.parts)
  /\ TextIn(b.parts) => TextIn(c.parts) \/ <<b.at, "result">> \in PageItems(c.parts)
Carries(c, b) ==
  \/ c = b
  \/ b.type = "page" /\ c.type = "page" /\ {"type", "holds"} \subseteq DOMAIN c /\ c.holds = b.holds
  \/ b.type = "result" /\ CarriesResult(c, b)

(* It shows as much, and it is as tidy. *)
LEMMA CarriesShows ==
  ASSUME NEW b, NEW c, NEW at, IsPlaced(b, at), Carries(c, b)
  PROVE  BlockShows(b, at) \subseteq BlockShows(c, at)
<1>1. CASE b.type = "result" /\ CarriesResult(c, b)
  <2>1. b.at = at /\ c.type = "result"
    BY <1>1 DEF IsPlaced, IsResult, CarriesResult
  <2>2. BlockShows(b, at) = ResultShows(b, at) /\ BlockShows(c, at) = ResultShows(c, at)
    BY <1>1, <2>1 DEF BlockShows
  <2> QED
    BY <1>1, <2>1, <2>2 DEF CarriesResult, ResultShows
<1>2. CASE b.type = "page" /\ c.type = "page" /\ {"type", "holds"} \subseteq DOMAIN c
        /\ c.holds = b.holds
  BY <1>2 DEF BlockShows
<1> QED
  BY <1>1, <1>2 DEF Carries

(* It is as tidy. *)
LEMMA CarriesTidy ==
  ASSUME NEW b, NEW c, NEW m, NEW n, IsWire(b, m), Carries(c, b), n.at = m.at, n.role = m.role
  PROVE  IsWire(c, n)
<1>1. CASE c = b
  BY <1>1 DEF IsWire
<1>2. CASE b.type = "page" /\ c.type = "page" /\ {"type", "holds"} \subseteq DOMAIN c
        /\ c.holds = b.holds
  BY <1>2 DEF IsWire, IsPlaced, CommandStays, HasCommand
<1>3. CASE b.type = "result" /\ CarriesResult(c, b)
  BY <1>3 DEF IsWire, IsPlaced, IsResult, CommandStays, HasCommand, CarriesResult
<1> QED
  BY <1>1, <1>2, <1>3 DEF Carries

(* What the passes put beside the blocks there are. *)
Extra(b) ==
  \/ b.type \in {"intro", "boundary"}
  \/ b.type = "page" /\ {"type", "holds"} \subseteq DOMAIN b

(* It is tidy too. *)
LEMMA ExtraTidy ==
  ASSUME NEW b, Extra(b), NEW m
  PROVE  IsWire(b, m)
BY DEF Extra, IsWire, IsPlaced, CommandStays, HasCommand

(* A turn whose blocks are carried, with some extra ones. *)
AllCarried(new, old) == \A k \in 1 .. Len(old) : \E l \in 1 .. Len(new) : Carries(new[l], old[k])
NoneAdded(new, old) ==
  \A l \in 1 .. Len(new) : Extra(new[l]) \/ \E k \in 1 .. Len(old) : Carries(new[l], old[k])
Grown(n, m) ==
  /\ IsTurn(n) /\ n.role = m.role /\ n.at = m.at
  /\ AllCarried(n.blocks, m.blocks) /\ NoneAdded(n.blocks, m.blocks)

(* It shows as much and stays tidy. *)
LEMMA GrownKeeps ==
  ASSUME NEW m, IsTidy(m), NEW n, Grown(n, m)
  PROVE  IsTidy(n) /\ Shown(m) \subseteq Shown(n)
<1>1. /\ Len(m.blocks) \in Nat /\ DOMAIN m.blocks = 1 .. Len(m.blocks)
      /\ Len(n.blocks) \in Nat /\ DOMAIN n.blocks = 1 .. Len(n.blocks)
  BY ListIs DEF IsTidy, Grown, IsTurn
<1>2. IsTidy(n)
  <2>1. ASSUME NEW l \in 1 .. Len(n.blocks) PROVE IsWire(n.blocks[l], n)
    <3>1. CASE Extra(n.blocks[l])
      BY <3>1, ExtraTidy
    <3>2. ASSUME NEW k \in 1 .. Len(m.blocks), Carries(n.blocks[l], m.blocks[k])
          PROVE  IsWire(n.blocks[l], n)
      BY <3>2, CarriesTidy DEF IsTidy, Grown
    <3> QED
      BY <3>1, <3>2 DEF Grown, NoneAdded
  <2> QED
    BY <2>1 DEF IsTidy, Grown
<1>3. ASSUME NEW x \in Shown(m) PROVE x \in Shown(n)
  <2>1. PICK k \in 1 .. Len(m.blocks) : x \in BlockShows(m.blocks[k], m.at)
    BY <1>1, <1>3, ShownBlocks
  <2>2. PICK l \in 1 .. Len(n.blocks) : Carries(n.blocks[l], m.blocks[k])
    BY DEF Grown, AllCarried
  <2>3. IsPlaced(m.blocks[k], m.at)
    BY DEF IsTidy, IsWire
  <2>4. x \in BlockShows(n.blocks[l], n.at)
    BY <2>1, <2>2, <2>3, CarriesShows DEF Grown
  <2> QED
    BY <1>1, <2>4, ShownBlocks
<1> QED
  BY <1>2, <1>3

(* A turn is its own. *)
LEMMA GrownSame ==
  ASSUME NEW m, IsTurn(m)
  PROVE  Grown(m, m)
<1>1. \A k \in 1 .. Len(m.blocks) : Carries(m.blocks[k], m.blocks[k])
  BY DEF Carries
<1> QED
  BY <1>1 DEF Grown, AllCarried, NoneAdded

(* A list of turns in which every turn is one of before, or grown from it. *)
ShownOf(messages) == UNION {Shown(messages[i]) : i \in DOMAIN messages}
Follows(t, s) == IsList(t) /\ Len(t) = Len(s) /\ \A i \in 1 .. Len(s) : Grown(t[i], s[i])

(* It shows as much and stays tidy. *)
LEMMA FollowsKeeps ==
  ASSUME NEW s, AllTidy(s), NEW t, Follows(t, s)
  PROVE  /\ AllTidy(t) /\ ShownOf(s) \subseteq ShownOf(t)
         /\ \A i \in 1 .. Len(s) : t[i].role = s[i].role
<1>1. \A i \in 1 .. Len(s) : IsTidy(t[i]) /\ Shown(s[i]) \subseteq Shown(t[i])
  BY GrownKeeps DEF AllTidy, Follows
<1>2. DOMAIN s = 1 .. Len(s) /\ DOMAIN t = 1 .. Len(s)
  BY ListIs DEF AllTidy, Follows
<1>3. AllTidy(t)
  BY <1>1 DEF AllTidy, Follows
<1>4. ShownOf(s) \subseteq ShownOf(t)
  BY <1>1, <1>2 DEF ShownOf
<1> QED
  BY <1>3, <1>4 DEF Follows, Grown

(* The elements of a list but one. *)
ExceptAt(t, s, k, e) == \A i \in 1 .. Len(s) : t[i] = IF i = k THEN e ELSE s[i]

(* They stay when that one is replaced. *)
LEMMA ListChanged ==
  ASSUME NEW s, IsList(s), NEW k, NEW e
  PROVE  /\ IsList([s EXCEPT ![k] = e]) /\ Len([s EXCEPT ![k] = e]) = Len(s)
         /\ ExceptAt([s EXCEPT ![k] = e], s, k, e)
<1>1. IsList([s EXCEPT ![k] = e]) /\ Len([s EXCEPT ![k] = e]) = Len(s)
  BY ListExcept
<1>2. \A i \in 1 .. Len(s) : [s EXCEPT ![k] = e][i] = IF i = k THEN e ELSE s[i]
  BY ListExcept
<1>3. ExceptAt([s EXCEPT ![k] = e], s, k, e)
  BY <1>2 DEF ExceptAt
<1> QED
  BY <1>1, <1>3

(* One turn is grown. *)
LEMMA OneGrown ==
  ASSUME NEW s, AllTidy(s), NEW u \in 1 .. Len(s), NEW x, Grown(x, s[u])
  PROVE  Follows([s EXCEPT ![u] = x], s)
<1> DEFINE t == [s EXCEPT ![u] = x]
<1>0. IsList(s)
  BY DEF AllTidy
<1>1. IsList(t) /\ Len(t) = Len(s) /\ ExceptAt(t, s, u, x)
  BY <1>0, ListChanged
<1>2. \A i \in 1 .. Len(s) : Grown(s[i], s[i])
  BY GrownSame DEF AllTidy, IsTidy
<1> HIDE DEF t
<1>3. Follows(t, s)
  BY <1>1, <1>2 DEF Follows, ExceptAt
<1> QED
  BY <1>3 DEF t

(* One block is replaced by one that carries what it did. *)
LEMMA BlockGrown ==
  ASSUME NEW m, IsTurn(m), NEW k \in 1 .. Len(m.blocks), NEW x, Carries(x, m.blocks[k])
  PROVE  Grown([m EXCEPT !.blocks = [m.blocks EXCEPT ![k] = x]], m)
<1> DEFINE blocks == [m.blocks EXCEPT ![k] = x]
           n == [m EXCEPT !.blocks = blocks]
<1>0. IsList(m.blocks)
  BY DEF IsTurn
<1>1. /\ IsList(blocks) /\ Len(blocks) = Len(m.blocks)
      /\ ExceptAt(blocks, m.blocks, k, x)
  BY <1>0, ListChanged
<1> HIDE DEF blocks
<1>2. n.blocks = blocks /\ DOMAIN n = DOMAIN m /\ n.role = m.role /\ n.at = m.at
  BY DEF IsTurn
<1> HIDE DEF n
<1>3. \A i \in 1 .. Len(m.blocks) : Carries(blocks[i], m.blocks[i])
  BY <1>1 DEF Carries, ExceptAt
<1>4. IsTurn(n)
  BY <1>1, <1>2 DEF IsTurn
<1>5. Grown(n, m)
  BY <1>1, <1>2, <1>3, <1>4 DEF Grown, AllCarried, NoneAdded
<1> QED
  BY <1>5 DEF n, blocks

-----------------------------------------------------------------------------
(* What stripping leaves.                                                    *)

(* A list picked whole is the list. *)
LEMMA PickedWhole ==
  ASSUME NEW s, IsList(s), NEW chosen, \A i \in 1 .. Len(s) : i \in chosen
  PROVE  Picked(s, chosen) = s
<1>1. Len(s) \in Nat
  BY ListIs
<1>2. PICK f : Picked(s, chosen) = f[Len(s)] /\ Grows(f, s, chosen)
  BY <1>1, PickedGrows
<1> DEFINE First(t, n) == IsList(t) /\ Len(t) = n /\ \A i \in 1 .. n : t[i] = s[i]
           T == {n \in 0 .. Len(s) : First(f[n], n)}
<1>3. 0 \in T
  <2>1. f[0] = <<>>
    BY <1>2, GrowsStart
  <2>2. First(f[0], 0)
    BY <2>1, ListEmpty
  <2> QED
    BY <1>1, <2>2
<1>4. ASSUME NEW i \in 1 .. Len(s), First(f[i - 1], i - 1)
      PROVE  First(f[i], i)
  <2>1. f[i] = Append(f[i - 1], s[i])
    BY <1>2, GrowsStep
  <2> DEFINE n == i - 1
             g == f[i - 1]
             h == f[i]
             e == s[i]
  <2>2. n \in Nat /\ i = n + 1 /\ e = s[n + 1] /\ h = Append(g, e) /\ First(g, n)
    BY <1>4, <2>1
  <2> HIDE DEF n, g, h, e
  <2>3. IsList(h) /\ Len(h) = Len(g) + 1 /\ h[Len(g) + 1] = e /\ \A k \in 1 .. Len(g) : h[k] = g[k]
    BY <2>2, ListAppend
  <2>4. First(h, n + 1)
    BY <2>2, <2>3
  <2> QED
    BY <2>2, <2>4 DEF h
<1> HIDE DEF First
<1>5. \A i \in 1 .. Len(s) : i - 1 \in T => i \in T
  BY <1>1, <1>4
<1> HIDE DEF T
<1>6. Len(s) \in T
  BY <1>1, <1>3, <1>5, UpTo
<1>8. First(f[Len(s)], Len(s))
  BY <1>6 DEF T
<1>7. f[Len(s)] = s
  BY <1>8, SameList DEF First
<1> QED
  BY <1>2, <1>7

(* What is picked is of the list, and was chosen. *)
LEMMA PickedAre ==
  ASSUME NEW s, IsList(s), NEW chosen
  PROVE  /\ IsList(Picked(s, chosen))
         /\ \A k \in 1 .. Len(Picked(s, chosen)) :
              \E j \in 1 .. Len(s) : j \in chosen /\ Picked(s, chosen)[k] = s[j]
<1>1. Picks(s, s, chosen, Picked(s, chosen), Picked(s, chosen))
  BY PickedBoth
<1> DEFINE a == Picked(s, chosen)
<1>2. Picks(s, s, chosen, a, a)
  BY <1>1
<1> HIDE DEF a
<1>3. IsList(a) /\ \A k \in 1 .. Len(a) : \E j \in 1 .. Len(s) : j \in chosen /\ a[k] = s[j]
  BY <1>2 DEF Picks
<1> QED
  BY <1>3 DEF a

(* Lines that were stripped have no command. *)
LEMMA StripAgain ==
  ASSUME NEW lines, IsList(lines)
  PROVE  IsList(StripLines(lines)) /\ StripLines(StripLines(lines)) = StripLines(lines)
<1> DEFINE a == StripLines(lines)
<1>1. /\ IsList(a)
      /\ \A k \in 1 .. Len(a) : \E j \in 1 .. Len(lines) : ~IsCommand(lines[j]) /\ a[k] = lines[j]
  <2> DEFINE chosen == {i \in DOMAIN lines : ~IsCommand(lines[i])}
  <2>1. a = Picked(lines, chosen) /\ \A j \in chosen : ~IsCommand(lines[j])
    BY DEF StripLines
  <2> HIDE DEF a, chosen
  <2>2. IsList(a) /\ \A k \in 1 .. Len(a) : \E j \in 1 .. Len(lines) : j \in chosen
          /\ a[k] = lines[j]
    BY <2>1, PickedAre
  <2> QED
    BY <2>1, <2>2
<1> HIDE DEF a
<1>2. \A k \in 1 .. Len(a) : k \in {i \in DOMAIN a : ~IsCommand(a[i])}
  BY <1>1, ListIs
<1>3. StripLines(a) = a
  BY <1>1, <1>2, PickedWhole DEF StripLines
<1> QED
  BY <1>1, <1>3 DEF a

(* What stripping needs to know of a block. *)
HasLines(b) == {"lines", "head", "rem"} \subseteq DOMAIN b /\ IsList(b.lines) /\ IsList(b.head)
IsLined(b) == {"type", "cc"} \subseteq DOMAIN b /\ (b.type = "text" => HasLines(b))

(* Two blocks that differ in their lines and markers only. *)
Alike(c, b) == DOMAIN c = DOMAIN b /\ \A f \in DOMAIN b \ {"cc", "lines", "head"} : c[f] = b[f]

(* A block is like itself, *)
LEMMA AlikeSelf ==
  ASSUME NEW b
  PROVE  Alike(b, b)
BY DEF Alike

(* and so is a block that was cleaned, or marked. *)
LEMMA AlikeOnes ==
  ASSUME NEW b, NEW c, Alike(c, b), NEW cc
  PROVE  Alike(b, b) /\ Alike(Cleaned(b), b) /\ Alike([c EXCEPT !.cc = cc], b)
<1>1. Alike(b, b)
  BY DEF Alike
<1>2. Alike(Cleaned(b), b)
  BY DEF Alike, Cleaned
<1>3. Alike([c EXCEPT !.cc = cc], b)
  BY DEF Alike
<1> QED
  BY <1>1, <1>2, <1>3

(* A cleaned block has no command. *)
LEMMA CleanedSays ==
  ASSUME NEW b, HasLines(b)
  PROVE  ~HasCommand(Cleaned(b))
<1> DEFINE c == Cleaned(b)
<1>1. c.lines = StripLines(b.lines) /\ c.head = StripLines(b.head)
  BY DEF Cleaned, HasLines
<1>2. StripLines(c.lines) = c.lines /\ StripLines(c.head) = c.head
  BY <1>1, StripAgain DEF HasLines
<1> HIDE DEF c
<1>3. ~HasCommand(c)
  BY <1>2 DEF HasCommand
<1> QED
  BY <1>3 DEF c

(* A marker does not matter to what a block says. *)
LEMMA MarkedSays ==
  ASSUME NEW b, IsLined(b), CommandStays(b), NEW cc, cc # NoMark
  PROVE  CommandStays([b EXCEPT !.cc = cc])
<1> DEFINE c == [b EXCEPT !.cc = cc]
<1>1. c.cc = cc /\ c.type = b.type
  BY DEF IsLined
<1>2. b.type = "text" => c.lines = b.lines /\ c.head = b.head /\ c.rem = b.rem
  BY DEF IsLined, HasLines
<1> HIDE DEF c
<1>3. CommandStays(c)
  BY <1>1, <1>2 DEF CommandStays, HasCommand, IsBlank, HasMark
<1> QED
  BY <1>3 DEF c

(* One block more: what StripBlock makes of the blocks there are. *)
LEMMA StripCases ==
  ASSUME NEW kept, IsList(kept), NEW b
  PROVE  LET t == StripBlock(kept, b)
             e == [kept[Len(kept)] EXCEPT !.cc = b.cc]
         IN \/ ~HasCommand(b) /\ t = Append(kept, b)
            \/ HasCommand(b) /\ t = Append(kept, Cleaned(b)) /\ ~IsBlank(b)
            \/ HasCommand(b) /\ t = kept /\ IsBlank(b)
            \/ HasCommand(b) /\ t = <<b>> /\ IsBlank(b) /\ HasMark(b) /\ kept = <<>>
            \/ /\ HasCommand(b) /\ IsBlank(b) /\ HasMark(b) /\ Len(kept) \in 1 .. Len(kept)
               /\ t = [kept EXCEPT ![Len(kept)] = e]
<1>1. CASE ~HasCommand(b) \/ ~IsBlank(b) \/ b.cc = NoMark \/ kept = <<>>
  BY <1>1 DEF StripBlock, HasMark
<1>2. CASE HasCommand(b) /\ IsBlank(b) /\ b.cc # NoMark /\ kept # <<>>
  <2>1. Len(kept) \in 1 .. Len(kept)
    BY <1>2, NotEmpty, ListIs
  <2>2. StripBlock(kept, b) = [kept EXCEPT ![Len(kept)] = [kept[Len(kept)] EXCEPT !.cc = b.cc]]
    BY <1>2 DEF StripBlock
  <2> QED
    BY <1>2, <2>1, <2>2 DEF HasMark
<1> QED
  BY <1>1, <1>2

(* Every element of one list is like one of the other, and has no command    *)
(* that could go.                                                            *)
LikeOne(c, blocks) == \E j \in 1 .. Len(blocks) : Alike(c, blocks[j])
AllLike(kept, blocks) ==
  /\ IsList(kept)
  /\ \A k \in 1 .. Len(kept) :
       LikeOne(kept[k], blocks) /\ IsLined(kept[k]) /\ CommandStays(kept[k])

(* One block more. *)
LEMMA StripLike ==
  ASSUME NEW blocks, NEW kept, AllLike(kept, blocks), NEW j \in 1 .. Len(blocks),
         IsLined(blocks[j])
  PROVE  AllLike(StripBlock(kept, blocks[j]), blocks)
<1> DEFINE b == blocks[j]
           t == StripBlock(kept, b)
           Good(c) == LikeOne(c, blocks) /\ IsLined(c) /\ CommandStays(c)
           e == [kept[Len(kept)] EXCEPT !.cc = b.cc]
<1>1. Alike(b, b) /\ Alike(Cleaned(b), b)
  BY AlikeOnes, AlikeSelf
<1>2. ~HasCommand(b) => Good(b)
  BY <1>1 DEF LikeOne, CommandStays
<1>3. HasCommand(b) => Good(Cleaned(b))
  <2> SUFFICES ASSUME HasCommand(b) PROVE Good(Cleaned(b))
    OBVIOUS
  <2>1. b.type = "text" /\ HasLines(b) /\ {"type", "cc"} \subseteq DOMAIN b
    BY DEF HasCommand, IsLined
  <2>2. ~HasCommand(Cleaned(b))
    BY <2>1, CleanedSays
  <2>3. IsLined(Cleaned(b))
    <3> DEFINE c == Cleaned(b)
    <3>1. c.lines = StripLines(b.lines) /\ c.head = StripLines(b.head) /\ DOMAIN c = DOMAIN b
      BY <2>1 DEF Cleaned, HasLines
    <3>2. HasLines(c)
      BY <2>1, <3>1, StripAgain DEF HasLines
    <3> QED
      BY <2>1, <3>1, <3>2 DEF IsLined
  <2> QED
    BY <1>1, <2>2, <2>3 DEF LikeOne, CommandStays
<1>4. HasCommand(b) /\ IsBlank(b) /\ HasMark(b) => Good(b)
  BY <1>1 DEF LikeOne, CommandStays
<1>5. Len(kept) \in 1 .. Len(kept) /\ HasMark(b) => Good(e)
  <2> SUFFICES ASSUME Len(kept) \in 1 .. Len(kept), HasMark(b) PROVE Good(e)
    OBVIOUS
  <2> DEFINE c == kept[Len(kept)]
  <2>1. Good(c)
    BY DEF AllLike
  <2> HIDE DEF c
  <2> DEFINE d == [c EXCEPT !.cc = b.cc]
  <2>2. PICK i \in 1 .. Len(blocks) : Alike(c, blocks[i])
    BY <2>1 DEF LikeOne
  <2>3. LikeOne(d, blocks)
    BY <2>2, AlikeOnes DEF LikeOne
  <2>4. CommandStays(d)
    BY <2>1, MarkedSays DEF HasMark
  <2>5. IsLined(d)
    <3>1. DOMAIN d = DOMAIN c /\ d.type = c.type
      BY <2>1 DEF IsLined
    <3>2. c.type = "text" => d.lines = c.lines /\ d.head = c.head
      BY <2>1 DEF IsLined, HasLines
    <3> QED
      BY <2>1, <3>1, <3>2 DEF IsLined, HasLines
  <2> HIDE DEF d
  <2>6. Good(d)
    BY <2>3, <2>4, <2>5
  <2> QED
    BY <2>6 DEF d, c
<1>6. \A k \in 1 .. Len(kept) : Good(kept[k])
  BY DEF AllLike
<1>7. IsList(kept)
  BY DEF AllLike
<1> HIDE DEF Good
<1>8. ASSUME NEW x, Good(x)
      PROVE  IsList(Append(kept, x))
              /\ \A k \in 1 .. Len(Append(kept, x)) : Good(Append(kept, x)[k])
  <2> DEFINE u == Append(kept, x)
  <2>1. IsList(u) /\ Len(u) = Len(kept) + 1 /\ u[Len(kept) + 1] = x
        /\ \A k \in 1 .. Len(kept) : u[k] = kept[k]
    BY <1>7, ListAppend
  <2> HIDE DEF u
  <2>2. \A k \in 1 .. Len(u) : Good(u[k])
    BY <1>6, <1>7, <1>8, <2>1, ListIs
  <2> QED
    BY <2>1, <2>2 DEF u
<1>9. Len(kept) \in 1 .. Len(kept) /\ HasMark(b)
      => LET u == [kept EXCEPT ![Len(kept)] = e] IN IsList(u) /\ \A k \in 1 .. Len(u) : Good(u[k])
  <2> SUFFICES ASSUME Len(kept) \in 1 .. Len(kept), HasMark(b)
               PROVE  LET u == [kept EXCEPT ![Len(kept)] = e]
                      IN IsList(u) /\ \A k \in 1 .. Len(u) : Good(u[k])
    OBVIOUS
  <2>1. Good(e)
    BY <1>5
  <2> HIDE DEF e
  <2> DEFINE u == [kept EXCEPT ![Len(kept)] = e]
  <2>2. IsList(u) /\ Len(u) = Len(kept) /\ ExceptAt(u, kept, Len(kept), e)
    BY <1>7, ListChanged
  <2> HIDE DEF u
  <2>3. \A k \in 1 .. Len(u) : Good(u[k])
    BY <1>6, <2>1, <2>2 DEF ExceptAt
  <2> QED
    BY <2>2, <2>3 DEF u
<1>10. Good(b) => IsList(<<b>>) /\ \A k \in 1 .. Len(<<b>>) : Good(<<b>>[k])
  <2> DEFINE u == <<b>>
  <2>1. IsList(u) /\ Len(u) = 1 /\ u[1] = b
    BY ListOne
  <2> HIDE DEF u
  <2>2. Good(b) => \A k \in 1 .. Len(u) : Good(u[k])
    BY <2>1
  <2> QED
    BY <2>1, <2>2 DEF u
<1>11. \/ ~HasCommand(b) /\ t = Append(kept, b)
       \/ HasCommand(b) /\ t = Append(kept, Cleaned(b)) /\ ~IsBlank(b)
       \/ HasCommand(b) /\ t = kept /\ IsBlank(b)
       \/ HasCommand(b) /\ t = <<b>> /\ IsBlank(b) /\ HasMark(b) /\ kept = <<>>
       \/ /\ HasCommand(b) /\ IsBlank(b) /\ HasMark(b) /\ Len(kept) \in 1 .. Len(kept)
          /\ t = [kept EXCEPT ![Len(kept)] = e]
  BY <1>7, StripCases
<1> HIDE DEF t, e, b
<1>12. IsList(t) /\ \A k \in 1 .. Len(t) : Good(t[k])
  <2>1. CASE ~HasCommand(b) /\ t = Append(kept, b)
    BY <2>1, <1>2, <1>8
  <2>2. CASE HasCommand(b) /\ t = Append(kept, Cleaned(b))
    BY <2>2, <1>3, <1>8
  <2>3. CASE t = kept
    BY <2>3, <1>6, <1>7
  <2>4. CASE HasCommand(b) /\ t = <<b>> /\ IsBlank(b) /\ HasMark(b)
    BY <2>4, <1>4, <1>10
  <2>5. CASE /\ HasMark(b) /\ Len(kept) \in 1 .. Len(kept)
             /\ t = [kept EXCEPT ![Len(kept)] = e]
    BY <2>5, <1>9
  <2> QED
    BY <1>11, <2>1, <2>2, <2>3, <2>4, <2>5
<1> QED
  BY <1>12 DEF AllLike, t, b, Good

(* So are all of them. *)
LEMMA StripLeaves ==
  ASSUME NEW blocks, IsList(blocks), \A j \in 1 .. Len(blocks) : IsLined(blocks[j])
  PROVE  AllLike(StripBlocks(blocks), blocks)
<1>1. Len(blocks) \in Nat
  BY ListIs
<1>2. PICK f : /\ StripBlocks(blocks) = f[Len(blocks)] /\ f[0] = <<>>
               /\ \A i \in 1 .. Len(blocks) : f[i] = StripBlock(f[i - 1], blocks[i])
  BY <1>1, StripIs
<1> DEFINE T == {n \in 0 .. Len(blocks) : AllLike(f[n], blocks)}
<1>3. 0 \in T
  <2>1. AllLike(<<>>, blocks)
    BY ListEmpty DEF AllLike
  <2> QED
    BY <1>1, <1>2, <2>1
<1>4. \A i \in 1 .. Len(blocks) : i - 1 \in T => i \in T
  BY <1>1, <1>2, StripLike
<1> HIDE DEF T
<1>5. Len(blocks) \in T
  BY <1>1, <1>3, <1>4, UpTo
<1> QED
  BY <1>2, <1>5 DEF T

-----------------------------------------------------------------------------
(* What the client says, and what stripping leaves of it.                    *)

(* A block of the client has no page in it. *)
NoPage(b) ==
  b.type # "page" /\ (b.type = "result" => \A p \in 1 .. Len(b.parts) : b.parts[p].type # "page")
NoPages(m) == \A k \in 1 .. Len(m.blocks) : NoPage(m.blocks[k])
IsOwn(b, at) == IsLined(b) /\ IsPlaced(b, at) /\ NoPage(b) /\ b.type # "pins"
IsOwnTurn(m) == IsTurn(m) /\ \A k \in 1 .. Len(m.blocks) : IsOwn(m.blocks[k], m.at)
AllOwn(messages) == IsList(messages) /\ \A i \in 1 .. Len(messages) : IsOwnTurn(messages[i])

(* A block that is like one of the client's is in its place. *)
LEMMA LikeOwn ==
  ASSUME NEW b, NEW at, IsOwn(b, at), NEW c, Alike(c, b)
  PROVE  /\ IsPlaced(c, at) /\ NoPage(c) /\ c.type = b.type /\ c.type # "pins"
         /\ c.type = "result" => c.parts = b.parts
<1>1. c.type = b.type
  BY DEF Alike, IsOwn, IsLined
<1>2. c.type = "result" => c.parts = b.parts /\ c.at = b.at
        /\ {"type", "at", "parts"} \subseteq DOMAIN c
  BY <1>1 DEF Alike, IsOwn, IsPlaced, IsResult
<1>3. c.type # "page"
  BY <1>1 DEF IsOwn, NoPage
<1> QED
  BY <1>1, <1>2, <1>3 DEF IsOwn, IsPlaced, IsResult, NoPage

(* A turn of which something is left goes on its way. *)
LEMMA StrippedTurn ==
  ASSUME NEW m, IsOwnTurn(m), ~NothingLeft(m)
  PROVE  LET n == StripMessage(m)
         IN IsTidy(n) /\ NoPages(n) /\ n.role = m.role
<1> DEFINE n == StripMessage(m)
<1>1. CASE m.role # "user"
  <2>1. n = m
    BY <1>1 DEF StripMessage
  <2>2. IsTidy(m) /\ NoPages(m)
    BY <1>1 DEF IsOwnTurn, IsTidy, IsWire, IsOwn, NoPages
  <2> QED
    BY <2>1, <2>2
<1>2. CASE m.role = "user"
  <2> DEFINE blocks == StripBlocks(m.blocks)
  <2>1. n = [m EXCEPT !.blocks = blocks]
    BY <1>2 DEF StripMessage
  <2>2. AllLike(blocks, m.blocks)
    BY StripLeaves DEF IsOwnTurn, IsTurn, IsOwn
  <2> HIDE DEF blocks
  <2>3. n.blocks = blocks /\ DOMAIN n = DOMAIN m /\ n.role = m.role /\ n.at = m.at
    BY <2>1 DEF IsOwnTurn, IsTurn
  <2> HIDE DEF n
  <2>4. ASSUME NEW k \in 1 .. Len(blocks)
        PROVE  IsWire(blocks[k], n) /\ NoPage(blocks[k])
    <3> DEFINE c == blocks[k]
    <3>1. LikeOne(c, m.blocks) /\ CommandStays(c)
      BY <2>2 DEF AllLike
    <3> HIDE DEF c
    <3>2. PICK j \in 1 .. Len(m.blocks) : Alike(c, m.blocks[j])
      BY <3>1 DEF LikeOne
    <3>3. IsOwn(m.blocks[j], m.at)
      BY DEF IsOwnTurn
    <3>4. IsPlaced(c, m.at) /\ NoPage(c) /\ c.type # "pins"
      BY <3>2, <3>3, LikeOwn
    <3> QED
      BY <2>3, <3>1, <3>4 DEF IsWire, c
  <2>5. IsTidy(n) /\ NoPages(n)
    BY <2>2, <2>3, <2>4 DEF IsTidy, IsTurn, NoPages, AllLike, IsOwnTurn
  <2> QED
    BY <2>3, <2>5 DEF n
<1> QED
  BY <1>1, <1>2

(* What is left of a turn was in it. *)
LEMMA StrippedText ==
  ASSUME NEW m, IsOwnTurn(m)
  PROVE  TextOf(StripMessage(m)) \subseteq TextOf(m)
<1> DEFINE n == StripMessage(m)
<1>1. CASE m.role # "user" \/ NothingLeft(m)
  BY <1>1 DEF StripMessage
<1>2. CASE m.role = "user" /\ ~NothingLeft(m)
  <2> DEFINE blocks == StripBlocks(m.blocks)
  <2>1. n = [m EXCEPT !.blocks = blocks]
    BY <1>2 DEF StripMessage
  <2>2. AllLike(blocks, m.blocks)
    BY StripLeaves DEF IsOwnTurn, IsTurn, IsOwn
  <2> HIDE DEF blocks
  <2>3. n.blocks = blocks /\ n.at = m.at
    BY <2>1 DEF IsOwnTurn, IsTurn
  <2> HIDE DEF n
  <2>4. DOMAIN blocks = 1 .. Len(blocks) /\ DOMAIN m.blocks = 1 .. Len(m.blocks)
    BY <2>2, ListIs DEF AllLike, IsOwnTurn, IsTurn
  <2>5. ASSUME NEW k \in DOMAIN blocks
        PROVE  \E j \in DOMAIN m.blocks :
                 /\ blocks[k].type = m.blocks[j].type
                 /\ blocks[k].type = "result" => blocks[k].parts = m.blocks[j].parts
    <3>1. PICK j \in 1 .. Len(m.blocks) : Alike(blocks[k], m.blocks[j])
      BY <2>2, <2>4 DEF AllLike, LikeOne
    <3>2. IsOwn(m.blocks[j], m.at)
      BY DEF IsOwnTurn
    <3> QED
      BY <2>4, <3>1, <3>2, LikeOwn
  <2>6. ASSUME NEW x \in TextOf(n) PROVE x \in TextOf(m)
    <3>1. CASE \E k \in DOMAIN blocks : blocks[k].type = "text" /\ x = <<m.at, "text">>
      <4>1. PICK k \in DOMAIN blocks : blocks[k].type = "text"
        BY <3>1
      <4>2. PICK j \in DOMAIN m.blocks : m.blocks[j].type = "text"
        BY <2>5, <4>1
      <4> QED
        BY <3>1, <4>2 DEF TextOf
    <3>2. CASE \E k \in DOMAIN blocks :
                 /\ blocks[k].type = "result" /\ x = <<m.at, "result">>
                 /\ \E p \in DOMAIN blocks[k].parts : blocks[k].parts[p].type = "text"
      <4>1. PICK k \in DOMAIN blocks :
              /\ blocks[k].type = "result"
              /\ \E p \in DOMAIN blocks[k].parts : blocks[k].parts[p].type = "text"
        BY <3>2
      <4>2. PICK j \in DOMAIN m.blocks :
              /\ m.blocks[j].type = "result"
              /\ \E p \in DOMAIN m.blocks[j].parts : m.blocks[j].parts[p].type = "text"
        <5>1. PICK j \in DOMAIN m.blocks :
                /\ blocks[k].type = m.blocks[j].type
                /\ blocks[k].type = "result" => blocks[k].parts = m.blocks[j].parts
          BY <2>5
        <5> QED
          BY <4>1, <5>1
      <4> QED
        BY <3>2, <4>2 DEF TextOf
    <3> QED
      BY <2>3, <2>6, <3>1, <3>2 DEF TextOf
  <2> QED
    BY <2>6 DEF n
<1> QED
  BY <1>1, <1>2

(* A turn of the user is answered before the next one. *)
TurnsAnswered(messages) ==
  \A i \in 1 .. Len(messages) - 1 :
    messages[i].role = "user" => messages[i + 1].role = "assistant"

(* What the proxy forwards. *)
Forwarded(messages) ==
  /\ AllOwn(messages) /\ SaysWell(messages) /\ TurnsAnswered(messages)
  /\ CanAppendPinBlock(messages) /\ ~IsPinOnlyRequest(messages)

(* A turn that stays has something left. *)
LEMMA KeptSays ==
  ASSUME NEW messages, Forwarded(messages), NEW i \in KeptOf(messages)
  PROVE  ~NothingLeft(messages[i])
<1> SUFFICES ASSUME NothingLeft(messages[i])
             PROVE  FALSE
  OBVIOUS
<1>1. /\ Len(messages) \in Nat /\ DOMAIN messages = 1 .. Len(messages)
      /\ i \in 1 .. Len(messages) /\ ~PairGoes(messages, i)
  BY ListIs DEF Forwarded, AllOwn, KeptOf, GoneOf
<1>2. messages[i].role = "user"
  BY DEF NothingLeft
<1>3. CASE i < Len(messages)
  <2>1. i \in 1 .. Len(messages) - 1
    BY <1>1, <1>3
  <2>2. messages[i + 1].role = "assistant"
    BY <1>2, <2>1 DEF Forwarded, TurnsAnswered
  <2> QED
    BY <1>1, <1>3, <2>2 DEF PairGoes, GoesWithAnswer
<1>4. CASE i = Len(messages)
  <2>1. AllSaid(messages[i])
    BY <1>1, <1>2 DEF Forwarded, SaysWell
  <2>2. IsCommandOnlyTurn(messages[i], TRUE)
    BY <2>1, NothingIsSaid
  <2>3. i \in LiveTurns(messages) /\ \A j \in LiveTurns(messages) : j <= i
    BY <1>1, <1>2, <1>4 DEF LiveTurns
  <2>4. IsPinOnlyRequest(messages)
    BY <2>2, <2>3 DEF IsPinOnlyRequest
  <2> QED
    BY <2>4 DEF Forwarded
<1>5. i < Len(messages) \/ i = Len(messages)
  <2> DEFINE n == Len(messages)
  <2>1. n \in Nat /\ i \in 1 .. n
    BY <1>1
  <2> HIDE DEF n
  <2>2. i < n \/ i = n
    BY <2>1
  <2> QED
    BY <2>2 DEF n
<1> QED
  BY <1>3, <1>4, <1>5

(* The last one picked is the last of the list, if that one is chosen. *)
LEMMA PickedLast ==
  ASSUME NEW s, IsList(s), s # <<>>, NEW chosen, Len(s) \in chosen
  PROVE  Picked(s, chosen) # <<>> /\ Picked(s, chosen)[Len(Picked(s, chosen))] = s[Len(s)]
<1>1. Len(s) \in Nat /\ Len(s) \in 1 .. Len(s)
  BY NotEmpty, ListIs
<1>2. PICK f : Picked(s, chosen) = f[Len(s)] /\ Grows(f, s, chosen)
  BY <1>1, PickedGrows
<1> DEFINE g == f[Len(s) - 1]
<1>3. IsList(g)
  <2>1. Len(s) - 1 \in 0 .. Len(s)
    BY <1>1
  <2> QED
    BY <1>2, <2>1, GrowsLists
<1>4. f[Len(s)] = Append(g, s[Len(s)])
  BY <1>1, <1>2, GrowsStep
<1> HIDE DEF g
<1> DEFINE h == Append(g, s[Len(s)])
<1>5. IsList(h) /\ Len(h) = Len(g) + 1 /\ h[Len(g) + 1] = s[Len(s)] /\ Len(g) \in Nat
  BY <1>3, ListAppend, ListIs
<1>6. Picked(s, chosen) = h
  BY <1>2, <1>4
<1> HIDE DEF h
<1>7. h # <<>> /\ h[Len(h)] = s[Len(s)]
  BY <1>5, NotEmpty
<1> QED
  BY <1>6, <1>7

(* What is kept of a conversation: no text that was not in it, *)
LEMMA KeptText ==
  ASSUME NEW messages, AllOwn(messages)
  PROVE  UNION {TextOf(StripPinCommands(messages)[i]) : i \in DOMAIN StripPinCommands(messages)}
           \subseteq ShownOf(messages)
<1> DEFINE s == StrippedOf(messages)
           t == Picked(s, KeptOf(messages))
<1>1. StripPinCommands(messages) = t
  BY DEF StripPinCommands, StrippedOf, KeptOf, GoneOf
<1>2. Len(messages) \in Nat /\ DOMAIN messages = 1 .. Len(messages)
  BY ListIs DEF AllOwn
<1>3. IsList(s) /\ Len(s) = Len(messages)
        /\ \A j \in 1 .. Len(messages) : s[j] = StripMessage(messages[j])
  <2>1. s = [j \in 1 .. Len(messages) |-> StripMessage(messages[j])]
    BY <1>2 DEF StrippedOf
  <2>2. \A j \in 1 .. Len(messages) : s[j] = StripMessage(messages[j])
    BY <2>1
  <2>3. s = [j \in 1 .. Len(messages) |-> s[j]]
    BY <2>1, <2>2
  <2> HIDE DEF s
  <2> QED
    BY <1>2, <2>2, <2>3, IsListFrom
<1> HIDE DEF s
<1>4. IsList(t) /\ \A k \in 1 .. Len(t) : \E j \in 1 .. Len(s) : j \in KeptOf(messages)
        /\ t[k] = s[j]
  BY <1>3, PickedAre
<1> HIDE DEF t
<1>5. ASSUME NEW k \in DOMAIN t PROVE TextOf(t[k]) \subseteq ShownOf(messages)
  <2>1. PICK j \in 1 .. Len(messages) : t[k] = StripMessage(messages[j])
    BY <1>3, <1>4, ListIs
  <2>2. TextOf(t[k]) \subseteq TextOf(messages[j])
    BY <2>1, StrippedText DEF AllOwn
  <2>3. TextOf(messages[j]) \subseteq Shown(messages[j])
    BY DEF Shown
  <2> QED
    BY <1>2, <2>2, <2>3 DEF ShownOf
<1> QED
  BY <1>1, <1>5

(* and, of one that is forwarded, turns that can go on their way, with the   *)
(* one of the user last.                                                     *)
LEMMA KeptGoes ==
  ASSUME NEW messages, Forwarded(messages)
  PROVE  LET t == StripPinCommands(messages)
         IN AllTidy(t) /\ CanAppendPinBlock(t) /\ \A i \in 1 .. Len(t) : NoPages(t[i])
<1> DEFINE s == StrippedOf(messages)
           kept == KeptOf(messages)
           t == Picked(s, kept)
<1>1. StripPinCommands(messages) = t
  BY DEF StripPinCommands, StrippedOf, KeptOf, GoneOf
<1>2. /\ Len(messages) \in Nat /\ DOMAIN messages = 1 .. Len(messages)
      /\ messages # <<>> /\ messages[Len(messages)].role = "user"
      /\ Len(messages) \in 1 .. Len(messages)
  BY ListIs, NotEmpty DEF Forwarded, AllOwn, CanAppendPinBlock
<1>3. IsList(s) /\ Len(s) = Len(messages)
        /\ \A j \in 1 .. Len(messages) : s[j] = StripMessage(messages[j])
  <2>1. s = [j \in 1 .. Len(messages) |-> StripMessage(messages[j])]
    BY <1>2 DEF StrippedOf
  <2>2. \A j \in 1 .. Len(messages) : s[j] = StripMessage(messages[j])
    BY <2>1
  <2>3. s = [j \in 1 .. Len(messages) |-> s[j]]
    BY <2>1, <2>2
  <2> HIDE DEF s
  <2> QED
    BY <1>2, <2>2, <2>3, IsListFrom
<1>4. Len(messages) \in kept
  <2> SUFFICES ASSUME NEW i \in GoneOf(messages), Len(messages) = i \/ Len(messages) = i + 1
               PROVE  FALSE
    BY <1>2 DEF KeptOf
  <2>1. i \in 1 .. Len(messages) /\ PairGoes(messages, i)
    BY <1>2 DEF GoneOf
  <2>2. i < Len(messages) /\ messages[i + 1].role = "assistant"
    BY <2>1 DEF PairGoes, GoesWithAnswer, IsPinReply
  <2> DEFINE n == Len(messages)
  <2>3. messages[n].role = "user" /\ messages[i + 1].role = "assistant"
    BY <1>2, <2>2
  <2>6. i < n /\ (n = i \/ n = i + 1)
    BY <2>2
  <2>4. n \in Nat /\ i \in 1 .. n
    BY <1>2, <2>1
  <2> HIDE DEF n
  <2>5. n = i + 1
    BY <2>4, <2>6
  <2> QED
    BY <2>3, <2>5
<1> HIDE DEF s
<1>5. IsList(t) /\ \A k \in 1 .. Len(t) : \E j \in 1 .. Len(s) : j \in kept /\ t[k] = s[j]
  BY <1>3, PickedAre
<1>6. t # <<>> /\ t[Len(t)] = s[Len(s)]
  <2>1. s # <<>>
    BY <1>2, <1>3, NotEmpty
  <2> QED
    BY <1>3, <1>4, <2>1, PickedLast
<1> HIDE DEF t
<1>7. \A j \in kept : IsTidy(s[j]) /\ NoPages(s[j]) /\ s[j].role = messages[j].role
  <2> SUFFICES ASSUME NEW j \in kept
               PROVE  IsTidy(s[j]) /\ NoPages(s[j]) /\ s[j].role = messages[j].role
    OBVIOUS
  <2>1. j \in 1 .. Len(messages)
    BY <1>2 DEF KeptOf
  <2>2. ~NothingLeft(messages[j]) /\ IsOwnTurn(messages[j])
    BY <2>1, KeptSays DEF Forwarded, AllOwn
  <2> QED
    BY <1>3, <2>1, <2>2, StrippedTurn
<1> HIDE DEF kept
<1>8. AllTidy(t) /\ \A i \in 1 .. Len(t) : NoPages(t[i])
  BY <1>5, <1>7 DEF AllTidy
<1>9. CanAppendPinBlock(t)
  BY <1>2, <1>3, <1>4, <1>6, <1>7 DEF CanAppendPinBlock
<1> QED
  BY <1>1, <1>8, <1>9

-----------------------------------------------------------------------------
(* The system prompt: every kind of text stays in it, or goes on the slab.   *)

(* A chosen element is picked. *)
LEMMA PickedHas ==
  ASSUME NEW s, IsList(s), NEW chosen, NEW p \in 1 .. Len(s), p \in chosen
  PROVE  \E k \in 1 .. Len(Picked(s, chosen)) : Picked(s, chosen)[k] = s[p]
<1>1. Len(s) \in Nat
  BY ListIs
<1>2. PICK f : Picked(s, chosen) = f[Len(s)] /\ Grows(f, s, chosen)
  BY <1>1, PickedGrows
<1> DEFINE Has(t) == \E k \in 1 .. Len(t) : t[k] = s[p]
           T == {n \in 0 .. Len(s) : n >= p => Has(f[n])}
<1>3. 0 \in T
  BY <1>1
<1>4. ASSUME NEW i \in 1 .. Len(s), i - 1 \in T PROVE i \in T
  <2> DEFINE g == f[i - 1]
             h == Append(g, s[i])
  <2>1. f[i] = IF i \in chosen THEN h ELSE g
    BY <1>2, GrowsStep
  <2>2. IsList(g)
    <3>1. i - 1 \in 0 .. Len(s)
      BY <1>1
    <3> QED
      BY <1>2, <3>1, GrowsLists
  <2>3. i - 1 >= p => Has(g)
    BY <1>4
  <2> HIDE DEF g
  <2>4. /\ IsList(h) /\ Len(h) = Len(g) + 1 /\ h[Len(g) + 1] = s[i]
        /\ \A k \in 1 .. Len(g) : h[k] = g[k]
    BY <2>2, ListAppend
  <2>5. Len(g) \in Nat
    BY <2>2, ListIs
  <2> HIDE DEF h
  <2>6. Has(g) => Has(h)
    BY <2>4, <2>5
  <2>7. i = p => Has(h)
    BY <2>4, <2>5
  <2> HIDE DEF Has
  <2>8. i >= p => Has(f[i])
    BY <1>1, <2>1, <2>3, <2>6, <2>7
  <2> QED
    BY <1>1, <2>8
<1> HIDE DEF T, Has
<1>5. Len(s) \in T
  BY <1>1, <1>3, <1>4, UpTo
<1>6. Has(f[Len(s)])
  BY <1>1, <1>5 DEF T
<1> QED
  BY <1>2, <1>6 DEF Has

(* The kinds of text of a system prompt. *)
Kinds == {"static", "dynamic", "env", "identity", "billing"}
AllKinds(system) == UNION {system[k].has : k \in DOMAIN system}
HasKinds(b) == {"type", "cc", "has"} \subseteq DOMAIN b /\ b.has \subseteq Kinds
AreFiles(system) == IsList(system) /\ \A k \in 1 .. Len(system) : HasKinds(system[k])

(* As the client has it: a block that has a kind of text is not only commands. *)
OwnFile(b) ==
  /\ IsLined(b) /\ HasKinds(b)
  /\ b.has # {} => StripLines(b.lines) # <<>>
OwnFiles(system) == IsList(system) /\ \A k \in 1 .. Len(system) : OwnFile(system[k])

(* Stripping leaves every kind there is up to some block. *)
Covers(kept, system, n) ==
  \A j \in 1 .. n : system[j].has # {} =>
    \E k \in 1 .. Len(kept) : "has" \in DOMAIN kept[k] /\ kept[k].has = system[j].has

(* One block more. *)
LEMMA StripCovers ==
  ASSUME NEW system, OwnFiles(system), NEW kept, IsList(kept), NEW n \in 1 .. Len(system),
         Covers(kept, system, n - 1)
  PROVE  Covers(StripBlock(kept, system[n]), system, n)
<1> DEFINE b == system[n]
           t == StripBlock(kept, b)
           e == [kept[Len(kept)] EXCEPT !.cc = b.cc]
           In(h, s) == \E k \in 1 .. Len(s) : "has" \in DOMAIN s[k] /\ s[k].has = h
<1>1. IsLined(b) /\ HasKinds(b) /\ (b.has # {} => StripLines(b.lines) # <<>>)
  BY DEF OwnFiles, OwnFile
<1>2. b.has # {} => ~IsBlank(b)
  BY <1>1 DEF IsBlank
<1>3. Cleaned(b).has = b.has /\ "has" \in DOMAIN Cleaned(b)
  BY <1>1 DEF HasKinds, Cleaned
<1>4. ASSUME NEW x, "has" \in DOMAIN x
      PROVE  /\ In(x.has, Append(kept, x))
             /\ \A h : In(h, kept) => In(h, Append(kept, x))
  <2> DEFINE u == Append(kept, x)
  <2>1. /\ IsList(u) /\ Len(u) = Len(kept) + 1 /\ u[Len(kept) + 1] = x
        /\ \A k \in 1 .. Len(kept) : u[k] = kept[k]
    BY ListAppend
  <2>2. Len(kept) \in Nat
    BY ListIs
  <2> HIDE DEF u
  <2>3. In(x.has, u)
    BY <1>4, <2>1, <2>2
  <2>4. \A h : In(h, kept) => In(h, u)
    BY <2>1, <2>2
  <2> QED
    BY <2>3, <2>4 DEF u
<1>5. ASSUME Len(kept) \in 1 .. Len(kept)
      PROVE  LET u == [kept EXCEPT ![Len(kept)] = e] IN \A h : In(h, kept) => In(h, u)
  <2> DEFINE u == [kept EXCEPT ![Len(kept)] = e]
  <2>1. Len(u) = Len(kept) /\ ExceptAt(u, kept, Len(kept), e)
    BY ListChanged
  <2> DEFINE c == kept[Len(kept)]
  <2>2. "has" \in DOMAIN c => e.has = c.has /\ "has" \in DOMAIN e
    OBVIOUS
  <2> HIDE DEF u, e
  <2>3. \A k \in 1 .. Len(kept) : "has" \in DOMAIN kept[k] => u[k].has = kept[k].has
          /\ "has" \in DOMAIN u[k]
    BY <2>1, <2>2 DEF ExceptAt
  <2>4. \A h : In(h, kept) => In(h, u)
    BY <2>1, <2>3
  <2> QED
    BY <2>4 DEF u
<1>6. \A j \in 1 .. n - 1 : system[j].has # {} => In(system[j].has, kept)
  BY DEF Covers
<1>7. \/ ~HasCommand(b) /\ t = Append(kept, b)
      \/ HasCommand(b) /\ t = Append(kept, Cleaned(b)) /\ ~IsBlank(b)
      \/ HasCommand(b) /\ t = kept /\ IsBlank(b)
      \/ HasCommand(b) /\ t = <<b>> /\ IsBlank(b) /\ HasMark(b) /\ kept = <<>>
      \/ /\ HasCommand(b) /\ IsBlank(b) /\ HasMark(b) /\ Len(kept) \in 1 .. Len(kept)
         /\ t = [kept EXCEPT ![Len(kept)] = e]
  BY StripCases
<1>8. ~IsBlank(b) => In(b.has, t)
  <2>1. "has" \in DOMAIN b
    BY <1>1 DEF HasKinds
  <2> HIDE DEF t, b, In
  <2> QED
    BY <1>3, <1>4, <1>7, <2>1
<1>9. kept = <<>> => \A h : ~In(h, kept)
  <2>1. Len(<<>>) = 0
    BY ListEmpty
  <2> QED
    BY <2>1
<1>10. \A h : In(h, kept) => In(h, t)
  <2>1. "has" \in DOMAIN b
    BY <1>1 DEF HasKinds
  <2> HIDE DEF t, b, e, In
  <2>2. CASE t = Append(kept, b) \/ t = Append(kept, Cleaned(b))
    BY <1>3, <1>4, <2>1, <2>2
  <2>3. CASE t = kept \/ kept = <<>>
    BY <1>9, <2>3
  <2>4. CASE Len(kept) \in 1 .. Len(kept) /\ t = [kept EXCEPT ![Len(kept)] = e]
    BY <1>5, <2>4
  <2> QED
    BY <1>7, <2>2, <2>3, <2>4
<1>11. \A j \in 1 .. n : j = n \/ j \in 1 .. n - 1
  <2>1. Len(system) \in Nat
    BY ListIs DEF OwnFiles
  <2> QED
    BY <2>1
<1> HIDE DEF t, In
<1>12. \A j \in 1 .. n : system[j].has # {} => In(system[j].has, t)
  BY <1>2, <1>6, <1>8, <1>10, <1>11
<1> QED
  BY <1>12 DEF Covers, In, t

(* Stripping the system prompt loses no kind of text. *)
LEMMA StripsFiles ==
  ASSUME NEW system, OwnFiles(system)
  PROVE  AreFiles(StripSystem(system)) /\ AllKinds(system) \subseteq AllKinds(StripSystem(system))
<1>1. Len(system) \in Nat /\ DOMAIN system = 1 .. Len(system) /\ IsList(system)
  BY ListIs DEF OwnFiles
<1>2. PICK f : /\ StripBlocks(system) = f[Len(system)] /\ f[0] = <<>>
               /\ \A i \in 1 .. Len(system) : f[i] = StripBlock(f[i - 1], system[i])
  BY <1>1, StripIs
<1> DEFINE T == {n \in 0 .. Len(system) : IsList(f[n]) /\ Covers(f[n], system, n)}
<1>3. 0 \in T
  <2>1. Covers(f[0], system, 0)
    BY DEF Covers
  <2> QED
    BY <1>1, <1>2, <2>1, ListEmpty
<1>4. ASSUME NEW i \in 1 .. Len(system), i - 1 \in T PROVE i \in T
  <2>1. IsList(f[i - 1]) /\ Covers(f[i - 1], system, i - 1)
    BY <1>4
  <2>2. IsList(f[i])
    BY <1>2, <2>1, StripKeeps
  <2>3. Covers(f[i], system, i)
    BY <1>2, <2>1, StripCovers
  <2> QED
    BY <1>1, <2>2, <2>3
<1> HIDE DEF T
<1>5. Len(system) \in T
  BY <1>1, <1>3, <1>4, UpTo
<1> DEFINE t == StripSystem(system)
<1>6. Covers(t, system, Len(system))
  BY <1>2, <1>5 DEF StripSystem, T
<1>7. AllLike(t, system)
  <2>1. \A j \in 1 .. Len(system) : IsLined(system[j])
    BY DEF OwnFiles, OwnFile
  <2> QED
    BY <1>1, <2>1, StripLeaves DEF StripSystem
<1> HIDE DEF t
<1>8. AreFiles(t)
  <2>1. ASSUME NEW k \in 1 .. Len(t) PROVE HasKinds(t[k])
    <3>1. PICK j \in 1 .. Len(system) : Alike(t[k], system[j])
      BY <1>7 DEF AllLike, LikeOne
    <3>2. HasKinds(system[j])
      BY DEF OwnFiles, OwnFile
    <3> QED
      BY <3>1, <3>2 DEF Alike, HasKinds
  <2> QED
    BY <1>7, <2>1 DEF AreFiles, AllLike
<1>9. ASSUME NEW j \in DOMAIN system, NEW x \in system[j].has
      PROVE  x \in AllKinds(t)
  <2>1. PICK k \in 1 .. Len(t) : t[k].has = system[j].has
    BY <1>1, <1>6, <1>9 DEF Covers
  <2>2. DOMAIN t = 1 .. Len(t)
    BY <1>7, ListIs DEF AllLike
  <2> QED
    BY <1>9, <2>1, <2>2 DEF AllKinds
<1>10. AllKinds(system) \subseteq AllKinds(t)
  BY <1>9 DEF AllKinds
<1> QED
  BY <1>8, <1>10 DEF t

(* Dropping blocks without a text loses none, *)
LEMMA WithTextKeeps ==
  ASSUME NEW s, IsList(s), NEW k \in 1 .. Len(s), NEW x \in s[k].has
  PROVE  IsList(WithText(s)) /\ x \in AllKinds(WithText(s))
<1> DEFINE chosen == {j \in DOMAIN s : s[j].has # {}}
           t == Picked(s, chosen)
<1>1. k \in chosen
  BY ListIs
<1> HIDE DEF chosen
<1>2. IsList(t) /\ \E j \in 1 .. Len(t) : t[j] = s[k]
  <2>1. IsList(t)
    BY PickedAre
  <2>2. \E j \in 1 .. Len(t) : t[j] = s[k]
    BY <1>1, PickedHas
  <2> QED
    BY <2>1, <2>2
<1> HIDE DEF t
<1>3. x \in AllKinds(t)
  <2>1. DOMAIN t = 1 .. Len(t)
    BY <1>2, ListIs
  <2> QED
    BY <1>2, <2>1 DEF AllKinds
<1> QED
  BY <1>2, <1>3 DEF WithText, t, chosen

(* nor does joining two prompts. *)
LEMMA KindsJoin ==
  ASSUME NEW s, NEW t, IsList(s), IsList(t)
  PROVE  AllKinds(s) \cup AllKinds(t) \subseteq AllKinds(s \o t)
<1> DEFINE u == s \o t
<1>1. /\ IsList(u) /\ Len(u) = Len(s) + Len(t)
      /\ \A i \in 1 .. Len(s) : u[i] = s[i]
      /\ \A i \in 1 .. Len(t) : u[Len(s) + i] = t[i]
  BY ListConcat
<1>2. /\ DOMAIN u = 1 .. Len(u) /\ DOMAIN s = 1 .. Len(s) /\ DOMAIN t = 1 .. Len(t)
      /\ Len(s) \in Nat /\ Len(t) \in Nat
  BY <1>1, ListIs
<1> HIDE DEF u
<1>3. ASSUME NEW k \in DOMAIN s PROVE s[k].has \subseteq AllKinds(u)
  <2>1. k \in DOMAIN u /\ u[k] = s[k]
    BY <1>1, <1>2
  <2> QED
    BY <2>1 DEF AllKinds
<1>4. ASSUME NEW k \in DOMAIN t PROVE t[k].has \subseteq AllKinds(u)
  <2>1. Len(s) + k \in DOMAIN u /\ u[Len(s) + k] = t[k]
    BY <1>1, <1>2
  <2> QED
    BY <2>1 DEF AllKinds
<1>5. AllKinds(s) \cup AllKinds(t) \subseteq AllKinds(u)
  BY <1>3, <1>4 DEF AllKinds
<1> QED
  BY <1>5 DEF u

(* The volatile text of the slab stays text. *)
LEMMA VolatileStays ==
  ASSUME NEW system, NEW kinds,
         NEW x \in ((kinds \cup Lifted(system)) \cap {"identity"})
                 \cup (kinds \cap {"dynamic", "env"})
  PROVE  /\ IsList(WithText(VolatileTail(system, kinds)))
         /\ x \in AllKinds(WithText(VolatileTail(system, kinds)))
<1> DEFINE v == VolatileTail(system, kinds)
<1>1. v = [i \in 1 .. 3 |-> v[i]]
  BY DEF VolatileTail
<1>2. /\ v[1].has = (kinds \cup Lifted(system)) \cap {"identity"}
      /\ v[2].has = kinds \cap {"dynamic"} /\ v[3].has = kinds \cap {"env"}
  BY DEF VolatileTail
<1> HIDE DEF v
<1>3. IsList(v) /\ Len(v) = 3
  BY <1>1, IsListFrom
<1>4. \E k \in 1 .. Len(v) : x \in v[k].has
  BY <1>2, <1>3
<1>5. IsList(WithText(v)) /\ x \in AllKinds(WithText(v))
  BY <1>3, <1>4, WithTextKeeps
<1> QED
  BY <1>5 DEF v

(* A list of blocks without their billing lines is as long. *)
LEMMA UnbilledList ==
  ASSUME NEW rest, IsList(rest)
  PROVE  LET t == [k \in DOMAIN rest |-> Unbilled(rest[k])]
         IN IsList(t) /\ Len(t) = Len(rest) /\ \A j \in 1 .. Len(rest) : t[j] = Unbilled(rest[j])
<1> DEFINE t == [k \in DOMAIN rest |-> Unbilled(rest[k])]
<1>1. Len(rest) \in Nat /\ DOMAIN rest = 1 .. Len(rest)
  BY ListIs
<1>2. t = [k \in 1 .. Len(rest) |-> t[k]] /\ \A k \in 1 .. Len(rest) : t[k] = Unbilled(rest[k])
  BY <1>1
<1> HIDE DEF t
<1>3. IsList(t) /\ Len(t) = Len(rest)
  BY <1>1, <1>2, IsListFrom
<1> QED
  BY <1>2, <1>3 DEF t

(* The parts of the tail are lists. *)
LEMMA TailLists ==
  ASSUME NEW system, AreFiles(system)
  PROVE  /\ \A kinds : IsList(WithText(VolatileTail(system, kinds)))
         /\ IsList(Remainder(system))
<1>1. ASSUME NEW s, IsList(s) PROVE IsList(WithText(s))
  BY <1>1, PickedAre DEF WithText
<1>2. ASSUME NEW kinds PROVE IsList(VolatileTail(system, kinds))
  <2> DEFINE v == VolatileTail(system, kinds)
  <2>1. v = [i \in 1 .. 3 |-> v[i]]
    BY DEF VolatileTail
  <2> HIDE DEF v
  <2>2. IsList(v)
    BY <2>1, IsListFrom
  <2> QED
    BY <2>2 DEF v
<1>3. ASSUME NEW rest, IsList(rest) PROVE IsList([k \in DOMAIN rest |-> Unbilled(rest[k])])
  BY <1>3, UnbilledList
<1>4. ASSUME NEW chosen, NEW other PROVE IsList(Picked(Picked(system, chosen), other))
  <2>1. IsList(Picked(system, chosen))
    BY PickedAre DEF AreFiles
  <2> QED
    BY <2>1, PickedAre
<1>5. IsList(Remainder(system))
  BY <1>1, <1>3, <1>4 DEF Remainder
<1> QED
  BY <1>1, <1>2, <1>5

(* A kind of text of a block that is not on the slab stays: in its block, or *)
(* as the line that opens the prompt.                                        *)
LEMMA RemainderKeeps ==
  ASSUME NEW system, AreFiles(system), NEW k \in DOMAIN system,
         ~InSlabText(system, system[k]), NEW x \in system[k].has, x # "billing"
  PROVE  x \in AllKinds(Remainder(system)) \/ x \in Lifted(system) \cap {"identity"}
<1> DEFINE chosen == {j \in DOMAIN system : ~InSlabText(system, system[j])}
           left == Picked(system, chosen)
           identities == {j \in DOMAIN left : IsIdentity(left[j])}
           first == {j \in identities : \A i \in identities : j <= i}
           rest == Picked(left, DOMAIN left \ first)
           t == [j \in DOMAIN rest |-> Unbilled(rest[j])]
<1>1. Remainder(system) = WithText(t)
  BY DEF Remainder
<1>2. k \in chosen /\ k \in 1 .. Len(system) /\ IsList(system)
  BY ListIs DEF AreFiles
<1> HIDE DEF chosen
<1>3. IsList(left) /\ \E j \in 1 .. Len(left) : left[j] = system[k]
  <2>1. IsList(left)
    BY <1>2, PickedAre
  <2>2. \E j \in 1 .. Len(left) : left[j] = system[k]
    BY <1>2, PickedHas
  <2> QED
    BY <2>1, <2>2
<1>4. PICK p \in 1 .. Len(left) : left[p] = system[k]
  BY <1>3
<1>5. DOMAIN left = 1 .. Len(left)
  BY <1>3, ListIs
<1> HIDE DEF left
<1>6. CASE p \in first
  <2>1. IsIdentity(system[k])
    BY <1>4, <1>6
  <2>2. Lifted(system) = {"identity"} /\ x = "identity"
    BY <2>1 DEF Lifted, IsIdentity
  <2> QED
    BY <2>2
<1>7. CASE p \notin first
  <2> DEFINE others == DOMAIN left \ first
  <2>1. p \in others
    BY <1>5, <1>7
  <2> HIDE DEF others
  <2>2. IsList(Picked(left, others))
          /\ \E j \in 1 .. Len(Picked(left, others)) : Picked(left, others)[j] = left[p]
    <3>1. IsList(Picked(left, others))
      BY <1>3, PickedAre
    <3>2. \E j \in 1 .. Len(Picked(left, others)) : Picked(left, others)[j] = left[p]
      BY <1>3, <2>1, PickedHas
    <3> QED
      BY <3>1, <3>2
  <2>3. IsList(rest) /\ \E j \in 1 .. Len(rest) : rest[j] = system[k]
    BY <1>4, <2>2 DEF others
  <2> HIDE DEF rest
  <2>4. IsList(t) /\ Len(t) = Len(rest) /\ \A j \in 1 .. Len(rest) : t[j] = Unbilled(rest[j])
    BY <2>3, UnbilledList
  <2> HIDE DEF t
  <2>5. PICK j \in 1 .. Len(rest) : rest[j] = system[k]
    BY <2>3
  <2>6. HasKinds(system[k])
    BY <1>2 DEF AreFiles
  <2>7. x \in t[j].has
    BY <2>4, <2>5, <2>6 DEF Unbilled, HasKinds
  <2>8. x \in AllKinds(WithText(t))
    BY <2>4, <2>7, WithTextKeeps
  <2> QED
    BY <1>1, <2>8
<1> QED
  BY <1>6, <1>7

(* So every kind of text stays in the prompt or is static, on the slab. *)
LEMMA TailKinds ==
  ASSUME NEW system, AreFiles(system)
  PROVE  AllKinds(system) \ {"billing"}
           \subseteq AllKinds(SystemTail(system)) \cup (SlabKinds(system) \cap {"static"})
<1> DEFINE v == WithText(VolatileTail(system, SlabKinds(system)))
           r == Remainder(system)
<1>1. SystemTail(system) = v \o r
  BY DEF SystemTail, TailOfAll
<1>2. IsList(v) /\ IsList(r)
  BY TailLists
<1>3. AllKinds(v) \cup AllKinds(r) \subseteq AllKinds(SystemTail(system))
  <2> HIDE DEF v, r
  <2> QED
    BY <1>1, <1>2, KindsJoin
<1>4. ASSUME NEW x \in AllKinds(system), x # "billing"
      PROVE  x \in AllKinds(v) \cup AllKinds(r) \cup (SlabKinds(system) \cap {"static"})
  <2>1. PICK k \in DOMAIN system : x \in system[k].has
    BY <1>4 DEF AllKinds
  <2>2. x \in Kinds
    <3>1. k \in 1 .. Len(system)
      BY ListIs DEF AreFiles
    <3>2. HasKinds(system[k])
      BY <3>1 DEF AreFiles
    <3> QED
      BY <2>1, <3>2 DEF HasKinds
  <2>3. CASE InSlabText(system, system[k])
    <3>1. x \in SlabKinds(system)
      BY <2>1, <2>3 DEF SlabKinds
    <3>2. CASE x = "static"
      BY <3>1, <3>2
    <3>3. CASE x # "static"
      <4>1. x \in ((SlabKinds(system) \cup Lifted(system)) \cap {"identity"})
                  \cup (SlabKinds(system) \cap {"dynamic", "env"})
        BY <1>4, <2>2, <3>1, <3>3 DEF Kinds
      <4>2. x \in AllKinds(v)
        BY <4>1, VolatileStays
      <4> QED
        BY <4>2
    <3> QED
      BY <3>2, <3>3
  <2>4. CASE ~InSlabText(system, system[k])
    <3>1. x \in AllKinds(r) \/ x \in Lifted(system) \cap {"identity"}
      BY <1>4, <2>1, <2>4, RemainderKeeps
    <3>2. x \in Lifted(system) \cap {"identity"} => x \in AllKinds(v)
      BY VolatileStays
    <3> QED
      BY <3>1, <3>2
  <2> QED
    BY <2>3, <2>4
<1> QED
  BY <1>3, <1>4

(* Blocks in front of a turn. *)
LEMMA PrependGrown ==
  ASSUME NEW m, IsTidy(m), NEW front, IsList(front), \A k \in 1 .. Len(front) : Extra(front[k])
  PROVE  LET n == [m EXCEPT !.blocks = front \o m.blocks]
         IN /\ Grown(n, m)
            /\ \A k \in 1 .. Len(front) : BlockShows(front[k], m.at) \subseteq Shown(n)
<1> DEFINE blocks == front \o m.blocks
           n == [m EXCEPT !.blocks = blocks]
<1>1. /\ IsList(m.blocks) /\ Len(m.blocks) \in Nat /\ Len(front) \in Nat
  BY ListIs DEF IsTidy, IsTurn
<1>2. /\ IsList(blocks) /\ Len(blocks) = Len(front) + Len(m.blocks)
      /\ \A i \in 1 .. Len(front) : blocks[i] = front[i]
      /\ \A i \in 1 .. Len(m.blocks) : blocks[Len(front) + i] = m.blocks[i]
  BY <1>1, ListConcat
<1> HIDE DEF blocks
<1>3. n.blocks = blocks /\ DOMAIN n = DOMAIN m /\ n.role = m.role /\ n.at = m.at
  BY DEF IsTidy, IsTurn
<1> HIDE DEF n
<1>4. AllCarried(blocks, m.blocks)
  <2>1. ASSUME NEW k \in 1 .. Len(m.blocks)
        PROVE  \E l \in 1 .. Len(blocks) : Carries(blocks[l], m.blocks[k])
    <3>1. Len(front) + k \in 1 .. Len(blocks) /\ blocks[Len(front) + k] = m.blocks[k]
      BY <1>1, <1>2
    <3> QED
      BY <3>1 DEF Carries
  <2> QED
    BY <2>1 DEF AllCarried
<1>5. NoneAdded(blocks, m.blocks)
  <2>1. ASSUME NEW l \in 1 .. Len(blocks)
        PROVE  Extra(blocks[l]) \/ \E k \in 1 .. Len(m.blocks) : Carries(blocks[l], m.blocks[k])
    <3>1. CASE l \in 1 .. Len(front)
      BY <1>2, <3>1
    <3>2. CASE l \notin 1 .. Len(front)
      <4> DEFINE k == l - Len(front)
      <4>1. k \in 1 .. Len(m.blocks) /\ l = Len(front) + k
        BY <1>1, <1>2, <3>2
      <4> HIDE DEF k
      <4>2. blocks[l] = m.blocks[k]
        BY <1>2, <4>1
      <4> QED
        BY <4>1, <4>2 DEF Carries
    <3> QED
      BY <3>1, <3>2
  <2> QED
    BY <2>1 DEF NoneAdded
<1>6. Grown(n, m)
  BY <1>2, <1>3, <1>4, <1>5 DEF Grown, IsTurn, IsTidy
<1>7. ASSUME NEW k \in 1 .. Len(front)
      PROVE  BlockShows(front[k], m.at) \subseteq Shown(n)
  <2>1. k \in DOMAIN n.blocks /\ n.blocks[k] = front[k]
    <3>1. k \in 1 .. Len(blocks)
      BY <1>1, <1>2
    <3>2. DOMAIN blocks = 1 .. Len(blocks)
      BY <1>2, ListIs
    <3> QED
      BY <1>2, <1>3, <3>1, <3>2
  <2> QED
    BY <1>3, <2>1, ShownBlocks
<1> QED
  BY <1>6, <1>7 DEF n, blocks

-----------------------------------------------------------------------------
(* A request on its way, and what it has to show.                            *)

(* Before history is collapsed only the first turn of the user has pages. *)
PagesFirst(messages) ==
  \A i \in 1 .. Len(messages) : i \in FirstUser(messages) \/ NoPages(messages[i])
OnTheWay(r) ==
  /\ {"messages", "system", "tools"} \subseteq DOMAIN r
  /\ AllTidy(r.messages) /\ CanAppendPinBlock(r.messages)

(* The setup, as far as the slab looks at it. *)
AreTools(tools) == \A k \in DOMAIN tools : {"name", "doc"} \subseteq DOMAIN tools[k]

(* Every text of the turns that are kept, every kind of text of the system   *)
(* prompt and every tool's documentation.                                    *)
KeptTexts(messages) ==
  UNION {TextOf(StripPinCommands(messages)[i]) : i \in DOMAIN StripPinCommands(messages)}
ToolsShown(r) ==
  \A k \in DOMAIN r.tools : r.tools[k].doc = "full" \/ <<0, r.tools[k].name>> \in ShownIn(r)
Arrives(r, messages, system) ==
  /\ KeptTexts(messages) \subseteq ShownIn(r)
  /\ SystemKinds(system) \subseteq SystemKinds(r.system) \cup ShownIn(r)
  /\ ToolsShown(r)

(* What a request shows is what its messages do. *)
LEMMA ShownMessages ==
  ASSUME NEW r
  PROVE  ShownIn(r) = ShownOf(r.messages)
BY DEF ShownIn, ShownOf

(* A request that shows more, with the same setup, loses nothing. *)
LEMMA ArrivesStill ==
  ASSUME NEW r, NEW q, ShownOf(r.messages) \subseteq ShownOf(q.messages),
         q.system = r.system, q.tools = r.tools,
         NEW messages, NEW system, Arrives(r, messages, system)
  PROVE  Arrives(q, messages, system)
BY ShownMessages DEF Arrives, ToolsShown

(* The kinds of text of a system prompt, as items. *)
LEMMA SystemItems ==
  ASSUME NEW system
  PROVE  SystemKinds(system) = {0} \X (AllKinds(system) \ {"billing"})
BY DEF SystemKinds, AllKinds

(* A set of places that is not empty has a least one. *)
LEMMA LeastPlace ==
  ASSUME NEW n \in Nat, NEW T, T \subseteq 1 .. n, T # {}
  PROVE  \E m \in T : \A y \in T : m <= y
<1>1. PICK m \in T : \A y \in T : ~ (<<y, m>> \in OpToRel(<, Nat))
  <2>1. T \subseteq Nat
    OBVIOUS
  <2> QED
    BY <2>1, NatLessThanWellFounded, WFMin
<1>2. \A y \in T : m <= y
  <2> SUFFICES ASSUME NEW y \in T PROVE m <= y
    OBVIOUS
  <2>1. m \in Nat /\ y \in Nat
    OBVIOUS
  <2>2. ~(y < m)
    BY <1>1, <2>1 DEF OpToRel
  <2> QED
    BY <2>1, <2>2
<1> QED
  BY <1>2

(* When the user has said something there is a first turn of the user. *)
LEMMA FirstUserIs ==
  ASSUME NEW messages, IsList(messages), CanAppendPinBlock(messages)
  PROVE  \E u \in 1 .. Len(messages) : FirstUser(messages) = {u}
<1>1. /\ Len(messages) \in Nat /\ DOMAIN messages = 1 .. Len(messages)
      /\ Len(messages) \in 1 .. Len(messages)
  BY ListIs, NotEmpty DEF CanAppendPinBlock
<1> DEFINE T == Users(messages)
<1>2. T \subseteq 1 .. Len(messages) /\ T # {}
  BY <1>1 DEF Users, CanAppendPinBlock
<1> HIDE DEF T
<1>3. PICK u \in T : \A y \in T : u <= y
  BY <1>1, <1>2, LeastPlace
<1>4. ASSUME NEW i \in T, \A y \in T : i <= y PROVE i = u
  <2>1. i <= u /\ u <= i /\ i \in Nat /\ u \in Nat
    BY <1>2, <1>3, <1>4
  <2> QED
    BY <2>1
<1>5. {i \in T : \A y \in T : i <= y} = {u}
  BY <1>3, <1>4
<1>6. FirstUser(messages) = {u}
  BY <1>5 DEF FirstUser, T
<1> QED
  BY <1>2, <1>6

(* Lists of turns with the same roles have the same first one, and end alike. *)
LEMMA SameRoles ==
  ASSUME NEW s, NEW t, IsList(s), IsList(t), Len(s) = Len(t),
         \A i \in 1 .. Len(s) : t[i].role = s[i].role
  PROVE  FirstUser(t) = FirstUser(s) /\ (CanAppendPinBlock(s) => CanAppendPinBlock(t))
<1>1. /\ Len(s) \in Nat /\ DOMAIN s = 1 .. Len(s) /\ DOMAIN t = 1 .. Len(s)
      /\ (s # <<>> <=> Len(s) > 0) /\ (t # <<>> <=> Len(s) > 0)
  BY ListIs, NotEmpty
<1>2. Users(t) = Users(s)
  BY <1>1 DEF Users
<1>3. CanAppendPinBlock(s) => CanAppendPinBlock(t)
  BY <1>1 DEF CanAppendPinBlock
<1> QED
  BY <1>2, <1>3 DEF FirstUser

(* A list of pages, all with the same items. *)
ArePages(s, holds, n) ==
  /\ IsList(s) /\ Len(s) = n
  /\ \A k \in 1 .. n : /\ s[k].type = "page" /\ Extra(s[k])
                       /\ \A at : BlockShows(s[k], at) = holds

(* Pages are extra blocks, and show what is on them. *)
LEMMA PagesShow ==
  ASSUME NEW holds, NEW n \in Nat, NEW cc
  PROVE  ArePages(AsPages(holds, n, cc), holds, n)
<1> DEFINE s == AsPages(holds, n, cc)
<1>1. s = [i \in 1 .. n |-> s[i]]
  BY DEF AsPages
<1>2. \A k \in 1 .. n : s[k].type = "page" /\ {"type", "holds"} \subseteq DOMAIN s[k]
        /\ s[k].holds = holds
  BY DEF AsPages, Rendered
<1> HIDE DEF s
<1>3. IsList(s) /\ Len(s) = n
  BY <1>1, IsListFrom
<1>4. \A k \in 1 .. n : Extra(s[k]) /\ \A at : BlockShows(s[k], at) = holds
  BY <1>2 DEF Extra, BlockShows
<1> QED
  BY <1>2, <1>3, <1>4 DEF s, ArePages

(* The slab goes in front of the first turn of the user. *)
LEMMA SlabFollows ==
  ASSUME NEW messages, AllTidy(messages), CanAppendPinBlock(messages),
         \A i \in 1 .. Len(messages) : NoPages(messages[i]),
         NEW holds, NEW n \in Nat \ {0}, NEW cc
  PROVE  LET t == SlabFor(messages, AsPages(holds, n, cc))
         IN Follows(t, messages) /\ holds \subseteq ShownOf(t) /\ PagesFirst(t)
<1> DEFINE pages == AsPages(holds, n, cc)
           front == pages \o <<EndOfContext>>
           t == SlabFor(messages, pages)
           new(m) == [m EXCEPT !.blocks = front \o m.blocks]
<1>1. DOMAIN messages = 1 .. Len(messages) /\ Len(messages) \in Nat
  BY ListIs DEF AllTidy
<1>2. PICK u \in 1 .. Len(messages) : FirstUser(messages) = {u}
  BY FirstUserIs DEF AllTidy
<1>3. t = [i \in 1 .. Len(messages) |-> IF i = u THEN new(messages[i]) ELSE messages[i]]
  BY <1>1, <1>2 DEF SlabFor
<1>4. /\ IsList(front) /\ \A k \in 1 .. Len(front) : Extra(front[k])
      /\ 1 \in 1 .. Len(front) /\ \A at : BlockShows(front[1], at) = holds
  <2>1. /\ IsList(pages) /\ Len(pages) = n
        /\ \A k \in 1 .. n : Extra(pages[k]) /\ \A at : BlockShows(pages[k], at) = holds
    <3>1. n \in Nat
      OBVIOUS
    <3>2. ArePages(pages, holds, n)
      BY <3>1, PagesShow
    <3> HIDE DEF pages
    <3> QED
      BY <3>2 DEF ArePages
  <2> HIDE DEF pages
  <2> DEFINE last == <<EndOfContext>>
  <2>2. IsList(last) /\ Len(last) = 1 /\ last[1] = EndOfContext
    BY ListOne
  <2>3. Extra(EndOfContext)
    BY DEF Extra, EndOfContext
  <2> HIDE DEF last
  <2> DEFINE both == pages \o last
  <2>7. /\ IsList(both) /\ Len(both) = Len(pages) + Len(last)
        /\ \A i \in 1 .. Len(pages) : both[i] = pages[i]
        /\ \A i \in 1 .. Len(last) : both[Len(pages) + i] = last[i]
    <3>1. IsList(pages) /\ IsList(last)
      BY <2>1, <2>2
    <3> QED
      BY <3>1, ListConcat
  <2>4. /\ IsList(both) /\ Len(both) = n + 1
        /\ \A i \in 1 .. n : both[i] = pages[i]
        /\ \A i \in 1 .. 1 : both[n + i] = last[i]
    BY <2>1, <2>2, <2>7
  <2> HIDE DEF both
  <2>5. \A k \in 1 .. Len(both) : Extra(both[k])
    <3> SUFFICES ASSUME NEW k \in 1 .. n + 1 PROVE Extra(both[k])
      BY <2>4
    <3>1. k \in 1 .. n \/ k = n + 1
      OBVIOUS
    <3>2. both[n + 1] = EndOfContext
      BY <2>2, <2>4
    <3> QED
      BY <2>1, <2>3, <2>4, <3>1, <3>2
  <2>6. 1 \in 1 .. Len(both) /\ \A at : BlockShows(both[1], at) = holds
    BY <2>1, <2>4
  <2> QED
    BY <2>4, <2>5, <2>6 DEF both, last
<1> HIDE DEF front
<1>5. ASSUME NEW m, IsTidy(m)
      PROVE  Grown(new(m), m) /\ holds \subseteq Shown(new(m))
  BY <1>4, <1>5, PrependGrown
<1> HIDE DEF new
<1>6. /\ IsList(t) /\ Len(t) = Len(messages)
      /\ \A i \in 1 .. Len(messages) : t[i] = IF i = u THEN new(messages[i]) ELSE messages[i]
  <2>1. t = [i \in 1 .. Len(messages) |-> t[i]]
    BY <1>3
  <2>2. \A i \in 1 .. Len(messages) : t[i] = IF i = u THEN new(messages[i]) ELSE messages[i]
    BY <1>3
  <2> HIDE DEF t
  <2> QED
    BY <1>1, <2>1, <2>2, IsListFrom
<1> HIDE DEF t
<1>7. \A i \in 1 .. Len(messages) : IsTidy(messages[i]) /\ IsTurn(messages[i])
  BY DEF AllTidy, IsTidy
<1>8. Follows(t, messages)
  BY <1>5, <1>6, <1>7, GrownSame DEF Follows
<1>9. holds \subseteq ShownOf(t)
  <2>1. u \in DOMAIN t /\ t[u] = new(messages[u])
    BY <1>6, ListIs
  <2> QED
    BY <1>5, <1>7, <2>1 DEF ShownOf
<1>10. PagesFirst(t)
  <2>1. \A i \in 1 .. Len(messages) : t[i].role = messages[i].role
    BY <1>8 DEF Follows, Grown
  <2>2. FirstUser(t) = {u}
    BY <1>2, <1>6, <2>1, SameRoles DEF AllTidy
  <2> QED
    BY <1>6, <2>2 DEF PagesFirst
<1> QED
  BY <1>8, <1>9, <1>10 DEF t, pages

(* A slab loses nothing. *)
LEMMA SlabArrives ==
  ASSUME NEW r, OnTheWay(r), AreFiles(r.system), AreTools(r.tools),
         \A i \in 1 .. Len(r.messages) : NoPages(r.messages[i]), NEW n \in Nat \ {0},
         NEW messages, NEW system, Arrives(r, messages, system)
  PROVE  LET q == WithSlab(r, n)
         IN OnTheWay(q) /\ PagesFirst(q.messages) /\ Arrives(q, messages, system)
<1> DEFINE cc == Demoted(SystemMark(r.system))
           t == SlabFor(r.messages, AsPages(SlabItems(r), n, cc))
           q == WithSlab(r, n)
<1>1. /\ q.messages = t /\ q.system = SystemTail(r.system) /\ q.tools = Stubbed(r.tools)
      /\ DOMAIN q = {"messages", "system", "tools"}
  BY DEF WithSlab, SlabFor
<1>2. Follows(t, r.messages) /\ SlabItems(r) \subseteq ShownOf(t) /\ PagesFirst(t)
  BY SlabFollows DEF OnTheWay
<1> HIDE DEF t, q
<1>3. /\ AllTidy(t) /\ ShownOf(r.messages) \subseteq ShownOf(t)
      /\ \A i \in 1 .. Len(r.messages) : t[i].role = r.messages[i].role
  BY <1>2, FollowsKeeps DEF OnTheWay
<1>4. CanAppendPinBlock(t)
  BY <1>2, <1>3, SameRoles DEF OnTheWay, AllTidy, Follows
<1>5. OnTheWay(q)
  BY <1>1, <1>3, <1>4 DEF OnTheWay
<1>6. ShownIn(r) \subseteq ShownIn(q) /\ SlabItems(r) \subseteq ShownIn(q)
  BY <1>1, <1>2, <1>3, ShownMessages
<1>7. SystemKinds(r.system) \subseteq SystemKinds(q.system) \cup ShownIn(q)
  <2>1. AllKinds(r.system) \ {"billing"}
          \subseteq AllKinds(q.system) \cup (SlabKinds(r.system) \cap {"static"})
    BY <1>1, TailKinds
  <2>2. {0} \X (SlabKinds(r.system) \cap {"static"}) \subseteq ShownIn(q)
    BY <1>6 DEF SlabItems
  <2>3. ASSUME NEW x \in AllKinds(r.system) \ {"billing"}
        PROVE  <<0, x>> \in SystemKinds(q.system) \cup ShownIn(q)
    <3>1. CASE x \in AllKinds(q.system)
      BY <2>3, <3>1, SystemItems
    <3>2. CASE x \in SlabKinds(r.system) \cap {"static"}
      BY <2>2, <3>2
    <3> QED
      BY <2>1, <3>1, <3>2
  <2> QED
    BY <2>3, SystemItems
<1>8. ToolsShown(q)
  <2> SUFFICES ASSUME NEW k \in DOMAIN q.tools
               PROVE  q.tools[k].doc = "full" \/ <<0, q.tools[k].name>> \in ShownIn(q)
    BY DEF ToolsShown
  <2>1. k \in DOMAIN r.tools
    BY <1>1 DEF Stubbed
  <2>2. r.tools[k].doc = "full" \/ <<0, r.tools[k].name>> \in ShownIn(r)
    BY <2>1 DEF Arrives, ToolsShown
  <2>3. CASE Moves(r.tools[k])
    <3>1. q.tools[k].name = r.tools[k].name
      BY <1>1, <2>1, <2>3 DEF Stubbed, AreTools
    <3>2. <<0, r.tools[k].name>> \in SlabItems(r)
      BY <2>1, <2>3 DEF SlabItems
    <3> QED
      BY <1>6, <3>1, <3>2
  <2>4. CASE ~Moves(r.tools[k])
    <3>1. q.tools[k] = r.tools[k]
      BY <1>1, <2>1, <2>4 DEF Stubbed
    <3> QED
      BY <1>6, <2>2, <3>1
  <2> QED
    BY <2>3, <2>4
<1>9. Arrives(q, messages, system)
  BY <1>6, <1>7, <1>8 DEF Arrives
<1> QED
  BY <1>1, <1>2, <1>5, <1>9 DEF q

-----------------------------------------------------------------------------
(* History becomes pages.                                                    *)

(* What the serializer saw is on the pages. *)
HistoryTexts(messages, from, to) == UNION {TextOf(messages[i]) : i \in from + 1 .. to}

(* They are pages that show it. *)
LEMMA HistoryShows ==
  ASSUME NEW messages, NEW from, NEW to, NEW n \in Nat
  PROVE  ArePages(HistoryPages(messages, from, to, n), HistoryTexts(messages, from, to), n)
<1> DEFINE s == HistoryPages(messages, from, to, n)
           all == [i \in 1 .. to - from |-> MarkOf(messages[from + i])]
           marks == Picked(all, {i \in DOMAIN all : all[i] # NoMark})
           items == HistoryTexts(messages, from, to)
           mark(p) == IF p <= Len(marks) THEN marks[p] ELSE NoMark
<1>1. s = [p \in 1 .. n |-> Rendered(items, mark(p))]
  BY DEF HistoryPages, HistoryTexts
<1> HIDE DEF s, mark, items
<1>2. s = [p \in 1 .. n |-> s[p]]
  BY <1>1
<1>3. \A k \in 1 .. n : s[k] = Rendered(items, mark(k))
  BY <1>1
<1>4. \A k \in 1 .. n : s[k].type = "page" /\ {"type", "holds"} \subseteq DOMAIN s[k]
        /\ s[k].holds = items
  <2> SUFFICES ASSUME NEW k \in 1 .. n
               PROVE  s[k].type = "page" /\ {"type", "holds"} \subseteq DOMAIN s[k]
                       /\ s[k].holds = items
    OBVIOUS
  <2> DEFINE b == s[k]
             cc == mark(k)
  <2>1. b = Rendered(items, cc)
    BY <1>3
  <2> HIDE DEF b, cc
  <2>2. b.type = "page" /\ {"type", "holds"} \subseteq DOMAIN b /\ b.holds = items
    BY <2>1 DEF Rendered
  <2> QED
    BY <2>2 DEF b
<1>5. IsList(s) /\ Len(s) = n
  BY <1>2, IsListFrom
<1>6. \A k \in 1 .. n : Extra(s[k]) /\ \A at : BlockShows(s[k], at) = items
  BY <1>4 DEF Extra, BlockShows
<1> QED
  BY <1>4, <1>5, <1>6 DEF s, items, ArePages

(* A turn without pages shows what the serializer sees of it. *)
LEMMA NoPagesShow ==
  ASSUME NEW m, IsTidy(m), NoPages(m)
  PROVE  Shown(m) \subseteq TextOf(m)
<1>1. DOMAIN m.blocks = 1 .. Len(m.blocks)
  BY ListIs DEF IsTidy, IsTurn
<1>2. PageItems(m.blocks) = {}
  BY <1>1 DEF PageItems, NoPages, NoPage
<1>3. ASSUME NEW k \in DOMAIN m.blocks, m.blocks[k].type = "result"
      PROVE  PageItems(m.blocks[k].parts) = {}
  <2> DEFINE b == m.blocks[k]
  <2>1. IsList(b.parts) /\ \A p \in 1 .. Len(b.parts) : b.parts[p].type # "page"
    BY <1>1, <1>3 DEF IsTidy, IsWire, IsPlaced, IsResult, NoPages, NoPage
  <2>2. DOMAIN b.parts = 1 .. Len(b.parts)
    BY <2>1, ListIs
  <2> HIDE DEF b
  <2>3. PageItems(b.parts) = {}
    BY <2>1, <2>2 DEF PageItems
  <2> QED
    BY <2>3 DEF b
<1> QED
  BY <1>2, <1>3 DEF Shown

(* The message of the history shows what is on its pages. *)
LEMMA SyntheticShows ==
  ASSUME NEW pages, NEW holds, NEW n \in Nat \ {0}, ArePages(pages, holds, n)
  PROVE  LET m == Synthetic(pages)
         IN /\ IsTidy(m) /\ holds \subseteq Shown(m)
            /\ \A k \in 1 .. n : m.blocks[k + 1].type = "page"
<1> DEFINE m == Synthetic(pages)
           intro == <<IntroText>>
           blocks == intro \o pages
<1>1. m.blocks = blocks /\ {"role", "at", "blocks"} \subseteq DOMAIN m
  BY DEF Synthetic
<1> HIDE DEF m
<1>2. IsList(intro) /\ Len(intro) = 1 /\ intro[1] = IntroText
  BY ListOne
<1> HIDE DEF intro
<1>3. IsList(pages) /\ Len(pages) = n
  BY DEF ArePages
<1>4. /\ IsList(blocks) /\ Len(blocks) = Len(intro) + Len(pages)
      /\ \A i \in 1 .. Len(intro) : blocks[i] = intro[i]
      /\ \A i \in 1 .. Len(pages) : blocks[Len(intro) + i] = pages[i]
  <2>1. IsList(intro) /\ IsList(pages)
    BY <1>2, <1>3
  <2> QED
    BY <2>1, ListConcat
<1> HIDE DEF blocks
<1>5. Len(blocks) = n + 1 /\ blocks[1] = IntroText /\ \A k \in 1 .. n : blocks[k + 1] = pages[k]
  <2>1. \A k \in 1 .. n : blocks[1 + k] = pages[k]
    BY <1>2, <1>3, <1>4
  <2>2. \A k \in 1 .. n : 1 + k = k + 1
    OBVIOUS
  <2>3. blocks[1] = IntroText
    BY <1>2, <1>4
  <2> QED
    BY <1>2, <1>3, <1>4, <2>1, <2>2, <2>3
<1>6. \A k \in 1 .. n : /\ pages[k].type = "page" /\ Extra(pages[k])
                        /\ \A at : BlockShows(pages[k], at) = holds
  BY DEF ArePages
<1>7. \A k \in 1 .. Len(blocks) : Extra(blocks[k])
  <2> SUFFICES ASSUME NEW k \in 1 .. n + 1 PROVE Extra(blocks[k])
    BY <1>5
  <2>1. CASE k = 1
    BY <1>5, <2>1 DEF Extra, IntroText
  <2>2. CASE k # 1
    <3> DEFINE j == k - 1
    <3>1. j \in 1 .. n /\ k = j + 1
      BY <2>2
    <3> HIDE DEF j
    <3> QED
      BY <1>5, <1>6, <3>1
  <2> QED
    BY <2>1, <2>2
<1>8. IsTidy(m)
  <2>1. IsTurn(m)
    BY <1>1, <1>4 DEF IsTurn
  <2>2. \A k \in 1 .. Len(m.blocks) : IsWire(m.blocks[k], m)
    BY <1>1, <1>7, ExtraTidy
  <2> QED
    BY <2>1, <2>2 DEF IsTidy
<1>9. holds \subseteq Shown(m)
  <2>1. 1 + 1 \in DOMAIN m.blocks
    BY <1>1, <1>4, <1>5, ListIs
  <2>2. BlockShows(m.blocks[1 + 1], m.at) = holds
    BY <1>1, <1>5, <1>6
  <2> QED
    BY <2>1, <2>2, ShownBlocks
<1> QED
  BY <1>1, <1>5, <1>6, <1>8, <1>9 DEF m

(* A list in which one element stands for some in the middle. *)
Spliced(t, s, from, to, m) ==
  /\ IsList(t) /\ Len(t) = from + 1 + (Len(s) - to)
  /\ \A i \in 1 .. from : t[i] = s[i]
  /\ t[from + 1] = m
  /\ \A i \in 1 .. Len(s) - to : t[from + 1 + i] = s[to + i]

(* That is what a collapse leaves. *)
LEMMA CollapsedIs ==
  ASSUME NEW s, IsList(s), NEW from \in Nat, NEW to \in from .. Len(s), NEW pages
  PROVE  Spliced(Collapsed(s, from, to, pages), s, from, to, Synthetic(pages))
<1> DEFINE m == Synthetic(pages)
           a == SubSeq(s, 1, from)
           one == <<m>>
           c == SubSeq(s, to + 1, Len(s))
           ab == a \o one
           t == ab \o c
           rest == Len(s) - to
<1>0. Len(s) \in Nat /\ to \in Nat /\ from <= to /\ to <= Len(s) /\ rest \in Nat
  BY ListIs
<1> HIDE DEF m
<1>1. IsList(a) /\ Len(a) = from /\ \A i \in 1 .. from : a[i] = s[i]
  <2>1. from <= Len(s)
    BY <1>0
  <2> QED
    BY <2>1, FirstOnes
<1>2. IsList(c) /\ Len(c) = rest /\ \A i \in 1 .. rest : c[i] = s[to + i]
  <2>1. to + 1 \in 1 .. Len(s) + 1 /\ Len(s) \in 0 .. Len(s) /\ to + 1 <= Len(s) + 1
    BY <1>0
  <2>2. /\ IsList(c) /\ Len(c) = Len(s) - (to + 1) + 1
        /\ \A i \in 1 .. Len(s) - (to + 1) + 1 : c[i] = s[to + 1 + i - 1]
    BY <2>1, ListSub
  <2> HIDE DEF c
  <2>3. Len(s) - (to + 1) + 1 = rest /\ \A i \in 1 .. rest : to + 1 + i - 1 = to + i
    BY <1>0
  <2> QED
    BY <2>2, <2>3
<1> HIDE DEF a, c
<1>3. IsList(one) /\ Len(one) = 1 /\ one[1] = m
  BY ListOne
<1> HIDE DEF one
<1>4. /\ IsList(ab) /\ Len(ab) = Len(a) + Len(one)
      /\ \A i \in 1 .. Len(a) : ab[i] = a[i]
      /\ \A i \in 1 .. Len(one) : ab[Len(a) + i] = one[i]
  <2>1. IsList(a) /\ IsList(one)
    BY <1>1, <1>3
  <2> QED
    BY <2>1, ListConcat
<1> HIDE DEF ab
<1>5. /\ IsList(ab) /\ Len(ab) = from + 1 /\ ab[from + 1] = m
      /\ \A i \in 1 .. from : ab[i] = s[i]
  BY <1>1, <1>3, <1>4
<1>6. /\ IsList(t) /\ Len(t) = Len(ab) + Len(c)
      /\ \A i \in 1 .. Len(ab) : t[i] = ab[i]
      /\ \A i \in 1 .. Len(c) : t[Len(ab) + i] = c[i]
  <2>1. IsList(ab) /\ IsList(c)
    BY <1>2, <1>5
  <2> QED
    BY <2>1, ListConcat
<1> HIDE DEF t
<1>7. /\ IsList(t) /\ Len(t) = from + 1 + rest
      /\ \A i \in 1 .. from + 1 : t[i] = ab[i]
      /\ \A i \in 1 .. rest : t[from + 1 + i] = c[i]
  BY <1>2, <1>5, <1>6
<1> HIDE DEF rest
<1>8. /\ IsList(t) /\ Len(t) = from + 1 + rest /\ t[from + 1] = m
      /\ \A i \in 1 .. from : t[i] = s[i]
      /\ \A i \in 1 .. rest : t[from + 1 + i] = s[to + i]
  BY <1>2, <1>5, <1>7
<1>9. Spliced(t, s, from, to, m)
  BY <1>8 DEF Spliced, rest
<1> QED
  BY <1>9 DEF Collapsed, t, ab, a, one, c, m

(* A collapse loses no text, and leaves the last turn. *)
LEMMA CollapseKeeps ==
  ASSUME NEW s, AllTidy(s), CanAppendPinBlock(s),
         NEW from \in Nat, NEW to \in from .. Len(s) - 1,
         \A i \in from + 1 .. to : NoPages(s[i]), NEW n \in Nat \ {0}
  PROVE  LET t == Collapsed(s, from, to, HistoryPages(s, from, to, n))
         IN /\ AllTidy(t) /\ CanAppendPinBlock(t) /\ ShownOf(s) \subseteq ShownOf(t)
            /\ from + 1 \in 1 .. Len(t)
            /\ \A k \in 1 .. n : t[from + 1].blocks[k + 1].type = "page"
<1> DEFINE pages == HistoryPages(s, from, to, n)
           holds == HistoryTexts(s, from, to)
           m == Synthetic(pages)
           t == Collapsed(s, from, to, pages)
           len == Len(s)
           rest == len - to
<1>0. IsList(s) /\ DOMAIN s = 1 .. len /\ len \in Nat
  BY ListIs DEF AllTidy
<1>1. /\ IsTidy(m) /\ holds \subseteq Shown(m)
      /\ \A k \in 1 .. n : m.blocks[k + 1].type = "page"
  <2>1. n \in Nat
    OBVIOUS
  <2>2. ArePages(pages, holds, n)
    BY <2>1, HistoryShows
  <2> HIDE DEF pages, holds
  <2> QED
    BY <2>2, SyntheticShows
<1>2. to \in Nat /\ from <= to /\ to < len /\ rest \in Nat \ {0} /\ to \in from .. len
  <2>1. to \in from .. len - 1 /\ len \in Nat
    BY <1>0
  <2> HIDE DEF len
  <2> QED
    BY <2>1
<1>3. Spliced(t, s, from, to, m)
  BY <1>0, <1>2, CollapsedIs
<1> HIDE DEF t, m, pages
<1>4. /\ IsList(t) /\ Len(t) = from + 1 + rest /\ t[from + 1] = m
      /\ \A i \in 1 .. from : t[i] = s[i]
      /\ \A i \in 1 .. rest : t[from + 1 + i] = s[to + i]
  BY <1>3 DEF Spliced
<1>5. /\ \A i \in 1 .. Len(t) : \/ t[i] = m
                                \/ \E j \in 1 .. len : t[i] = s[j]
      /\ from + 1 \in 1 .. Len(t)
  <2> HIDE DEF len
  <2>1. ASSUME NEW i \in 1 .. from + 1 + rest
        PROVE  t[i] = m \/ \E j \in 1 .. len : t[i] = s[j]
    <3>1. CASE i \in 1 .. from
      <4>1. i \in 1 .. len
        BY <1>0, <1>2, <3>1
      <4> QED
        BY <1>4, <3>1, <4>1
    <3>2. CASE i = from + 1
      BY <1>4, <3>2
    <3>3. CASE i > from + 1
      <4> DEFINE k == i - (from + 1)
      <4>1. k \in 1 .. rest /\ i = from + 1 + k /\ to + k \in 1 .. len
        BY <1>0, <1>2, <3>3
      <4> HIDE DEF k, rest
      <4>2. t[i] = s[to + k]
        BY <1>4, <4>1
      <4> QED
        BY <4>1, <4>2
    <3> QED
      BY <3>1, <3>2, <3>3
  <2>2. from + 1 \in 1 .. from + 1 + rest
    BY <1>2
  <2> QED
    BY <1>4, <2>1, <2>2
<1>6. AllTidy(t)
  BY <1>1, <1>4, <1>5 DEF AllTidy
<1>7. DOMAIN t = 1 .. Len(t)
  BY <1>4, ListIs
<1>8. ASSUME NEW i \in 1 .. len PROVE Shown(s[i]) \subseteq ShownOf(t)
  <2> HIDE DEF len
  <2>1. CASE i \in from + 1 .. to
    <3>1. IsTidy(s[i])
      BY DEF AllTidy, len
    <3>2. Shown(s[i]) \subseteq TextOf(s[i])
      BY <2>1, <3>1, NoPagesShow
    <3>3. TextOf(s[i]) \subseteq holds
      BY <2>1 DEF HistoryTexts
    <3>4. Shown(m) \subseteq ShownOf(t)
      BY <1>4, <1>5, <1>7 DEF ShownOf
    <3> QED
      BY <1>1, <3>2, <3>3, <3>4
  <2>2. ASSUME NEW j \in 1 .. Len(t), t[j] = s[i] PROVE Shown(s[i]) \subseteq ShownOf(t)
    BY <1>7, <2>2 DEF ShownOf
  <2>3. CASE i \in 1 .. from
    <3>1. i \in 1 .. Len(t)
      BY <1>2, <1>4, <2>3
    <3>2. t[i] = s[i]
      BY <1>4, <2>3
    <3> QED
      BY <2>2, <3>1, <3>2
  <2>4. CASE i > to
    <3> DEFINE k == i - to
    <3>1. k \in 1 .. rest /\ i = to + k /\ from + 1 + k \in 1 .. from + 1 + rest
      BY <1>0, <1>2, <2>4
    <3> HIDE DEF k, rest
    <3>2. t[from + 1 + k] = s[i]
      BY <1>4, <3>1
    <3> QED
      BY <1>4, <2>2, <3>1, <3>2
  <2>5. i \in from + 1 .. to \/ i \in 1 .. from \/ i > to
    BY <1>0, <1>2
  <2> QED
    BY <2>1, <2>3, <2>4, <2>5
<1>9. ShownOf(s) \subseteq ShownOf(t)
  BY <1>0, <1>8 DEF ShownOf
<1>10. CanAppendPinBlock(t)
  <2> HIDE DEF len
  <2>1. to + rest = len /\ rest \in 1 .. rest /\ from + 1 + rest > 0
    BY <1>0, <1>2
  <2> HIDE DEF rest
  <2>2. t[Len(t)] = s[len]
    BY <1>4, <2>1
  <2>3. t # <<>>
    BY <1>4, <2>1, NotEmpty
  <2> QED
    BY <2>2, <2>3 DEF CanAppendPinBlock, len
<1>11. \A k \in 1 .. n : t[from + 1].blocks[k + 1].type = "page"
  BY <1>1, <1>4
<1> QED
  BY <1>5, <1>6, <1>9, <1>10, <1>11 DEF t, pages

(* A page that is marked stays the page it was. *)
LEMMA WithMarkFollows ==
  ASSUME NEW s, IsMessages(s), AllTidy(s), NEW i \in 1 .. Len(s),
         NEW k \in 1 .. Len(s[i].blocks), s[i].blocks[k].type = "page", NEW cc
  PROVE  LET t == WithMark(s, i, k, cc)
         IN /\ Follows(t, s)
            /\ \A j \in 1 .. Len(s) : \A l \in 1 .. Len(s[j].blocks) :
                 t[j].blocks[l].type = s[j].blocks[l].type
<1> DEFINE b == s[i].blocks[k]
           x == [b EXCEPT !.cc = cc]
           blocks == [s[i].blocks EXCEPT ![k] = x]
           m == [s[i] EXCEPT !.blocks = blocks]
           t == [s EXCEPT ![i] = m]
<1>1. WithMark(s, i, k, cc) = t
  BY WithMarkIs
<1>2. IsTidy(s[i]) /\ IsTurn(s[i]) /\ IsWire(b, s[i])
  BY DEF AllTidy, IsTidy
<1>3. {"type", "holds"} \subseteq DOMAIN b /\ b.type = "page"
  BY <1>2 DEF IsWire, IsPlaced
<1> HIDE DEF b
<1>4. x.type = "page" /\ {"type", "holds"} \subseteq DOMAIN x /\ x.holds = b.holds
  BY <1>3
<1> HIDE DEF x
<1>5. Carries(x, b)
  BY <1>3, <1>4 DEF Carries
<1>6. Grown(m, s[i])
  BY <1>2, <1>5, BlockGrown DEF b
<1>7. IsList(blocks) /\ ExceptAt(blocks, s[i].blocks, k, x)
  BY <1>2, ListChanged DEF IsTurn
<1> HIDE DEF blocks
<1>8. m.blocks = blocks
  BY <1>2 DEF IsTurn
<1> HIDE DEF m
<1>9. Follows(t, s)
  BY <1>6, OneGrown
<1>10. ExceptAt(t, s, i, m)
  BY ListChanged DEF AllTidy
<1> HIDE DEF t
<1>11. ASSUME NEW j \in 1 .. Len(s), NEW l \in 1 .. Len(s[j].blocks)
       PROVE  t[j].blocks[l].type = s[j].blocks[l].type
  <2>1. CASE j = i
    <3>1. t[j].blocks = blocks /\ l \in 1 .. Len(s[i].blocks)
      BY <1>8, <1>10, <2>1 DEF ExceptAt
    <3>2. blocks[l] = IF l = k THEN x ELSE s[i].blocks[l]
      BY <1>7, <3>1 DEF ExceptAt
    <3> QED
      BY <1>3, <1>4, <2>1, <3>1, <3>2 DEF b
  <2>2. CASE j # i
    BY <1>10, <2>2 DEF ExceptAt
  <2> QED
    BY <2>1, <2>2
<1> QED
  BY <1>1, <1>9, <1>11

(* Moving the anchor loses nothing. *)
LEMMA AnchoredKeeps ==
  ASSUME NEW s, IsMessages(s), AllTidy(s), CanAppendPinBlock(s), NEW from \in Nat,
         NEW carry \in Nat,
         from + 1 \in 1 .. Len(s), carry + 1 \in 1 .. Len(s[from + 1].blocks),
         s[from + 1].blocks[carry + 1].type = "page"
  PROVE  LET t == Anchored(s, from, carry)
         IN AllTidy(t) /\ CanAppendPinBlock(t) /\ ShownOf(s) \subseteq ShownOf(t)
<1>1. CASE SlabAnchors(s) = {}
  BY <1>1 DEF Anchored, MovedAnchor
<1>2. CASE SlabAnchors(s) # {}
  <2> DEFINE slab == SlabAnchor(s)
             i == slab[1]
             k == slab[2]
             cc == s[i].blocks[k].cc
             u == WithMark(s, from + 1, carry + 1, Demoted(cc))
             t == WithMark(u, i, k, NoMark)
  <2>1. slab \in SlabAnchors(s)
    BY <1>2, SlabAnchorIs
  <2>2. i \in 1 .. Len(s) /\ k \in 1 .. Len(s[i].blocks) /\ cc # NoMark
    BY <2>1, AnchorPlaces DEF HasMark
  <2>3. s[i].blocks[k].type = "page"
    BY <2>1 DEF SlabAnchors, PagesBeforeBoundary
  <2>4. Anchored(s, from, carry) = t
    BY <1>2 DEF Anchored, MovedAnchor, OnHistory
  <2> HIDE DEF slab, i, k, cc
  <2>5. Demoted(cc) # "global"
    BY DEF Demoted
  <2>6. IsMessages(u)
    BY <2>5, WithMarkWeighs
  <2>7. /\ Follows(u, s)
        /\ \A j \in 1 .. Len(s) : \A l \in 1 .. Len(s[j].blocks) :
             u[j].blocks[l].type = s[j].blocks[l].type
    BY WithMarkFollows
  <2>8. Len(u) = Len(s) /\ Len(u[i].blocks) = Len(s[i].blocks)
    BY <2>2, WithMarkKeeps
  <2>9. AllTidy(u) /\ ShownOf(s) \subseteq ShownOf(u)
          /\ \A j \in 1 .. Len(s) : u[j].role = s[j].role
    BY <2>7, FollowsKeeps
  <2>10. i \in 1 .. Len(u) /\ k \in 1 .. Len(u[i].blocks) /\ u[i].blocks[k].type = "page"
    BY <2>2, <2>3, <2>7, <2>8
  <2> HIDE DEF u
  <2>11. Follows(t, u)
    BY <2>6, <2>9, <2>10, WithMarkFollows
  <2> HIDE DEF t
  <2>12. AllTidy(t) /\ ShownOf(u) \subseteq ShownOf(t)
          /\ \A j \in 1 .. Len(u) : t[j].role = u[j].role
    BY <2>9, <2>11, FollowsKeeps
  <2>13. Len(t) = Len(s) /\ \A j \in 1 .. Len(s) : t[j].role = s[j].role
    BY <2>8, <2>9, <2>11, <2>12 DEF Follows
  <2>14. CanAppendPinBlock(t)
    BY <2>12, <2>13, SameRoles DEF AllTidy
  <2> QED
    BY <2>4, <2>9, <2>12, <2>14
<1> QED
  BY <1>1, <1>2

(* So a collapse loses nothing. *)
LEMMA HistoryArrives ==
  ASSUME NEW r, OnTheWay(r), IsRequest(r),
         NEW from \in Nat, NEW to \in from .. Len(r.messages) - 1,
         \A i \in from + 1 .. to : NoPages(r.messages[i]), NEW n \in Nat \ {0},
         NEW carry \in 0 .. n, NEW anchor \in BOOLEAN, anchor => carry > 0,
         NEW messages, NEW system, Arrives(r, messages, system)
  PROVE  LET layout == LayoutOf(r, from, to, n)
             q == [r EXCEPT !.messages = IF anchor THEN Anchored(layout, from, carry) ELSE layout]
         IN OnTheWay(q) /\ Arrives(q, messages, system)
<1> DEFINE s == r.messages
           t == LayoutOf(r, from, to, n)
           v == Anchored(t, from, carry)
           u == IF anchor THEN v ELSE t
           q == [r EXCEPT !.messages = u]
<1>1. /\ AllTidy(s) /\ CanAppendPinBlock(s) /\ IsMessages(s)
        /\ {"messages", "system", "tools"} \subseteq DOMAIN r
  BY DEF OnTheWay, IsRequest
<1>2. /\ AllTidy(t) /\ CanAppendPinBlock(t) /\ ShownOf(s) \subseteq ShownOf(t)
      /\ from + 1 \in 1 .. Len(t)
      /\ \A k \in 1 .. n : t[from + 1].blocks[k + 1].type = "page"
  BY <1>1, CollapseKeeps DEF LayoutOf
<1>3. to \in from .. Len(s) /\ n \in Nat
  BY <1>1, ListIs DEF AllTidy
<1>4. IsMessages(t)
  BY <1>1, <1>3, CollapsedWeighs DEF LayoutOf
<1>5. Len(t[from + 1].blocks) = n + 1
  BY <1>1, <1>3, CollapsedPages DEF LayoutOf
<1> HIDE DEF t
<1>6. anchor => AllTidy(v) /\ CanAppendPinBlock(v) /\ ShownOf(t) \subseteq ShownOf(v)
  <2> SUFFICES ASSUME anchor
               PROVE  AllTidy(v) /\ CanAppendPinBlock(v) /\ ShownOf(t) \subseteq ShownOf(v)
    OBVIOUS
  <2>1. carry \in Nat /\ carry \in 1 .. n /\ carry + 1 \in 1 .. n + 1
    OBVIOUS
  <2>2. carry + 1 \in 1 .. Len(t[from + 1].blocks) /\ t[from + 1].blocks[carry + 1].type = "page"
    BY <1>2, <1>5, <2>1
  <2> QED
    BY <1>2, <1>4, <2>1, <2>2, AnchoredKeeps
<1> HIDE DEF v
<1>7. AllTidy(u) /\ CanAppendPinBlock(u) /\ ShownOf(s) \subseteq ShownOf(u)
  BY <1>2, <1>6
<1> HIDE DEF u
<1>8. q.messages = u /\ q.system = r.system /\ q.tools = r.tools /\ DOMAIN q = DOMAIN r
  BY <1>1
<1> HIDE DEF q
<1>9. OnTheWay(q)
  BY <1>1, <1>7, <1>8 DEF OnTheWay
<1>10. Arrives(q, messages, system)
  BY <1>7, <1>8, ArrivesStill
<1> QED
  BY <1>9, <1>10 DEF q, u, v, t

(* The protected head covers the first turn of the user. *)
LEMMA HeadCovers ==
  ASSUME pc = "history", IsList(req.messages), CanAppendPinBlock(req.messages)
  PROVE  \A i \in FirstUser(req.messages) : i <= ProtectedHead
<1> DEFINE s == req.messages
<1>1. PICK u \in 1 .. Len(s) : FirstUser(s) = {u}
  BY FirstUserIs
<1>2. DOMAIN s = 1 .. Len(s) /\ Len(s) \in Nat
  BY ListIs
<1>3. {i \in DOMAIN s : \E j \in FirstUser(s) : i <= j} = 1 .. u
  BY <1>1, <1>2
<1>4. Cardinality(1 .. u) = u
  <2>1. u \in Nat /\ 1 <= u
    BY <1>2
  <2>2. Cardinality(1 .. u) = IF 1 > u THEN 0 ELSE u - 1 + 1
    BY <2>1, FS_Interval
  <2> QED
    BY <2>1, <2>2
<1>5. ProtectedHead = u
  BY <1>3, <1>4 DEF ProtectedHead
<1> QED
  BY <1>1, <1>2, <1>5

-----------------------------------------------------------------------------
(* A text of a result becomes pages.                                         *)

(* A list whose elements are of two others, and has all of the second. *)
MadeOf(t, parts, pages) ==
  /\ \A l \in 1 .. Len(t) : \/ \E j \in 1 .. Len(parts) : t[l] = parts[j]
                            \/ \E j \in 1 .. Len(pages) : t[l] = pages[j]
  /\ \A j \in 1 .. Len(pages) : \E l \in 1 .. Len(t) : t[l] = pages[j]

(* The parts are those there were, and the pages. *)
LEMMA CutHas ==
  ASSUME NEW parts, IsList(parts), NEW p \in 1 .. Len(parts), NEW pages, IsList(pages)
  PROVE  MadeOf(Cut(parts, p, pages), parts, pages)
<1> DEFINE a == SubSeq(parts, 1, p - 1)
           c == SubSeq(parts, p + 1, Len(parts))
           ab == a \o pages
           t == ab \o c
           n == Len(parts)
<1>0. n \in Nat /\ p \in 1 .. n /\ Len(pages) \in Nat
  BY ListIs
<1>1. IsList(a) /\ Len(a) = p - 1 /\ \A i \in 1 .. p - 1 : a[i] = parts[i]
  <2>1. p - 1 \in Nat /\ p - 1 <= Len(parts)
    BY <1>0
  <2> QED
    BY <2>1, FirstOnes
<1>2. IsList(c) /\ Len(c) = n - p /\ \A i \in 1 .. n - p : c[i] = parts[p + i]
  <2>1. p + 1 \in 1 .. Len(parts) + 1 /\ Len(parts) \in 0 .. Len(parts) /\ p + 1 <= Len(parts) + 1
    BY <1>0
  <2>2. /\ IsList(c) /\ Len(c) = n - (p + 1) + 1
        /\ \A i \in 1 .. n - (p + 1) + 1 : c[i] = parts[p + 1 + i - 1]
    BY <2>1, ListSub
  <2> HIDE DEF c, n
  <2>3. n - (p + 1) + 1 = n - p /\ \A i \in 1 .. n - p : p + 1 + i - 1 = p + i
    BY <1>0
  <2> QED
    BY <2>2, <2>3
<1> HIDE DEF a, c
<1>3. /\ IsList(ab) /\ Len(ab) = Len(a) + Len(pages)
      /\ \A i \in 1 .. Len(a) : ab[i] = a[i]
      /\ \A i \in 1 .. Len(pages) : ab[Len(a) + i] = pages[i]
  BY <1>1, ListConcat
<1> HIDE DEF ab
<1>4. /\ IsList(t) /\ Len(t) = Len(ab) + Len(c)
      /\ \A i \in 1 .. Len(ab) : t[i] = ab[i]
      /\ \A i \in 1 .. Len(c) : t[Len(ab) + i] = c[i]
  <2>1. IsList(ab) /\ IsList(c)
    BY <1>2, <1>3
  <2> QED
    BY <2>1, ListConcat
<1> HIDE DEF t
<1> DEFINE x == p - 1
           y == Len(pages)
           z == n - p
<1>5. x \in Nat /\ y \in Nat /\ z \in Nat /\ Len(t) = x + y + z
  BY <1>0, <1>1, <1>2, <1>3, <1>4
<1>6. /\ \A i \in 1 .. x : t[i] = parts[i] /\ i \in 1 .. n
      /\ \A i \in 1 .. y : t[x + i] = pages[i]
      /\ \A i \in 1 .. z : t[x + y + i] = parts[p + i] /\ p + i \in 1 .. n
  <2>0. Len(a) = x /\ Len(ab) = x + y /\ y = Len(pages) /\ \A i \in 1 .. x : i \in 1 .. n
    BY <1>0, <1>1, <1>3
  <2>1. \A i \in 1 .. x : t[i] = parts[i] /\ i \in 1 .. n
    <3> HIDE DEF y
    <3>1. \A i \in 1 .. x : i \in 1 .. x + y
      BY <1>5
    <3> QED
      BY <1>1, <1>3, <1>4, <2>0, <3>1
  <2>2. \A i \in 1 .. y : t[x + i] = pages[i]
    <3> HIDE DEF x
    <3>1. \A i \in 1 .. y : x + i \in 1 .. x + y
      BY <1>5
    <3> HIDE DEF y
    <3> QED
      BY <1>3, <1>4, <2>0, <3>1
  <2>3. \A i \in 1 .. z : t[x + y + i] = parts[p + i] /\ p + i \in 1 .. n
    BY <1>0, <1>1, <1>2, <1>3, <1>4
  <2> QED
    BY <2>1, <2>2, <2>3
<1> HIDE DEF x, y, z, n
<1>7. ASSUME NEW l \in 1 .. x + y + z
      PROVE  \/ \E j \in 1 .. n : t[l] = parts[j]
             \/ \E j \in 1 .. y : t[l] = pages[j]
  <2>1. CASE l <= x
    BY <1>5, <1>6, <2>1
  <2>2. CASE l > x /\ l <= x + y
    <3> DEFINE i == l - x
    <3>1. i \in 1 .. y /\ l = x + i
      BY <1>5, <2>2
    <3> HIDE DEF i
    <3> QED
      BY <1>6, <3>1
  <2>3. CASE l > x + y
    <3> DEFINE i == l - (x + y)
    <3>1. i \in 1 .. z /\ l = x + y + i
      BY <1>5, <2>3
    <3> HIDE DEF i
    <3> QED
      BY <1>6, <3>1
  <2> QED
    BY <1>5, <2>1, <2>2, <2>3
<1>8. ASSUME NEW j \in 1 .. y PROVE \E l \in 1 .. x + y + z : t[l] = pages[j]
  <2>1. x + j \in 1 .. x + y + z
    BY <1>5
  <2> QED
    BY <1>6, <2>1
<1>9. /\ \A l \in 1 .. Len(t) : \/ \E j \in 1 .. Len(parts) : t[l] = parts[j]
                                \/ \E j \in 1 .. Len(pages) : t[l] = pages[j]
      /\ \A j \in 1 .. Len(pages) : \E l \in 1 .. Len(t) : t[l] = pages[j]
  BY <1>5, <1>7, <1>8 DEF y, n
<1>10. MadeOf(t, parts, pages)
  BY <1>9 DEF MadeOf
<1> QED
  BY <1>10 DEF Cut, t, ab, a, c

(* The result that is imaged carries what it did. *)
LEMMA ImagedCarries ==
  ASSUME NEW b, b.type = "result", NEW at, IsPlaced(b, at), NEW p \in 1 .. Len(b.parts),
         NEW n \in Nat \ {0}
  PROVE  Carries(Imaged(b, p, n), b)
<1> DEFINE item == <<b.at, "result">>
           cc == Demoted(b.parts[p].cc)
           pages == AsPages({item}, n, cc)
           parts == Cut(b.parts, p, pages)
           c == [b EXCEPT !.parts = parts]
<1>1. c = Imaged(b, p, n)
  BY DEF Imaged, Cut
<1>2. IsResult(b, at) /\ b.at = at /\ {"type", "at", "parts"} \subseteq DOMAIN b /\ IsList(b.parts)
  BY DEF IsPlaced, IsResult
<1>3. ArePages(pages, {item}, n)
  <2>1. n \in Nat
    OBVIOUS
  <2> HIDE DEF cc, item
  <2> QED
    BY <2>1, PagesShow
<1>p. \A k \in 1 .. n : pages[k].type = "page" /\ pages[k].holds = {item}
  BY DEF AsPages, Rendered
<1>4. IsList(pages) /\ Len(pages) = n
  BY <1>3 DEF ArePages
<1> HIDE DEF pages, item
<1>5. IsList(parts)
  BY <1>2, <1>4, CutIs
<1>6. /\ \A l \in 1 .. Len(parts) : \/ \E j \in 1 .. Len(b.parts) : parts[l] = b.parts[j]
                                    \/ \E j \in 1 .. n : parts[l] = pages[j]
      /\ \E l \in 1 .. Len(parts) : parts[l] = pages[1]
  <2>0. MadeOf(parts, b.parts, pages)
    BY <1>2, <1>4, CutHas
  <2>1. /\ \A l \in 1 .. Len(parts) : \/ \E j \in 1 .. Len(b.parts) : parts[l] = b.parts[j]
                                      \/ \E j \in 1 .. Len(pages) : parts[l] = pages[j]
        /\ \A j \in 1 .. Len(pages) : \E l \in 1 .. Len(parts) : parts[l] = pages[j]
    <3> HIDE DEF parts
    <3> QED
      BY <2>0 DEF MadeOf
  <2>2. 1 \in 1 .. n
    OBVIOUS
  <2> HIDE DEF parts
  <2> QED
    BY <1>4, <2>1, <2>2
<1> HIDE DEF parts
<1>7. c.type = "result" /\ DOMAIN c = DOMAIN b /\ c.at = b.at /\ c.parts = parts
  BY <1>2
<1> HIDE DEF c
<1>8. ResultPages(b.parts, b.at)
  BY <1>2 DEF IsResult
<1>9. ResultPages(parts, b.at)
  <2> SUFFICES ASSUME NEW l \in 1 .. Len(parts), parts[l].type = "page"
               PROVE  parts[l].holds \subseteq {<<b.at, "result">>}
    BY DEF ResultPages
  <2>1. CASE \E j \in 1 .. Len(b.parts) : parts[l] = b.parts[j]
    BY <1>8, <2>1 DEF ResultPages
  <2>2. CASE \E j \in 1 .. n : parts[l] = pages[j]
    BY <1>p, <2>2 DEF item
  <2> QED
    BY <1>6, <2>1, <2>2
<1>10. IsResult(c, b.at)
  BY <1>2, <1>5, <1>7, <1>9 DEF IsResult
<1>11. item \in PageItems(c.parts)
  <2>1. PICK l \in 1 .. Len(parts) : parts[l] = pages[1]
    BY <1>6
  <2>2. 1 \in 1 .. n
    OBVIOUS
  <2>3. parts[l].type = "page" /\ item \in parts[l].holds
    BY <1>p, <2>1, <2>2
  <2>4. DOMAIN parts = 1 .. Len(parts)
    BY <1>5, ListIs
  <2> QED
    BY <1>7, <2>3, <2>4 DEF PageItems
<1>12. PageItems(b.parts) \subseteq {item}
  <2>1. DOMAIN b.parts = 1 .. Len(b.parts)
    BY <1>2, ListIs
  <2> QED
    BY <1>8, <2>1 DEF PageItems, ResultPages, item
<1>13. CarriesResult(c, b)
  BY <1>7, <1>10, <1>11, <1>12 DEF CarriesResult, item
<1> QED
  BY <1>1, <1>13 DEF Carries

(* Imaging a result loses nothing. *)
LEMMA ResultArrives ==
  ASSUME NEW r, OnTheWay(r), IsRequest(r), NEW c, PlaceIn(r.messages, c), NEW n \in Nat \ {0},
         NEW messages, NEW system, Arrives(r, messages, system)
  PROVE  LET q == [r EXCEPT !.messages[c[1]].blocks[c[2]] = Imaged(@, c[3], n)]
         IN OnTheWay(q) /\ Arrives(q, messages, system)
<1> DEFINE s == r.messages
           m == s[c[1]]
           b == m.blocks[c[2]]
           x == Imaged(b, c[3], n)
           w == [m EXCEPT !.blocks = [m.blocks EXCEPT ![c[2]] = x]]
           t == [s EXCEPT ![c[1]] = w]
           q == [r EXCEPT !.messages = t]
<1>1. AllTidy(s) /\ CanAppendPinBlock(s) /\ {"messages", "system", "tools"} \subseteq DOMAIN r
  BY DEF OnTheWay
<1>2. /\ c[1] \in 1 .. Len(s) /\ c[2] \in 1 .. Len(m.blocks)
      /\ b.type = "result" /\ c[3] \in 1 .. Len(b.parts)
  BY DEF PlaceIn
<1>3. IsTidy(m) /\ IsTurn(m) /\ IsPlaced(b, m.at)
  BY <1>1, <1>2 DEF AllTidy, IsTidy, IsWire
<1>4. q = [r EXCEPT !.messages[c[1]].blocks[c[2]] = Imaged(@, c[3], n)]
  <2>1. DOMAIN s = 1 .. Len(s)
    BY <1>1, ListIs DEF AllTidy
  <2>2. "blocks" \in DOMAIN m /\ DOMAIN m.blocks = 1 .. Len(m.blocks)
    BY <1>3, ListIs DEF IsTurn
  <2> QED
    BY <1>1, <1>2, <2>1, <2>2
<1>5. Carries(x, b)
  <2> HIDE DEF b, m
  <2> QED
    BY <1>2, <1>3, ImagedCarries
<1> HIDE DEF x
<1>6. Grown(w, m)
  <2> DEFINE k == c[2]
  <2>1. k \in 1 .. Len(m.blocks) /\ Carries(x, m.blocks[k])
    BY <1>2, <1>5
  <2> HIDE DEF k, m
  <2> QED
    BY <1>3, <2>1, BlockGrown DEF k
<1> HIDE DEF w
<1>7. Follows(t, s)
  <2> DEFINE i == c[1]
  <2>1. i \in 1 .. Len(s) /\ Grown(w, s[i])
    BY <1>2, <1>6
  <2> HIDE DEF i
  <2> QED
    BY <1>1, <2>1, OneGrown DEF i
<1> HIDE DEF t
<1>8. /\ AllTidy(t) /\ ShownOf(s) \subseteq ShownOf(t)
      /\ \A i \in 1 .. Len(s) : t[i].role = s[i].role
  BY <1>1, <1>7, FollowsKeeps
<1>9. CanAppendPinBlock(t)
  BY <1>1, <1>7, <1>8, SameRoles DEF AllTidy, Follows
<1>10. q.messages = t /\ q.system = r.system /\ q.tools = r.tools /\ DOMAIN q = DOMAIN r
  BY <1>1
<1> HIDE DEF q
<1>11. OnTheWay(q)
  BY <1>1, <1>8, <1>9, <1>10 DEF OnTheWay
<1>12. Arrives(q, messages, system)
  BY <1>8, <1>10, ArrivesStill
<1> QED
  BY <1>4, <1>11, <1>12

-----------------------------------------------------------------------------
(* The list of pins is said.                                                 *)

(* A conversation in which it has not been said. *)
Plain(s) ==
  /\ IsList(s)
  /\ \A i \in 1 .. Len(s) :
       IsTurn(s[i]) /\ \A k \in 1 .. Len(s[i].blocks) : s[i].blocks[k].type # "pins"

(* Nothing is said in it, *)
LEMMA PlainPins ==
  ASSUME NEW s, Plain(s)
  PROVE  PinBlocks(s) = {} /\ Cardinality(PinBlocks(s)) = 0
<1>1. DOMAIN s = 1 .. Len(s)
  BY ListIs DEF Plain
<1>2. \A i \in 1 .. Len(s) : DOMAIN s[i].blocks = 1 .. Len(s[i].blocks)
  BY ListIs DEF Plain, IsTurn
<1>3. PinBlocks(s) = {}
  BY <1>1, <1>2 DEF PinBlocks, Plain
<1> QED
  BY <1>3, FS_EmptySet

(* and once when it is put at the end of a turn; nothing else changes. *)
SaidAt(t, s, u, b) ==
  /\ IsList(t) /\ Len(t) = Len(s) /\ LastBlock(t[u]) = b
  /\ Cardinality(PinBlocks(t)) = 1 /\ ShownOf(s) \subseteq ShownOf(t)
  /\ \A i \in 1 .. Len(s) : \A k \in Commands(t[i]) :
       k \in Commands(s[i]) /\ t[i].blocks[k] = s[i].blocks[k]

(* That is what the pass does. *)
LEMMA OneSaid ==
  ASSUME NEW s, Plain(s), NEW u \in 1 .. Len(s), NEW said
  PROVE  SaidAt([s EXCEPT ![u].blocks = Append(@, PinsBlock(said))], s, u, PinsBlock(said))
<1> DEFINE m == s[u]
           b == PinsBlock(said)
           n == Len(m.blocks)
           blocks == Append(m.blocks, b)
           w == [m EXCEPT !.blocks = blocks]
           t == [s EXCEPT ![u] = w]
<1>1. IsList(s) /\ DOMAIN s = 1 .. Len(s) /\ IsTurn(m)
  BY ListIs DEF Plain
<1>2. t = [s EXCEPT ![u].blocks = Append(@, PinsBlock(said))]
  BY <1>1 DEF IsTurn
<1>3. b.type = "pins"
  BY DEF PinsBlock
<1>4. IsList(m.blocks) /\ n \in Nat
  BY <1>1, ListIs DEF IsTurn
<1> HIDE DEF b
<1>5. /\ IsList(blocks) /\ Len(blocks) = n + 1 /\ blocks[n + 1] = b
      /\ \A k \in 1 .. n : blocks[k] = m.blocks[k]
  BY <1>4, ListAppend
<1> HIDE DEF blocks
<1>6. w.blocks = blocks /\ w.role = m.role /\ w.at = m.at
  BY <1>1 DEF IsTurn
<1> HIDE DEF w
<1>7. IsList(t) /\ Len(t) = Len(s) /\ ExceptAt(t, s, u, w)
  BY <1>1, ListChanged
<1> HIDE DEF t
<1>8. t[u] = w /\ \A i \in 1 .. Len(s) : i # u => t[i] = s[i]
  BY <1>7 DEF ExceptAt
<1>9. LastBlock(t[u]) = b
  BY <1>5, <1>6, <1>8 DEF LastBlock
<1>10. DOMAIN t = 1 .. Len(s) /\ DOMAIN blocks = 1 .. n + 1 /\ DOMAIN m.blocks = 1 .. n
  BY <1>4, <1>5, <1>7, ListIs
<1>11. \A i \in 1 .. Len(s) : /\ DOMAIN s[i].blocks = 1 .. Len(s[i].blocks)
                              /\ \A k \in DOMAIN s[i].blocks : s[i].blocks[k].type # "pins"
  BY ListIs DEF Plain, IsTurn
<1>12. PinBlocks(t) = {<<u, n + 1>>}
  <2> DEFINE P(i) == {i} \X {k \in DOMAIN t[i].blocks : t[i].blocks[k].type = "pins"}
  <2>1. PinBlocks(t) = UNION {P(i) : i \in 1 .. Len(s)}
    BY <1>10 DEF PinBlocks
  <2>2. \A i \in 1 .. Len(s) : i # u => P(i) = {}
    BY <1>8, <1>11
  <2>3. P(u) = {<<u, n + 1>>}
    <3>1. {k \in DOMAIN t[u].blocks : t[u].blocks[k].type = "pins"} = {n + 1}
      <4>1. ASSUME NEW k \in 1 .. n + 1, k # n + 1 PROVE blocks[k].type # "pins"
        <5>1. k \in 1 .. n
          BY <1>4, <4>1
        <5> QED
          BY <1>5, <1>10, <1>11, <5>1
      <4>2. n + 1 \in 1 .. n + 1
        BY <1>4
      <4> QED
        BY <1>3, <1>5, <1>6, <1>8, <1>10, <4>1, <4>2
    <3> QED
      BY <3>1
  <2> HIDE DEF P
  <2> QED
    BY <2>1, <2>2, <2>3
<1>13. Cardinality(PinBlocks(t)) = 1
  BY <1>12, FS_Singleton
<1>14. ShownOf(s) \subseteq ShownOf(t)
  <2>1. \A i \in 1 .. Len(s) : Shown(s[i]) \subseteq Shown(t[i])
    <3>1. Shown(m) \subseteq Shown(w)
      <4> SUFFICES ASSUME NEW x \in Shown(m) PROVE x \in Shown(w)
        OBVIOUS
      <4>1. PICK k \in 1 .. n : x \in BlockShows(m.blocks[k], m.at)
        BY <1>10, ShownBlocks
      <4>2. k \in DOMAIN w.blocks /\ w.blocks[k] = m.blocks[k]
        BY <1>4, <1>5, <1>6, <1>10
      <4> QED
        BY <1>6, <4>1, <4>2, ShownBlocks
    <3> QED
      BY <1>8, <3>1
  <2> QED
    BY <1>1, <1>10, <2>1 DEF ShownOf
<1>15. ASSUME NEW i \in 1 .. Len(s), NEW k \in Commands(t[i])
       PROVE  k \in Commands(s[i]) /\ t[i].blocks[k] = s[i].blocks[k]
  <2>1. CASE i # u
    BY <1>8, <2>1, <1>15
  <2>2. CASE i = u
    <3>1. k \in 1 .. n + 1 /\ m.role = "user" /\ HasCommand(blocks[k])
      BY <1>6, <1>8, <1>10, <1>15, <2>2 DEF Commands
    <3>2. k # n + 1
      BY <1>3, <1>5, <3>1 DEF HasCommand
    <3>3. k \in 1 .. n /\ blocks[k] = m.blocks[k]
      BY <1>4, <1>5, <3>1, <3>2
    <3>4. k \in Commands(m)
      BY <1>10, <3>1, <3>3 DEF Commands
    <3> QED
      BY <1>6, <1>8, <2>2, <3>3, <3>4
  <2> QED
    BY <2>1, <2>2
<1>16. SaidAt(t, s, u, b)
  BY <1>7, <1>9, <1>13, <1>14, <1>15 DEF SaidAt
<1> QED
  BY <1>2, <1>16 DEF b

(* What PinsSaidOnce says of a request. *)
SaidIn(messages, said) ==
  /\ said # <<>> => LastBlock(messages[Len(messages)]) = PinsBlock(said)
  /\ Cardinality(PinBlocks(messages)) = (IF said = <<>> THEN 0 ELSE 1)
  /\ \A i \in DOMAIN messages : \A k \in Commands(messages[i]) :
       IsBlank(messages[i].blocks[k]) /\ HasMark(messages[i].blocks[k])

(* The last pass loses nothing and says the list once. *)
LEMMA PinsArrive ==
  ASSUME NEW r, OnTheWay(r), NEW list, NEW messages, NEW system, Arrives(r, messages, system)
  PROVE  LET q == [r EXCEPT !.messages = SayPins(@, list)]
         IN SaidIn(q.messages, PinBlock(list)) /\ Arrives(q, messages, system)
<1> DEFINE s == r.messages
           said == PinBlock(list)
           t == SayPins(s, list)
           q == [r EXCEPT !.messages = t]
<1>1. AllTidy(s) /\ CanAppendPinBlock(s) /\ {"messages", "system", "tools"} \subseteq DOMAIN r
  BY DEF OnTheWay
<1>2. q = [r EXCEPT !.messages = SayPins(@, list)] /\ q.messages = t
        /\ q.system = r.system /\ q.tools = r.tools
  BY <1>1
<1> HIDE DEF q
<1>3. Plain(s)
  BY <1>1 DEF AllTidy, IsTidy, IsWire, Plain
<1>4. Len(s) \in 1 .. Len(s) /\ DOMAIN s = 1 .. Len(s)
  BY <1>1, NotEmpty, ListIs DEF AllTidy, CanAppendPinBlock
<1>5. ASSUME NEW i \in 1 .. Len(s), NEW k \in Commands(s[i])
      PROVE  IsBlank(s[i].blocks[k]) /\ HasMark(s[i].blocks[k])
  <2>1. IsTidy(s[i]) /\ k \in DOMAIN s[i].blocks /\ s[i].role = "user" /\ HasCommand(s[i].blocks[k])
    BY <1>1, <1>5 DEF AllTidy, Commands
  <2>2. k \in 1 .. Len(s[i].blocks)
    BY <2>1, ListIs DEF IsTidy, IsTurn
  <2> QED
    BY <2>1, <2>2 DEF IsTidy, IsWire, CommandStays
<1>6. CASE said = <<>>
  <2>1. t = s
    BY <1>6 DEF SayPins, AppendPinBlock
  <2>2. SaidIn(s, said)
    BY <1>3, <1>4, <1>5, <1>6, PlainPins DEF SaidIn
  <2>3. Arrives(q, messages, system)
    BY <1>2, <2>1, ArrivesStill
  <2> QED
    BY <1>2, <2>1, <2>2, <2>3
<1>7. CASE said # <<>>
  <2>1. t = [s EXCEPT ![Len(s)].blocks = Append(@, PinsBlock(said))]
    BY <1>1, <1>7 DEF SayPins, AppendPinBlock
  <2> HIDE DEF t, said
  <2>2. SaidAt(t, s, Len(s), PinsBlock(said))
    BY <1>3, <1>4, <2>1, OneSaid
  <2>3. DOMAIN t = 1 .. Len(s)
    BY <2>2, ListIs DEF SaidAt
  <2>4. SaidIn(t, said)
    <3>1. LastBlock(t[Len(t)]) = PinsBlock(said) /\ Cardinality(PinBlocks(t)) = 1
      BY <2>2 DEF SaidAt
    <3>2. ASSUME NEW i \in DOMAIN t, NEW k \in Commands(t[i])
          PROVE  IsBlank(t[i].blocks[k]) /\ HasMark(t[i].blocks[k])
      <4>1. i \in 1 .. Len(s)
        BY <2>3
      <4>2. k \in Commands(s[i]) /\ t[i].blocks[k] = s[i].blocks[k]
        BY <2>2, <3>2, <4>1 DEF SaidAt
      <4> QED
        BY <1>5, <4>1, <4>2
    <3> QED
      BY <1>7, <3>1, <3>2 DEF SaidIn
  <2>5. Arrives(q, messages, system)
    <3>1. ShownOf(s) \subseteq ShownOf(q.messages)
      BY <1>2, <2>2 DEF SaidAt
    <3> QED
      BY <1>2, <3>1, ArrivesStill
  <2> QED
    BY <1>2, <2>4, <2>5 DEF said
<1> QED
  BY <1>6, <1>7

(* For the OpenAI endpoints the commands go in place: *)
LEMMA InPlace ==
  ASSUME NEW m, IsOwnTurn(m)
  PROVE  LET n == StripInPlace(m)
         IN /\ IsTurn(n) /\ Commands(n) = {}
            /\ \A k \in 1 .. Len(n.blocks) : n.blocks[k].type # "pins"
<1> DEFINE n == StripInPlace(m)
           c(k) == IF m.blocks[k].type = "text" THEN Cleaned(m.blocks[k]) ELSE m.blocks[k]
           blocks == [k \in DOMAIN m.blocks |-> c(k)]
<1>1. IsTurn(m) /\ DOMAIN m.blocks = 1 .. Len(m.blocks) /\ Len(m.blocks) \in Nat
  BY ListIs DEF IsOwnTurn, IsTurn
<1>2. CASE m.role = "assistant"
  <2>1. n = m
    BY <1>2 DEF StripInPlace
  <2>2. Commands(m) = {}
    BY <1>2 DEF Commands
  <2>3. \A k \in 1 .. Len(m.blocks) : m.blocks[k].type # "pins"
    BY DEF IsOwnTurn, IsOwn
  <2> QED
    BY <1>1, <2>1, <2>2, <2>3
<1>3. CASE m.role # "assistant"
  <2>1. n = [m EXCEPT !.blocks = blocks]
    BY <1>1, <1>3 DEF StripInPlace, IsTurn
  <2>2. blocks = [k \in 1 .. Len(m.blocks) |-> blocks[k]]
          /\ \A k \in 1 .. Len(m.blocks) : blocks[k] = c(k)
    BY <1>1
  <2> HIDE DEF blocks
  <2>3. IsList(blocks) /\ Len(blocks) = Len(m.blocks)
    BY <1>1, <2>2, IsListFrom
  <2>4. n.blocks = blocks /\ DOMAIN n = DOMAIN m
    BY <1>1, <2>1 DEF IsTurn
  <2> HIDE DEF n
  <2>5. ASSUME NEW k \in 1 .. Len(m.blocks)
        PROVE  blocks[k].type # "pins" /\ ~HasCommand(blocks[k])
    <3> DEFINE b == m.blocks[k]
    <3>1. IsLined(b) /\ b.type # "pins"
      BY DEF IsOwnTurn, IsOwn
    <3>2. blocks[k] = IF b.type = "text" THEN Cleaned(b) ELSE b
      BY <2>2
    <3> HIDE DEF b
    <3>3. CASE b.type = "text"
      <4>1. ~HasCommand(Cleaned(b))
        BY <3>1, <3>3, CleanedSays DEF IsLined
      <4>2. Cleaned(b).type = b.type
        BY <3>1, TextSet DEF IsLined
      <4> QED
        BY <3>1, <3>2, <3>3, <4>1, <4>2
    <3>4. CASE b.type # "text"
      BY <3>1, <3>2, <3>4 DEF HasCommand
    <3> QED
      BY <3>3, <3>4
  <2>6. IsTurn(n)
    BY <1>1, <2>3, <2>4 DEF IsTurn
  <2>7. DOMAIN n.blocks = 1 .. Len(m.blocks)
    BY <2>3, <2>4, ListIs
  <2>8. Commands(n) = {}
    BY <2>4, <2>5, <2>7 DEF Commands
  <2> QED
    BY <2>3, <2>4, <2>5, <2>6, <2>8 DEF n
<1> QED
  BY <1>2, <1>3

(* none is left, and the list is said once. *)
LEMMA RelocateSays ==
  ASSUME NEW messages, AllOwn(messages), CanAppendPinBlock(messages), NEW system,
         PinBlock(FoldPins(messages, system)) # <<>>
  PROVE  LET wire == RelocateOpenAIPins(messages, system)
         IN /\ Cardinality(PinBlocks(wire)) = 1
            /\ \A i \in DOMAIN wire : Commands(wire[i]) = {}
<1> DEFINE said == PinBlock(FoldPins(messages, system))
           users == Users(messages)
           target == CHOOSE i \in users : \A j \in users : j <= i
           clean == [i \in DOMAIN messages |-> StripInPlace(messages[i])]
           t == [clean EXCEPT ![target].blocks = Append(@, PinsBlock(said))]
<1>1. /\ IsList(messages) /\ DOMAIN messages = 1 .. Len(messages)
      /\ Len(messages) \in Nat /\ Len(messages) \in 1 .. Len(messages)
  BY ListIs, NotEmpty DEF AllOwn, CanAppendPinBlock
<1>2. users \subseteq 1 .. Len(messages) /\ users # {}
  BY <1>1 DEF Users, CanAppendPinBlock
<1>3. RelocateOpenAIPins(messages, system) = t
  BY <1>2 DEF RelocateOpenAIPins
<1> HIDE DEF users, said
<1>4. \E i \in users : \A j \in users : j <= i
  BY <1>1, <1>2, LastPlace
<1>5. target \in 1 .. Len(messages)
  BY <1>2, <1>4
<1> HIDE DEF target
<1>6. clean = [i \in 1 .. Len(messages) |-> clean[i]]
        /\ \A i \in 1 .. Len(messages) : clean[i] = StripInPlace(messages[i])
  BY <1>1
<1> HIDE DEF clean
<1>7. IsList(clean) /\ Len(clean) = Len(messages)
  BY <1>1, <1>6, IsListFrom
<1>8. \A i \in 1 .. Len(messages) :
        /\ IsTurn(clean[i]) /\ Commands(clean[i]) = {}
        /\ \A k \in 1 .. Len(clean[i].blocks) : clean[i].blocks[k].type # "pins"
  BY <1>6, InPlace DEF AllOwn
<1>9. Plain(clean)
  BY <1>7, <1>8 DEF Plain
<1>10. SaidAt(t, clean, target, PinsBlock(said))
  BY <1>5, <1>7, <1>9, OneSaid
<1> HIDE DEF t
<1>11. DOMAIN t = 1 .. Len(clean)
  BY <1>10, ListIs DEF SaidAt
<1>12. /\ Cardinality(PinBlocks(t)) = 1
       /\ \A i \in DOMAIN t : Commands(t[i]) = {}
  BY <1>7, <1>8, <1>10, <1>11 DEF SaidAt
<1> QED
  BY <1>3, <1>12
-----------------------------------------------------------------------------
(* What the client has said, and what it is answered.                        *)

(* The blocks of a turn are the client's own, and a turn of the user is      *)
(* answered before the next.                                                 *)
OwnBlocks(blocks, at) == IsList(blocks) /\ \A k \in 1 .. Len(blocks) : IsOwn(blocks[k], at)
OwnTalk(messages) == AllOwn(messages) /\ TurnsAnswered(messages)

(* One block is. *)
LEMMA OneOwn ==
  ASSUME NEW b, NEW at, IsOwn(b, at)
  PROVE  OwnBlocks(<<b>>, at)
<1> DEFINE s == <<b>>
<1>1. IsList(s) /\ Len(s) = 1 /\ s[1] = b
  BY ListOne
<1> HIDE DEF s
<1>2. OwnBlocks(s, at)
  BY <1>1 DEF OwnBlocks
<1> QED
  BY <1>2 DEF s

(* A text of lines is a block of the client's own, *)
LEMMA TextOwn ==
  ASSUME NEW b, {"type", "cc", "lines", "head", "rem"} \subseteq DOMAIN b, b.type = "text",
         IsList(b.lines), IsList(b.head), NEW at
  PROVE  IsOwn(b, at)
BY DEF IsOwn, IsLined, HasLines, IsPlaced, NoPage

(* so is an image or a call, *)
LEMMA OtherOwn ==
  ASSUME NEW b, {"type", "cc"} \subseteq DOMAIN b, b.type \in {"image", "call"}, NEW at
  PROVE  IsOwn(b, at)
BY DEF IsOwn, IsLined, IsPlaced, NoPage

(* and the answer of a tool. *)
LEMMA ResultOwn ==
  ASSUME NEW parts \in Answers, NEW error
  PROVE  IsOwn(ToolResult(parts, error), Len(conv) + 1)
<1> DEFINE b == ToolResult(parts, error)
           at == Len(conv) + 1
           P == [type : {"text", "image"}, cc : {NoMark, "local"}]
<1>1. /\ {"type", "cc", "at", "parts"} \subseteq DOMAIN b
      /\ b.type = "result" /\ b.at = at /\ b.parts = parts
  BY DEF ToolResult
<1>2. parts \in Seq(P)
  BY ConversationAssumption
<1>3. IsList(parts)
  BY <1>2 DEF IsList
<1>p. \A x \in P : x.type # "page"
  OBVIOUS
<1> HIDE DEF b, at, P
<1>4. ASSUME NEW p \in 1 .. Len(parts) PROVE parts[p].type # "page"
  <2>1. parts[p] \in P
    BY <1>2
  <2> QED
    BY <1>p, <2>1
<1>5. ResultPages(parts, at)
  BY <1>4 DEF ResultPages
<1>6. IsOwn(b, at)
  BY <1>1, <1>3, <1>4, <1>5 DEF IsOwn, IsLined, IsPlaced, IsResult, NoPage
<1> QED
  BY <1>6 DEF b, at

(* What the user may say next. *)
LEMMA UserOwn ==
  ASSUME NEW blocks \in UserTurns
  PROVE  OwnBlocks(blocks, Len(conv) + 1)
<1> DEFINE at == Len(conv) + 1
<1>1. CASE blocks \in Turns
  <2>1. blocks \in Seq(TextBlocks \cup Images)
    BY <1>1, ConversationAssumption
  <2>2. IsList(blocks)
    BY <2>1 DEF IsList
  <2>3. ASSUME NEW b \in TextBlocks PROVE IsOwn(b, at)
    <3>1. b \in [type : {"text"}, rem : BOOLEAN, head : Seq(Lines), lines : Seq(Lines),
                 cc : {NoMark, "local"}]
      BY DEF TextBlocks
    <3>2. {"type", "cc", "lines", "head", "rem"} \subseteq DOMAIN b /\ b.type = "text"
      BY <3>1
    <3>3. IsList(b.lines) /\ IsList(b.head)
      BY <3>1 DEF IsList
    <3> QED
      BY <3>2, <3>3, TextOwn
  <2>4. ASSUME NEW b \in Images PROVE IsOwn(b, at)
    <3>1. {"type", "cc"} \subseteq DOMAIN b /\ b.type \in {"image", "call"}
      BY DEF Images
    <3> QED
      BY <3>1, OtherOwn
  <2>5. \A k \in 1 .. Len(blocks) : blocks[k] \in TextBlocks \cup Images
    BY <2>1
  <2> HIDE DEF at
  <2>6. OwnBlocks(blocks, at)
    BY <2>2, <2>3, <2>4, <2>5 DEF OwnBlocks
  <2> QED
    BY <2>6 DEF at
<1>2. CASE blocks \notin Turns
  <2>1. PICK parts \in Answers, error \in BOOLEAN : blocks = <<ToolResult(parts, error)>>
    BY <1>2 DEF UserTurns
  <2>2. OwnBlocks(<<ToolResult(parts, error)>>, Len(conv) + 1)
    BY ResultOwn, OneOwn
  <2> QED
    BY <2>1, <2>2
<1> QED
  BY <1>1, <1>2

(* One turn more, by the one whose turn it is. *)
LEMMA OwnAdded ==
  ASSUME NEW messages, OwnTalk(messages), NEW role, NEW at, NEW blocks, OwnBlocks(blocks, at),
         messages # <<>> /\ role = "user" => messages[Len(messages)].role = "assistant",
         role \in {"user", "assistant"}
  PROVE  LET m == [role |-> role, at |-> at, blocks |-> blocks]
         IN /\ OwnTalk(Append(messages, m))
            /\ Append(messages, m) # <<>>
            /\ Append(messages, m)[Len(Append(messages, m))].role = role
<1> DEFINE m == [role |-> role, at |-> at, blocks |-> blocks]
           t == Append(messages, m)
           n == Len(messages)
<1>1. {"role", "at", "blocks"} \subseteq DOMAIN m /\ m.role = role /\ m.at = at /\ m.blocks = blocks
  OBVIOUS
<1>2. IsList(messages) /\ n \in Nat
  BY ListIs DEF OwnTalk, AllOwn
<1> HIDE DEF m
<1>3. /\ IsList(t) /\ Len(t) = n + 1 /\ t[n + 1] = m
      /\ \A i \in 1 .. n : t[i] = messages[i]
  BY <1>2, ListAppend
<1>4. t # <<>>
  BY <1>2, <1>3, NotEmpty
<1>5. messages # <<>> <=> n > 0
  BY <1>2, NotEmpty
<1> HIDE DEF t, n
<1>6. IsOwnTurn(m)
  BY <1>1 DEF IsOwnTurn, IsTurn, OwnBlocks
<1>7. \A i \in 1 .. n : IsOwnTurn(messages[i])
  BY DEF OwnTalk, AllOwn, n
<1>8. ASSUME NEW i \in 1 .. Len(t) PROVE IsOwnTurn(t[i])
  <2>1. i \in 1 .. n \/ i = n + 1
    BY <1>2, <1>3
  <2> QED
    BY <1>3, <1>6, <1>7, <2>1
<1>9. AllOwn(t)
  BY <1>3, <1>8 DEF AllOwn
<1>10. ASSUME NEW i \in 1 .. Len(t) - 1, t[i].role = "user"
       PROVE  t[i + 1].role = "assistant"
  <2>1. i \in 1 .. n /\ t[i] = messages[i] /\ messages[i].role = "user"
    BY <1>2, <1>3, <1>10
  <2>2. CASE i = n
    <3>1. messages # <<>> /\ messages[n].role = "user"
      BY <1>2, <1>5, <2>1, <2>2
    <3>2. role = "assistant"
      BY <3>1 DEF n
    <3> QED
      BY <1>1, <1>3, <2>2, <3>2
  <2>3. CASE i # n
    <3>1. i \in 1 .. n - 1 /\ i + 1 \in 1 .. n
      BY <1>2, <2>1, <2>3
    <3>2. messages[i + 1].role = "assistant"
      BY <2>1, <3>1 DEF OwnTalk, TurnsAnswered, n
    <3> QED
      BY <1>3, <3>1, <3>2
  <2> QED
    BY <2>2, <2>3
<1>11. TurnsAnswered(t)
  BY <1>10 DEF TurnsAnswered
<1>12. t[Len(t)].role = role
  BY <1>1, <1>3
<1>13. OwnTalk(t)
  BY <1>9, <1>11 DEF OwnTalk
<1> QED
  BY <1>4, <1>12, <1>13 DEF t, m

-----------------------------------------------------------------------------
(* Nothing is lost on the way.                                               *)

(* The system prompt and the tools, as the client has them. *)
FullTools(tools) ==
  \A k \in DOMAIN tools : {"name", "doc"} \subseteq DOMAIN tools[k] /\ tools[k].doc = "full"
OwnSetup == OwnFiles(setup.system) /\ FullTools(setup.tools)

(* The conversation: it is the user's turn, or there is a request open.      *)
OwnConv ==
  /\ OwnTalk(conv)
  /\ pc = "client" => (conv = <<>> \/ conv[Len(conv)].role = "assistant")
  /\ pc # "client" => Forwarded(conv)

(* The request before it is stripped, and after; nothing of the client's has *)
(* become a page before the slab, and only the first turn has pages when the *)
(* history is looked at.                                                     *)
OnWay == {"slab", "early", "history", "results", "image", "pins"}
StripInv == pc = "strip" => req = Original
WayInv == pc \in OnWay => OnTheWay(req) /\ pins = FoldPins(conv, setup.system)
FreshInv ==
  /\ pc \in {"slab", "early"} => \A i \in 1 .. Len(req.messages) : NoPages(req.messages[i])
  /\ pc = "slab" => AreFiles(req.system) /\ AreTools(req.tools)
  /\ pc = "history" => PagesFirst(req.messages)

(* Whatever the passes did so far, everything is still there; the list of    *)
(* pins is there at the end.                                                 *)
ThereInv == pc \in OnWay \cup {"done"} => Arrives(req, conv, setup.system)
DoneInv ==
  pc = "done" /\ req # Original => SaidIn(req.messages, PinBlock(FoldPins(conv, setup.system)))

ArriveInv == OwnSetup /\ OwnConv /\ StripInv /\ WayInv /\ FreshInv /\ ThereInv /\ DoneInv

(* A block of the system prompt. *)
LEMMA SystemOwn ==
  ASSUME NEW system \in Systems
  PROVE  OwnFiles(system)
<1>1. system \in Seq(SystemBlocks)
  BY ConversationAssumption
<1>2. IsList(system)
  BY <1>1 DEF IsList
<1>3. \A k \in 1 .. Len(system) : system[k] \in SystemBlocks
  BY <1>1
<1>4. ASSUME NEW b \in SystemBlocks PROVE OwnFile(b)
  <2>1. /\ b \in [type : {"text"}, rem : BOOLEAN, head : Seq(Lines), lines : Seq(Lines),
                  has : SUBSET {"static", "dynamic", "env", "identity", "billing"},
                  cc : {NoMark, "local", "global"}]
        /\ b.has # {} => StripLines(b.lines) # <<>>
    BY DEF SystemBlocks
  <2>2. {"type", "cc", "has", "lines", "head", "rem"} \subseteq DOMAIN b
    BY <2>1
  <2>3. b.has \subseteq Kinds
    BY <2>1 DEF Kinds
  <2>4. IsList(b.lines) /\ IsList(b.head)
    BY <2>1 DEF IsList
  <2>5. b.has # {} => StripLines(b.lines) # <<>>
    BY <2>1
  <2> QED
    BY <2>2, <2>3, <2>4, <2>5 DEF OwnFile, IsLined, HasLines, HasKinds
<1> QED
  BY <1>2, <1>3, <1>4 DEF OwnFiles

(* The tools. *)
LEMMA ToolsFull ==
  ASSUME NEW tools \in Tools
  PROVE  FullTools(tools)
<1> DEFINE T == [name : STRING, custom : BOOLEAN, deferred : BOOLEAN, doc : {"full"}]
<1>1. tools \in Seq(T)
  BY ConversationAssumption
<1>2. \A t \in T : {"name", "doc"} \subseteq DOMAIN t /\ t.doc = "full"
  OBVIOUS
<1> HIDE DEF T
<1>3. \A k \in DOMAIN tools : tools[k] \in T
  BY <1>1
<1> QED
  BY <1>2, <1>3 DEF FullTools

(* At first nothing is said. *)
LEMMA ArriveStarts == ConversationInit => ArriveInv
<1> SUFFICES ASSUME ConversationInit
             PROVE  ArriveInv
  OBVIOUS
<1>1. conv = <<>> /\ pc = "client" /\ setup.system \in Systems /\ setup.tools \in Tools
  BY DEF ConversationInit
<1>2. OwnSetup
  BY <1>1, SystemOwn, ToolsFull DEF OwnSetup
<1>3. OwnTalk(<<>>)
  BY ListEmpty DEF OwnTalk, AllOwn, TurnsAnswered
<1>4. OwnConv
  BY <1>1, <1>3 DEF OwnConv
<1>5. StripInv /\ WayInv /\ FreshInv /\ ThereInv /\ DoneInv
  BY <1>1 DEF StripInv, WayInv, FreshInv, ThereInv, DoneInv, OnWay
<1> QED
  BY <1>2, <1>4, <1>5 DEF ArriveInv

(* The user speaks: the proxy answers, or opens a request. *)
LEMMA ArriveSpeak == ArriveInv /\ SaidInv' /\ Speak => ArriveInv'
<1> SUFFICES ASSUME ArriveInv, SaidInv', Speak
             PROVE  ArriveInv'
  OBVIOUS
<1>1. PICK blocks \in UserTurns : Received(Append(conv, Message("user", blocks)))
  BY DEF Speak
<1> DEFINE at == Len(conv) + 1
           messages == Append(conv, [role |-> "user", at |-> at, blocks |-> blocks])
<1>2. pc = "client" /\ setup' = setup
  BY DEF Speak
<1>3. OwnTalk(conv) /\ (conv = <<>> \/ conv[Len(conv)].role = "assistant") /\ OwnSetup
  BY <1>2 DEF ArriveInv, OwnConv
<1>4. Received(messages)
  BY <1>1 DEF Message
<1>5. OwnBlocks(blocks, at)
  BY UserOwn
<1> HIDE DEF at
<1>6. OwnTalk(messages) /\ messages # <<>> /\ messages[Len(messages)].role = "user"
  BY <1>3, <1>5, OwnAdded
<1> HIDE DEF messages
<1>7. OwnSetup'
  BY <1>2, <1>3 DEF OwnSetup
<1>8. CASE IsPinOnlyRequest(messages)
  <2> DEFINE b == Text(<<>>, <<PinReply>>, NoMark)
             n == Len(messages) + 1
  <2>1. conv' = Append(messages, [role |-> "assistant", at |-> n, blocks |-> <<b>>])
    BY <1>4, <1>8 DEF Received
  <2>2. UNCHANGED transformVars
    BY <1>4, <1>8 DEF Received
  <2>3. /\ {"type", "cc", "lines", "head", "rem"} \subseteq DOMAIN b /\ b.type = "text"
        /\ b.lines = <<PinReply>> /\ b.head = <<>>
    BY DEF Text
  <2> HIDE DEF b, n
  <2>4. OwnBlocks(<<b>>, n)
    BY <2>3, ListOne, ListEmpty, TextOwn, OneOwn
  <2>5. OwnTalk(conv') /\ conv'[Len(conv')].role = "assistant"
    BY <1>6, <2>1, <2>4, OwnAdded
  <2>6. pc' = "client"
    BY <1>2, <2>2 DEF transformVars
  <2>7. OwnConv'
    BY <2>5, <2>6 DEF OwnConv
  <2>8. StripInv' /\ WayInv' /\ FreshInv' /\ ThereInv' /\ DoneInv'
    BY <2>6 DEF StripInv, WayInv, FreshInv, ThereInv, DoneInv, OnWay
  <2> QED
    BY <1>7, <2>7, <2>8 DEF ArriveInv
<1>9. CASE ~IsPinOnlyRequest(messages)
  <2>1. /\ conv' = messages /\ pc' = "strip"
        /\ req' = [messages |-> messages, system |-> setup.system, tools |-> setup.tools]
    BY <1>4, <1>9 DEF Received
  <2>2. SaysWell(conv')
    BY DEF SaidInv
  <2>3. Forwarded(conv')
    BY <1>6, <1>9, <2>1, <2>2 DEF Forwarded, OwnTalk, CanAppendPinBlock
  <2>4. OwnConv'
    BY <1>6, <2>1, <2>3 DEF OwnConv
  <2>5. StripInv'
    BY <1>2, <2>1 DEF StripInv, Original
  <2>6. WayInv' /\ FreshInv' /\ ThereInv' /\ DoneInv'
    BY <2>1 DEF WayInv, FreshInv, ThereInv, DoneInv, OnWay
  <2> QED
    BY <1>7, <2>4, <2>5, <2>6 DEF ArriveInv
<1> QED
  BY <1>8, <1>9

(* What a pass must show. *)
LEMMA PassStep ==
  ASSUME ArriveInv, pc # "client", pc' \in OnWay \cup {"done"}, UNCHANGED <<conv, setup>>,
         WayInv', FreshInv', ThereInv', DoneInv'
  PROVE  ArriveInv'
<1>1. pc' # "client" /\ pc' # "strip"
  BY DEF OnWay
<1>2. OwnSetup' /\ OwnConv'
  BY <1>1 DEF ArriveInv, OwnSetup, OwnConv
<1>3. StripInv'
  BY <1>1 DEF StripInv
<1> QED
  BY <1>2, <1>3 DEF ArriveInv

(* The same for those between the first and the last. *)
LEMMA WayStep ==
  ASSUME ArriveInv, pc \in OnWay, pc' \in OnWay, UNCHANGED <<conv, setup, pins>>,
         OnTheWay(req'), Arrives(req', conv, setup.system), FreshInv'
  PROVE  ArriveInv'
<1>1. pc # "client" /\ pc' # "done"
  BY DEF OnWay
<1>2. WayInv'
  BY DEF ArriveInv, WayInv
<1>3. ThereInv' /\ DoneInv'
  BY <1>1 DEF ThereInv, DoneInv
<1> QED
  BY <1>1, <1>2, <1>3, PassStep

(* What is known of a request on its way. *)
LEMMA WayIs ==
  ASSUME ArriveInv, pc \in OnWay
  PROVE  OnTheWay(req) /\ Arrives(req, conv, setup.system) /\ IsList(req.messages)
BY DEF ArriveInv, WayInv, ThereInv, OnTheWay, AllTidy

(* A request that is left as it is. *)
LEMMA WaySame ==
  ASSUME ArriveInv, pc \in OnWay, pc' \in OnWay, UNCHANGED <<req, conv, setup, pins>>,
         pc' \in {"slab", "history"} => pc' = pc, pc' = "early" => pc = "slab"
  PROVE  ArriveInv'
<1>1. OnTheWay(req) /\ Arrives(req, conv, setup.system) /\ FreshInv
  BY WayIs DEF ArriveInv
<1>2. FreshInv'
  BY <1>1 DEF FreshInv
<1> QED
  BY <1>1, <1>2, WayStep

(* StripPass: the commands go, and nothing else. *)
LEMMA ArriveStrip == ArriveInv /\ StripPass /\ UNCHANGED <<conv, setup>> => ArriveInv'
<1> SUFFICES ASSUME ArriveInv, StripPass, UNCHANGED <<conv, setup>>
             PROVE  ArriveInv'
  OBVIOUS
<1>1. pc = "strip" /\ pc' = "slab"
  BY DEF StripPass
<1>2. /\ req = [messages |-> conv, system |-> setup.system, tools |-> setup.tools]
      /\ Forwarded(conv) /\ OwnFiles(setup.system) /\ FullTools(setup.tools)
  BY <1>1 DEF ArriveInv, StripInv, Original, OwnConv, OwnSetup
<1>3. CanAppendPinBlock(req.messages)
  BY <1>2 DEF Forwarded
<1> DEFINE t == StripPinCommands(conv)
           system == StripSystem(setup.system)
<1>4. pins' = FoldPins(conv, setup.system) /\ req' = [messages |-> t, system |-> system,
                                                     tools |-> setup.tools]
  BY <1>2, <1>3 DEF StripPass
<1>5. /\ {"messages", "system", "tools"} \subseteq DOMAIN req'
      /\ req'.messages = t /\ req'.system = system /\ req'.tools = setup.tools
  BY <1>4
<1>6. AllTidy(t) /\ CanAppendPinBlock(t) /\ \A i \in 1 .. Len(t) : NoPages(t[i])
  BY <1>2, KeptGoes
<1>7. AreFiles(system) /\ AllKinds(setup.system) \subseteq AllKinds(system)
  BY <1>2, StripsFiles
<1>8. KeptTexts(conv) = UNION {TextOf(t[i]) : i \in DOMAIN t}
  BY DEF KeptTexts
<1> HIDE DEF t, system
<1>9. OnTheWay(req')
  BY <1>5, <1>6 DEF OnTheWay
<1>10. WayInv'
  BY <1>4, <1>9 DEF WayInv
<1>11. AreTools(setup.tools)
  BY <1>2 DEF FullTools, AreTools
<1>12. FreshInv'
  BY <1>1, <1>5, <1>6, <1>7, <1>11 DEF FreshInv
<1>13. Arrives(req', conv, setup.system)
  <2>1. \A i \in DOMAIN t : TextOf(t[i]) \subseteq Shown(t[i])
    BY DEF Shown
  <2>2. KeptTexts(conv) \subseteq ShownOf(t)
    BY <1>8, <2>1 DEF ShownOf
  <2>3. KeptTexts(conv) \subseteq ShownIn(req')
    BY <1>5, <2>2, ShownMessages
  <2>4. SystemKinds(setup.system) \subseteq SystemKinds(req'.system)
    BY <1>5, <1>7, SystemItems
  <2>5. ToolsShown(req')
    BY <1>2, <1>5 DEF ToolsShown, FullTools
  <2> QED
    BY <2>3, <2>4, <2>5 DEF Arrives
<1>14. ThereInv' /\ DoneInv'
  BY <1>1, <1>13 DEF ThereInv, DoneInv
<1>15. pc # "client" /\ pc' \in OnWay \cup {"done"}
  BY <1>1 DEF OnWay
<1> QED
  BY <1>10, <1>12, <1>14, <1>15, PassStep

(* Slab. *)
LEMMA ArriveSlab ==
  ASSUME NEW r \in Renderings
  PROVE  ArriveInv /\ Slab(r) /\ UNCHANGED <<conv, setup>> => ArriveInv'
<1> SUFFICES ASSUME ArriveInv, Slab(r), UNCHANGED <<conv, setup>>
             PROVE  ArriveInv'
  OBVIOUS
<1>1. /\ pc = "slab" /\ pc' = "history" /\ UNCHANGED pins /\ req' = WithSlab(req, r.pages)
  BY DEF Slab
<1>2. pc \in OnWay /\ pc' \in OnWay
  BY <1>1 DEF OnWay
<1>3. OnTheWay(req) /\ Arrives(req, conv, setup.system)
  BY <1>2, WayIs
<1>4. /\ AreFiles(req.system) /\ AreTools(req.tools)
      /\ \A i \in 1 .. Len(req.messages) : NoPages(req.messages[i])
  BY <1>1 DEF ArriveInv, FreshInv
<1> DEFINE n == r.pages
<1>5. n \in Nat \ {0}
  BY ImageAssumption
<1>6. req' = WithSlab(req, n)
  BY <1>1
<1> HIDE DEF n
<1>7. OnTheWay(req') /\ PagesFirst(req'.messages) /\ Arrives(req', conv, setup.system)
  BY <1>3, <1>4, <1>5, <1>6, SlabArrives
<1>8. FreshInv'
  BY <1>1, <1>7 DEF FreshInv
<1> QED
  BY <1>1, <1>2, <1>7, <1>8, WayStep

(* CollapseHistory: the turns that close have no pages. *)
LEMMA ArriveCollapse ==
  ASSUME NEW to, NEW r \in Renderings, NEW carry
  PROVE  Inv /\ ArriveInv /\ CollapseHistory(to, r, carry) /\ UNCHANGED <<conv, setup>>
           => ArriveInv'
<1> SUFFICES ASSUME Inv, ArriveInv, CollapseHistory(to, r, carry), UNCHANGED <<conv, setup>>
             PROVE  ArriveInv'
  OBVIOUS
<1> DEFINE from == ProtectedHead
           anchor == pc = "history" /\ carry > 0
           n == r.pages
           layout == LayoutOf(req, from, to, n)
           len == Len(req.messages)
<1>1. pc \in {"history", "early"} /\ pc' = AfterHistory /\ UNCHANGED pins
  BY DEF CollapseHistory
<1>2. pc \in OnWay /\ pc' \in {"results", "pins"}
  BY <1>1 DEF AfterHistory, OnWay
<1>3. to \in from + 1 .. len - 1 /\ carry \in 0 .. n
  BY DEF CollapseHistory
<1>4. req' = [req EXCEPT !.messages = IF anchor THEN Anchored(layout, from, carry) ELSE layout]
  BY DEF CollapseHistory, LayoutOf
<1>5. OnTheWay(req) /\ Arrives(req, conv, setup.system) /\ IsList(req.messages)
  BY <1>2, WayIs
<1>6. IsRequest(req) /\ IsMessages(req.messages)
  BY <1>1 DEF Inv, OpenInv, RequestFits, IsRequest
<1>7. from \in Nat /\ len \in Nat
  BY <1>5, <1>6, HeadIsNat, ListIs
<1>8. n \in Nat \ {0} /\ anchor \in BOOLEAN /\ (anchor => carry > 0)
  BY ImageAssumption
<1>9. pc = "history" => \A i \in FirstUser(req.messages) : i <= from
  BY <1>5, HeadCovers DEF OnTheWay
<1>10. pc = "history" => PagesFirst(req.messages)
  BY DEF ArriveInv, FreshInv
<1>11. pc = "early" => \A i \in 1 .. len : NoPages(req.messages[i])
  BY DEF ArriveInv, FreshInv
<1> HIDE DEF from, anchor, n, layout, len
<1>12. to \in from .. len - 1
  BY <1>3, <1>7
<1>13. ASSUME NEW i \in from + 1 .. to PROVE NoPages(req.messages[i])
  <2>1. i \in 1 .. len /\ ~(i <= from)
    BY <1>7, <1>12
  <2>2. CASE pc = "history"
    <3>1. i \notin FirstUser(req.messages)
      BY <1>9, <2>1, <2>2
    <3> QED
      BY <1>10, <2>1, <2>2, <3>1 DEF PagesFirst, len
  <2>3. CASE pc = "early"
    BY <1>11, <2>1, <2>3
  <2> QED
    BY <1>1, <2>2, <2>3
<1>14. to \in from .. Len(req.messages) - 1
  BY <1>12 DEF len
<1>15. OnTheWay(req') /\ Arrives(req', conv, setup.system)
  BY <1>3, <1>4, <1>5, <1>6, <1>7, <1>8, <1>13, <1>14, HistoryArrives DEF layout
<1>16. FreshInv'
  BY <1>2 DEF FreshInv
<1>17. pc' \in OnWay
  BY <1>2 DEF OnWay
<1> QED
  BY <1>1, <1>2, <1>15, <1>16, <1>17, WayStep

(* ImageResult: the page has the result. *)
LEMMA ArriveImage ==
  ASSUME NEW r \in Renderings
  PROVE  Inv /\ ArriveInv /\ ImageResult(r) /\ UNCHANGED <<conv, setup>> => ArriveInv'
<1> SUFFICES ASSUME Inv, ArriveInv, ImageResult(r), UNCHANGED <<conv, setup>>
             PROVE  ArriveInv'
  OBVIOUS
<1> DEFINE n == r.pages
<1>1. pc = "image" /\ UNCHANGED pins
  BY DEF ImageResult
<1>2. PICK c \in results :
        /\ req' = [req EXCEPT !.messages[c[1]].blocks[c[2]] = Imaged(@, c[3], n)]
        /\ NextResult(c, n)
  BY DEF ImageResult
<1>3. n \in Nat \ {0}
  BY ImageAssumption
<1> HIDE DEF n
<1>4. pc' \in {"pins", "image"}
  BY <1>2 DEF NextResult
<1>5. IsRequest(req) /\ PlaceIn(req.messages, c)
  BY <1>1, <1>2 DEF Inv, OpenInv, ResInv, RequestFits, PlacesIn
<1>6. pc \in OnWay /\ pc' \in OnWay
  BY <1>1, <1>4 DEF OnWay
<1>7. OnTheWay(req) /\ Arrives(req, conv, setup.system)
  BY <1>6, WayIs
<1>8. OnTheWay(req') /\ Arrives(req', conv, setup.system)
  BY <1>2, <1>3, <1>5, <1>7, ResultArrives
<1>9. FreshInv'
  BY <1>4 DEF FreshInv
<1> QED
  BY <1>1, <1>6, <1>8, <1>9, WayStep

(* PinPass: the list is said. *)
LEMMA ArrivePins == ArriveInv /\ PinPass /\ UNCHANGED <<conv, setup>> => ArriveInv'
<1> SUFFICES ASSUME ArriveInv, PinPass, UNCHANGED <<conv, setup>>
             PROVE  ArriveInv'
  OBVIOUS
<1>1. pc = "pins" /\ pc' = "done" /\ req' = [req EXCEPT !.messages = SayPins(@, pins)]
  BY DEF PinPass
<1>2. pc \in OnWay /\ pc # "client" /\ pc' \in OnWay \cup {"done"}
  BY <1>1 DEF OnWay
<1>3. /\ OnTheWay(req) /\ Arrives(req, conv, setup.system)
      /\ pins = FoldPins(conv, setup.system)
  BY <1>2, WayIs DEF ArriveInv, WayInv
<1> DEFINE list == FoldPins(conv, setup.system)
<1>4. req' = [req EXCEPT !.messages = SayPins(@, list)]
  BY <1>1, <1>3
<1> HIDE DEF list
<1>5. SaidIn(req'.messages, PinBlock(list)) /\ Arrives(req', conv, setup.system)
  BY <1>3, <1>4, PinsArrive
<1>6. DoneInv'
  BY <1>5 DEF DoneInv, list
<1>7. ThereInv'
  BY <1>5 DEF ThereInv
<1>8. WayInv' /\ FreshInv'
  BY <1>1 DEF WayInv, FreshInv, OnWay
<1> QED
  BY <1>2, <1>6, <1>7, <1>8, PassStep

(* A renderer fails: the client's own request shows all of it. *)
LEMMA ArriveFail == ArriveInv /\ Fail => ArriveInv'
<1> SUFFICES ASSUME ArriveInv, Fail
             PROVE  ArriveInv'
  OBVIOUS
<1>1. /\ pc # "client" /\ pc' = "done" /\ UNCHANGED <<conv, setup>>
      /\ req' = [messages |-> conv, system |-> setup.system, tools |-> setup.tools]
  BY DEF Fail, Original
<1>2. req'.messages = conv /\ req'.system = setup.system /\ req'.tools = setup.tools
  BY <1>1
<1>3. AllOwn(conv) /\ FullTools(setup.tools)
  BY DEF ArriveInv, OwnConv, OwnTalk, OwnSetup
<1>4. KeptTexts(conv) \subseteq ShownIn(req')
  BY <1>2, <1>3, KeptText, ShownMessages DEF KeptTexts
<1>5. ToolsShown(req')
  BY <1>2, <1>3 DEF ToolsShown, FullTools
<1>6. Arrives(req', conv, setup.system)
  BY <1>2, <1>4, <1>5 DEF Arrives
<1>7. ThereInv'
  BY <1>1, <1>6 DEF ThereInv
<1>8. DoneInv'
  BY <1>1 DEF DoneInv, Original
<1>9. WayInv' /\ FreshInv'
  BY <1>1 DEF WayInv, FreshInv, OnWay
<1> QED
  BY <1>1, <1>7, <1>8, <1>9, PassStep

(* The provider answers. *)
LEMMA ArriveAnswered ==
  ASSUME NEW b, \A at : IsOwn(b, at)
  PROVE  ArriveInv /\ Answered(<<b>>) => ArriveInv'
<1> SUFFICES ASSUME ArriveInv, Answered(<<b>>)
             PROVE  ArriveInv'
  OBVIOUS
<1> DEFINE at == Len(conv) + 1
<1>1. /\ conv' = Append(conv, [role |-> "assistant", at |-> at, blocks |-> <<b>>])
      /\ pc' = "client" /\ setup' = setup
  BY DEF Answered, Message
<1> HIDE DEF at
<1>2. OwnBlocks(<<b>>, at)
  BY OneOwn
<1>3. OwnTalk(conv) /\ OwnSetup
  BY DEF ArriveInv, OwnConv
<1>4. OwnTalk(conv') /\ conv'[Len(conv')].role = "assistant"
  BY <1>1, <1>2, <1>3, OwnAdded
<1>5. OwnConv' /\ OwnSetup'
  BY <1>1, <1>3, <1>4 DEF OwnConv, OwnSetup
<1>6. StripInv' /\ WayInv' /\ FreshInv' /\ ThereInv' /\ DoneInv'
  BY <1>1 DEF StripInv, WayInv, FreshInv, ThereInv, DoneInv, OnWay
<1> QED
  BY <1>5, <1>6 DEF ArriveInv

(* With a text, or with a call. *)
LEMMA ArriveAnswer == ArriveInv /\ Answer => ArriveInv'
<1> DEFINE text == Text(<<>>, <<Said>>, NoMark)
           call == [type |-> "call", cc |-> NoMark]
<1>1. /\ {"type", "cc", "lines", "head", "rem"} \subseteq DOMAIN text /\ text.type = "text"
      /\ text.lines = <<Said>> /\ text.head = <<>>
  BY DEF Text
<1>2. {"type", "cc"} \subseteq DOMAIN call /\ call.type = "call"
  OBVIOUS
<1>3. Answer => Answered(<<text>>) \/ Answered(<<call>>)
  BY DEF Answer
<1> HIDE DEF text, call
<1>4. \A at : IsOwn(text, at)
  BY <1>1, ListOne, ListEmpty, TextOwn
<1>5. \A at : IsOwn(call, at)
  BY <1>2, OtherOwn
<1> QED
  BY <1>3, <1>4, <1>5, ArriveAnswered

(* The passes together. *)
LEMMA ArriveTransform == Inv /\ ArriveInv /\ Transform => ArriveInv'
<1> SUFFICES ASSUME Inv, ArriveInv, TransformStep, UNCHANGED <<conv, setup>>
             PROVE  ArriveInv'
  BY DEF Transform
<1>1. CASE StripPass
  BY <1>1, ArriveStrip
<1>2. CASE \E r \in Renderings : Slab(r)
  BY <1>2, ArriveSlab
<1>3. CASE NoSlab
  <2>1. pc = "slab" /\ pc' = "early" /\ UNCHANGED <<req, pins>>
    BY <1>3 DEF NoSlab
  <2>2. pc \in OnWay /\ pc' \in OnWay
    BY <2>1 DEF OnWay
  <2> QED
    BY <2>1, <2>2, WaySame
<1>4. CASE \E r \in Renderings, to \in DOMAIN req.messages, carry \in 0 .. HistoryImages :
             CollapseHistory(to, r, carry)
  BY <1>4, ArriveCollapse
<1>5. CASE KeepHistory
  <2>1. pc \in {"history", "early"} /\ pc' \in {"results", "pins"} /\ UNCHANGED <<req, pins>>
    BY <1>5 DEF KeepHistory, AfterHistory
  <2>2. pc \in OnWay /\ pc' \in OnWay
    BY <2>1 DEF OnWay
  <2> QED
    BY <2>1, <2>2, WaySame
<1>6. CASE FindResults
  <2>1. pc = "results" /\ pc' \in {"pins", "image"} /\ UNCHANGED <<req, pins>>
    BY <1>6 DEF FindResults
  <2>2. pc \in OnWay /\ pc' \in OnWay
    BY <2>1 DEF OnWay
  <2> QED
    BY <2>1, <2>2, WaySame
<1>7. CASE \E r \in Renderings : ImageResult(r)
  BY <1>7, ArriveImage
<1>8. CASE KeepResult
  <2>1. pc = "image" /\ pc' \in {"pins", "image"} /\ UNCHANGED <<req, pins>>
    BY <1>8 DEF KeepResult, NextResult
  <2>2. pc \in OnWay /\ pc' \in OnWay
    BY <2>1 DEF OnWay
  <2> QED
    BY <2>1, <2>2, WaySame
<1>9. CASE PinPass
  BY <1>9, ArrivePins
<1> QED
  BY <1>1, <1>2, <1>3, <1>4, <1>5, <1>6, <1>7, <1>8, <1>9 DEF TransformStep

(* From the moment a request is stripped until it leaves, everything the     *)
(* client sent is in it, as text or on a page, and at the end so is the list *)
(* of pins.                                                                  *)
THEOREM ArrivalInvariant == ConversationSpec => []ArriveInv
<1>1. ConversationInit => ArriveInv
  BY ArriveStarts
<1>2. Inv /\ ArriveInv /\ SaidInv' /\ [ConversationNext]_conversationVars => ArriveInv'
  <2> SUFFICES ASSUME Inv, ArriveInv, SaidInv', [ConversationNext]_conversationVars
               PROVE  ArriveInv'
    OBVIOUS
  <2>1. CASE Speak
    BY <2>1, ArriveSpeak
  <2>2. CASE Transform
    BY <2>2, ArriveTransform
  <2>3. CASE Fail
    BY <2>3, ArriveFail
  <2>4. CASE Answer
    BY <2>4, ArriveAnswer
  <2>5. CASE UNCHANGED conversationVars
    BY <2>5 DEF conversationVars, transformVars, ArriveInv, OwnSetup, OwnConv, StripInv, Original,
       WayInv, FreshInv, ThereInv, DoneInv
  <2> QED
    BY <2>1, <2>2, <2>3, <2>4, <2>5 DEF ConversationNext
<1>3. ConversationSpec => []Inv /\ []SaidInv
  BY ConversationInvariant, SaidInvariant, PTL
<1> QED
  BY <1>1, <1>2, <1>3, PTL DEF ConversationSpec

(* What the invariant says of a request that leaves. *)
LEMMA AllArrives == ArriveInv => NothingLost
<1> SUFFICES ASSUME ArriveInv, pc = "done"
             PROVE  LET kept == StripPinCommands(conv)
                    IN /\ UNION {TextOf(kept[i]) : i \in DOMAIN kept} \subseteq ShownIn(req)
                       /\ SystemKinds(setup.system) \subseteq SystemKinds(req.system)
                               \cup ShownIn(req)
                       /\ \A k \in DOMAIN req.tools :
                            req.tools[k].doc = "full" \/ <<0, req.tools[k].name>> \in ShownIn(req)
  BY DEF NothingLost
<1>1. Arrives(req, conv, setup.system)
  BY DEF ArriveInv, ThereInv
<1> QED
  BY <1>1 DEF Arrives, KeptTexts, ToolsShown

(* And of one that is stripped, for any endpoint. *)
LEMMA PinsAreSaid == ArriveInv => PinsSaidOnce
<1> SUFFICES ASSUME ArriveInv
             PROVE  PinsSaidOnce
  OBVIOUS
<1>1. ASSUME pc = "done", req # Original
      PROVE  SaidIn(req.messages, PinBlock(FoldPins(conv, setup.system)))
  BY <1>1 DEF ArriveInv, DoneInv
<1>2. ASSUME pc = "strip", PinBlock(FoldPins(conv, setup.system)) # <<>>
      PROVE  LET wire == RelocateOpenAIPins(conv, setup.system)
             IN /\ Cardinality(PinBlocks(wire)) = 1
                /\ \A i \in DOMAIN wire : Commands(wire[i]) = {}
  <2>1. AllOwn(conv) /\ CanAppendPinBlock(conv)
    BY <1>2 DEF ArriveInv, OwnConv, Forwarded
  <2> QED
    BY <1>2, <2>1, RelocateSays
<1> QED
  BY <1>1, <1>2 DEF PinsSaidOnce, SaidIn

(* Everything the client sent reaches the provider, as text or on a page:    *)
(* every turn but the commands and their answers, every tool result, every   *)
(* part of the system prompt and every tool's documentation; and the list of *)
(* pins is said once, after everything else, whatever the passes did to the  *)
(* turns that set it.                                                        *)
THEOREM EverythingIsSaid == ConversationSpec => []SaidOnce
<1>1. ArriveInv => SaidOnce
  BY AllArrives, PinsAreSaid DEF SaidOnce
<1> QED
  BY <1>1, ArrivalInvariant, PTL
=============================================================================
