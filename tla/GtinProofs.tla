----------------------------- MODULE GtinProofs -----------------------------
(***************************************************************************)
(* Proofs about Gtin, for any set of base numbers: the sums of its numbers *)
(* behave as sums do, from which the rest follows.                         *)
(***************************************************************************)
EXTENDS Gtin, SequenceTheorems, WellFoundedInduction, TLAPS

----------------------------------------------------------------------------
(* Sums.                                                                   *)

(* Induction over the natural numbers, for a set of them.                  *)
LEMMA Induction ==
    ASSUME NEW T, 0 \in T, \A n \in Nat : n \in T => n + 1 \in T
    PROVE  Nat \subseteq T
<1> DEFINE R == OpToRel(<, Nat)
           C == Nat \ T
<1> SUFFICES ASSUME C # {} PROVE FALSE
  OBVIOUS
<1>1. IsWellFoundedOn(R, Nat)
  BY NatLessThanWellFounded
<1>2. PICK x \in C : \A y \in C : ~(<<y, x>> \in R)
  <2> HIDE DEF R, C
  <2>1. C \subseteq Nat
    BY DEF C
  <2> QED
    BY <1>1, <2>1, WFMin
<1>3. x \in Nat /\ x \notin T /\ x # 0
  OBVIOUS
<1>4. x - 1 \in C
  BY <1>3
<1>5. <<x - 1, x>> \in R
  BY <1>3, <1>4 DEF OpToRel
<1> QED
  BY <1>2, <1>4, <1>5

(* The sums of the first terms of a sequence, as the loop of               *)
(* computeCheckDigit adds them up (gtin.util.js:19-26).                    *)
Adds(f, s, n) ==
    /\ f = [i \in 0..n |-> IF i = 0 THEN 0 ELSE f[i - 1] + s[i]]
    /\ f \in [0..n -> Int]

LEMMA AddsExists ==
    ASSUME NEW s \in Seq(Int), NEW n \in 0..Len(s)
    PROVE  \E f : Adds(f, s, n)
<1> DEFINE T == {k \in Nat : k <= Len(s) => \E f : Adds(f, s, k)}
<1>1. 0 \in T
  <2>1. Adds([i \in 0..0 |-> 0], s, 0)
    BY DEF Adds
  <2> QED
    BY <2>1
<1>2. ASSUME NEW k \in Nat, k \in T PROVE k + 1 \in T
  <2> SUFFICES ASSUME k + 1 <= Len(s) PROVE \E f : Adds(f, s, k + 1)
    OBVIOUS
  <2>1. Len(s) \in Nat /\ k <= Len(s) /\ s[k + 1] \in Int
    OBVIOUS
  <2>2. PICK f : Adds(f, s, k)
    BY <1>2, <2>1
  <2> DEFINE g == [i \in 0..(k + 1) |-> IF i <= k THEN f[i] ELSE f[k] + s[k + 1]]
  <2>3. \A i \in 0..k : f[i] \in Int /\ f[i] = IF i = 0 THEN 0 ELSE f[i - 1] + s[i]
    BY <2>2 DEF Adds
  <2>4. g \in [0..(k + 1) -> Int]
    BY <2>1, <2>3
  <2>5. ASSUME NEW i \in 0..(k + 1)
        PROVE  g[i] = IF i = 0 THEN 0 ELSE g[i - 1] + s[i]
    <3>1. CASE i = k + 1
      BY <3>1, <2>1
    <3>2. CASE i \in 0..k
      BY <3>2, <2>3
    <3> QED
      BY <3>1, <3>2
  <2>6. Adds(g, s, k + 1)
    <3> HIDE DEF g
    <3>1. g = [i \in 0..(k + 1) |-> g[i]]
      BY <2>4
    <3> QED
      BY <3>1, <2>4, <2>5 DEF Adds
  <2> QED
    BY <2>6
<1>3. Nat \subseteq T
  <2> HIDE DEF T
  <2> QED
    BY <1>1, <1>2, Induction
<1> QED
  BY <1>3

(* A sum is the last of the sums of first terms.                           *)
LEMMA TotalIsLast ==
    ASSUME NEW s \in Seq(Int)
    PROVE  \E f : Adds(f, s, Len(s)) /\ Total(s) = f[Len(s)]
<1> DEFINE Eq(f) == f = [i \in 0..Len(s) |-> IF i = 0 THEN 0 ELSE f[i - 1] + s[i]]
           sum == CHOOSE f : Eq(f)
<1>0. Len(s) \in Nat
  OBVIOUS
<1>1. PICK f : Adds(f, s, Len(s))
  BY <1>0, AddsExists
<1>2. Eq(f)
  BY <1>1 DEF Adds
<1>3. Eq(sum)
  <2> HIDE DEF Eq
  <2> QED
    BY <1>2
<1>4. Total(s) = sum[Len(s)]
  BY DEF Total
<1> HIDE DEF sum
<1> DEFINE T == {k \in Nat : k <= Len(s) => sum[k] = f[k]}
<1>5. 0 \in T
  BY <1>0, <1>2, <1>3
<1>6. ASSUME NEW k \in Nat, k \in T PROVE k + 1 \in T
  BY <1>0, <1>2, <1>3, <1>6
<1>7. Nat \subseteq T
  <2> HIDE DEF T
  <2> QED
    BY <1>5, <1>6, Induction
<1> QED
  BY <1>0, <1>1, <1>4, <1>7

(* The facts about them that the lemmas below use.                         *)
LEMMA Sums ==
    ASSUME NEW s \in Seq(Int)
    PROVE  \E f : /\ f[0] = 0 /\ \A i \in 0..Len(s) : f[i] \in Int
                  /\ \A i \in 1..Len(s) : f[i] = f[i - 1] + s[i]
                  /\ Total(s) = f[Len(s)]
<1>1. PICK f : Adds(f, s, Len(s)) /\ Total(s) = f[Len(s)]
  BY TotalIsLast
<1>2. Len(s) \in Nat
  OBVIOUS
<1>3. f[0] = 0
  BY <1>1, <1>2 DEF Adds
<1>4. \A i \in 0..Len(s) : f[i] \in Int
  BY <1>1, <1>2 DEF Adds
<1>5. \A i \in 1..Len(s) : f[i] = f[i - 1] + s[i]
  BY <1>1, <1>2 DEF Adds
<1> QED
  BY <1>1, <1>3, <1>4, <1>5

LEMMA TotalIsInt == ASSUME NEW s \in Seq(Int) PROVE Total(s) \in Int
<1>1. Len(s) \in 0..Len(s)
  OBVIOUS
<1> QED
  BY <1>1, Sums

(* Zeros in front leave a sum as it is.                                    *)
LEMMA SumOfPadded ==
    ASSUME NEW s \in Seq(Int), NEW t \in Seq(Int), NEW k \in Nat, Len(t) = Len(s) + k,
           \A i \in 1..k : t[i] = 0, \A i \in 1..Len(s) : t[i + k] = s[i]
    PROVE  Total(t) = Total(s)
<1>0. Len(s) \in Nat /\ \A i \in 1..Len(s) : s[i] \in Int
  OBVIOUS
<1>1. PICK f : /\ f[0] = 0 /\ \A i \in 0..Len(s) : f[i] \in Int
               /\ \A i \in 1..Len(s) : f[i] = f[i - 1] + s[i]
               /\ Total(s) = f[Len(s)]
  BY Sums
<1>2. PICK g : /\ g[0] = 0 /\ \A i \in 0..Len(t) : g[i] \in Int
               /\ \A i \in 1..Len(t) : g[i] = g[i - 1] + t[i]
               /\ Total(t) = g[Len(t)]
  BY Sums
<1> DEFINE Z == {i \in Nat : i <= k => g[i] = 0}
           T == {i \in Nat : i <= Len(s) => g[i + k] = f[i]}
<1>3. Nat \subseteq Z
  <2>1. 0 \in Z
    BY <1>2
  <2>2. ASSUME NEW i \in Nat, i \in Z PROVE i + 1 \in Z
    <3> SUFFICES ASSUME i + 1 <= k PROVE g[i + 1] = 0
      OBVIOUS
    <3>1. g[i] = 0
      BY <2>2
    <3>2. i + 1 \in 1..Len(t) /\ i + 1 \in 1..k /\ (i + 1) - 1 = i
      BY <1>0
    <3> QED
      BY <1>2, <3>1, <3>2
  <2> HIDE DEF Z
  <2> QED
    BY <2>1, <2>2, Induction
<1>4. Nat \subseteq T
  <2>1. 0 \in T
    BY <1>1, <1>3
  <2>2. ASSUME NEW i \in Nat, i \in T PROVE i + 1 \in T
    <3> SUFFICES ASSUME i + 1 <= Len(s) PROVE g[(i + 1) + k] = f[i + 1]
      OBVIOUS
    <3>1. g[i + k] = f[i]
      BY <1>0, <2>2
    <3>2. /\ i + 1 \in 1..Len(s) /\ (i + 1) - 1 = i
          /\ (i + 1) + k \in 1..Len(t) /\ ((i + 1) + k) - 1 = i + k
      BY <1>0
    <3>3. f[i + 1] = f[i] + s[i + 1]
      BY <1>1, <3>2
    <3>4. g[(i + 1) + k] = g[i + k] + t[(i + 1) + k]
      BY <1>2, <3>2
    <3> QED
      BY <3>1, <3>2, <3>3, <3>4
  <2> HIDE DEF T
  <2> QED
    BY <2>1, <2>2, Induction
<1>5. g[Len(s) + k] = f[Len(s)]
  BY <1>0, <1>4
<1> QED
  BY <1>1, <1>2, <1>5

(* A change of one term changes a sum by as much.                          *)
LEMMA SumOfChanged ==
    ASSUME NEW s \in Seq(Int), NEW t \in Seq(Int), Len(t) = Len(s), NEW p \in 1..Len(s),
           \A i \in 1..Len(s) : i # p => t[i] = s[i]
    PROVE  Total(t) = Total(s) + t[p] - s[p]
<1>0. /\ Len(s) \in Nat /\ \A i \in 1..Len(s) : s[i] \in Int /\ t[i] \in Int
      /\ p \in 1..Len(s) /\ p \in Int
  OBVIOUS
<1>1. PICK f : /\ f[0] = 0 /\ \A i \in 0..Len(s) : f[i] \in Int
               /\ \A i \in 1..Len(s) : f[i] = f[i - 1] + s[i]
               /\ Total(s) = f[Len(s)]
  BY Sums
<1>2. PICK g : /\ g[0] = 0 /\ \A i \in 0..Len(s) : g[i] \in Int
               /\ \A i \in 1..Len(s) : g[i] = g[i - 1] + t[i]
               /\ Total(t) = g[Len(s)]
  BY Sums
<1> DEFINE T == {i \in Nat : i <= Len(s) =>
                               g[i] = IF p <= i THEN f[i] + t[p] - s[p] ELSE f[i]}
<1>3. 0 \in T
  BY <1>0, <1>1, <1>2
<1>4. ASSUME NEW i \in Nat, i \in T PROVE i + 1 \in T
  <2> SUFFICES ASSUME i + 1 <= Len(s)
               PROVE  g[i + 1] = IF p <= i + 1 THEN f[i + 1] + t[p] - s[p] ELSE f[i + 1]
    OBVIOUS
  <2>1. g[i] = IF p <= i THEN f[i] + t[p] - s[p] ELSE f[i]
    BY <1>0, <1>4
  <2>2. /\ i + 1 \in 1..Len(s) /\ (i + 1) - 1 = i /\ i \in 0..Len(s)
    BY <1>0
  <2>3. f[i + 1] = f[i] + s[i + 1] /\ g[i + 1] = g[i] + t[i + 1]
    BY <1>1, <1>2, <2>2
  <2>4. f[i] \in Int /\ g[i] \in Int /\ s[p] \in Int /\ t[p] \in Int
    BY <1>0, <1>1, <1>2, <2>2
  <2>5. CASE i + 1 = p
    BY <1>0, <2>1, <2>3, <2>4, <2>5
  <2>6. CASE i + 1 # p
    <3>1. t[i + 1] = s[i + 1] /\ s[i + 1] \in Int /\ (p <= i + 1 <=> p <= i)
      BY <1>0, <2>2, <2>6
    <3> QED
      BY <2>1, <2>3, <2>4, <3>1
  <2> QED
    BY <2>5, <2>6
<1>5. Nat \subseteq T
  <2> HIDE DEF T
  <2> QED
    BY <1>3, <1>4, Induction
<1>6. g[Len(s)] = f[Len(s)] + t[p] - s[p]
  BY <1>0, <1>5
<1> QED
  BY <1>1, <1>2, <1>6

(* One term more adds that term.                                           *)
LEMMA SumOfAppended ==
    ASSUME NEW s \in Seq(Int), NEW t \in Seq(Int), Len(t) = Len(s) + 1,
           \A i \in 1..Len(s) : t[i] = s[i]
    PROVE  Total(t) = Total(s) + t[Len(t)]
<1>0. Len(s) \in Nat
  OBVIOUS
<1>1. PICK f : /\ f[0] = 0 /\ \A i \in 0..Len(s) : f[i] \in Int
               /\ \A i \in 1..Len(s) : f[i] = f[i - 1] + s[i]
               /\ Total(s) = f[Len(s)]
  BY Sums
<1>2. PICK g : /\ g[0] = 0 /\ \A i \in 0..Len(t) : g[i] \in Int
               /\ \A i \in 1..Len(t) : g[i] = g[i - 1] + t[i]
               /\ Total(t) = g[Len(t)]
  BY Sums
<1> DEFINE T == {i \in Nat : i <= Len(s) => g[i] = f[i]}
<1>3. 0 \in T
  BY <1>1, <1>2
<1>4. ASSUME NEW i \in Nat, i \in T PROVE i + 1 \in T
  <2> SUFFICES ASSUME i + 1 <= Len(s) PROVE g[i + 1] = f[i + 1]
    OBVIOUS
  <2>1. /\ i + 1 \in 1..Len(s) /\ i + 1 \in 1..Len(t) /\ (i + 1) - 1 = i
        /\ g[i] = f[i]
    BY <1>0, <1>4
  <2> QED
    BY <1>1, <1>2, <2>1
<1>5. Nat \subseteq T
  <2> HIDE DEF T
  <2> QED
    BY <1>3, <1>4, Induction
<1>6. g[Len(s)] = f[Len(s)] /\ Len(t) \in 1..Len(t) /\ Len(t) - 1 = Len(s)
  BY <1>0, <1>5
<1> QED
  BY <1>1, <1>2, <1>6

----------------------------------------------------------------------------
(* Numbers.                                                                *)

LEMMA LengthsAre == Lengths \subseteq 8..14
BY DEF Lengths

LEMMA GS1TermsAre ==
    ASSUME NEW g \in Seq(Digits)
    PROVE  /\ GS1Terms(g) \in Seq(Int) /\ Len(GS1Terms(g)) = Len(g)
           /\ \A i \in 1..Len(g) :
                GS1Terms(g)[i] = g[i] * (IF (Len(g) - i) % 2 = 0 THEN 1 ELSE 3)
<1>1. Len(g) \in Nat /\ \A i \in 1..Len(g) : g[i] \in Int
  BY DEF Digits
<1>2. \A i \in 1..Len(g) : g[i] * (IF (Len(g) - i) % 2 = 0 THEN 1 ELSE 3) \in Int
  BY <1>1
<1> QED
  BY <1>1, <1>2 DEF GS1Terms

(* The sum of isValidGTIN and its check digit make up the sum of GS1: the  *)
(* parity of the base tells the weights from the left that GS1 counts from *)
(* the right (gtin.util.js:23-24).                                         *)
LEMMA SumsMeet ==
    ASSUME NEW g \in Seq(Digits), Len(g) \in Lengths
    PROVE  /\ WeightedSum(Front(g)) \in Int /\ Last(g) \in Digits
           /\ Total(GS1Terms(g)) = WeightedSum(Front(g)) + Last(g)
<1> DEFINE base == Front(g)
           w == [pos \in 1..Len(base) |-> base[pos] * Weight(Len(base), pos)]
<1>1. /\ Len(g) \in Nat /\ Len(g) > 1 /\ Len(g) \in 1..Len(g)
      /\ \A i \in 1..Len(g) : g[i] \in Digits /\ g[i] \in Int
  BY LengthsAre DEF Digits
<1>2. /\ base \in Seq(Digits) /\ Len(base) = Len(g) - 1
      /\ \A i \in 1..Len(base) : base[i] = g[i]
  BY <1>1 DEF Front
<1>3. ASSUME NEW i \in 1..Len(base)
      PROVE  /\ base[i] * Weight(Len(base), i) \in Int
             /\ base[i] * Weight(Len(base), i) = GS1Terms(g)[i]
  <2>1. i \in Int /\ i \in 1..Len(g) /\ base[i] = g[i] /\ g[i] \in Int
    BY <1>1, <1>2
  <2>2. (Len(g) - 1) % 2 = i % 2 <=> (Len(g) - i) % 2 # 0
    BY <1>1, <2>1
  <2>3. Weight(Len(base), i) = IF (Len(g) - i) % 2 = 0 THEN 1 ELSE 3
    BY <1>2, <2>2 DEF Weight
  <2> QED
    BY <2>1, <2>3, GS1TermsAre
<1>4. w \in Seq(Int) /\ Len(w) = Len(base) /\ \A i \in 1..Len(base) : w[i] = GS1Terms(g)[i]
  BY <1>1, <1>2, <1>3
<1>5. GS1Terms(g) \in Seq(Int) /\ Len(GS1Terms(g)) = Len(w) + 1
  BY <1>1, <1>2, <1>4, GS1TermsAre
<1>6. GS1Terms(g)[Len(g)] = g[Len(g)]
  BY <1>1, GS1TermsAre
<1>7. WeightedSum(base) = Total(w)
  BY DEF WeightedSum
<1>8. Total(w) \in Int
  <2> HIDE DEF w
  <2> QED
    BY <1>4, TotalIsInt
<1>9. Total(GS1Terms(g)) = Total(w) + g[Len(g)]
  <2> HIDE DEF w
  <2> QED
    BY <1>2, <1>4, <1>5, <1>6, GS1TermsAre, SumOfAppended
<1> QED
  BY <1>1, <1>7, <1>8, <1>9 DEF Last

(* isValidGTIN accepts what GS1 accepts.                                   *)
LEMMA ValidIsGS1 ==
    ASSUME NEW g \in Seq(Digits), Len(g) \in Lengths
    PROVE  IsValidGTIN(g) <=> GS1Valid(g)
<1> DEFINE W == WeightedSum(Front(g))
           d == Last(g)
<1>1. W \in Int /\ d \in 0..9 /\ Total(GS1Terms(g)) = W + d
  BY SumsMeet DEF Digits
<1>2. IsValidGTIN(g) <=> d = (10 - (W % 10)) % 10
  BY DEF IsValidGTIN, ComputeCheckDigit
<1>3. GS1Valid(g) <=> (W + d) % 10 = 0
  BY <1>1 DEF GS1Valid
<1> HIDE DEF W, d
<1>4. d = (10 - (W % 10)) % 10 <=> (W + d) % 10 = 0
  BY <1>1
<1> QED
  BY <1>2, <1>3, <1>4

(* normalizeGTIN14 gives 14 digits, and keeps what GS1 says of the number. *)
LEMMA Normalized ==
    ASSUME NEW g \in Seq(Digits), Len(g) \in Lengths
    PROVE  /\ NormalizeGTIN14(g) \in Seq(Digits) /\ Len(NormalizeGTIN14(g)) = 14
           /\ \A i \in 1..(14 - Len(g)) : NormalizeGTIN14(g)[i] = 0
           /\ \A i \in 1..Len(g) : NormalizeGTIN14(g)[i + (14 - Len(g))] = g[i]
<1> DEFINE k == 14 - Len(g)
           z == Zeros(k)
<1>1. k \in Nat /\ Len(g) \in Nat /\ k + Len(g) = 14
  BY LengthsAre
<1>2. z \in Seq(Digits) /\ Len(z) = k /\ \A i \in 1..k : z[i] = 0
  BY <1>1 DEF Zeros, Digits
<1>3. NormalizeGTIN14(g) = z \o g
  BY DEF NormalizeGTIN14
<1> HIDE DEF k, z
<1>4. /\ z \o g \in Seq(Digits) /\ Len(z \o g) = Len(z) + Len(g)
      /\ \A i \in 1..(Len(z) + Len(g)) :
           (z \o g)[i] = IF i <= Len(z) THEN z[i] ELSE g[i - Len(z)]
  BY <1>2, ConcatProperties
<1>5. ASSUME NEW i \in 1..k PROVE (z \o g)[i] = 0
  BY <1>1, <1>2, <1>4
<1>6. ASSUME NEW i \in 1..Len(g) PROVE (z \o g)[i + k] = g[i]
  <2>1. i + k \in 1..(k + Len(g)) /\ ~(i + k <= k) /\ (i + k) - k = i
    BY <1>1
  <2> QED
    BY <1>2, <1>4, <2>1
<1> QED
  BY <1>1, <1>2, <1>3, <1>4, <1>5, <1>6 DEF k

LEMMA PaddedSum ==
    ASSUME NEW g \in Seq(Digits), Len(g) \in Lengths
    PROVE  Total(GS1Terms(NormalizeGTIN14(g))) = Total(GS1Terms(g))
<1> DEFINE k == 14 - Len(g)
           h == NormalizeGTIN14(g)
<1>1. k \in Nat /\ Len(g) \in Nat /\ Len(g) + k = 14
  BY LengthsAre
<1>2. /\ h \in Seq(Digits) /\ Len(h) = 14 /\ \A i \in 1..k : h[i] = 0
      /\ \A i \in 1..Len(g) : h[i + k] = g[i]
  BY Normalized
<1> HIDE DEF h, k
<1>3. /\ GS1Terms(g) \in Seq(Int) /\ Len(GS1Terms(g)) = Len(g)
      /\ \A i \in 1..Len(g) :
           GS1Terms(g)[i] = g[i] * (IF (Len(g) - i) % 2 = 0 THEN 1 ELSE 3)
  BY GS1TermsAre
<1>4. /\ GS1Terms(h) \in Seq(Int) /\ Len(GS1Terms(h)) = Len(h)
      /\ \A i \in 1..Len(h) :
           GS1Terms(h)[i] = h[i] * (IF (Len(h) - i) % 2 = 0 THEN 1 ELSE 3)
  BY <1>2, GS1TermsAre
<1>5. ASSUME NEW i \in 1..k PROVE GS1Terms(h)[i] = 0
  <2>1. i \in 1..Len(h) /\ h[i] = 0
    BY <1>1, <1>2
  <2> QED
    BY <1>4, <2>1
<1>6. ASSUME NEW i \in 1..Len(g) PROVE GS1Terms(h)[i + k] = GS1Terms(g)[i]
  <2>1. i + k \in 1..Len(h) /\ Len(h) - (i + k) = Len(g) - i
    BY <1>1, <1>2
  <2> QED
    BY <1>2, <1>3, <1>4, <2>1
<1>7. Len(GS1Terms(h)) = Len(GS1Terms(g)) + k
  BY <1>1, <1>2, <1>3, <1>4
<1>8. \A i \in 1..Len(GS1Terms(g)) : GS1Terms(h)[i + k] = GS1Terms(g)[i]
  BY <1>3, <1>6
<1>9. GS1Terms(g) \in Seq(Int) /\ GS1Terms(h) \in Seq(Int)
  BY <1>3, <1>4
<1>10. Total(GS1Terms(h)) = Total(GS1Terms(g))
  BY <1>1, <1>5, <1>7, <1>8, <1>9, SumOfPadded
<1> QED
  BY <1>10 DEF h

----------------------------------------------------------------------------
(* A number on its way.                                                    *)

(* How what was entered differs from the label, both filled up: not at all,*)
(* in one digit, or in two neighbours that changed places.                 *)
Unslipped(p, t) == t = p

Mistyped(p, t) ==
    \E i \in 1..14 : t[i] # p[i] /\ \A j \in 1..14 : j # i => t[j] = p[j]

Swapped(p, t) ==
    \E i \in 1..13 : /\ t[i] = p[i + 1] /\ t[i + 1] = p[i]
                     /\ \A j \in 1..14 : j \notin {i, i + 1} => t[j] = p[j]

(* The inductive invariant of Gtin: a slip shows in the same way before and*)
(* after the number is filled up, and the verdict is isValidGTIN's.        *)
GtinIInv ==
    /\ label \in Seq(Digits) /\ Len(label) \in Lengths /\ GS1Valid(label)
    /\ entered \in Seq(Digits) /\ Len(entered) \in Lengths
    /\ slip \in {"none", "mistyped", "swapped"}
    /\ LET p == NormalizeGTIN14(label)
           t == NormalizeGTIN14(entered)
       IN  /\ slip = "none" => Unslipped(p, t)
           /\ slip = "mistyped" => Mistyped(p, t)
           /\ slip = "swapped" => Swapped(p, t)
    /\ verdict # "none" => (verdict = "accepted" <=> IsValidGTIN(entered))

(* The digits of a filled up number.                                       *)
LEMMA Filled ==
    ASSUME NEW g \in Seq(Digits), Len(g) \in Lengths, NEW i \in 1..14
    PROVE  NormalizeGTIN14(g)[i] =
             IF i <= 14 - Len(g) THEN 0 ELSE g[i - (14 - Len(g))]
<1> DEFINE k == 14 - Len(g)
<1>1. k \in Nat /\ Len(g) \in Nat /\ Len(g) + k = 14
  BY LengthsAre
<1>2. /\ \A j \in 1..k : NormalizeGTIN14(g)[j] = 0
      /\ \A j \in 1..Len(g) : NormalizeGTIN14(g)[j + k] = g[j]
  BY Normalized
<1> HIDE DEF k
<1>3. CASE i <= k
  BY <1>1, <1>2, <1>3 DEF k
<1>4. CASE ~(i <= k)
  <2>1. i - k \in 1..Len(g) /\ (i - k) + k = i
    BY <1>1, <1>4
  <2> QED
    BY <1>2, <1>4, <2>1 DEF k
<1> QED
  BY <1>3, <1>4

(* Filling up a number twice is filling it up once.                        *)
LEMMA FilledTwice ==
    ASSUME NEW g \in Seq(Digits), Len(g) \in Lengths
    PROVE  NormalizeGTIN14(NormalizeGTIN14(g)) = NormalizeGTIN14(g)
<1> DEFINE h == NormalizeGTIN14(g)
<1>1. h \in Seq(Digits) /\ Len(h) = 14
  BY Normalized
<1>2. 14 \in Lengths
  BY DEF Lengths
<1> HIDE DEF h
<1>3. NormalizeGTIN14(h) \in Seq(Digits) /\ Len(NormalizeGTIN14(h)) = 14
  BY <1>1, <1>2, Normalized
<1>4. ASSUME NEW i \in 1..14 PROVE NormalizeGTIN14(h)[i] = h[i]
  <2>1. Len(h) \in Lengths /\ ~(i <= 14 - Len(h)) /\ i - (14 - Len(h)) = i
    BY <1>1, <1>2
  <2> QED
    BY <1>1, <2>1, Filled
<1>5. NormalizeGTIN14(h) = h
  BY <1>1, <1>3, <1>4, SeqEqual
<1> QED
  BY <1>5 DEF h

LEMMA InitEstablishes == Init => GtinIInv
<1> SUFFICES ASSUME Init PROVE GtinIInv
  OBVIOUS
<1>1. PICK b \in Bases, c \in Digits : label = Append(b, c)
  BY DEF Init
<1>2. label \in Seq(Digits) /\ Len(label) = Len(b) + 1 /\ Len(label) \in Lengths
  BY <1>1, BasesAssumption
<1>3. entered = label /\ slip = "none" /\ verdict = "none" /\ GS1Valid(label)
  BY DEF Init
<1> QED
  BY <1>2, <1>3 DEF GtinIInv, Unslipped

(* Changing one digit changes one digit of the number filled up.           *)
LEMMA MistypeKeeps == GtinIInv /\ Mistype => GtinIInv'
<1> SUFFICES ASSUME GtinIInv, Mistype PROVE GtinIInv'
  OBVIOUS
<1>1. /\ entered \in Seq(Digits) /\ Len(entered) \in Lengths
      /\ label \in Seq(Digits) /\ Len(label) \in Lengths /\ GS1Valid(label)
      /\ NormalizeGTIN14(entered) = NormalizeGTIN14(label)
  BY DEF GtinIInv, Mistype, Unslipped
<1>2. PICK i \in DOMAIN entered : \E d \in Digits \ {entered[i]} :
        entered' = ReplaceAt(entered, i, d)
  BY DEF Mistype
<1>3. PICK d \in Digits \ {entered[i]} : entered' = [entered EXCEPT ![i] = d]
  BY <1>2 DEF ReplaceAt
<1>4. i \in 1..Len(entered) /\ Len(entered) \in Nat
  BY <1>1
<1>5. /\ entered' \in Seq(Digits) /\ Len(entered') = Len(entered) /\ entered'[i] = d
      /\ \A j \in 1..Len(entered) : j # i => entered'[j] = entered[j]
  BY <1>1, <1>3, <1>4
<1> DEFINE k == 14 - Len(entered)
<1>6. k \in Nat /\ Len(entered) + k = 14
  BY <1>1, <1>4, LengthsAre
<1>7. \A j \in 1..14 :
        /\ NormalizeGTIN14(entered)[j] = IF j <= k THEN 0 ELSE entered[j - k]
        /\ NormalizeGTIN14(entered')[j] = IF j <= k THEN 0 ELSE entered'[j - k]
  BY <1>1, <1>5, Filled
<1> HIDE DEF k
<1> DEFINE p == NormalizeGTIN14(label)
           t == NormalizeGTIN14(entered')
<1>8. \A j \in 1..14 : j # i + k => t[j] = p[j]
  <2> SUFFICES ASSUME NEW j \in 1..14, j # i + k PROVE t[j] = p[j]
    OBVIOUS
  <2>1. CASE j <= k
    BY <1>1, <1>7, <2>1
  <2>2. CASE ~(j <= k)
    <3>1. j - k \in 1..Len(entered) /\ j - k # i
      BY <1>4, <1>6, <2>2
    <3> QED
      BY <1>1, <1>5, <1>7, <2>2, <3>1
  <2> QED
    BY <2>1, <2>2
<1>9. i + k \in 1..14 /\ t[i + k] # p[i + k]
  <2>1. i + k \in 1..14 /\ ~(i + k <= k) /\ (i + k) - k = i
    BY <1>4, <1>6
  <2> QED
    BY <1>1, <1>3, <1>5, <1>7, <2>1
<1>10. Mistyped(p, t)
  <2> HIDE DEF p, t
  <2> QED
    BY <1>8, <1>9 DEF Mistyped
<1>11. slip' = "mistyped" /\ label' = label /\ verdict' = "none"
  BY DEF Mistype
<1> QED
  BY <1>1, <1>5, <1>10, <1>11 DEF GtinIInv

(* Swapping two neighbours swaps two neighbours of the number filled up.   *)
LEMMA SwapKeeps == GtinIInv /\ Swap => GtinIInv'
<1> SUFFICES ASSUME GtinIInv, Swap PROVE GtinIInv'
  OBVIOUS
<1>1. /\ entered \in Seq(Digits) /\ Len(entered) \in Lengths
      /\ label \in Seq(Digits) /\ Len(label) \in Lengths /\ GS1Valid(label)
      /\ NormalizeGTIN14(entered) = NormalizeGTIN14(label)
  BY DEF GtinIInv, Swap, Unslipped
<1>2. PICK i \in 1..(Len(entered) - 1) :
        entered' = [entered EXCEPT ![i] = entered[i + 1], ![i + 1] = entered[i]]
  BY DEF Swap
<1>3. /\ i \in 1..Len(entered) /\ i + 1 \in 1..Len(entered) /\ Len(entered) \in Nat
      /\ entered[i] \in Digits /\ entered[i + 1] \in Digits
  BY <1>1
<1>4. /\ entered' \in Seq(Digits) /\ Len(entered') = Len(entered)
      /\ entered'[i] = entered[i + 1] /\ entered'[i + 1] = entered[i]
      /\ \A j \in 1..Len(entered) : j \notin {i, i + 1} => entered'[j] = entered[j]
  BY <1>1, <1>2, <1>3
<1> DEFINE k == 14 - Len(entered)
<1>5. k \in Nat /\ Len(entered) + k = 14
  BY <1>1, <1>3, LengthsAre
<1>6. \A j \in 1..14 :
        /\ NormalizeGTIN14(entered)[j] = IF j <= k THEN 0 ELSE entered[j - k]
        /\ NormalizeGTIN14(entered')[j] = IF j <= k THEN 0 ELSE entered'[j - k]
  BY <1>1, <1>4, Filled
<1> HIDE DEF k
<1> DEFINE p == NormalizeGTIN14(label)
           t == NormalizeGTIN14(entered')
<1>7. \A j \in 1..14 : j \notin {i + k, i + k + 1} => t[j] = p[j]
  <2> SUFFICES ASSUME NEW j \in 1..14, j \notin {i + k, i + k + 1} PROVE t[j] = p[j]
    OBVIOUS
  <2>1. CASE j <= k
    BY <1>1, <1>6, <2>1
  <2>2. CASE ~(j <= k)
    <3>1. j - k \in 1..Len(entered) /\ j - k # i /\ j - k # i + 1
      BY <1>3, <1>5, <2>2
    <3> QED
      BY <1>1, <1>4, <1>6, <2>2, <3>1
  <2> QED
    BY <2>1, <2>2
<1>8. /\ i + k \in 1..13 /\ i + k \in 1..14 /\ i + k + 1 \in 1..14
      /\ ~(i + k <= k) /\ ~(i + k + 1 <= k)
      /\ (i + k) - k = i /\ (i + k + 1) - k = i + 1
  BY <1>3, <1>5
<1>9. t[i + k] = p[i + k + 1] /\ t[i + k + 1] = p[i + k]
  BY <1>1, <1>4, <1>6, <1>8
<1>10. Swapped(p, t)
  <2> HIDE DEF p, t
  <2> QED
    BY <1>7, <1>8, <1>9 DEF Swapped
<1>11. slip' = "swapped" /\ label' = label /\ verdict' = "none"
  BY DEF Swap
<1> QED
  BY <1>1, <1>4, <1>10, <1>11 DEF GtinIInv

(* Between label and DTO a number keeps its digits but for the one slip it *)
(* met, padded or not, and the verdict is that of isValidGTIN              *)
(* (gtin.util.js, product.dto.js:20-35).                                   *)
THEOREM GtinInvariantHolds == Spec => []GtinIInv
<1>1. Init => GtinIInv
  BY InitEstablishes
<1>2. GtinIInv /\ [Next]_vars => GtinIInv'
  <2> SUFFICES ASSUME GtinIInv, [Next]_vars PROVE GtinIInv'
    OBVIOUS
  <2>1. CASE Mistype
    BY <2>1, MistypeKeeps
  <2>2. CASE Swap
    BY <2>2, SwapKeeps
  <2>3. CASE Lengthen
    <3>1. entered \in Seq(Digits) /\ Len(entered) \in Lengths /\ 14 \in Lengths
      BY DEF GtinIInv, Lengths
    <3>2. /\ entered' = NormalizeGTIN14(entered) /\ verdict' = "none"
          /\ label' = label /\ slip' = slip
      BY <2>3 DEF Lengthen
    <3>3. /\ entered' \in Seq(Digits) /\ Len(entered') \in Lengths
          /\ NormalizeGTIN14(entered') = NormalizeGTIN14(entered)
      BY <3>1, <3>2, Normalized, FilledTwice
    <3> QED
      BY <3>2, <3>3 DEF GtinIInv
  <2>4. CASE Submit
    BY <2>4 DEF Submit, GtinIInv
  <2>5. CASE UNCHANGED vars
    BY <2>5 DEF vars, GtinIInv
  <2> QED
    BY <2>1, <2>2, <2>3, <2>4, <2>5 DEF Next
<1> QED
  BY <1>1, <1>2, PTL DEF Spec

(* isValidGTIN accepts exactly the numbers GS1's definition accepts, for   *)
(* every number of one of the four lengths and whatever happened to it.    *)
THEOREM AcceptsGS1 == Spec => []AcceptsExactlyGS1
<1>1. GtinIInv => AcceptsExactlyGS1
  BY ValidIsGS1 DEF GtinIInv, AcceptsExactlyGS1
<1> QED
  BY <1>1, GtinInvariantHolds, PTL

----------------------------------------------------------------------------
(* What a slip does to the sum.                                            *)

LEMMA DigitsOf ==
    ASSUME NEW g \in Seq(Digits), Len(g) = 14, NEW i \in 1..14
    PROVE  g[i] \in Digits /\ g[i] \in 0..9 /\ g[i] \in Int
<1>1. i \in 1..Len(g)
  OBVIOUS
<1>2. g[i] \in Digits
  BY <1>1, ElementOfSeq
<1> QED
  BY <1>2 DEF Digits

LEMMA TermsOf ==
    ASSUME NEW g \in Seq(Digits), Len(g) = 14
    PROVE  /\ GS1Terms(g) \in Seq(Int) /\ Len(GS1Terms(g)) = 14
           /\ Total(GS1Terms(g)) \in Int
           /\ \A i \in 1..14 : GS1Terms(g)[i] = g[i] * (IF (14 - i) % 2 = 0 THEN 1 ELSE 3)
<1>1. GS1Terms(g) \in Seq(Int) /\ Len(GS1Terms(g)) = 14
  BY GS1TermsAre
<1>2. Total(GS1Terms(g)) \in Int
  BY <1>1, TotalIsInt
<1>3. ASSUME NEW i \in 1..14
      PROVE  GS1Terms(g)[i] = g[i] * (IF (14 - i) % 2 = 0 THEN 1 ELSE 3)
  <2>1. i \in 1..Len(g) /\ Len(g) - i = 14 - i
    OBVIOUS
  <2> QED
    BY <2>1, GS1TermsAre
<1> QED
  BY <1>1, <1>2, <1>3

(* One digit changes it by as much as the digit, once or three times.      *)
LEMMA SumOfOneDigit ==
    ASSUME NEW p \in Seq(Digits), NEW t \in Seq(Digits), Len(p) = 14, Len(t) = 14,
           NEW i \in 1..14, \A j \in 1..14 : j # i => t[j] = p[j]
    PROVE  Total(GS1Terms(t)) =
             Total(GS1Terms(p)) + (t[i] - p[i]) * (IF (14 - i) % 2 = 0 THEN 1 ELSE 3)
<1>1. /\ GS1Terms(p) \in Seq(Int) /\ Len(GS1Terms(p)) = 14
      /\ \A j \in 1..14 : GS1Terms(p)[j] = p[j] * (IF (14 - j) % 2 = 0 THEN 1 ELSE 3)
  BY TermsOf
<1>2. /\ GS1Terms(t) \in Seq(Int) /\ Len(GS1Terms(t)) = 14
      /\ \A j \in 1..14 : GS1Terms(t)[j] = t[j] * (IF (14 - j) % 2 = 0 THEN 1 ELSE 3)
  BY TermsOf
<1>3. \A j \in 1..14 : j # i => GS1Terms(t)[j] = GS1Terms(p)[j]
  BY <1>1, <1>2
<1>4. Total(GS1Terms(t)) = Total(GS1Terms(p)) + GS1Terms(t)[i] - GS1Terms(p)[i]
  <2>1. /\ Len(GS1Terms(t)) = Len(GS1Terms(p)) /\ i \in 1..Len(GS1Terms(p))
        /\ \A j \in 1..Len(GS1Terms(p)) : j # i => GS1Terms(t)[j] = GS1Terms(p)[j]
    BY <1>1, <1>2, <1>3
  <2> QED
    BY <1>1, <1>2, <2>1, SumOfChanged
<1>5. t[i] \in Int /\ p[i] \in Int /\ Total(GS1Terms(p)) \in Int
  BY TermsOf, DigitsOf
<1> DEFINE S == Total(GS1Terms(p))
           T == Total(GS1Terms(t))
<1> HIDE DEF S, T
<1>6. CASE (14 - i) % 2 = 0
  <2>1. GS1Terms(t)[i] = t[i] * 1 /\ GS1Terms(p)[i] = p[i] * 1
    BY <1>1, <1>2, <1>6
  <2>2. T = S + t[i] * 1 - p[i] * 1
    BY <1>4, <2>1 DEF S, T
  <2>3. T = S + (t[i] - p[i]) * 1
    BY <1>5, <2>2 DEF S
  <2> QED
    BY <1>6, <2>3 DEF S, T
<1>7. CASE (14 - i) % 2 # 0
  <2>1. GS1Terms(t)[i] = t[i] * 3 /\ GS1Terms(p)[i] = p[i] * 3
    BY <1>1, <1>2, <1>7
  <2>2. T = S + t[i] * 3 - p[i] * 3
    BY <1>4, <2>1 DEF S, T
  <2>3. T = S + (t[i] - p[i]) * 3
    BY <1>5, <2>2 DEF S
  <2> QED
    BY <1>7, <2>3 DEF S, T
<1> QED
  BY <1>6, <1>7

(* One wrong digit makes a multiple of 10 something else.                  *)
LEMMA MistypedShows ==
    ASSUME NEW p \in Seq(Digits), NEW t \in Seq(Digits), Len(p) = 14, Len(t) = 14,
           Mistyped(p, t), GS1Valid(p)
    PROVE  ~GS1Valid(t)
<1>1. PICK i \in 1..14 : t[i] # p[i] /\ \A j \in 1..14 : j # i => t[j] = p[j]
  BY DEF Mistyped
<1> DEFINE S == Total(GS1Terms(p))
           T == Total(GS1Terms(t))
           d == t[i] - p[i]
<1>2. T = S + d * (IF (14 - i) % 2 = 0 THEN 1 ELSE 3)
  BY <1>1, SumOfOneDigit
<1>3. S \in Int
  BY TermsOf
<1>4. d \in -9..9 /\ d # 0
  <2>1. t[i] \in 0..9 /\ p[i] \in 0..9 /\ t[i] # p[i]
    BY <1>1, DigitsOf
  <2> QED
    BY <2>1
<1>5. S % 10 = 0
  BY DEF GS1Valid
<1> HIDE DEF S, T, d
<1>6. T = S + d \/ T = S + 3 * d
  BY <1>2, <1>3, <1>4
<1>7. T % 10 # 0
  BY <1>3, <1>4, <1>5, <1>6
<1> QED
  BY <1>7 DEF GS1Valid, T

LEMMA FiveOrNothing ==
    ASSUME NEW S \in Int, NEW T, NEW d \in -9..9, S % 10 = 0, T % 10 = 0,
           T = S + 2 * d \/ T = S - 2 * d
    PROVE  d = -5 \/ d = 0 \/ d = 5
OBVIOUS

LEMMA Replaced ==
    ASSUME NEW s \in Seq(Digits), NEW i \in 1..Len(s), NEW e \in Digits
    PROVE  \E r \in Seq(Digits) : /\ Len(r) = Len(s) /\ r[i] = e
                                  /\ \A j \in 1..Len(s) : j # i => r[j] = s[j]
<1> DEFINE r == [s EXCEPT ![i] = e]
<1>1. /\ r \in Seq(Digits) /\ Len(r) = Len(s) /\ r[i] = e
      /\ \A j \in 1..Len(s) : j # i => r[j] = s[j]
  OBVIOUS
<1> QED
  BY <1>1

(* So do two different neighbours that change places, unless they are five *)
(* apart: one gains what the other loses, once and three times.            *)
LEMMA SwappedShows ==
    ASSUME NEW p \in Seq(Digits), NEW t \in Seq(Digits), Len(p) = 14, Len(t) = 14,
           Swapped(p, t), GS1Valid(p), GS1Valid(t)
    PROVE  \A j \in 1..14 : p[j] - t[j] \in {-5, 0, 5}
<1>1. PICK i \in 1..13 : /\ t[i] = p[i + 1] /\ t[i + 1] = p[i]
                         /\ \A j \in 1..14 : j \notin {i, i + 1} => t[j] = p[j]
  BY DEF Swapped
<1>2. /\ i \in 1..14 /\ i + 1 \in 1..14
      /\ \A j \in 1..14 : p[j] \in 0..9 /\ t[j] \in 0..9 /\ t[j] \in Digits
  <2>1. \A j \in 1..14 : p[j] \in 0..9 /\ t[j] \in 0..9 /\ t[j] \in Digits
    BY DigitsOf
  <2> QED
    BY <2>1
<1>3. PICK m \in Seq(Digits) : /\ Len(m) = 14 /\ m[i] = t[i]
                              /\ \A j \in 1..14 : j # i => m[j] = p[j]
  <2>1. i \in 1..Len(p) /\ t[i] \in Digits
    BY <1>2
  <2>2. PICK m \in Seq(Digits) : /\ Len(m) = Len(p) /\ m[i] = t[i]
                                /\ \A j \in 1..Len(p) : j # i => m[j] = p[j]
    BY <2>1, Replaced, ZenonT(30)
  <2> QED
    BY <2>2
<1> DEFINE S == Total(GS1Terms(p))
           M == Total(GS1Terms(m))
           T == Total(GS1Terms(t))
           d == t[i] - p[i]
<1>4. \A j \in 1..14 : j # i + 1 => t[j] = m[j]
  BY <1>1, <1>2, <1>3
<1>5. M = S + (m[i] - p[i]) * (IF (14 - i) % 2 = 0 THEN 1 ELSE 3)
  BY <1>2, <1>3, SumOfOneDigit
<1>6. T = M + (t[i + 1] - m[i + 1]) * (IF (14 - (i + 1)) % 2 = 0 THEN 1 ELSE 3)
  BY <1>2, <1>3, <1>4, SumOfOneDigit
<1>7. S \in Int /\ S % 10 = 0 /\ T % 10 = 0
  BY TermsOf DEF GS1Valid
<1>8. d \in -9..9 /\ m[i] - p[i] = d /\ t[i + 1] - m[i + 1] = -d
  <2>1. m[i + 1] = p[i + 1] /\ m[i] = t[i] /\ t[i] = p[i + 1] /\ t[i + 1] = p[i]
    BY <1>1, <1>2, <1>3
  <2>2. t[i] \in 0..9 /\ p[i] \in 0..9
    BY <1>2
  <2>3. d \in -9..9
    <3> DEFINE a == t[i]
               b == p[i]
    <3>1. a \in 0..9 /\ b \in 0..9
      BY <2>2
    <3> HIDE DEF a, b
    <3>2. a - b \in -9..9
      BY <3>1
    <3> QED
      BY <3>2 DEF a, b
  <2>4. p[i] - t[i] = -d
    BY <2>2
  <2> QED
    BY <2>1, <2>3, <2>4
<1> HIDE DEF S, M, T, d
<1>9. (14 - i) % 2 = 0 <=> (14 - (i + 1)) % 2 # 0
  BY <1>2
<1>10. T = S + 2 * d \/ T = S - 2 * d
  <2>1. CASE (14 - i) % 2 = 0
    <3>1. M = S + d * 1 /\ T = M + (-d) * 3
      BY <1>5, <1>6, <1>8, <1>9, <2>1
    <3> QED
      BY <1>7, <1>8, <3>1
  <2>2. CASE (14 - i) % 2 # 0
    <3>1. M = S + d * 3 /\ T = M + (-d) * 1
      BY <1>5, <1>6, <1>8, <1>9, <2>2
    <3> QED
      BY <1>7, <1>8, <3>1
  <2> QED
    BY <2>1, <2>2
<1>11. d = -5 \/ d = 0 \/ d = 5
  BY <1>7, <1>8, <1>10, FiveOrNothing
<1>12. ASSUME NEW j \in 1..14 PROVE p[j] - t[j] \in {-5, 0, 5}
  <2>1. CASE j = i
    <3>1. p[i] \in 0..9 /\ t[i] \in 0..9
      BY <1>2
    <3>2. p[i] - t[i] = -d
      BY <3>1 DEF d
    <3> QED
      BY <1>11, <2>1, <3>2
  <2>2. CASE j = i + 1
    BY <1>1, <1>2, <1>11, <2>2 DEF d
  <2>3. CASE j \notin {i, i + 1}
    BY <1>1, <1>2, <2>3
  <2> QED
    BY <2>1, <2>2, <2>3
<1> QED
  BY <1>12

(* What is accepted is as on the label, or has neighbours swapped that are *)
(* five apart, for every label and wherever the slip is.                   *)
THEOREM SlipsAreRefused == Spec => []SlipsRefused
<1>1. GtinIInv => SlipsRefused
  <2> SUFFICES ASSUME GtinIInv, verdict = "accepted"
               PROVE  slip = "none" \/ (slip = "swapped" /\ FiveApart)
    BY DEF SlipsRefused
  <2> DEFINE p == NormalizeGTIN14(label)
             t == NormalizeGTIN14(entered)
  <2>1. /\ label \in Seq(Digits) /\ Len(label) \in Lengths
        /\ entered \in Seq(Digits) /\ Len(entered) \in Lengths
        /\ GS1Valid(label) /\ GS1Valid(entered)
        /\ slip \in {"none", "mistyped", "swapped"}
        /\ slip = "mistyped" => Mistyped(p, t)
        /\ slip = "swapped" => Swapped(p, t)
    BY ValidIsGS1 DEF GtinIInv
  <2>2. /\ p \in Seq(Digits) /\ Len(p) = 14 /\ t \in Seq(Digits) /\ Len(t) = 14
        /\ GS1Valid(p) /\ GS1Valid(t)
    BY <2>1, Normalized, PaddedSum DEF GS1Valid
  <2>3. FiveApart <=> \A j \in 1..14 : p[j] - t[j] \in {-5, 0, 5}
    BY DEF FiveApart
  <2> HIDE DEF p, t
  <2>4. slip # "mistyped"
    BY <2>1, <2>2, MistypedShows
  <2>5. slip = "swapped" => FiveApart
    BY <2>1, <2>2, <2>3, SwappedShows
  <2> QED
    BY <2>1, <2>4, <2>5
<1> QED
  BY <1>1, GtinInvariantHolds, PTL

=============================================================================
