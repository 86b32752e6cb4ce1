---------------------------- MODULE PacketsProofs ----------------------------
(***************************************************************************)
(* Proofs about Packets, for packets of any number of fields and values of *)
(* any length, every buffer size and everything that may precede or follow *)
(* a packet in its receiver's buffer.                                      *)
(***************************************************************************)
EXTENDS Packets, SequenceTheorems, WellFoundedInduction, TLAPS

-----------------------------------------------------------------------------
(* Induction, from the least number that is not in a set.                  *)

LEMMA SetInduction ==
  ASSUME NEW S \in SUBSET Nat, 0 \in S, \A n \in S : n + 1 \in S
  PROVE  S = Nat
<1> DEFINE R == OpToRel(<, Nat)
<1> DEFINE T == Nat \ S
<1>1. SUFFICES ASSUME T # {} PROVE FALSE
  OBVIOUS
<1>2. IsWellFoundedOn(R, Nat)
  BY NatLessThanWellFounded
<1>3. T \subseteq Nat
  OBVIOUS
<1>4. PICK x \in T : \A y \in T : ~ (<<y, x>> \in R)
  <2> HIDE DEF R, T
  <2> QED BY <1>1, <1>2, <1>3, WFMin
<1>5. \A y \in T : ~ (y < x)
  BY <1>4 DEF OpToRel
<1>6. QED
  BY <1>5

-----------------------------------------------------------------------------
(* FlattenSeq.                                                             *)

\* What it computes on the way: f[k] joins the first k sequences.
Joins(A, s) ==
  {f \in [0 .. Len(s) -> Seq(A)] :
     f[0] = <<>> /\ \A k \in 1 .. Len(s) : f[k] = f[k - 1] \o s[k]}

LEMMA JoinsExist ==
  ASSUME NEW A, NEW s \in Seq(Seq(A))
  PROVE  Joins(A, s) # {}
<1> DEFINE Step(f, k) == f[k] = f[k - 1] \o s[k]
<1> DEFINE To(m, f) == f \in [0 .. m -> Seq(A)] /\ f[0] = <<>> /\ \A k \in 1 .. m : Step(f, k)
<1> DEFINE S == {m \in Nat : m <= Len(s) => \E f : To(m, f)}
<1>1. Len(s) \in Nat /\ \A k \in 1 .. Len(s) : s[k] \in Seq(A)
  BY LenProperties, ElementOfSeq
<1>2. 0 \in S
  <2> DEFINE e == [k \in 0 .. 0 |-> <<>>]
  <2>1. e \in [0 .. 0 -> Seq(A)] /\ e[0] = <<>>
    BY EmptySeq
  <2>2. 1 .. 0 = {}
    OBVIOUS
  <2>3. To(0, e)
    <3> HIDE DEF e, Step
    <3> QED BY <2>1, <2>2
  <2> QED
    <3> HIDE DEF To
    <3> QED BY <2>3
<1>3. ASSUME NEW m \in S PROVE m + 1 \in S
  <2>1. SUFFICES ASSUME m + 1 <= Len(s) PROVE \E f : To(m + 1, f)
    <3> HIDE DEF To
    <3> QED OBVIOUS
  <2>2. PICK f : To(m, f)
    <3>1. m \in Nat /\ m <= Len(s)
      BY <1>1, <2>1
    <3> HIDE DEF To
    <3> QED BY <3>1
  <2>3. m \in Nat /\ f[m] \in Seq(A) /\ s[m + 1] \in Seq(A)
    BY <1>1, <2>1, <2>2
  <2>4. f[m] \o s[m + 1] \in Seq(A)
    BY <2>3, ConcatProperties
  <2> DEFINE last == f[m] \o s[m + 1]
  <2> DEFINE g == [k \in 0 .. m + 1 |-> IF k <= m THEN f[k] ELSE last]
  <2>5. g \in [0 .. m + 1 -> Seq(A)] /\ g[0] = <<>> /\ g[m + 1] = last /\ g[m] = f[m]
    <3>1. f \in [0 .. m -> Seq(A)] /\ f[0] = <<>> /\ last \in Seq(A)
      BY <2>2, <2>4
    <3> HIDE DEF last
    <3> QED BY <2>3, <3>1
  <2>6. ASSUME NEW k \in 1 .. m + 1 PROVE Step(g, k)
    <3>1. CASE k = m + 1
      <4>1. k - 1 = m
        BY <2>3, <3>1
      <4>2. g[k] = last /\ g[k - 1] = f[m]
        <5> HIDE DEF g, last
        <5> QED BY <2>5, <3>1, <4>1
      <4> HIDE DEF g
      <4> QED BY <3>1, <4>2
    <3>2. CASE k # m + 1
      <4>1. k \in 1 .. m /\ k - 1 \in 0 .. m
        BY <2>3, <3>2
      <4>2. g[k] = f[k] /\ g[k - 1] = f[k - 1]
        <5> HIDE DEF last
        <5> QED BY <2>3, <4>1
      <4>3. Step(f, k)
        BY <2>2, <4>1
      <4> HIDE DEF g
      <4> QED BY <4>2, <4>3
    <3> QED
      BY <3>1, <3>2
  <2>7. To(m + 1, g)
    <3> HIDE DEF g, Step
    <3> QED BY <2>5, <2>6
  <2> QED
    <3> HIDE DEF To, g
    <3> QED BY <2>7
<1>4. S = Nat
  <2> HIDE DEF S
  <2>1. S \in SUBSET Nat
    BY DEF S
  <2> QED
    BY <1>2, <1>3, <2>1, SetInduction
<1>5. \E f : To(Len(s), f)
  <2>1. Len(s) \in S
    BY <1>1, <1>4
  <2> HIDE DEF To
  <2> QED BY <1>1, <2>1
<1>6. QED
  BY <1>1, <1>5 DEF Joins

LEMMA FlattenJoins ==
  ASSUME NEW A, NEW s \in Seq(Seq(A)), NEW f \in Joins(A, s)
  PROVE  FlattenSeq(s) = f[Len(s)]
<1>1. /\ Len(s) \in Nat
      /\ f \in [0 .. Len(s) -> Seq(A)] /\ f[0] = <<>>
      /\ \A k \in 1 .. Len(s) : f[k] = f[k - 1] \o s[k]
  BY LenProperties DEF Joins
<1>2. CASE Len(s) = 0
  BY <1>1, <1>2, EmptySeq DEF FlattenSeq
<1>3. CASE Len(s) # 0
  <2> DEFINE Next1(g, i) == IF i = 1 THEN s[i] ELSE g[i - 1] \o s[i]
  <2> DEFINE Joined(g) == [i \in 1 .. Len(s) |-> Next1(g, i)]
  <2> DEFINE flatten == CHOOSE g : g = Joined(g)
  <2>1. FlattenSeq(s) = flatten[Len(s)]
    BY <1>1, <1>3 DEF FlattenSeq
  <2>2. f[1] = s[1]
    <3>1. s[1] \in Seq(A)
      BY <1>1, <1>3
    <3>2. f[1] = f[0] \o s[1]
      <4>1. 1 \in 1 .. Len(s) /\ 1 - 1 = 0
        BY <1>1, <1>3
      <4> QED BY <1>1, <4>1
    <3>3. f[0] = <<>>
      BY <1>1
    <3> QED BY <3>1, <3>2, <3>3, ConcatEmptySeq
  <2> DEFINE h == [i \in 1 .. Len(s) |-> f[i]]
  <2>3. h = Joined(h)
    <3>1. ASSUME NEW i \in 1 .. Len(s) PROVE f[i] = Next1(h, i)
      <4>1. CASE i = 1
        BY <2>2, <4>1
      <4>2. CASE i # 1
        <5>1. i - 1 \in 1 .. Len(s)
          BY <1>1, <4>2
        <5>2. h[i - 1] = f[i - 1]
          BY <5>1
        <5> HIDE DEF h
        <5> QED BY <1>1, <4>2, <5>2
      <4> QED BY <4>1, <4>2
    <3> HIDE DEF Next1
    <3> QED BY <3>1
  <2>4. flatten = Joined(flatten)
    <3> HIDE DEF Joined, h
    <3> QED
      BY <2>3
  <2> HIDE DEF flatten
  <2>5. \A i \in 1 .. Len(s) : flatten[i] = Next1(flatten, i)
    <3> HIDE DEF Next1
    <3> QED
      BY <2>4
  <2> DEFINE S == {m \in Nat : m + 1 <= Len(s) => flatten[m + 1] = f[m + 1]}
  <2>6. 0 \in S
    <3>1. 1 \in 1 .. Len(s)
      BY <1>1, <1>3
    <3>2. flatten[1] = s[1]
      BY <2>5, <3>1
    <3> QED
      BY <2>2, <3>2
  <2>7. ASSUME NEW m \in S PROVE m + 1 \in S
    <3>1. SUFFICES ASSUME m + 2 <= Len(s) PROVE flatten[m + 2] = f[m + 2]
      BY <1>1
    <3>2. m + 2 \in 1 .. Len(s) /\ m + 2 # 1 /\ (m + 2) - 1 = m + 1 /\ m + 1 <= Len(s)
      BY <1>1, <3>1
    <3>3. flatten[m + 1] = f[m + 1]
      BY <3>2
    <3>4. flatten[m + 2] = flatten[m + 1] \o s[m + 2]
      BY <2>5, <3>2
    <3>5. f[m + 2] = f[m + 1] \o s[m + 2]
      BY <1>1, <3>2
    <3> QED BY <3>3, <3>4, <3>5
  <2>8. S = Nat
    <3> HIDE DEF S
    <3>1. S \in SUBSET Nat
      BY DEF S
    <3> QED
      BY <2>6, <2>7, <3>1, SetInduction
  <2>9. Len(s) - 1 \in S
    <3> HIDE DEF S
    <3> QED
      BY <1>1, <1>3, <2>8
  <2> QED
    <3>1. flatten[(Len(s) - 1) + 1] = f[(Len(s) - 1) + 1]
      BY <1>1, <2>9
    <3>2. (Len(s) - 1) + 1 = Len(s)
      BY <1>1
    <3> QED BY <2>1, <3>1, <3>2
<1>4. QED
  BY <1>2, <1>3

LEMMA FlattenType ==
  ASSUME NEW A, NEW s \in Seq(Seq(A))
  PROVE  FlattenSeq(s) \in Seq(A)
<1>1. PICK f \in Joins(A, s) : TRUE
  BY JoinsExist
<1>2. f \in [0 .. Len(s) -> Seq(A)] /\ Len(s) \in Nat
  BY LenProperties DEF Joins
<1>3. f[Len(s)] \in Seq(A)
  BY <1>2
<1>4. QED
  BY <1>1, <1>3, FlattenJoins

LEMMA FlattenConcat ==
  ASSUME NEW A, NEW a \in Seq(Seq(A)), NEW b \in Seq(Seq(A))
  PROVE  FlattenSeq(a \o b) = FlattenSeq(a) \o FlattenSeq(b)
<1>1. PICK f \in Joins(A, a), g \in Joins(A, b) : TRUE
  BY JoinsExist
<1> DEFINE m == Len(a)
<1> DEFINE n == Len(b)
<1>2. /\ m \in Nat /\ n \in Nat
      /\ f \in [0 .. m -> Seq(A)] /\ g \in [0 .. n -> Seq(A)] /\ f[0] = <<>> /\ g[0] = <<>>
      /\ \A k \in 1 .. m : f[k] = f[k - 1] \o a[k]
      /\ \A k \in 1 .. n : g[k] = g[k - 1] \o b[k]
  BY LenProperties DEF Joins
<1>3. /\ a \o b \in Seq(Seq(A)) /\ Len(a \o b) = m + n
      /\ \A k \in 1 .. m + n : (a \o b)[k] = IF k <= m THEN a[k] ELSE b[k - m]
  BY ConcatProperties
<1> DEFINE x == f[m]
<1>4. x \in Seq(A) /\ x \o <<>> = x
  <2>1. m \in 0 .. m
    BY <1>2
  <2>2. x \in Seq(A)
    <3> HIDE DEF m
    <3> QED BY <1>2, <2>1
  <2> HIDE DEF x
  <2> QED BY <2>2, ConcatEmptySeq
<1> DEFINE h == [k \in 0 .. m + n |-> IF k <= m THEN f[k] ELSE x \o g[k - m]]
<1>5. h \in [0 .. m + n -> Seq(A)]
  <2>1. ASSUME NEW k \in 0 .. m + n, ~(k <= m) PROVE x \o g[k - m] \in Seq(A)
    <3>1. k - m \in 0 .. n
      BY <1>2, <2>1
    <3>2. g[k - m] \in Seq(A)
      BY <1>2, <3>1
    <3> HIDE DEF x
    <3> QED BY <1>4, <3>2, ConcatProperties
  <2>2. ASSUME NEW k \in 0 .. m + n, k <= m PROVE f[k] \in Seq(A)
    <3>1. k \in 0 .. m
      BY <1>2, <2>2
    <3> HIDE DEF m
    <3> QED BY <1>2, <3>1
  <2> HIDE DEF x, m, n
  <2> QED BY <2>1, <2>2
<1>6. \A j \in 0 .. n : h[m + j] = x \o g[j]
  <2> SUFFICES ASSUME NEW j \in 0 .. n PROVE h[m + j] = x \o g[j]
    OBVIOUS
  <2>1. m + j \in 0 .. m + n /\ (m + j) - m = j
    BY <1>2
  <2>2. CASE j = 0
    <3>1. h[m + j] = x
      BY <1>2, <2>1, <2>2
    <3>2. g[j] = <<>>
      BY <1>2, <2>2
    <3> HIDE DEF x, h
    <3> QED BY <1>4, <3>1, <3>2
  <2>3. CASE j # 0
    <3>1. ~(m + j <= m)
      BY <1>2, <2>3
    <3> HIDE DEF x, m, n
    <3> QED BY <2>1, <3>1
  <2> QED BY <2>2, <2>3
<1>7. ASSUME NEW k \in 1 .. m + n PROVE h[k] = h[k - 1] \o (a \o b)[k]
  <2>1. CASE k <= m
    <3>1. k \in 1 .. m /\ k \in 0 .. m + n /\ k - 1 \in 0 .. m + n /\ k - 1 <= m
      BY <1>2, <2>1
    <3>2. h[k] = f[k] /\ h[k - 1] = f[k - 1]
      <4> HIDE DEF x, m, n
      <4> QED BY <2>1, <3>1
    <3>3. (a \o b)[k] = a[k] /\ f[k] = f[k - 1] \o a[k]
      BY <1>2, <1>3, <2>1, <3>1
    <3> HIDE DEF h, x, m, n
    <3> QED BY <3>2, <3>3
  <2>2. CASE ~(k <= m)
    <3> DEFINE j == k - m
    <3>1. j \in 1 .. n /\ j - 1 \in 0 .. n /\ j \in 0 .. n /\ m + j = k /\ m + (j - 1) = k - 1
      BY <1>2, <2>2
    <3>2. h[k] = x \o g[j] /\ h[k - 1] = x \o g[j - 1]
      <4> HIDE DEF h, x, j
      <4> QED BY <1>6, <3>1
    <3>3. (a \o b)[k] = b[j] /\ g[j] = g[j - 1] \o b[j]
      BY <1>2, <1>3, <2>2, <3>1
    <3>4. g[j - 1] \in Seq(A) /\ b[j] \in Seq(A)
      <4>1. b \in [1 .. n -> Seq(A)]
        BY LenProperties
      <4> HIDE DEF j, n
      <4> QED BY <1>2, <3>1, <4>1
    <3>5. x \o (g[j - 1] \o b[j]) = (x \o g[j - 1]) \o b[j]
      <4>1. \A p, q, r \in Seq(A) : (p \o q) \o r = p \o (q \o r)
        BY ConcatAssociative
      <4> HIDE DEF j, x
      <4> QED BY <1>4, <3>4, <4>1
    <3> HIDE DEF h, x, j
    <3> QED BY <3>2, <3>3, <3>5
  <2> QED BY <2>1, <2>2
<1>8. h[0] = <<>> /\ h[m + n] = x \o g[n]
  <2>1. h[0] = <<>>
    BY <1>2
  <2>2. n \in 0 .. n
    BY <1>2
  <2> HIDE DEF h, x
  <2> QED BY <1>6, <2>1, <2>2
<1>9. h \in Joins(A, a \o b)
  <2> HIDE DEF h, m, n
  <2> QED BY <1>3, <1>5, <1>7, <1>8 DEF Joins
<1>10. FlattenSeq(a \o b) = h[m + n]
  <2> HIDE DEF h, m, n
  <2> QED BY <1>3, <1>9, FlattenJoins
<1>11. FlattenSeq(a) = x /\ FlattenSeq(b) = g[n]
  BY <1>1, FlattenJoins
<1>12. QED
  <2> HIDE DEF h, x, m, n
  <2> QED BY <1>8, <1>10, <1>11

LEMMA FlattenOne ==
  ASSUME NEW A, NEW x \in Seq(A)
  PROVE  FlattenSeq(<<x>>) = x
<1> DEFINE f == [k \in 0 .. 1 |-> IF k = 0 THEN <<>> ELSE x]
<1>1. <<x>> \in Seq(Seq(A)) /\ Len(<<x>>) = 1 /\ <<x>>[1] = x
  OBVIOUS
<1>2. f[0] = <<>> /\ f[1] = x
  OBVIOUS
<1>3. f \in [0 .. 1 -> Seq(A)]
  BY EmptySeq
<1>4. <<>> \o x = x
  BY ConcatEmptySeq
<1>5. \A k \in 1 .. 1 : f[k] = f[k - 1] \o <<x>>[k]
  <2> HIDE DEF f
  <2> QED BY <1>1, <1>2, <1>4
<1>6. f \in Joins(A, <<x>>)
  <2> HIDE DEF f
  <2> QED BY <1>1, <1>2, <1>3, <1>5 DEF Joins
<1>7. QED
  <2> HIDE DEF f
  <2> QED BY <1>1, <1>2, <1>6, FlattenJoins

\* Two levels are flattened in either order.
LEMMA FlattenNested ==
  ASSUME NEW A, NEW F \in Seq(Seq(Seq(A))), NEW G,
         G = [k \in 1 .. Len(F) |-> FlattenSeq(F[k])]
  PROVE  G \in Seq(Seq(A)) /\ FlattenSeq(FlattenSeq(F)) = FlattenSeq(G)
<1> DEFINE n == Len(F)
<1>1. PICK f \in Joins(Seq(A), F) : TRUE
  BY JoinsExist
<1>2. /\ n \in Nat /\ \A k \in 1 .. n : F[k] \in Seq(Seq(A))
      /\ f \in [0 .. n -> Seq(Seq(A))] /\ f[0] = <<>>
      /\ \A k \in 1 .. n : f[k] = f[k - 1] \o F[k]
  BY LenProperties, ElementOfSeq DEF Joins
<1>3. \A k \in 1 .. n : FlattenSeq(F[k]) \in Seq(A)
  BY <1>2, FlattenType
<1>4. G \in Seq(Seq(A)) /\ Len(G) = n /\ \A k \in 1 .. n : G[k] = FlattenSeq(F[k])
  BY <1>2, <1>3
<1> DEFINE g == [k \in 0 .. n |-> FlattenSeq(f[k])]
<1>5. \A k \in 0 .. n : f[k] \in Seq(Seq(A)) /\ g[k] = FlattenSeq(f[k])
  BY <1>2
<1>6. g \in [0 .. n -> Seq(A)]
  <2>1. \A k \in 0 .. n : FlattenSeq(f[k]) \in Seq(A)
    BY <1>5, FlattenType
  <2> QED BY <2>1
<1>7. g[0] = <<>>
  <2>1. g[0] = FlattenSeq(<<>>)
    BY <1>2
  <2>2. FlattenSeq(<<>>) = <<>>
    BY DEF FlattenSeq
  <2> QED BY <2>1, <2>2
<1>8. ASSUME NEW k \in 1 .. n PROVE g[k] = g[k - 1] \o G[k]
  <2>1. k \in 0 .. n /\ k - 1 \in 0 .. n
    BY <1>2
  <2>2. f[k - 1] \in Seq(Seq(A)) /\ F[k] \in Seq(Seq(A)) /\ f[k] = f[k - 1] \o F[k]
    BY <1>2, <2>1
  <2>3. FlattenSeq(f[k]) = FlattenSeq(f[k - 1]) \o FlattenSeq(F[k])
    BY <2>2, FlattenConcat
  <2>4. g[k] = FlattenSeq(f[k]) /\ g[k - 1] = FlattenSeq(f[k - 1])
    <3> HIDE DEF g
    <3> QED BY <1>5, <2>1
  <2> HIDE DEF g
  <2> QED BY <1>4, <2>3, <2>4
<1>9. g \in Joins(A, G)
  <2> HIDE DEF g, n
  <2> QED BY <1>4, <1>6, <1>7, <1>8 DEF Joins
<1>10. FlattenSeq(G) = g[n]
  <2> HIDE DEF g, n
  <2> QED BY <1>4, <1>9, FlattenJoins
<1>11. FlattenSeq(F) = f[n]
  BY <1>1, FlattenJoins
<1>12. g[n] = FlattenSeq(f[n])
  BY <1>2
<1>13. QED
  <2> HIDE DEF g, n
  <2> QED BY <1>4, <1>10, <1>11, <1>12

\* Where each sequence stands in the whole: s[k] follows place p[k - 1].
LEMMA FlattenPlaces ==
  ASSUME NEW A, NEW s \in Seq(Seq(A))
  PROVE  \E p \in [0 .. Len(s) -> Nat] :
           /\ p[0] = 0 /\ p[Len(s)] = Len(FlattenSeq(s))
           /\ \A k \in 1 .. Len(s) :
                /\ p[k] = p[k - 1] + Len(s[k]) /\ p[k] <= p[Len(s)]
                /\ \A j \in 1 .. Len(s[k]) : FlattenSeq(s)[p[k - 1] + j] = s[k][j]
<1> DEFINE n == Len(s)
<1>1. PICK f \in Joins(A, s) : TRUE
  BY JoinsExist
<1>2. /\ n \in Nat /\ s \in [1 .. n -> Seq(A)]
      /\ f \in [0 .. n -> Seq(A)] /\ f[0] = <<>>
      /\ \A k \in 1 .. n : f[k] = f[k - 1] \o s[k]
  BY LenProperties DEF Joins
<1>3. FlattenSeq(s) = f[n]
  BY <1>1, FlattenJoins
<1> DEFINE w == Len(f[n])
<1>4. \A k \in 0 .. n : f[k] \in Seq(A) /\ Len(f[k]) \in Nat
  <2>1. \A k \in 0 .. n : f[k] \in Seq(A)
    BY <1>2
  <2> QED BY <2>1, LenProperties
<1>5. ASSUME NEW k \in 1 .. n
      PROVE  /\ k - 1 \in 0 .. n /\ k \in 0 .. n
             /\ Len(s[k]) \in Nat
             /\ Len(f[k]) = Len(f[k - 1]) + Len(s[k])
             /\ \A j \in 1 .. Len(f[k]) :
                  f[k][j] = IF j <= Len(f[k - 1]) THEN f[k - 1][j] ELSE s[k][j - Len(f[k - 1])]
  <2>1. k - 1 \in 0 .. n /\ k \in 0 .. n
    BY <1>2
  <2> DEFINE a == f[k - 1]
  <2> DEFINE b == s[k]
  <2>2. a \in Seq(A) /\ b \in Seq(A) /\ f[k] = a \o b
    BY <1>2, <2>1
  <2>3. /\ Len(b) \in Nat /\ Len(a) \in Nat /\ Len(a \o b) = Len(a) + Len(b)
        /\ \A j \in 1 .. Len(a) + Len(b) :
             (a \o b)[j] = IF j <= Len(a) THEN a[j] ELSE b[j - Len(a)]
    <3> HIDE DEF a, b
    <3> QED BY <2>2, ConcatProperties, LenProperties
  <2>4. f[k] = a \o b
    BY <2>2
  <2> QED
    <3>1. /\ Len(b) \in Nat
          /\ Len(f[k]) = Len(a) + Len(b)
          /\ \A j \in 1 .. Len(f[k]) : f[k][j] = IF j <= Len(a) THEN a[j] ELSE b[j - Len(a)]
      <4> HIDE DEF a, b
      <4> QED BY <2>3, <2>4
    <3> QED BY <2>1, <3>1
<1> DEFINE Prefix(k, m) ==
      Len(f[k]) <= Len(f[m]) /\ \A j \in 1 .. Len(f[k]) : f[m][j] = f[k][j]
<1> DEFINE S == {m \in Nat : m <= n => \A k \in 0 .. m : Prefix(k, m)}
<1>6. 0 \in S
  <2>1. Prefix(0, 0)
    <3>1. 0 \in 0 .. n
      BY <1>2
    <3> QED BY <1>4, <3>1
  <2>2. 0 .. 0 = {0}
    OBVIOUS
  <2> HIDE DEF Prefix
  <2> QED BY <2>1, <2>2
<1>7. ASSUME NEW m \in S PROVE m + 1 \in S
  <2>1. SUFFICES ASSUME m + 1 <= n, NEW k \in 0 .. m + 1 PROVE Prefix(k, m + 1)
    <3> HIDE DEF Prefix
    <3> QED BY DEF S
  <2>2. m \in Nat /\ m + 1 \in 1 .. n /\ (m + 1) - 1 = m /\ m <= n
    BY <1>2, <2>1
  <2> DEFINE q == m + 1
  <2>3. /\ m \in 0 .. n /\ q \in 0 .. n /\ Len(s[q]) \in Nat
        /\ Len(f[q]) = Len(f[m]) + Len(s[q])
        /\ \A j \in 1 .. Len(f[q]) :
             f[q][j] = IF j <= Len(f[m]) THEN f[m][j] ELSE s[q][j - Len(f[m])]
    <3>1. q \in 1 .. n /\ q - 1 = m
      BY <2>2
    <3> HIDE DEF q
    <3> QED BY <1>5, <3>1
  <2>4. CASE k = q
    <3>1. Len(f[q]) \in Nat
      BY <1>4, <2>3
    <3> QED BY <2>4, <3>1
  <2>5. CASE k # q
    <3>1. k \in 0 .. m
      BY <2>2, <2>5
    <3>2. Prefix(k, m)
      <4> HIDE DEF Prefix
      <4> QED BY <2>2, <3>1 DEF S
    <3>3. Len(f[m]) \in Nat /\ Len(f[k]) \in Nat
      <4>1. k \in 0 .. n
        BY <2>2, <3>1
      <4> QED BY <1>4, <2>3, <4>1
    <3> HIDE DEF q, S
    <3>4. Len(f[k]) <= Len(f[m]) /\ Len(f[m]) <= Len(f[q]) /\ Len(f[q]) \in Nat
      <4>1. \A x, y \in Nat : x + y \in Nat /\ x <= x + y
        OBVIOUS
      <4> QED BY <2>3, <3>2, <3>3, <4>1
    <3>5. ASSUME NEW j \in 1 .. Len(f[k]) PROVE f[q][j] = f[k][j]
      <4>1. j \in 1 .. Len(f[q]) /\ j <= Len(f[m])
        BY <3>3, <3>4
      <4>2. f[q][j] = f[m][j]
        BY <2>3, <4>1
      <4>3. f[m][j] = f[k][j]
        BY <3>2
      <4> QED BY <4>2, <4>3
    <3>6. Len(f[k]) <= Len(f[q])
      BY <3>3, <3>4
    <3>7. Prefix(k, q)
      BY <3>5, <3>6
    <3> HIDE DEF Prefix
    <3> QED BY <3>7 DEF q
  <2> QED BY <2>4, <2>5
<1>8. \A k \in 0 .. n : Prefix(k, n)
  <2> HIDE DEF Prefix
  <2>1. S = Nat
    <3> HIDE DEF S
    <3>1. S \in SUBSET Nat
      BY DEF S
    <3> QED BY <1>6, <1>7, <3>1, SetInduction
  <2>2. n \in S
    BY <1>2, <2>1
  <2> QED BY <1>2, <2>2
<1> DEFINE p == [k \in 0 .. n |-> Len(f[k])]
<1>9. p \in [0 .. n -> Nat] /\ \A k \in 0 .. n : p[k] = Len(f[k])
  BY <1>4
<1>10. p[0] = 0 /\ p[n] = w
  <2>1. 0 \in 0 .. n /\ n \in 0 .. n /\ Len(f[0]) = 0
    BY <1>2
  <2> HIDE DEF p, n
  <2> QED BY <1>9, <2>1 DEF w
<1>11. ASSUME NEW k \in 1 .. n
       PROVE  /\ p[k] = p[k - 1] + Len(s[k]) /\ p[k] <= p[n]
              /\ \A j \in 1 .. Len(s[k]) : f[n][p[k - 1] + j] = s[k][j]
  <2>1. /\ k - 1 \in 0 .. n /\ k \in 0 .. n
        /\ Len(s[k]) \in Nat /\ Len(f[k - 1]) \in Nat
        /\ Len(f[k]) = Len(f[k - 1]) + Len(s[k])
    BY <1>4, <1>5
  <2>2. p[k] = Len(f[k]) /\ p[k - 1] = Len(f[k - 1]) /\ p[n] = Len(f[n])
    <3>1. n \in 0 .. n
      BY <1>2
    <3> HIDE DEF p, n
    <3> QED BY <1>9, <2>1, <3>1
  <2>3. Prefix(k, n)
    <3> HIDE DEF Prefix
    <3> QED BY <1>8, <2>1
  <2>4. ASSUME NEW j \in 1 .. Len(s[k]) PROVE f[n][p[k - 1] + j] = s[k][j]
    <3> DEFINE i == Len(f[k - 1]) + j
    <3>1. i \in 1 .. Len(f[k]) /\ ~(i <= Len(f[k - 1])) /\ i - Len(f[k - 1]) = j
      <4>1. \A x, y \in Nat : \A z \in 1 .. y :
              x + z \in 1 .. x + y /\ ~(x + z <= x) /\ (x + z) - x = z
        OBVIOUS
      <4> QED BY <2>1, <4>1
    <3>2. f[k][i] = s[k][j]
      <4> HIDE DEF i
      <4> QED BY <1>5, <3>1
    <3>3. f[n][i] = f[k][i]
      <4> HIDE DEF i
      <4> QED BY <2>3, <3>1
    <3>4. i = p[k - 1] + j
      <4> HIDE DEF p
      <4> QED BY <2>2
    <3> HIDE DEF i, p
    <3> QED BY <3>2, <3>3, <3>4
  <2> HIDE DEF p
  <2> QED BY <2>1, <2>2, <2>3, <2>4
<1>12. QED
  <2>1. \A k \in 1 .. n : /\ p[k] = p[k - 1] + Len(s[k]) /\ p[k] <= p[n]
                          /\ \A j \in 1 .. Len(s[k]) : FlattenSeq(s)[p[k - 1] + j] = s[k][j]
    <3> HIDE DEF p, n
    <3> QED BY <1>3, <1>11
  <2>2. p[n] = Len(FlattenSeq(s))
    BY <1>3, <1>10
  <2> HIDE DEF p
  <2> QED BY <1>9, <1>10, <2>1, <2>2

-----------------------------------------------------------------------------
(* The fields of a packet.                                                 *)

Field == Cells \cup {Unset}

\* Fields that copy_to_buffer can copy.
Copyable(fields) == \A k \in DOMAIN fields : fields[k] \in Cells \ {Unset}

LEMMA CopyableCells ==
  ASSUME NEW s \in Seq(Field), Copyable(s)
  PROVE  s \in Seq(Cells)
<1>1. Len(s) \in Nat /\ DOMAIN s = 1 .. Len(s) /\ s \in [1 .. Len(s) -> Field]
  BY LenProperties
<1>2. \A k \in 1 .. Len(s) : s[k] \in Cells
  BY <1>1 DEF Copyable
<1>3. s \in [1 .. Len(s) -> Cells]
  BY <1>1, <1>2
<1>4. QED
  BY <1>1, <1>3

LEMMA CountedType ==
  ASSUME NEW c \in Cells
  PROVE  Counted(c) \in Seq(Field) /\ Counted(c) \in Seq(Cells)
<1>1. Len(c) \in Nat /\ <<Len(c)>> \in Cells
  BY DEF Cells
<1>2. QED
  BY <1>1 DEF Counted, Field

LEMMA EntryType ==
  ASSUME NEW e \in Entry \cup {NULL}
  PROVE  EntryFields(e) \in Seq(Field)
<1>1. CASE e = NULL
  BY <1>1, EmptySeq DEF EntryFields
<1>2. CASE e # NULL
  <2>1. /\ e.id \in Nat /\ e.arg_flags \in Cells \cup {NULL} /\ e.ret_flags \in Cells \cup {NULL}
    BY <1>2 DEF Entry
  <2> DEFINE first == << <<e.id>> >>
  <2>2. first \in Seq(Field)
    <3>1. <<e.id>> \in Cells
      BY <2>1 DEF Cells
    <3> QED BY <3>1 DEF Field
  <2> DEFINE retPart == IF e.ret_flags = NULL THEN <<>> ELSE Counted(e.ret_flags)
  <2>3. retPart \in Seq(Field)
    BY <2>1, CountedType, EmptySeq
  <2> DEFINE flags == IF e.arg_flags = NULL THEN <<>> ELSE Counted(e.arg_flags) \o retPart
  <2>4. flags \in Seq(Field)
    <3>1. CASE e.arg_flags = NULL
      BY <3>1, EmptySeq
    <3>2. CASE e.arg_flags # NULL
      <4>1. Counted(e.arg_flags) \in Seq(Field)
        BY <2>1, <3>2, CountedType
      <4> HIDE DEF retPart
      <4> QED BY <2>3, <3>2, <4>1, ConcatProperties
    <3> QED BY <3>1, <3>2
  <2>5. EntryFields(e) = first \o flags
    BY <1>2 DEF EntryFields
  <2> HIDE DEF first, flags
  <2> QED BY <2>2, <2>4, <2>5, ConcatProperties
<1>3. QED
  BY <1>1, <1>2

LEMMA ValueType ==
  ASSUME NEW v \in Field
  PROVE  ValueFields(v) \in Seq(Field)
<1>1. CASE v = Unset
  BY <1>1 DEF ValueFields, Field
<1>2. CASE v # Unset /\ v = <<>>
  <2>1. <<0>> \in Cells
    BY DEF Cells
  <2> QED BY <1>2, <2>1 DEF ValueFields, Field
<1>3. CASE v # Unset /\ v # <<>>
  <2>1. v \in Cells
    BY <1>3 DEF Field
  <2> QED BY <1>3, <2>1, CountedType DEF ValueFields
<1>4. QED
  BY <1>1, <1>2, <1>3

LEMMA StringType ==
  ASSUME NEW t \in Text
  PROVE  String(t) \in Cells
<1>1. t \in Seq(Nat)
  BY SeqMonotonic DEF Text
<1>2. QED
  BY <1>1 DEF String, Cells

LEMMA AttrType ==
  ASSUME NEW attrs \in Seq(Attr), NEW n \in Nat
  PROVE  AttrFields(attrs, n) \in Seq(Field)
<1> DEFINE one(k) ==
      IF k \in DOMAIN attrs THEN <<String(attrs[k].name), String(attrs[k].description)>>
                            ELSE <<Unset>>
<1>1. ASSUME NEW k \in 1 .. n PROVE one(k) \in Seq(Field)
  <2>1. CASE k \in DOMAIN attrs
    <3>1. attrs[k].name \in Text /\ attrs[k].description \in Text
      <4>1. attrs[k] \in Attr
        BY <2>1, LenProperties, ElementOfSeq
      <4> QED BY <4>1 DEF Attr
    <3>2. String(attrs[k].name) \in Field /\ String(attrs[k].description) \in Field
      BY <3>1, StringType DEF Field
    <3> QED BY <2>1, <3>2
  <2>2. CASE k \notin DOMAIN attrs
    BY <2>2 DEF Field
  <2> QED BY <2>1, <2>2
<1> DEFINE all == [k \in 1 .. n |-> one(k)]
<1>2. all \in Seq(Seq(Field))
  <2> HIDE DEF one
  <2> QED BY <1>1
<1>3. AttrFields(attrs, n) = FlattenSeq(all)
  BY DEF AttrFields
<1>4. QED
  <2> HIDE DEF all
  <2> QED BY <1>2, <1>3, FlattenType

LEMMA PairIsConcat ==
  ASSUME NEW S, NEW a \in S, NEW b \in S
  PROVE  <<a, b>> = <<a>> \o <<b>>
<1>1. <<a>> \in Seq(S) /\ <<b>> \in Seq(S) /\ <<a, b>> \in Seq(S)
  OBVIOUS
<1>2. Len(<<a>>) = 1 /\ Len(<<b>>) = 1 /\ Len(<<a, b>>) = 2
  OBVIOUS
<1>3. \A i \in 1 .. 2 : (<<a>> \o <<b>>)[i] = IF i <= 1 THEN <<a>>[i] ELSE <<b>>[i - 1]
  BY <1>1, <1>2, ConcatProperties
<1>4. <<a>> \o <<b>> \in Seq(S) /\ Len(<<a>> \o <<b>>) = 2
  BY <1>1, <1>2, ConcatProperties
<1>5. \A i \in 1 .. 2 : <<a, b>>[i] = IF i <= 1 THEN <<a>>[i] ELSE <<b>>[i - 1]
  OBVIOUS
<1>6. QED
  BY <1>1, <1>2, <1>3, <1>4, <1>5, SeqEqual

LEMMA KindFacts ==
  ASSUME NEW m \in Messages
  PROVE  /\ m.kind \in {"list", "call", "result", "info"}
         /\ m.kind = "list" => m.content \in Seq(Entry \cup {NULL})
         /\ m.kind \in {"call", "result"} => m.content \in [id : Nat, values : Seq(Field)]
         /\ m.kind = "info" =>
              m.content \in [id : Nat, own : Attr, args : Seq(Attr), rets : Seq(Attr)]
<1>1. m.kind \in {"list", "call", "result", "info"} /\ m.content \in Content(m.kind)
  BY PacketsAssumption
<1>2. m.kind = "list" => Content(m.kind) = Seq(Entry \cup {NULL})
  BY DEF Content
<1>3. m.kind \in {"call", "result"} => Content(m.kind) = [id : Nat, values : Seq(Field)]
  BY DEF Content, Field
<1>4. m.kind = "info" =>
        Content(m.kind) = [id : Nat, own : Attr, args : Seq(Attr), rets : Seq(Attr)]
  BY DEF Content
<1>5. QED
  BY <1>1, <1>2, <1>3, <1>4

\* The entries or values of a packet, field by field.
ListItems(list) == [k \in DOMAIN list |-> EntryFields(list[k])]
RpcItems(rpc) == [k \in DOMAIN rpc.values |-> ValueFields(rpc.values[k])]

LEMMA ListItemsType ==
  ASSUME NEW list \in Seq(Entry \cup {NULL})
  PROVE  ListItems(list) \in Seq(Seq(Field)) /\ Len(ListItems(list)) = Len(list)
<1>1. Len(list) \in Nat /\ DOMAIN list = 1 .. Len(list)
  BY LenProperties
<1>2. \A k \in 1 .. Len(list) : EntryFields(list[k]) \in Seq(Field)
  BY ElementOfSeq, EntryType
<1>3. QED
  BY <1>1, <1>2 DEF ListItems

LEMMA RpcItemsType ==
  ASSUME NEW rpc, rpc.values \in Seq(Field)
  PROVE  RpcItems(rpc) \in Seq(Seq(Field)) /\ Len(RpcItems(rpc)) = Len(rpc.values)
<1> DEFINE values == rpc.values
<1>1. Len(values) \in Nat /\ DOMAIN values = 1 .. Len(values)
  BY LenProperties
<1>2. \A k \in 1 .. Len(values) : ValueFields(values[k]) \in Seq(Field)
  BY ElementOfSeq, ValueType
<1> DEFINE items == [k \in 1 .. Len(values) |-> ValueFields(values[k])]
<1>3. RpcItems(rpc) = items
  BY <1>1 DEF RpcItems
<1>4. items \in Seq(Seq(Field)) /\ Len(items) = Len(values)
  <2> HIDE DEF values
  <2> QED BY <1>1, <1>2
<1>5. QED
  BY <1>3, <1>4

\* A packet starts with a number; a call or a result with two.
LEMMA FieldsType ==
  ASSUME NEW m \in Messages
  PROVE  /\ Fields(m) \in Seq(Field)
         /\ \E x \in Nat : \E rest \in Seq(Field) : Fields(m) = << <<x>> >> \o rest
         /\ m.kind = "list" =>
              /\ FlattenSeq(ListItems(m.content)) \in Seq(Field)
              /\ Fields(m) = << <<Len(m.content)>> >> \o FlattenSeq(ListItems(m.content))
         /\ m.kind \in {"call", "result"} =>
              /\ FlattenSeq(RpcItems(m.content)) \in Seq(Field)
              /\ Fields(m) = << <<m.content.id>>, <<Len(m.content.values)>> >>
                               \o FlattenSeq(RpcItems(m.content))
<1> DEFINE c == m.content
<1>1. \A x \in Nat : <<x>> \in Field
  BY DEF Field, Cells
<1>2. CASE m.kind = "list"
  <2>1. c \in Seq(Entry \cup {NULL}) /\ Fields(m) = ListFields(c)
    BY <1>2, KindFacts DEF Fields
  <2>2. Len(c) \in Nat
    BY <2>1, LenProperties
  <2> DEFINE rest == FlattenSeq(ListItems(c))
  <2>3. rest \in Seq(Field)
    BY <2>1, ListItemsType, FlattenType
  <2>4. Fields(m) = << <<Len(c)>> >> \o rest
    BY <2>1 DEF ListFields, ListItems
  <2>5. << <<Len(c)>> >> \in Seq(Field)
    BY <1>1, <2>2
  <2>6. Fields(m) \in Seq(Field)
    <3> HIDE DEF rest, c
    <3> QED BY <2>3, <2>4, <2>5, ConcatProperties
  <2>7. \E x \in Nat : \E r \in Seq(Field) : Fields(m) = << <<x>> >> \o r
    <3> HIDE DEF rest, c
    <3> QED BY <2>2, <2>3, <2>4
  <2> QED
    BY <1>2, <2>3, <2>4, <2>6, <2>7
<1>3. CASE m.kind \in {"call", "result"}
  <2>1. c.id \in Nat /\ c.values \in Seq(Field)
    BY <1>3, KindFacts
  <2>2. Fields(m) = RpcFields(c)
    BY <1>3 DEF Fields
  <2>3. Len(c.values) \in Nat
    BY <2>1, LenProperties
  <2> DEFINE items == FlattenSeq(RpcItems(c))
  <2>4. items \in Seq(Field)
    BY <2>1, RpcItemsType, FlattenType
  <2>5. Fields(m) = << <<c.id>>, <<Len(c.values)>> >> \o items
    BY <2>2 DEF RpcFields, RpcItems
  <2> DEFINE a == <<c.id>>
  <2> DEFINE b == <<Len(c.values)>>
  <2>6. a \in Field /\ b \in Field
    <3> HIDE DEF c
    <3> QED BY <1>1, <2>1, <2>3
  <2>7. Fields(m) = <<a, b>> \o items
    BY <2>5
  <2>8. <<a, b>> = <<a>> \o <<b>> /\ <<a>> \in Seq(Field) /\ <<b>> \in Seq(Field)
    <3> HIDE DEF a, b
    <3>1. <<a>> \in Seq(Field) /\ <<b>> \in Seq(Field)
      BY <2>6
    <3>2. <<a, b>> = <<a>> \o <<b>>
      BY <2>6, PairIsConcat
    <3> QED BY <3>1, <3>2
  <2>9. Fields(m) \in Seq(Field) /\ <<b>> \o items \in Seq(Field)
    <3>1. <<a, b>> \in Seq(Field)
      <4> HIDE DEF a, b
      <4> QED BY <2>6
    <3> HIDE DEF items, a, b
    <3> QED BY <2>4, <2>7, <2>8, <3>1, ConcatProperties
  <2>10. Fields(m) = <<a>> \o (<<b>> \o items)
    <3>1. \A p, q, r \in Seq(Field) : (p \o q) \o r = p \o (q \o r)
      BY ConcatAssociative
    <3> HIDE DEF items, a, b
    <3> QED BY <2>4, <2>7, <2>8, <3>1
  <2>11. \E x \in Nat : \E r \in Seq(Field) : Fields(m) = << <<x>> >> \o r
    <3>1. c.id \in Nat /\ Fields(m) = << <<c.id>> >> \o (<<b>> \o items)
      BY <2>1, <2>10
    <3> HIDE DEF items, b, c
    <3> QED BY <2>9, <3>1
  <2> QED
    <3>1. m.kind # "list"
      BY <1>3
    <3> QED BY <2>4, <2>5, <2>9, <2>11, <3>1
<1>4. CASE m.kind = "info"
  <2>1. c.id \in Nat /\ c.own \in Attr /\ c.args \in Seq(Attr) /\ c.rets \in Seq(Attr)
    BY <1>4, KindFacts
  <2>2. Fields(m) = InfoFields(c)
    BY <1>4 DEF Fields
  <2> DEFINE i == <<c.id>>
  <2> DEFINE s == String(c.own.name)
  <2> DEFINE t == String(c.own.description)
  <2> DEFINE a == <<Len(c.args)>>
  <2> DEFINE r == << <<Len(c.rets)>> >>
  <2> DEFINE x == AttrFields(c.args, Len(c.args))
  <2> DEFINE y == AttrFields(c.rets, Len(c.args))
  <2>3. Len(c.args) \in Nat /\ Len(c.rets) \in Nat
    BY <2>1, LenProperties
  <2>4. i \in Field /\ s \in Field /\ t \in Field /\ a \in Field /\ r \in Seq(Field)
    <3>1. c.own.name \in Text /\ c.own.description \in Text
      BY <2>1 DEF Attr
    <3>2. s \in Field /\ t \in Field
      BY <3>1, StringType DEF Field
    <3>3. i \in Field /\ a \in Field
      BY <1>1, <2>1, <2>3
    <3>4. <<Len(c.rets)>> \in Field
      BY <1>1, <2>3
    <3> QED BY <3>2, <3>3, <3>4
  <2>5. x \in Seq(Field) /\ y \in Seq(Field)
    BY <2>1, <2>3, AttrType
  <2>6. Fields(m) = <<i, s, t, a>> \o x \o r \o y
    BY <2>2 DEF InfoFields
  <2> DEFINE z == <<s, t, a>> \o x \o r \o y
  <2>7. <<s, t, a>> \in Seq(Field) /\ <<i>> \in Seq(Field) /\ <<i, s, t, a>> = <<i>> \o <<s, t, a>>
    <3> HIDE DEF i, s, t, a
    <3> QED BY <2>4
  <2>8. z \in Seq(Field) /\ Fields(m) = <<i>> \o z
    <3>1. \A p, q, u \in Seq(Field) : (p \o q) \o u = p \o (q \o u) /\ p \o q \in Seq(Field)
      BY ConcatAssociative, ConcatProperties
    <3> DEFINE w == <<s, t, a>>
    <3>2. Fields(m) = ((((<<i>> \o w) \o x) \o r) \o y)
      BY <2>6, <2>7
    <3>3. z = ((w \o x) \o r) \o y
      OBVIOUS
    <3>4. w \in Seq(Field) /\ <<i>> \in Seq(Field) /\ r \in Seq(Field)
      BY <2>4, <2>7
    <3> HIDE DEF w, x, y, r, z, i
    <3>5. (<<i>> \o w) \o x = <<i>> \o (w \o x) /\ w \o x \in Seq(Field)
      BY <2>5, <3>1, <3>4
    <3>6. (<<i>> \o (w \o x)) \o r = <<i>> \o ((w \o x) \o r) /\ (w \o x) \o r \in Seq(Field)
      BY <3>1, <3>4, <3>5
    <3> DEFINE v == (w \o x) \o r
    <3>7. (<<i>> \o v) \o y = <<i>> \o z /\ z \in Seq(Field)
      <4>1. v \in Seq(Field) /\ y \in Seq(Field) /\ z = v \o y
        BY <2>5, <3>3, <3>6
      <4> HIDE DEF v
      <4> QED BY <3>1, <3>4, <4>1
    <3> QED BY <3>2, <3>5, <3>6, <3>7
  <2>9. Fields(m) \in Seq(Field)
    <3> HIDE DEF z, i
    <3> QED BY <2>7, <2>8, ConcatProperties
  <2>10. \E n \in Nat : \E u \in Seq(Field) : Fields(m) = << <<n>> >> \o u
    <3>1. c.id \in Nat /\ Fields(m) = << <<c.id>> >> \o z
      BY <2>1, <2>8
    <3> HIDE DEF z, c
    <3> QED BY <2>8, <3>1
  <2> QED
    <3>1. m.kind # "list" /\ m.kind \notin {"call", "result"}
      BY <1>4
    <3> QED BY <2>9, <2>10, <3>1
<1>5. QED
  BY <1>2, <1>3, <1>4, KindFacts

-----------------------------------------------------------------------------
(* What a packet looks like when all its fields were copied.               *)

LEMMA SomeCells ==
  ASSUME NEW m \in Messages, Copyable(Fields(m))
  PROVE  FlattenSeq(Fields(m)) \in Cells /\ Len(FlattenSeq(Fields(m))) > 0
<1>1. Fields(m) \in Seq(Cells)
  BY FieldsType, CopyableCells
<1>2. FlattenSeq(Fields(m)) \in Cells
  BY <1>1, FlattenType DEF Cells
<1>3. PICK x \in Nat, rest \in Seq(Field) : Fields(m) = << <<x>> >> \o rest
  BY FieldsType
<1> DEFINE s == Fields(m)
<1> DEFINE b == FlattenSeq(s)
<1>4. Len(s) >= 1 /\ s[1] = <<x>>
  <2>1. Len(rest) \in Nat
    BY LenProperties
  <2>2. << <<x>> >> \in Seq(Field) /\ Len(<< <<x>> >>) = 1 /\ << <<x>> >>[1] = <<x>>
    <3>1. <<x>> \in Field
      BY DEF Field, Cells
    <3> QED BY <3>1
  <2> DEFINE h == << <<x>> >>
  <2>3. Len(h \o rest) = 1 + Len(rest) /\ (h \o rest)[1] = h[1]
    <3>1. /\ Len(h \o rest) = Len(h) + Len(rest)
          /\ \A i \in 1 .. Len(h) + Len(rest) : (h \o rest)[i] = IF i <= Len(h) THEN h[i] ELSE rest[i - Len(h)]
      <4>1. h \in Seq(Field)
        BY <2>2
      <4> HIDE DEF h
      <4> QED BY <4>1, ConcatProperties
    <3>2. Len(h) = 1
      BY <2>2
    <3> HIDE DEF h
    <3> QED BY <2>1, <3>1, <3>2
  <2> QED BY <1>3, <2>1, <2>2, <2>3
<1>5. s \in Seq(Seq(Nat)) /\ Len(s) \in Nat
  BY <1>1, LenProperties DEF Cells
<1>6. PICK p \in [0 .. Len(s) -> Nat] :
        /\ p[0] = 0 /\ p[Len(s)] = Len(b)
        /\ \A k \in 1 .. Len(s) : p[k] = p[k - 1] + Len(s[k]) /\ p[k] <= p[Len(s)]
  <2> HIDE DEF s
  <2> QED BY <1>5, FlattenPlaces DEF b
<1>7. p[1] = p[0] + Len(s[1]) /\ p[1] <= p[Len(s)]
  <2>1. 1 \in 1 .. Len(s) /\ 1 - 1 = 0
    BY <1>4, <1>5
  <2> HIDE DEF s, b
  <2> QED BY <1>6, <2>1
<1>8. Len(s[1]) = 1
  BY <1>4
<1>9. Len(b) \in Nat
  BY <1>2, LenProperties DEF Cells
<1>10. 1 <= Len(b)
  <2> HIDE DEF s, b
  <2> QED BY <1>6, <1>7, <1>8
<1>11. QED
  BY <1>2, <1>9, <1>10

\* A value that was copied, with the length before it.
LEMMA ValueCells ==
  ASSUME NEW v \in Field, Copyable(ValueFields(v))
  PROVE  v \in Cells /\ FlattenSeq(ValueFields(v)) = <<Len(v)>> \o v
<1>1. v # Unset
  <2>1. SUFFICES ASSUME v = Unset PROVE FALSE
    OBVIOUS
  <2>2. ValueFields(v) = <<Unset>>
    BY <2>1 DEF ValueFields
  <2>3. 1 \in DOMAIN <<Unset>> /\ <<Unset>>[1] = Unset
    OBVIOUS
  <2> QED BY <2>2, <2>3 DEF Copyable
<1>2. v \in Cells
  BY <1>1 DEF Field
<1>3. Len(v) \in Nat /\ <<Len(v)>> \in Seq(Nat) /\ v \in Seq(Nat)
  BY <1>2 DEF Cells
<1>4. CASE v = <<>>
  <2>1. ValueFields(v) = << <<0>> >>
    BY <1>1, <1>4 DEF ValueFields
  <2>2. <<0>> \in Seq(Nat)
    OBVIOUS
  <2>3. FlattenSeq(<< <<0>> >>) = <<0>>
    BY <2>2, FlattenOne
  <2>4. Len(v) = 0 /\ <<0>> \o v = <<0>>
    BY <1>4, <2>2, ConcatEmptySeq
  <2> QED BY <1>2, <2>1, <2>3, <2>4
<1>5. CASE v # <<>>
  <2> DEFINE l == <<Len(v)>>
  <2>1. ValueFields(v) = <<l, v>>
    BY <1>1, <1>5 DEF ValueFields, Counted
  <2>2. l \in Seq(Nat) /\ v \in Seq(Nat)
    BY <1>3
  <2> HIDE DEF l
  <2>3. <<l, v>> = <<l>> \o <<v>> /\ <<l>> \in Seq(Seq(Nat)) /\ <<v>> \in Seq(Seq(Nat))
    <3>1. <<l, v>> = <<l>> \o <<v>>
      BY <2>2, PairIsConcat
    <3>2. <<l>> \in Seq(Seq(Nat)) /\ <<v>> \in Seq(Seq(Nat))
      BY <2>2
    <3> QED BY <3>1, <3>2
  <2>4. FlattenSeq(<<l, v>>) = FlattenSeq(<<l>>) \o FlattenSeq(<<v>>)
    BY <2>3, FlattenConcat
  <2>5. FlattenSeq(<<l>>) = l /\ FlattenSeq(<<v>>) = v
    BY <2>2, FlattenOne
  <2> QED BY <1>2, <2>1, <2>4, <2>5 DEF l
<1>6. QED
  BY <1>4, <1>5

\* Parts of what can be copied.
LEMMA CopyablePart ==
  ASSUME NEW a \in Seq(Field), NEW b \in Seq(Field), Copyable(a \o b)
  PROVE  Copyable(b)
<1>1. /\ a \o b \in Seq(Field) /\ Len(a \o b) = Len(a) + Len(b)
      /\ \A i \in 1 .. Len(a) + Len(b) : (a \o b)[i] = IF i <= Len(a) THEN a[i] ELSE b[i - Len(a)]
  BY ConcatProperties
<1>2. /\ Len(a) \in Nat /\ Len(b) \in Nat
      /\ DOMAIN b = 1 .. Len(b) /\ DOMAIN (a \o b) = 1 .. Len(a \o b)
  BY <1>1, LenProperties
<1>3. ASSUME NEW k \in 1 .. Len(b) PROVE b[k] \in Cells \ {Unset}
  <2> DEFINE i == Len(a) + k
  <2>1. i \in 1 .. Len(a) + Len(b) /\ ~(i <= Len(a)) /\ i - Len(a) = k
    BY <1>2
  <2> HIDE DEF i
  <2>2. (a \o b)[i] = b[k]
    BY <1>1, <2>1
  <2>3. (a \o b)[i] \in Cells \ {Unset}
    BY <1>1, <1>2, <2>1 DEF Copyable
  <2> QED BY <2>2, <2>3
<1>4. QED
  BY <1>2, <1>3 DEF Copyable

LEMMA CopyableItems ==
  ASSUME NEW s \in Seq(Seq(Field)), Copyable(FlattenSeq(s))
  PROVE  \A k \in 1 .. Len(s) : Copyable(s[k])
<1> SUFFICES ASSUME NEW k \in 1 .. Len(s) PROVE Copyable(s[k])
  OBVIOUS
<1> DEFINE n == Len(s)
<1>1. n \in Nat /\ s[k] \in Seq(Field)
  BY LenProperties, ElementOfSeq
<1>2. Len(s[k]) \in Nat /\ DOMAIN s[k] = 1 .. Len(s[k])
  BY <1>1, LenProperties
<1> DEFINE w == FlattenSeq(s)
<1>3. w \in Seq(Field) /\ DOMAIN w = 1 .. Len(w) /\ Len(w) \in Nat
  <2>1. w \in Seq(Field)
    BY FlattenType
  <2> HIDE DEF w
  <2> QED BY <2>1, LenProperties
<1>4. PICK p \in [0 .. n -> Nat] :
        /\ p[n] = Len(w)
        /\ \A i \in 1 .. n :
             /\ p[i] = p[i - 1] + Len(s[i]) /\ p[i] <= p[n]
             /\ \A j \in 1 .. Len(s[i]) : w[p[i - 1] + j] = s[i][j]
  BY FlattenPlaces
<1>5. ASSUME NEW j \in 1 .. Len(s[k]) PROVE s[k][j] \in Cells \ {Unset}
  <2>1. p[k - 1] \in Nat /\ p[k] \in Nat
    <3>1. k - 1 \in 0 .. n /\ k \in 0 .. n
      BY <1>1
    <3> HIDE DEF n
    <3> QED BY <3>1
  <2>2. p[k] = p[k - 1] + Len(s[k]) /\ p[k] <= Len(w) /\ w[p[k - 1] + j] = s[k][j]
    <3> HIDE DEF w
    <3> QED BY <1>4
  <2>3. p[k - 1] + j \in 1 .. Len(w)
    <3> DEFINE a == p[k - 1]
    <3> DEFINE l == Len(s[k])
    <3>1. a \in Nat /\ l \in Nat /\ a + l <= Len(w) /\ j \in 1 .. l
      <4> HIDE DEF w
      <4> QED BY <1>2, <2>1, <2>2
    <3> HIDE DEF a, l, w
    <3>2. a + j \in 1 .. Len(w)
      BY <1>3, <3>1
    <3> QED BY <3>2 DEF a
  <2> HIDE DEF w
  <2>4. Copyable(w)
    BY DEF w
  <2> QED BY <1>3, <2>2, <2>3, <2>4 DEF Copyable
<1>6. QED
  BY <1>2, <1>5 DEF Copyable

\* Where the values of a call or a result stand: value k, after its length,
\* between places p[k - 1] and p[k].
RpcPlaces(values, b) ==
  {p \in [0 .. Len(values) -> Nat] :
     /\ p[0] = 2 /\ p[Len(values)] = Len(b)
     /\ \A k \in 1 .. Len(values) :
          /\ values[k] \in Cells
          /\ p[k] = p[k - 1] + 1 + Len(values[k]) /\ p[k] <= Len(b)
          /\ b[p[k - 1] + 1] = Len(values[k])
          /\ \A j \in 1 .. Len(values[k]) : b[p[k - 1] + 1 + j] = values[k][j]}

LEMMA RpcCells ==
  ASSUME NEW m \in Messages, m.kind \in {"call", "result"}, Copyable(Fields(m)),
         NEW b, b = FlattenSeq(Fields(m)), NEW values, values = m.content.values
  PROVE  /\ values \in Seq(Field) /\ b \in Cells /\ Len(b) \in Nat /\ Len(b) >= 2
         /\ b[2] = Len(values)
         /\ RpcPlaces(values, b) # {}
<1> DEFINE c == m.content
<1> DEFINE n == Len(values)
<1>1. c.id \in Nat /\ values \in Seq(Field)
  BY KindFacts
<1>2. n \in Nat /\ DOMAIN values = 1 .. n
  BY <1>1, LenProperties
<1> DEFINE items == RpcItems(c)
<1>3. items \in Seq(Seq(Field)) /\ Len(items) = n
  BY <1>1, RpcItemsType
<1>4. \A k \in 1 .. n : values[k] \in Field /\ items[k] = ValueFields(values[k])
  BY <1>1, <1>2, ElementOfSeq DEF RpcItems
<1> DEFINE head == << <<c.id>>, <<n>> >>
<1> DEFINE rest == FlattenSeq(items)
<1>5. rest \in Seq(Field) /\ Fields(m) = head \o rest
  BY FieldsType
<1>6. head \in Seq(Field) /\ head \in Seq(Seq(Nat))
  <2>1. <<c.id>> \in Cells /\ <<n>> \in Cells
    <3> HIDE DEF n, c
    <3> QED BY <1>1, <1>2 DEF Cells
  <2> DEFINE x == <<c.id>>
  <2> DEFINE y == <<n>>
  <2>2. x \in Field /\ y \in Field /\ x \in Seq(Nat) /\ y \in Seq(Nat)
    BY <2>1 DEF Field, Cells
  <2> HIDE DEF x, y
  <2>3. <<x, y>> \in Seq(Field) /\ <<x, y>> \in Seq(Seq(Nat))
    BY <2>2
  <2> QED BY <2>3 DEF x, y
<1>7. Copyable(rest)
  <2> HIDE DEF rest, head
  <2> QED BY <1>5, <1>6, CopyablePart
<1>8. \A k \in 1 .. n : Copyable(items[k])
  <2> HIDE DEF items, n
  <2> QED BY <1>3, <1>7, CopyableItems DEF n
<1>9. \A k \in 1 .. n : items[k] \in Seq(Cells)
  <2>1. \A k \in 1 .. n : items[k] \in Seq(Field)
    <3> HIDE DEF items, n
    <3> QED BY <1>3, ElementOfSeq
  <2> HIDE DEF items, n
  <2> QED BY <1>8, <2>1, CopyableCells
<1>10. \A k \in 1 .. n : values[k] \in Cells /\ FlattenSeq(items[k]) = <<Len(values[k])>> \o values[k]
  <2> HIDE DEF items, n
  <2> QED BY <1>4, <1>8, ValueCells
<1>11. items \in Seq(Seq(Seq(Nat)))
  <2>1. items = [k \in 1 .. n |-> items[k]]
    <3> HIDE DEF items, n
    <3>1. DOMAIN items = 1 .. n /\ items \in [1 .. n -> Seq(Field)]
      BY <1>3, LenProperties
    <3> QED BY <3>1
  <2>2. \A k \in 1 .. n : items[k] \in Seq(Seq(Nat))
    BY <1>9 DEF Cells
  <2> HIDE DEF items, n
  <2>3. [k \in 1 .. n |-> items[k]] \in Seq(Seq(Seq(Nat)))
    BY <1>2, <2>2
  <2> QED BY <2>1, <2>3
<1> DEFINE g == [k \in 1 .. n |-> FlattenSeq(items[k])]
<1>12. g \in Seq(Seq(Nat)) /\ FlattenSeq(rest) = FlattenSeq(g)
  <2>1. g = [k \in 1 .. Len(items) |-> FlattenSeq(items[k])]
    <3> HIDE DEF items
    <3> QED BY <1>3
  <2> HIDE DEF items, g, n
  <2>2. FlattenSeq(FlattenSeq(items)) = FlattenSeq(g) /\ g \in Seq(Seq(Nat))
    BY <1>11, <2>1, FlattenNested
  <2> QED BY <2>2
<1>13. Len(g) = n /\ \A k \in 1 .. n : g[k] = <<Len(values[k])>> \o values[k]
  <2>1. \A k \in 1 .. n : g[k] = FlattenSeq(items[k])
    <3> HIDE DEF items, n
    <3> QED OBVIOUS
  <2>2. Len(g) = n
    <3> HIDE DEF items, n
    <3> QED BY <1>2
  <2> HIDE DEF items, n, g
  <2> QED BY <1>10, <2>1, <2>2
<1>14. \A k \in 1 .. n :
         /\ Len(values[k]) \in Nat /\ Len(g[k]) = 1 + Len(values[k])
         /\ g[k][1] = Len(values[k])
         /\ \A j \in 1 .. Len(values[k]) : g[k][1 + j] = values[k][j]
  <2> SUFFICES ASSUME NEW k \in 1 .. n
               PROVE  /\ Len(values[k]) \in Nat /\ Len(g[k]) = 1 + Len(values[k])
                      /\ g[k][1] = Len(values[k])
                      /\ \A j \in 1 .. Len(values[k]) : g[k][1 + j] = values[k][j]
    <3> HIDE DEF n, g
    <3> QED OBVIOUS
  <2> DEFINE v == values[k]
  <2>1. v \in Seq(Nat) /\ Len(v) \in Nat
    <3>1. v \in Seq(Nat)
      BY <1>10 DEF Cells
    <3> HIDE DEF v
    <3> QED BY <3>1, LenProperties
  <2> DEFINE l == <<Len(v)>>
  <2>2. l \in Seq(Nat) /\ Len(l) = 1 /\ l[1] = Len(v)
    <3> HIDE DEF v
    <3> QED BY <2>1
  <2>3. g[k] = l \o v
    <3> HIDE DEF g, n
    <3> QED BY <1>13
  <2>4. Len(l \o v) = 1 + Len(v) /\ \A i \in 1 .. 1 + Len(v) : (l \o v)[i] = IF i <= 1 THEN l[i] ELSE v[i - 1]
    <3> HIDE DEF l, v
    <3>1. /\ Len(l \o v) = Len(l) + Len(v)
          /\ \A i \in 1 .. Len(l) + Len(v) :
               (l \o v)[i] = IF i <= Len(l) THEN l[i] ELSE v[i - Len(l)]
      BY <2>1, <2>2, ConcatProperties
    <3> QED BY <2>2, <3>1
  <2>5. \A j \in 1 .. Len(v) : (l \o v)[1 + j] = v[j]
    <3> HIDE DEF l, v
    <3> QED BY <2>1, <2>4
  <2>6. (l \o v)[1] = Len(v)
    <3> HIDE DEF l, v
    <3> QED BY <2>1, <2>2, <2>4
  <2>7. /\ Len(v) \in Nat /\ Len(g[k]) = 1 + Len(v) /\ g[k][1] = Len(v)
        /\ \A j \in 1 .. Len(v) : g[k][1 + j] = v[j]
    <3> HIDE DEF l, v, g
    <3> QED BY <2>1, <2>3, <2>4, <2>5, <2>6
  <2> HIDE DEF g, n
  <2> QED BY <2>7
<1> DEFINE w == FlattenSeq(g)
<1>15. w \in Seq(Nat) /\ Len(w) \in Nat
  <2>1. w \in Seq(Nat)
    <3> HIDE DEF g
    <3> QED BY <1>12, FlattenType
  <2> HIDE DEF w
  <2> QED BY <2>1, LenProperties
<1>16. b = <<c.id, n>> \o w
  <2>1. rest \in Seq(Seq(Nat))
    <3> HIDE DEF items, rest
    <3>1. rest \in Seq(Cells)
      BY <1>5, <1>7, CopyableCells
    <3> QED BY <3>1 DEF Cells
  <2>2. b = FlattenSeq(head) \o FlattenSeq(rest)
    <3> HIDE DEF head, rest
    <3> QED BY <1>5, <1>6, <2>1, FlattenConcat
  <2> DEFINE x == <<c.id>>
  <2> DEFINE y == <<n>>
  <2>3. x \in Seq(Nat) /\ y \in Seq(Nat) /\ head = <<x, y>>
    <3> HIDE DEF n, c
    <3>1. <<c.id>> \in Seq(Nat) /\ <<n>> \in Seq(Nat)
      BY <1>1, <1>2
    <3> QED BY <3>1
  <2>4. FlattenSeq(head) = x \o y
    <3> HIDE DEF x, y, head
    <3>1. head = <<x>> \o <<y>>
      BY <2>3, PairIsConcat
    <3>2. <<x>> \in Seq(Seq(Nat)) /\ <<y>> \in Seq(Seq(Nat))
      BY <2>3
    <3>3. FlattenSeq(<<x>>) = x /\ FlattenSeq(<<y>>) = y
      BY <2>3, FlattenOne
    <3> QED BY <3>1, <3>2, <3>3, FlattenConcat
  <2>5. x \o y = <<c.id, n>>
    <3> HIDE DEF c, n
    <3> QED BY <1>1, <1>2, PairIsConcat
  <2> HIDE DEF head, rest, x, y, n, c, w, g
  <2> QED BY <1>12, <2>2, <2>4, <2>5 DEF w
<1> DEFINE h == <<c.id, n>>
<1>17. h \in Seq(Nat) /\ Len(h) = 2 /\ h[2] = n
  <2> HIDE DEF c, n
  <2> QED BY <1>1, <1>2
<1>18. /\ b \in Seq(Nat) /\ Len(b) = 2 + Len(w)
       /\ \A i \in 1 .. 2 + Len(w) : b[i] = IF i <= 2 THEN h[i] ELSE w[i - 2]
  <2>1. b = h \o w
    BY <1>16
  <2>2. h \in Seq(Nat) /\ w \in Seq(Nat)
    BY <1>15, <1>17
  <2> HIDE DEF h, w
  <2>3. /\ h \o w \in Seq(Nat) /\ Len(h \o w) = Len(h) + Len(w)
        /\ \A i \in 1 .. Len(h) + Len(w) :
             (h \o w)[i] = IF i <= Len(h) THEN h[i] ELSE w[i - Len(h)]
    BY ONLY <2>2, ConcatProperties
  <2> QED BY <1>17, <2>1, <2>3
<1>19. b \in Cells /\ Len(b) \in Nat /\ Len(b) >= 2 /\ b[2] = n
  <2> HIDE DEF h, w, n
  <2> QED BY <1>15, <1>17, <1>18 DEF Cells
<1>20. PICK q \in [0 .. n -> Nat] :
         /\ q[0] = 0 /\ q[n] = Len(w)
         /\ \A k \in 1 .. n :
              /\ q[k] = q[k - 1] + Len(g[k]) /\ q[k] <= q[n]
              /\ \A j \in 1 .. Len(g[k]) : w[q[k - 1] + j] = g[k][j]
  <2> HIDE DEF g
  <2>1. \E q \in [0 .. Len(g) -> Nat] :
          /\ q[0] = 0 /\ q[Len(g)] = Len(FlattenSeq(g))
          /\ \A k \in 1 .. Len(g) :
               /\ q[k] = q[k - 1] + Len(g[k]) /\ q[k] <= q[Len(g)]
               /\ \A j \in 1 .. Len(g[k]) : FlattenSeq(g)[q[k - 1] + j] = g[k][j]
    BY <1>12, FlattenPlaces
  <2>2. w = FlattenSeq(g)
    OBVIOUS
  <2> HIDE DEF n, w
  <2> QED BY <1>13, <2>1, <2>2
<1> DEFINE p == [k \in 0 .. n |-> 2 + q[k]]
<1>21. p \in [0 .. n -> Nat] /\ \A k \in 0 .. n : p[k] = 2 + q[k]
  <2> HIDE DEF n
  <2> QED BY <1>20
<1>22. p[0] = 2 /\ p[n] = Len(b)
  <2>1. 0 \in 0 .. n /\ n \in 0 .. n
    <3> HIDE DEF n
    <3> QED BY <1>2
  <2> HIDE DEF p, n, w
  <2> QED BY <1>18, <1>20, <1>21, <2>1
<1>23. ASSUME NEW k \in 1 .. n
       PROVE  /\ values[k] \in Cells
              /\ p[k] = p[k - 1] + 1 + Len(values[k]) /\ p[k] <= Len(b)
              /\ b[p[k - 1] + 1] = Len(values[k])
              /\ \A j \in 1 .. Len(values[k]) : b[p[k - 1] + 1 + j] = values[k][j]
  <2> DEFINE l == Len(values[k])
  <2> DEFINE a == q[k - 1]
  <2> HIDE DEF n, g, w
  <2>1. l \in Nat /\ Len(g[k]) = 1 + l /\ g[k][1] = l /\ \A j \in 1 .. l : g[k][1 + j] = values[k][j]
    BY <1>14
  <2>2. k - 1 \in 0 .. n /\ k \in 0 .. n
    BY <1>2
  <2>3. a \in Nat /\ q[k] \in Nat /\ q[k] = a + (1 + l) /\ q[k] <= Len(w)
        /\ \A j \in 1 .. 1 + l : w[a + j] = g[k][j]
    <3>1. a \in Nat /\ q[k] \in Nat
      BY <1>20, <2>2
    <3>2. q[k] = a + Len(g[k]) /\ q[k] <= Len(w) /\ \A j \in 1 .. Len(g[k]) : w[a + j] = g[k][j]
      BY <1>20
    <3> HIDE DEF a, l
    <3> QED BY <2>1, <3>1, <3>2
  <2>4. p[k] = 2 + q[k] /\ p[k - 1] = 2 + a
    <3> HIDE DEF p
    <3> QED BY <1>21, <2>2
  <2> HIDE DEF a, l, p
  <2>5. p[k] = p[k - 1] + 1 + l /\ p[k] <= Len(b)
    BY <1>15, <1>18, <2>1, <2>3, <2>4
  <2>6. ASSUME NEW j \in 1 .. 1 + l PROVE b[2 + a + j] = g[k][j]
    <3> DEFINE i == 2 + a + j
    <3>1. i \in 1 .. 2 + Len(w) /\ ~(i <= 2) /\ i - 2 = a + j
      BY <1>15, <2>1, <2>3
    <3> HIDE DEF i
    <3>2. b[i] = w[a + j]
      BY <1>18, <3>1
    <3> QED BY <2>3, <3>2 DEF i
  <2>7. b[p[k - 1] + 1] = l
    <3>1. 1 \in 1 .. 1 + l
      BY <2>1
    <3>2. b[2 + a + 1] = g[k][1]
      BY <2>6, <3>1
    <3> QED BY <2>1, <2>4, <3>2
  <2>8. ASSUME NEW j \in 1 .. l PROVE b[p[k - 1] + 1 + j] = values[k][j]
    <3> DEFINE i == 1 + j
    <3>1. i \in 1 .. 1 + l /\ 2 + a + i = p[k - 1] + 1 + j
      BY <2>1, <2>3, <2>4
    <3>2. g[k][i] = values[k][j]
      BY <2>1
    <3> HIDE DEF i
    <3>3. b[2 + a + i] = g[k][i]
      BY <2>6, <3>1
    <3> QED BY <3>1, <3>2, <3>3
  <2>9. values[k] \in Cells
    BY <1>10
  <2> QED BY <2>5, <2>7, <2>8, <2>9 DEF l
<1>24. p \in RpcPlaces(values, b)
  <2> HIDE DEF p
  <2> QED BY <1>21, <1>22, <1>23 DEF RpcPlaces
<1>25. QED
  BY <1>1, <1>19, <1>24

-----------------------------------------------------------------------------
(* The buffers.                                                            *)

LEMMA SplitHead ==
  ASSUME NEW S, NEW s \in Seq(S), s # <<>>
  PROVE  /\ Head(s) \in S /\ Tail(s) \in Seq(S) /\ s = <<Head(s)>> \o Tail(s)
<1>1. Len(s) \in Nat /\ Len(s) >= 1
  BY EmptySeq, LenProperties
<1> DEFINE h == Head(s)
<1> DEFINE t == Tail(s)
<1>2. /\ h \in S /\ t \in Seq(S) /\ Len(t) = Len(s) - 1 /\ h = s[1]
      /\ \A i \in 1 .. Len(t) : t[i] = s[i + 1]
  BY HeadTailProperties
<1> DEFINE l == <<h>>
<1>3. l \in Seq(S) /\ Len(l) = 1 /\ l[1] = s[1]
  <2> HIDE DEF h
  <2> QED BY <1>2
<1>4. /\ l \o t \in Seq(S) /\ Len(l \o t) = Len(l) + Len(t)
      /\ \A i \in 1 .. Len(l) + Len(t) : (l \o t)[i] = IF i <= Len(l) THEN l[i] ELSE t[i - Len(l)]
  <2>1. l \in Seq(S) /\ t \in Seq(S)
    BY <1>2, <1>3
  <2> HIDE DEF l, t
  <2> QED BY ONLY <2>1, ConcatProperties
<1>5. Len(l \o t) = Len(s) /\ \A i \in 1 .. Len(s) : (l \o t)[i] = s[i]
  <2> HIDE DEF l, t, h
  <2>1. Len(l \o t) = Len(s) /\ \A i \in 1 .. Len(s) : (l \o t)[i] = IF i <= 1 THEN l[i] ELSE t[i - 1]
    BY <1>1, <1>2, <1>3, <1>4
  <2>2. ASSUME NEW i \in 1 .. Len(s) PROVE (l \o t)[i] = s[i]
    <3>1. CASE i = 1
      BY <1>3, <2>1, <3>1
    <3>2. CASE i # 1
      <4>1. i - 1 \in 1 .. Len(t) /\ (i - 1) + 1 = i /\ ~(i <= 1)
        BY <1>1, <1>2, <3>2
      <4> QED BY <1>2, <2>1, <4>1
    <3> QED BY <3>1, <3>2
  <2> QED BY <2>1, <2>2
<1>6. l \o t = s
  <2>1. l \o t \in Seq(S)
    BY <1>4
  <2> HIDE DEF l, t
  <2> QED BY <1>5, <2>1, SeqEqual
<1>7. QED
  BY <1>2, <1>6

\* One field fewer is left to be copied.
LEMMA CopyField ==
  ASSUME NEW s \in Seq(Field), s # <<>>, Head(s) \in Cells \ {Unset}, Copyable(Tail(s))
  PROVE  /\ Copyable(s) /\ FlattenSeq(Tail(s)) \in Cells
         /\ FlattenSeq(s) = Head(s) \o FlattenSeq(Tail(s))
<1> DEFINE h == Head(s)
<1> DEFINE t == Tail(s)
<1>1. t \in Seq(Field) /\ s = <<h>> \o t
  BY SplitHead
<1>2. t \in Seq(Seq(Nat)) /\ h \in Seq(Nat)
  <2>1. t \in Seq(Cells)
    BY <1>1, CopyableCells
  <2> QED BY <2>1 DEF Cells
<1>3. <<h>> \in Seq(Seq(Nat)) /\ FlattenSeq(<<h>>) = h
  <2> HIDE DEF h
  <2> QED BY <1>2, FlattenOne
<1>4. FlattenSeq(<<h>> \o t) = h \o FlattenSeq(t)
  <2> DEFINE l == <<h>>
  <2>1. l \in Seq(Seq(Nat)) /\ FlattenSeq(l) = h
    BY <1>3
  <2> HIDE DEF h, t, l
  <2>2. FlattenSeq(l \o t) = FlattenSeq(l) \o FlattenSeq(t)
    BY <1>2, <2>1, FlattenConcat
  <2>3. FlattenSeq(l \o t) = h \o FlattenSeq(t)
    BY <2>1, <2>2
  <2> QED BY <2>3 DEF l
<1>5. FlattenSeq(t) \in Cells
  <2> HIDE DEF t
  <2> QED BY <1>2, FlattenType DEF Cells
<1>6. Copyable(s)
  <2>1. /\ Len(s) \in Nat /\ DOMAIN s = 1 .. Len(s) /\ Len(t) = Len(s) - 1
        /\ h = s[1] /\ \A i \in 1 .. Len(t) : t[i] = s[i + 1]
        /\ DOMAIN t = 1 .. Len(t)
    BY <1>1, HeadTailProperties, LenProperties
  <2> SUFFICES ASSUME NEW k \in 1 .. Len(s) PROVE s[k] \in Cells \ {Unset}
    BY <2>1 DEF Copyable
  <2>2. CASE k = 1
    BY <2>1, <2>2
  <2>3. CASE k # 1
    <3>1. k - 1 \in 1 .. Len(t) /\ (k - 1) + 1 = k
      BY <2>1, <2>3
    <3>2. t[k - 1] \in Cells \ {Unset}
      <4> HIDE DEF t
      <4>1. Copyable(t)
        BY DEF t
      <4> QED BY <2>1, <3>1, <4>1 DEF Copyable
    <3> HIDE DEF t
    <3> QED BY <2>1, <3>1, <3>2
  <2> QED BY <2>2, <2>3
<1>7. QED
  BY <1>1, <1>4, <1>5, <1>6

LEMMA PaddedCells ==
  ASSUME NEW c \in Cells, NEW size \in Nat
  PROVE  /\ Padded(c, size) \in Cells /\ Len(c) \in Nat
         /\ Len(Padded(c, size)) = IF Len(c) <= size THEN size ELSE Len(c)
         /\ \A i \in 1 .. Len(Padded(c, size)) :
              Padded(c, size)[i] = IF i <= Len(c) THEN c[i] ELSE 0
<1>1. c \in Seq(Nat) /\ Len(c) \in Nat
  BY LenProperties DEF Cells
<1> DEFINE n == size - Len(c)
<1> DEFINE z == [k \in 1 .. n |-> 0]
<1> DEFINE l == IF Len(c) <= size THEN n ELSE 0
<1>2. l \in Nat /\ Len(c) + l = IF Len(c) <= size THEN size ELSE Len(c)
  BY <1>1
<1>3. z \in Seq(Nat) /\ Len(z) = l /\ \A k \in 1 .. l : z[k] = 0
  <2>1. 1 .. n = 1 .. l
    BY <1>1
  <2> DEFINE y == [k \in 1 .. l |-> 0]
  <2>2. z = y
    <3> HIDE DEF n, l
    <3> QED BY <2>1
  <2> HIDE DEF n, l
  <2>3. y \in Seq(Nat) /\ Len(y) = l /\ \A k \in 1 .. l : y[k] = 0
    BY <1>2
  <2> HIDE DEF y, z
  <2> QED BY <2>2, <2>3
<1> HIDE DEF z, l, n
<1>4. Padded(c, size) = c \o z
  BY DEF Padded, z, n
<1>5. /\ c \o z \in Seq(Nat) /\ Len(c \o z) = Len(c) + l
      /\ \A i \in 1 .. Len(c) + l : (c \o z)[i] = IF i <= Len(c) THEN c[i] ELSE z[i - Len(c)]
  <2>1. /\ c \o z \in Seq(Nat) /\ Len(c \o z) = Len(c) + Len(z)
        /\ \A i \in 1 .. Len(c) + Len(z) : (c \o z)[i] = IF i <= Len(c) THEN c[i] ELSE z[i - Len(c)]
    BY <1>1, <1>3, ConcatProperties
  <2> QED BY <1>3, <2>1
<1>6. ASSUME NEW i \in 1 .. Len(c) + l PROVE (c \o z)[i] = IF i <= Len(c) THEN c[i] ELSE 0
  <2>1. CASE i <= Len(c)
    BY <1>5, <2>1
  <2>2. CASE ~(i <= Len(c))
    <3>1. i - Len(c) \in 1 .. l
      BY <1>1, <1>2, <2>2
    <3> QED BY <1>3, <1>5, <2>2, <3>1
  <2> QED BY <2>1, <2>2
<1>7. QED
  BY <1>1, <1>2, <1>4, <1>5, <1>6 DEF Cells

LEMMA OverCells ==
  ASSUME NEW c \in Cells, NEW old \in Cells
  PROVE  Over(c, old) \in Cells /\ Len(Over(c, old)) \in Nat /\ Len(Over(c, old)) >= Len(c)
<1>1. c \in Seq(Nat) /\ old \in Seq(Nat) /\ Len(c) \in Nat /\ Len(old) \in Nat
  BY LenProperties DEF Cells
<1> DEFINE rest == SubSeq(old, Len(c) + 1, Len(old))
<1>2. rest \in Seq(Nat)
  <2>1. \A i \in Len(c) + 1 .. Len(old) : old[i] \in Nat
    <3> SUFFICES ASSUME NEW i \in Len(c) + 1 .. Len(old) PROVE old[i] \in Nat
      OBVIOUS
    <3>1. i \in 1 .. Len(old)
      BY <1>1
    <3> QED BY <1>1, <3>1, ElementOfSeq
  <2>2. Len(c) + 1 \in Int /\ Len(old) \in Int
    BY <1>1
  <2> QED BY <2>1, <2>2, SubSeqProperties
<1> HIDE DEF rest
<1>3. Len(rest) \in Nat /\ c \o rest \in Seq(Nat) /\ Len(c \o rest) = Len(c) + Len(rest)
  BY <1>1, <1>2, ConcatProperties, LenProperties
<1>4. Over(c, old) = c \o rest
  BY DEF Over, rest
<1>5. QED
  BY <1>1, <1>3, <1>4 DEF Cells

LEMMA PartCells ==
  ASSUME NEW c \in Cells, NEW m \in Nat \ {0}, NEW n \in Nat, n <= Len(c)
  PROVE  /\ SubSeq(c, m, n) \in Cells
         /\ Len(SubSeq(c, m, n)) = IF m <= n THEN n - m + 1 ELSE 0
         /\ \A i \in 1 .. n - m + 1 : SubSeq(c, m, n)[i] = c[m + i - 1]
<1>1. c \in Seq(Nat) /\ Len(c) \in Nat
  BY LenProperties DEF Cells
<1>2. \A i \in m .. n : c[i] \in Nat
  <2> SUFFICES ASSUME NEW i \in m .. n PROVE c[i] \in Nat
    OBVIOUS
  <2>1. i \in 1 .. Len(c)
    BY <1>1
  <2> QED BY <1>1, <2>1, ElementOfSeq
<1>3. m \in Int /\ n \in Int
  OBVIOUS
<1>4. QED
  BY <1>2, <1>3, SubSeqProperties DEF Cells

LEMMA FlattenNothing ==
  FlattenSeq(<<>>) = <<>>
<1> DEFINE s == <<>>
<1>1. s \in Seq(Seq(Nat)) /\ Len(s) = 0
  BY EmptySeq
<1> HIDE DEF s
<1>2. PICK f \in Joins(Nat, s) : TRUE
  BY <1>1, JoinsExist
<1>3. FlattenSeq(s) = f[Len(s)]
  BY <1>1, <1>2, FlattenJoins
<1>4. f[0] = <<>>
  BY <1>2 DEF Joins
<1>5. QED
  BY <1>1, <1>3, <1>4 DEF s

-----------------------------------------------------------------------------
(* The types of all variables.                                             *)

Item == CASE message.kind = "list" -> Entry [] IsRpc -> Cells [] OTHER -> Attr

Phases == {"read", "refused", "entries", "values", "own", "args", "rets", "outside", "done"}

Writing == phase \in {"write", "overrun"}

Shape ==
  /\ message \in Messages /\ todo \in Seq(Field)
  /\ buf \in Cells /\ max \in Nat
  /\ Writing \/ phase \in Phases
  /\ arrived \in Nat /\ arrived <= Len(Body)
  /\ memory \in Cells /\ at \in Nat /\ at >= 1 /\ left \in Nat
  /\ out \in Seq(Item)

\* What the buffer and the remaining fields make together, unless one of these
\* stops the copy.
WriteInv ==
  /\ Writing => arrived = 0 /\ out = <<>>
  /\ phase = "write" /\ Copyable(todo) =>
       Copyable(Fields(message)) /\ buf \o FlattenSeq(todo) = FlattenSeq(Fields(message))
  /\ ~Writing =>
       /\ Copyable(Fields(message)) /\ buf = FlattenSeq(Fields(message))
       /\ Len(memory) >= 1 /\ (IsRpc => Len(memory) >= 2)

KindInv ==
  /\ phase \in {"entries", "refused"} => message.kind = "list"
  /\ phase = "values" => IsRpc
  /\ phase \in {"own", "args", "rets"} => message.kind = "info"

TypeInv == Shape /\ WriteInv /\ KindInv

LEMMA BodyCells ==
  ASSUME NEW m, NEW b \in Cells,
         NEW body, body = IF m.kind = "result" THEN b \o Suffix ELSE b
  PROVE  /\ body \in Cells /\ Len(body) \in Nat /\ Len(b) \in Nat /\ Len(b) <= Len(body)
         /\ \A i \in 1 .. Len(b) : body[i] = b[i]
<1>1. b \in Seq(Nat) /\ Len(b) \in Nat /\ Suffix \in Seq(Nat) /\ Len(Suffix) \in Nat
  BY PacketsAssumption, LenProperties DEF Cells
<1>2. CASE m.kind = "result"
  <2>1. /\ b \o Suffix \in Seq(Nat) /\ Len(b \o Suffix) = Len(b) + Len(Suffix)
        /\ \A i \in 1 .. Len(b) + Len(Suffix) :
             (b \o Suffix)[i] = IF i <= Len(b) THEN b[i] ELSE Suffix[i - Len(b)]
    BY ONLY <1>1, ConcatProperties
  <2>2. \A i \in 1 .. Len(b) : (b \o Suffix)[i] = b[i]
    BY <1>1, <2>1
  <2> QED BY <1>1, <1>2, <2>1, <2>2 DEF Cells
<1>3. CASE m.kind # "result"
  BY <1>1, <1>3 DEF Cells
<1>4. QED
  BY <1>2, <1>3

LEMMA ItemFacts ==
  ASSUME message \in Messages
  PROVE  /\ message.kind = "list" => Item = Entry
         /\ IsRpc => Item = Cells
         /\ message.kind = "info" => Item = Attr
  BY DEF Item, IsRpc

LEMMA ShapeIsTypeOK ==
  ASSUME Shape
  PROVE  TypeOK
<1>1. arrived \in 0 .. Len(Body)
  <2>1. Body \in Cells /\ Len(Body) \in Nat
    BY BodyCells DEF Shape, Body
  <2> QED BY <2>1 DEF Shape
<1>2. phase \in {"write", "overrun", "read", "refused", "entries", "values", "own", "args",
                 "rets", "outside", "done"}
  BY DEF Shape, Writing, Phases
<1>3. QED
  BY <1>1, <1>2 DEF Shape, TypeOK, Field, Item

LEMMA InitTypes ==
  Init => TypeInv
<1> SUFFICES ASSUME Init PROVE TypeInv
  OBVIOUS
<1>1. message \in Messages /\ todo = Fields(message) /\ Fields(message) \in Seq(Field)
  BY FieldsType DEF Init
<1>2. <<>> \in Cells /\ <<>> \in Seq(Item)
  BY EmptySeq DEF Cells
<1>3. arrived \in Nat /\ arrived <= Len(Body)
  <2>1. Body \in Cells /\ Len(Body) \in Nat
    BY <1>2, BodyCells DEF Init, Body
  <2> QED BY <2>1 DEF Init
<1>4. Shape
  BY <1>1, <1>2, <1>3, PacketsAssumption DEF Init, Shape, Writing
<1>5. WriteInv
  <2>1. ASSUME Copyable(todo) PROVE <<>> \o FlattenSeq(todo) = FlattenSeq(Fields(message))
    <3> DEFINE b == FlattenSeq(Fields(message))
    <3>1. b \in Seq(Nat)
      BY <1>1, <2>1, SomeCells DEF Cells
    <3> HIDE DEF b
    <3>2. <<>> \o b = b
      BY <3>1, ConcatEmptySeq
    <3> QED BY <1>1, <3>2 DEF b
  <2>2. phase = "write" /\ buf = <<>> /\ arrived = 0 /\ out = <<>>
    BY DEF Init
  <2> QED BY <1>1, <2>1, <2>2 DEF WriteInv, Writing
<1>6. KindInv
  BY DEF Init, KindInv
<1>7. QED
  BY <1>4, <1>5, <1>6 DEF TypeInv

\* When all fields were copied.
LEMMA Written ==
  ASSUME TypeInv, (phase = "write" /\ todo = <<>>) \/ ~Writing
  PROVE  /\ Copyable(Fields(message)) /\ buf = FlattenSeq(Fields(message))
         /\ buf \in Cells /\ Len(buf) \in Nat /\ Len(buf) >= 1
         /\ IsRpc => Len(buf) >= 2
<1>1. buf \in Seq(Nat) /\ buf \in Cells /\ Len(buf) \in Nat /\ message \in Messages
  BY LenProperties DEF TypeInv, Shape, Cells
<1>2. Copyable(Fields(message)) /\ buf = FlattenSeq(Fields(message))
  <2>1. CASE phase = "write" /\ todo = <<>>
    <3>1. Copyable(todo) /\ FlattenSeq(todo) = <<>>
      BY <2>1, FlattenNothing DEF Copyable
    <3>2. buf \o <<>> = buf
      BY <1>1, ConcatEmptySeq
    <3> QED BY <2>1, <3>1, <3>2 DEF TypeInv, WriteInv
  <2>2. CASE ~Writing
    BY <2>2 DEF TypeInv, WriteInv
  <2> QED BY <2>1, <2>2
<1>3. Len(buf) >= 1
  BY <1>1, <1>2, SomeCells
<1>4. ASSUME IsRpc PROVE Len(buf) >= 2
  BY <1>1, <1>2, <1>4, RpcCells DEF IsRpc
<1>5. QED
  BY <1>1, <1>2, <1>3, <1>4

LEMMA CopyTypes ==
  TypeInv /\ (copy_to_buffer \/ CopyUnset) => TypeInv'
<1> SUFFICES ASSUME TypeInv, copy_to_buffer \/ CopyUnset PROVE TypeInv'
  OBVIOUS
<1> DEFINE h == Head(todo)
<1>1. /\ phase = "write" /\ todo # <<>> /\ phase' \in {"write", "overrun"}
      /\ message' = message /\ UNCHANGED <<arrived, memory, at, left, out>>
      /\ (max' = max \/ max' = max + BUFFER_INC_SIZE)
  BY DEF copy_to_buffer, CopyUnset, Grown, senderVars
<1>2. CASE copy_to_buffer /\ phase' = "write" /\ buf' = buf \o h /\ todo' = Tail(todo) /\ h # Unset
  <2>1. h \in Cells \ {Unset} /\ todo' \in Seq(Field)
    BY <1>1, <1>2, SplitHead DEF TypeInv, Shape, Field
  <2>2. buf \o h \in Seq(Nat) /\ buf \in Seq(Nat) /\ h \in Seq(Nat)
    <3>1. buf \in Seq(Nat) /\ h \in Seq(Nat)
      BY <2>1 DEF TypeInv, Shape, Cells
    <3> HIDE DEF h
    <3> QED BY <3>1, ConcatProperties
  <2>3. buf' \in Cells
    BY <1>2, <2>2 DEF Cells
  <2>4. arrived' \in Nat /\ arrived' <= Len(Body')
    <3>1. Body' = IF message'.kind = "result" THEN buf' \o Suffix ELSE buf'
      BY DEF Body
    <3>2. Len(Body') \in Nat
      BY <2>3, <3>1, BodyCells
    <3> QED BY <1>1, <3>2 DEF TypeInv, WriteInv, Writing
  <2>5. Shape'
    <3>1. Item' = Item /\ max' \in Nat
      BY <1>1, PacketsAssumption DEF Item, IsRpc, TypeInv, Shape
    <3> QED BY <1>1, <1>2, <2>1, <2>3, <2>4, <3>1 DEF TypeInv, Shape, Writing
  <2>6. ASSUME Copyable(todo')
        PROVE  /\ Copyable(Fields(message))
               /\ buf' \o FlattenSeq(todo') = FlattenSeq(Fields(message))
    <3> DEFINE r == FlattenSeq(todo')
    <3>1. Copyable(todo) /\ r \in Seq(Nat) /\ FlattenSeq(todo) = h \o r
      <4>1. todo \in Seq(Field) /\ Copyable(Tail(todo)) /\ todo' = Tail(todo)
        BY <1>2, <2>6 DEF TypeInv, Shape
      <4> HIDE DEF h
      <4> QED BY <1>1, <2>1, <4>1, CopyField DEF Cells, h
    <3>2. Copyable(Fields(message)) /\ buf \o (h \o r) = FlattenSeq(Fields(message))
      BY <1>1, <3>1 DEF TypeInv, WriteInv
    <3>3. buf' \o r = buf \o (h \o r)
      <4>1. buf' = buf \o h
        BY <1>2
      <4> HIDE DEF h, r
      <4>2. (buf \o h) \o r = buf \o (h \o r)
        BY <2>2, <3>1, ConcatAssociative
      <4> QED BY <4>1, <4>2
    <3> QED BY <3>2, <3>3
  <2>7. WriteInv'
    <3>1. Copyable(todo') => Copyable(Fields(message')) /\ buf' \o FlattenSeq(todo') = FlattenSeq(Fields(message'))
      BY <1>1, <2>6
    <3>2. arrived' = 0 /\ out' = <<>>
      BY <1>1 DEF TypeInv, WriteInv, Writing
    <3> QED BY <1>2, <3>1, <3>2 DEF WriteInv, Writing
  <2>8. KindInv'
    BY <1>2 DEF KindInv
  <2> QED BY <2>5, <2>7, <2>8 DEF TypeInv
<1>3. CASE phase' = "overrun" /\ UNCHANGED <<buf, todo>>
  <2>1. Body' = Body /\ Item' = Item /\ max' \in Nat
    BY <1>1, <1>3, PacketsAssumption DEF Body, Item, IsRpc, TypeInv, Shape
  <2>2. Shape'
    BY <1>1, <1>3, <2>1 DEF TypeInv, Shape, Writing
  <2>3. WriteInv' /\ KindInv'
    BY <1>1, <1>3 DEF TypeInv, WriteInv, KindInv, Writing
  <2> QED BY <2>2, <2>3 DEF TypeInv
<1>4. QED
  BY <1>1, <1>2, <1>3 DEF copy_to_buffer, CopyUnset, senderVars

LEMMA ArriveTypes ==
  ASSUME TypeInv, NEW kinds, NEW n \in Nat, NEW cells \in Cells, Arrives(kinds, n, cells),
         n <= Len(Body), Len(cells) \in Nat, Len(cells) >= 1, IsRpc => Len(cells) >= Len(buf)
  PROVE  TypeInv'
<1>1. /\ phase = "write" /\ todo = <<>> /\ phase' = "read" /\ arrived' = n /\ memory' = cells
      /\ UNCHANGED <<message, todo, buf, max, at, left, out>>
  BY DEF Arrives, senderVars
<1>2. /\ Copyable(Fields(message)) /\ buf = FlattenSeq(Fields(message))
      /\ Len(buf) \in Nat /\ Len(buf) >= 1 /\ (IsRpc => Len(buf) >= 2)
  BY <1>1, Written
<1>3. Body' = Body /\ Item' = Item /\ IsRpc' = IsRpc
  BY <1>1 DEF Body, Item, IsRpc
<1>4. Shape'
  BY <1>1, <1>3 DEF TypeInv, Shape, Phases
<1>5. WriteInv'
  <2>1. Copyable(Fields(message')) /\ buf' = FlattenSeq(Fields(message'))
    BY <1>1, <1>2
  <2>2. Len(memory') >= 1 /\ (IsRpc' => Len(memory') >= 2)
    BY <1>1, <1>2, <1>3
  <2>3. ~Writing' /\ phase' # "write"
    BY <1>1 DEF Writing
  <2> QED BY <2>1, <2>2, <2>3 DEF WriteInv
<1>6. KindInv'
  BY <1>1 DEF KindInv
<1>7. QED
  BY <1>4, <1>5, <1>6 DEF TypeInv

LEMMA ReadTypes ==
  ASSUME TypeInv, ~Writing, UNCHANGED <<senderVars, arrived, memory>>, phase' \in Phases,
         at' \in Nat, at' >= 1, left' \in Nat, out' \in Seq(Item), KindInv'
  PROVE  TypeInv'
<1>1. UNCHANGED <<message, todo, buf, max, arrived, memory>>
  BY DEF senderVars
<1>2. Body' = Body /\ Item' = Item /\ IsRpc' = IsRpc
  BY <1>1 DEF Body, Item, IsRpc
<1>3. Shape'
  BY <1>1, <1>2 DEF TypeInv, Shape
<1>4. WriteInv'
  <2>1. ~Writing' /\ phase' # "write"
    BY DEF Writing, Phases
  <2>2. Copyable(Fields(message')) /\ buf' = FlattenSeq(Fields(message'))
    BY <1>1 DEF TypeInv, WriteInv
  <2>3. Len(memory') >= 1 /\ (IsRpc' => Len(memory') >= 2)
    BY <1>1, <1>2 DEF TypeInv, WriteInv
  <2> QED BY <2>1, <2>2, <2>3 DEF WriteInv
<1>5. QED
  BY <1>3, <1>4 DEF TypeInv

LEMMA TypeNext ==
  TypeInv /\ [Next]_vars => TypeInv'
<1> SUFFICES ASSUME TypeInv, [Next]_vars PROVE TypeInv'
  OBVIOUS
<1>1. /\ message \in Messages /\ buf \in Cells /\ memory \in Cells /\ at \in Nat /\ at >= 1
      /\ left \in Nat /\ out \in Seq(Item)
      /\ message.kind = "list" => Item = Entry
      /\ IsRpc => Item = Cells
      /\ message.kind = "info" => Item = Attr
  BY ItemFacts DEF TypeInv, Shape
<1>2. /\ Body \in Cells /\ Len(Body) \in Nat /\ Len(buf) \in Nat /\ Len(buf) <= Len(Body)
  BY <1>1, BodyCells DEF Body
<1>3. Len(memory) \in Nat /\ \A i \in 1 .. Len(memory) : memory[i] \in Nat
  BY <1>1, LenProperties, ElementOfSeq DEF Cells
<1>4. CASE copy_to_buffer \/ CopyUnset
  BY <1>4, CopyTypes
<1>5. CASE ReceiveBroadcast
  <2>1. PICK old \in Leftovers :
          Arrives({"list"}, Len(buf), Padded(Over(buf, old), MAX_BUFFER_SIZE))
    BY <1>5 DEF ReceiveBroadcast
  <2> DEFINE o == Over(buf, old)
  <2> DEFINE cells == Padded(o, MAX_BUFFER_SIZE)
  <2>2. o \in Cells /\ Len(o) \in Nat /\ Len(o) >= Len(buf)
    BY <1>1, OverCells, PacketsAssumption
  <2>3. cells \in Cells /\ Len(cells) = IF Len(o) <= MAX_BUFFER_SIZE THEN MAX_BUFFER_SIZE ELSE Len(o)
    <3> HIDE DEF o
    <3> QED BY <2>2, PaddedCells, PacketsAssumption
  <2> HIDE DEF cells, o
  <2>4. Len(cells) \in Nat /\ Len(cells) >= Len(buf)
    BY <1>2, <2>2, <2>3, PacketsAssumption
  <2>5. Arrives({"list"}, Len(buf), cells)
    BY <2>1 DEF cells, o
  <2>6. Len(cells) >= 1
    <3>1. phase = "write" /\ todo = <<>>
      BY <2>5 DEF Arrives
    <3> QED BY <1>2, <2>4, <3>1, Written
  <2> QED BY <1>2, <2>3, <2>4, <2>5, <2>6, ArriveTypes
<1>6. CASE ReceivePacket
  <2>1. PICK n \in 1 .. Len(Body) :
          Arrives({"call", "result"}, n, Padded(SubSeq(Body, 1, n), Len(Body)))
    BY <1>6 DEF ReceivePacket
  <2> DEFINE part == SubSeq(Body, 1, n)
  <2> DEFINE cells == Padded(part, Len(Body))
  <2> HIDE DEF part, cells
  <2>2. part \in Cells /\ Len(part) = n
    <3>1. n \in Nat /\ n <= Len(Body) /\ n - 1 + 1 = n /\ 1 <= n
      BY <1>2, <2>1
    <3> QED BY <1>2, <3>1, PartCells DEF part
  <2>3. cells \in Cells /\ Len(cells) = Len(Body)
    BY <1>2, <2>1, <2>2, PaddedCells DEF cells
  <2>4. Arrives({"call", "result"}, n, cells)
    BY <2>1 DEF cells, part
  <2>5. n \in Nat /\ n <= Len(Body)
    BY <1>2, <2>1
  <2> QED BY <1>2, <2>3, <2>4, <2>5, ArriveTypes
<1>7. CASE ReceiveInfo
  <2>1. PICK n \in 1 .. Len(buf) :
          /\ n <= MAX_BUFFER_SIZE
          /\ Arrives({"info"}, n, Padded(SubSeq(buf, 1, n), MAX_BUFFER_SIZE))
    BY <1>7 DEF ReceiveInfo
  <2> DEFINE part == SubSeq(buf, 1, n)
  <2> DEFINE cells == Padded(part, MAX_BUFFER_SIZE)
  <2> HIDE DEF part, cells
  <2>2. n \in Nat /\ n >= 1 /\ n <= Len(buf) /\ n - 1 + 1 = n
    BY <1>2, <2>1
  <2>3. part \in Cells /\ Len(part) = n
    BY <1>1, <2>2, PartCells DEF part
  <2>4. cells \in Cells /\ Len(cells) = MAX_BUFFER_SIZE
    BY <2>1, <2>3, PaddedCells, PacketsAssumption DEF cells
  <2>5. Arrives({"info"}, n, cells)
    BY <2>1 DEF cells, part
  <2>6. n <= Len(Body) /\ Len(cells) \in Nat /\ Len(cells) >= 1 /\ ~IsRpc
    BY <1>2, <2>1, <2>2, <2>4, <2>5, PacketsAssumption DEF Arrives, IsRpc
  <2> QED BY <2>2, <2>4, <2>5, <2>6, ArriveTypes
<1>8. CASE ReadListHead \/ ReadRpcHead \/ ReadInfoHead
  <2>1. phase = "read" /\ UNCHANGED <<senderVars, arrived, memory, out>>
    BY <1>8 DEF ReadListHead, ReadRpcHead, ReadInfoHead, Goes, Expect
  <2>2. ~Writing
    BY <2>1 DEF Writing
  <2>3. message' = message /\ IsRpc' = IsRpc
    BY <2>1 DEF senderVars, IsRpc
  <2>4. memory[1] \in Nat /\ (IsRpc => memory[2] \in Nat)
    <3>1. Len(memory) >= 1 /\ (IsRpc => Len(memory) >= 2)
      BY <2>2 DEF TypeInv, WriteInv
    <3> QED BY <1>3, <3>1
  <2>5. phase' \in Phases /\ at' \in Nat /\ at' >= 1 /\ left' \in Nat /\ KindInv'
    <3>1. CASE ReadListHead
      BY <1>1, <2>3, <2>4, <3>1 DEF ReadListHead, Goes, Expect, Phases, KindInv
    <3>2. CASE ReadRpcHead
      BY <1>1, <2>3, <2>4, <3>2 DEF ReadRpcHead, Expect, Phases, KindInv, IsRpc
    <3>3. CASE ReadInfoHead
      BY <1>1, <2>3, <3>3 DEF ReadInfoHead, Expect, Phases, KindInv
    <3> QED BY <1>8, <3>1, <3>2, <3>3
  <2> QED BY <1>1, <2>1, <2>2, <2>5, ReadTypes
<1>9. CASE ReadInfoCount
  <2>1. /\ phase \in {"own", "args"} /\ at \in DOMAIN memory
        /\ phase' \in {"args", "rets"} /\ left' = memory[at] /\ at' = at + 1
        /\ UNCHANGED <<senderVars, arrived, memory, out>>
    BY <1>9 DEF ReadInfoCount, Expect
  <2>2. left' \in Nat
    <3>1. DOMAIN memory = 1 .. Len(memory)
      BY <1>1, LenProperties DEF Cells
    <3> QED BY <1>3, <2>1, <3>1
  <2>3. KindInv'
    BY <2>1 DEF TypeInv, KindInv, senderVars
  <2>4. ~Writing /\ phase' \in Phases /\ at' \in Nat /\ at' >= 1 /\ out' \in Seq(Item)
    BY <1>1, <2>1 DEF Writing, Phases
  <2> QED BY <2>1, <2>2, <2>3, <2>4, ReadTypes
<1>10. CASE ReadOutside \/ Return
  <2>1. /\ ~Writing /\ phase' \in {"outside", "done"}
        /\ UNCHANGED <<senderVars, arrived, memory, at, left, out>>
    BY <1>10 DEF ReadOutside, Return, Goes, Writing
  <2>2. KindInv' /\ phase' \in Phases
    BY <2>1 DEF KindInv, Phases
  <2> QED BY <1>1, <2>1, <2>2, ReadTypes
<1>11. ASSUME NEW item \in Item, NEW e \in Nat, e >= 1, left > 0, ~Writing, phase \in Phases,
              Take(item, e)
       PROVE  TypeInv'
  <2>1. /\ out' = Append(out, item) /\ at' = e /\ left' = left - 1
        /\ UNCHANGED <<senderVars, phase, arrived, memory>>
    BY <1>11 DEF Take
  <2>2. out' \in Seq(Item) /\ left' \in Nat
    BY <1>1, <1>11, <2>1, AppendProperties
  <2>3. KindInv'
    BY <2>1 DEF TypeInv, KindInv, senderVars, IsRpc
  <2> QED BY <1>11, <2>1, <2>2, <2>3, ReadTypes
<1>12. ASSUME NEW k \in Nat, k >= 1, NEW e \in Ends, Inside(k, e)
       PROVE  /\ Data(k) \in Cells /\ e \in Nat /\ e > k /\ k \in 1 .. Len(memory)
  <2>1. /\ e \in Nat /\ k <= Len(memory) /\ e = k + 1 + memory[k] /\ e <= Len(memory) + 1
    BY <1>3, <1>12 DEF Inside, Ends
  <2>2. k \in 1 .. Len(memory) /\ memory[k] \in Nat
    BY <1>3, <1>12, <2>1
  <2> DEFINE n == k + memory[k]
  <2>3. k + 1 \in Nat \ {0} /\ n \in Nat /\ n <= Len(memory) /\ e > k
    BY <1>3, <2>1, <2>2
  <2>4. SubSeq(memory, k + 1, n) \in Cells
    <3> HIDE DEF n
    <3> QED BY <1>1, <2>3, PartCells
  <2> QED BY <2>1, <2>2, <2>3, <2>4 DEF Data
<1>13. CASE ReadEntry
  <2>1. PICK d \in Ends, e \in Ends :
          /\ phase = "entries" /\ left > 0 /\ Inside(at + 1, d) /\ Inside(d, e)
          /\ Take([id |-> memory[at], arg_flags |-> Data(at + 1), ret_flags |-> Data(d)], e)
    BY <1>13 DEF ReadEntry, IsEntry
  <2>2. Data(at + 1) \in Cells /\ d \in Nat /\ d > at + 1 /\ at + 1 \in 1 .. Len(memory)
    BY <1>1, <1>12, <2>1
  <2>3. Data(d) \in Cells /\ e \in Nat /\ e > d
    BY <1>1, <1>12, <2>1, <2>2
  <2>4. memory[at] \in Nat
    BY <1>1, <1>3, <2>2
  <2>5. [id |-> memory[at], arg_flags |-> Data(at + 1), ret_flags |-> Data(d)] \in Item
    <3>1. Item = Entry
      BY <1>1, <2>1 DEF TypeInv, KindInv
    <3> QED BY <2>2, <2>3, <2>4, <3>1 DEF Entry
  <2>6. ~Writing /\ phase \in Phases /\ e >= 1
    BY <1>1, <2>1, <2>2, <2>3 DEF Writing, Phases
  <2> QED BY <1>11, <2>1, <2>3, <2>5, <2>6
<1>14. CASE ReadValue
  <2>1. PICK e \in Ends : phase = "values" /\ left > 0 /\ Inside(at, e) /\ Take(Data(at), e)
    BY <1>14 DEF ReadValue
  <2>2. Data(at) \in Cells /\ e \in Nat /\ e > at
    BY <1>1, <1>12, <2>1
  <2>3. Data(at) \in Item /\ ~Writing /\ phase \in Phases /\ e >= 1
    BY <1>1, <2>1, <2>2 DEF TypeInv, KindInv, Writing, Phases
  <2> QED BY <1>11, <2>1, <2>2, <2>3
<1>15. CASE ReadAttr
  <2>1. PICK d \in Ends, e \in Ends :
          /\ phase \in {"own", "args", "rets"} /\ left > 0 /\ IsString(at, d) /\ IsString(d, e)
          /\ Take([name |-> TextAt(at, d), description |-> TextAt(d, e)], e)
    BY <1>15 DEF ReadAttr, IsAttr
  <2>2. ASSUME NEW k \in Nat, k >= 1, NEW f \in Ends, IsString(k, f)
        PROVE  TextAt(k, f) \in Text /\ f \in Nat /\ f > k
    <3>1. f \in Nat /\ f > k /\ f <= Len(memory) + 1 /\ \A j \in k .. f - 2 : memory[j] # 0
      BY <1>3, <2>2 DEF IsString, Ends
    <3>2. \A j \in k .. f - 2 : memory[j] \in Nat \ {0}
      <4> SUFFICES ASSUME NEW j \in k .. f - 2 PROVE memory[j] \in Nat \ {0}
        OBVIOUS
      <4>1. j \in 1 .. Len(memory)
        BY <1>3, <2>2, <3>1
      <4> QED BY <1>3, <3>1, <4>1
    <3>3. k \in Int /\ f - 2 \in Int
      BY <3>1
    <3>4. SubSeq(memory, k, f - 2) \in Seq(Nat \ {0})
      BY <3>2, <3>3, SubSeqProperties
    <3> QED BY <3>1, <3>4 DEF TextAt, Text
  <2>3. TextAt(at, d) \in Text /\ d \in Nat /\ d > at
    BY <1>1, <2>1, <2>2
  <2>4. TextAt(d, e) \in Text /\ e \in Nat /\ e > d
    BY <1>1, <2>1, <2>2, <2>3
  <2>5. [name |-> TextAt(at, d), description |-> TextAt(d, e)] \in Item
    <3>1. Item = Attr
      BY <1>1, <2>1 DEF TypeInv, KindInv
    <3> QED BY <2>3, <2>4, <3>1 DEF Attr
  <2>6. ~Writing /\ phase \in Phases /\ e >= 1
    BY <1>1, <2>1, <2>3, <2>4 DEF Writing, Phases
  <2> QED BY <1>11, <2>1, <2>4, <2>5, <2>6
<1>16. CASE UNCHANGED vars
  <2>1. UNCHANGED <<message, todo, buf, max, phase, arrived, memory, at, left, out>>
    BY <1>16 DEF vars, senderVars
  <2>2. Body' = Body /\ Item' = Item /\ IsRpc' = IsRpc /\ Writing' = Writing
    BY <2>1 DEF Body, Item, IsRpc, Writing
  <2>3. Shape'
    BY <2>1, <2>2 DEF TypeInv, Shape
  <2>4. WriteInv'
    BY <2>1, <2>2 DEF TypeInv, WriteInv
  <2>5. KindInv'
    BY <2>1, <2>2 DEF TypeInv, KindInv
  <2> QED BY <2>3, <2>4, <2>5 DEF TypeInv
<1>17. QED
  BY <1>4, <1>5, <1>6, <1>7, <1>8, <1>9, <1>10, <1>13, <1>14, <1>15, <1>16 DEF Next

\* Every variable stays in its range: the numbers that a receiver takes from
\* its buffer, without a comparison with the length of the packet, lie in it.
THEOREM TypeOKHolds ==
  Spec => []TypeOK
<1>1. Spec => []TypeInv
  BY InitTypes, TypeNext, PTL DEF Spec
<1>2. TypeInv => TypeOK
  BY ShapeIsTypeOK DEF TypeInv
<1>3. QED
  BY <1>1, <1>2, PTL

-----------------------------------------------------------------------------
(* The growth of the buffer.                                               *)

\* Growing once is enough, wherever in the packet the buffer fills up, unless a
\* single field is larger than the growth or was never set.
THEOREM OverrunNeedsBigFieldHolds ==
  Spec => []OverrunNeedsBigField
<1>1. Init => OverrunNeedsBigField
  <2>1. Len(<<>>) = 0
    OBVIOUS
  <2> QED BY <2>1, PacketsAssumption DEF Init, OverrunNeedsBigField
<1>2. TypeInv /\ OverrunNeedsBigField /\ [Next]_vars => OverrunNeedsBigField'
  <2> SUFFICES ASSUME TypeInv, OverrunNeedsBigField, [Next]_vars PROVE OverrunNeedsBigField'
    OBVIOUS
  <2>1. /\ buf \in Seq(Nat) /\ Len(buf) \in Nat /\ max \in Nat /\ Len(buf) <= max
        /\ BUFFER_INC_SIZE \in Nat
    BY LenProperties, PacketsAssumption DEF TypeInv, Shape, Cells, OverrunNeedsBigField
  <2>2. CASE copy_to_buffer
    <3> DEFINE h == Head(todo)
    <3> DEFINE size == Len(h)
    <3>1. h \in Seq(Nat) /\ size \in Nat
      <4>1. todo \in Seq(Field) /\ todo # <<>> /\ h # Unset
        BY <2>2 DEF copy_to_buffer, TypeInv, Shape
      <4>2. h \in Seq(Nat)
        BY <4>1, HeadTailProperties DEF Field, Cells
      <4> HIDE DEF h
      <4> QED BY <4>2, LenProperties
    <3>2. max' = IF Len(buf) + size > max THEN max + BUFFER_INC_SIZE ELSE max
      BY <2>2 DEF copy_to_buffer, Grown
    <3>3. CASE Len(buf) + size <= max' /\ buf' = buf \o h /\ phase' = "write"
      <4>1. Len(buf \o h) = Len(buf) + size
        <5> HIDE DEF h
        <5> QED BY <2>1, <3>1, ConcatProperties
      <4>2. Len(buf') <= max' /\ phase' # "overrun"
        BY <3>3, <4>1
      <4> QED BY <4>2 DEF OverrunNeedsBigField
    <3>4. CASE Len(buf) + size > max' /\ buf' = buf /\ todo' = todo
      <4>1. size > BUFFER_INC_SIZE /\ Len(buf) <= max'
        <5> HIDE DEF size
        <5> QED BY <2>1, <3>1, <3>2, <3>4
      <4>2. Len(Head(todo')) > BUFFER_INC_SIZE /\ Len(buf') <= max'
        BY <3>4, <4>1
      <4> QED BY <4>2 DEF OverrunNeedsBigField
    <3> QED BY <2>2, <3>3, <3>4 DEF copy_to_buffer
  <2>3. CASE CopyUnset
    <3>1. Head(todo) = Unset /\ UNCHANGED <<todo, buf, max>>
      BY <2>3 DEF CopyUnset, senderVars
    <3>2. Head(todo') = Unset /\ Len(buf') <= max'
      BY <2>1, <3>1
    <3> QED BY <3>2 DEF OverrunNeedsBigField
  <2>4. CASE UNCHANGED senderVars /\ (phase' # "overrun" \/ phase' = phase)
    BY <2>4 DEF OverrunNeedsBigField, senderVars
  <2>5. ASSUME ReceiveBroadcast \/ ReceivePacket \/ ReceiveInfo
        PROVE  UNCHANGED senderVars /\ phase' # "overrun"
    BY <2>5 DEF ReceiveBroadcast, ReceivePacket, ReceiveInfo, Arrives
  <2>6. ASSUME ReadListHead \/ ReadRpcHead \/ ReadInfoHead \/ ReadInfoCount \/ ReadOutside \/ Return
        PROVE  UNCHANGED senderVars /\ phase' # "overrun"
    BY <2>6 DEF ReadListHead, ReadRpcHead, ReadInfoHead, ReadInfoCount, ReadOutside, Return,
                Goes, Expect
  <2>7. ASSUME ReadEntry \/ ReadValue \/ ReadAttr
        PROVE  UNCHANGED senderVars /\ phase' = phase
    BY <2>7 DEF ReadEntry, ReadValue, ReadAttr, Take
  <2>8. CASE UNCHANGED vars
    BY <2>4, <2>8 DEF vars
  <2> QED BY <2>2, <2>3, <2>4, <2>5, <2>6, <2>7, <2>8 DEF Next
<1>3. QED
  BY <1>1, <1>2, InitTypes, TypeNext, PTL DEF Spec

-----------------------------------------------------------------------------
(* Calls and results.                                                      *)

Values == message.content.values

\* Value j as it is read: as it was sent if it has arrived, ending in zeros if
\* only its length has, empty if not even that.
ValueRead(p, j) ==
  IF p[j] <= arrived THEN Values[j]
  ELSE IF p[j - 1] < arrived
       THEN Padded(SubSeq(Values[j], 1, arrived - p[j - 1] - 1), Len(Values[j]))
       ELSE <<>>

\* Between two values, or past what has arrived and not past the next value.
Position(p) ==
  \/ at = p[Len(out)] + 1
  \/ arrived < at /\ at <= p[Len(out)] + 1

\* The values read so far.
ValuesRead(p) ==
  /\ Position(p)
  /\ \A j \in 1 .. Len(out) : out[j] = ValueRead(p, j)

RpcInv ==
  IsRpc /\ ~Writing =>
    /\ phase \in {"read", "values", "done"}
    /\ arrived >= 1 /\ Len(memory) >= Len(buf)
    /\ \A i \in 1 .. Len(buf) : memory[i] = IF i <= arrived THEN buf[i] ELSE 0
    /\ phase = "read" => out = <<>>
    /\ phase # "read" =>
         /\ left + Len(out) = memory[2]
         /\ phase = "done" => left = 0
         /\ \A p \in RpcPlaces(Values, buf) : ValuesRead(p)

\* What is known of the packet while it is read.
LEMMA RpcFacts ==
  ASSUME TypeInv, IsRpc, ~Writing
  PROVE  /\ Values \in Seq(Field) /\ Len(Values) \in Nat /\ buf \in Cells /\ Len(buf) \in Nat
         /\ Len(buf) >= 2 /\ buf[2] = Len(Values) /\ RpcPlaces(Values, buf) # {}
         /\ memory \in Cells /\ Len(memory) \in Nat
         /\ \A i \in 1 .. Len(memory) : memory[i] \in Nat
         /\ arrived \in Nat /\ at \in Nat /\ at >= 1 /\ left \in Nat
         /\ out \in Seq(Cells) /\ Len(out) \in Nat
<1>1. message \in Messages /\ Copyable(Fields(message)) /\ buf = FlattenSeq(Fields(message))
  BY DEF TypeInv, Shape, WriteInv
<1>2. /\ Values \in Seq(Field) /\ buf \in Cells /\ Len(buf) \in Nat /\ Len(buf) >= 2
      /\ buf[2] = Len(Values) /\ RpcPlaces(Values, buf) # {}
  BY <1>1, RpcCells DEF IsRpc, Values
<1>3. /\ memory \in Cells /\ arrived \in Nat /\ at \in Nat /\ at >= 1 /\ left \in Nat
      /\ out \in Seq(Cells)
  BY <1>1, ItemFacts DEF TypeInv, Shape
<1>4. Len(memory) \in Nat /\ \A i \in 1 .. Len(memory) : memory[i] \in Nat
  BY <1>3, LenProperties, ElementOfSeq DEF Cells
<1>5. Len(Values) \in Nat /\ Len(out) \in Nat
  BY <1>2, <1>3, LenProperties
<1>6. QED
  BY <1>2, <1>3, <1>4, <1>5

\* The next value lies inside the buffer, and is read as far as it has arrived.
LEMMA NextValue ==
  ASSUME TypeInv, RpcInv, phase = "values", left > 0, NEW p \in RpcPlaces(Values, buf),
         NEW k, k = Len(out) + 1, NEW e, e = at + 1 + memory[at]
  PROVE  /\ k \in 1 .. Len(Values) /\ e \in Ends /\ Inside(at, e)
         /\ Data(at) = ValueRead(p, k) /\ Data(at) \in Cells
         /\ e = p[k] + 1 \/ (arrived < e /\ e <= p[k] + 1)
<1>1. IsRpc /\ ~Writing
  BY DEF TypeInv, KindInv, Writing
<1> DEFINE n == Len(Values)
<1>2. /\ n \in Nat /\ buf \in Cells /\ Len(buf) \in Nat /\ Len(buf) >= 2 /\ buf[2] = n
      /\ memory \in Cells /\ Len(memory) \in Nat
      /\ \A i \in 1 .. Len(memory) : memory[i] \in Nat
      /\ arrived \in Nat /\ at \in Nat /\ at >= 1 /\ left \in Nat /\ Len(out) \in Nat
  BY <1>1, RpcFacts
<1>3. /\ arrived >= 1 /\ Len(memory) >= Len(buf)
      /\ \A i \in 1 .. Len(buf) : memory[i] = IF i <= arrived THEN buf[i] ELSE 0
      /\ left + Len(out) = memory[2]
      /\ at = p[Len(out)] + 1 \/ (arrived < at /\ at <= p[Len(out)] + 1)
  BY <1>1 DEF RpcInv, ValuesRead, Position
<1>4. p \in [0 .. n -> Nat] /\ p[0] = 2 /\ p[n] = Len(buf)
  BY DEF RpcPlaces
<1>5. ASSUME NEW i \in 1 .. n
      PROVE  /\ Values[i] \in Cells /\ p[i] = p[i - 1] + 1 + Len(Values[i]) /\ p[i] <= Len(buf)
             /\ buf[p[i - 1] + 1] = Len(Values[i])
             /\ \A j \in 1 .. Len(Values[i]) : buf[p[i - 1] + 1 + j] = Values[i][j]
  BY DEF RpcPlaces
<1>6. k \in 1 .. n /\ k - 1 = Len(out)
  <2>1. memory[2] = IF 2 <= arrived THEN n ELSE 0
    BY <1>2, <1>3
  <2> HIDE DEF n
  <2> QED BY <1>2, <1>3, <2>1
<1> DEFINE v == Values[k]
<1> DEFINE l == Len(v)
<1> DEFINE s == p[k - 1]
<1>7. /\ v \in Cells /\ l \in Nat /\ s \in Nat /\ p[k] = s + 1 + l /\ p[k] <= Len(buf)
      /\ buf[s + 1] = l /\ \A j \in 1 .. l : buf[s + 1 + j] = v[j]
  <2>1. v \in Cells /\ l \in Nat
    <3>1. v \in Seq(Nat)
      BY <1>5, <1>6 DEF Cells
    <3> HIDE DEF v
    <3> QED BY <3>1, LenProperties DEF Cells
  <2>2. s \in Nat
    <3>1. k - 1 \in 0 .. n
      BY <1>2, <1>6
    <3> HIDE DEF n
    <3> QED BY <1>4, <3>1
  <2> HIDE DEF n
  <2> QED BY <1>5, <1>6, <2>1, <2>2
<1> HIDE DEF n, v, l, s
<1>8. at = s + 1 \/ (arrived < at /\ at <= s + 1)
  BY <1>3, <1>6 DEF s
<1>9. CASE at = s + 1 /\ at <= arrived
  <2>1. at \in 1 .. Len(buf) /\ at \in 1 .. Len(memory)
    BY <1>2, <1>3, <1>7, <1>9
  <2>2. memory[at] = l
    BY <1>3, <1>7, <1>9, <2>1
  <2>3. e = p[k] + 1 /\ e \in Nat /\ e <= Len(memory) + 1 /\ e >= 1
    BY <1>2, <1>3, <1>7, <1>9, <2>2
  <2>4. e \in Ends /\ Inside(at, e)
    BY <1>2, <2>1, <2>2, <2>3 DEF Ends, Inside
  <2> DEFINE d == SubSeq(memory, s + 2, s + 1 + l)
  <2>5. /\ Data(at) = d /\ d \in Cells /\ Len(d) = l
        /\ \A j \in 1 .. l : d[j] = memory[s + 1 + j]
    <3>1. at + 1 = s + 2 /\ at + memory[at] = s + 1 + l
      BY <1>7, <1>9, <2>2
    <3>2. s + 2 \in Nat \ {0} /\ s + 1 + l \in Nat /\ s + 1 + l <= Len(memory)
      BY <1>2, <1>3, <1>7
    <3>3. /\ d \in Cells /\ Len(d) = IF s + 2 <= s + 1 + l THEN (s + 1 + l) - (s + 2) + 1 ELSE 0
          /\ \A j \in 1 .. (s + 1 + l) - (s + 2) + 1 : d[j] = memory[(s + 2) + j - 1]
      <4> DEFINE a == s + 2
      <4> DEFINE z == s + 1 + l
      <4>1. a \in Nat \ {0} /\ z \in Nat /\ z <= Len(memory) /\ memory \in Cells
        BY <1>2, <3>2
      <4> HIDE DEF a, z
      <4>2. /\ SubSeq(memory, a, z) \in Cells
            /\ Len(SubSeq(memory, a, z)) = IF a <= z THEN z - a + 1 ELSE 0
            /\ \A j \in 1 .. z - a + 1 : SubSeq(memory, a, z)[j] = memory[a + j - 1]
        BY <4>1, PartCells
      <4> QED BY <4>2 DEF a, z
    <3> HIDE DEF d
    <3>4. (s + 1 + l) - (s + 2) + 1 = l /\ Len(d) = l
      BY <1>7, <3>3
    <3>5. ASSUME NEW j \in 1 .. l PROVE d[j] = memory[s + 1 + j]
      <4>1. (s + 2) + j - 1 = s + 1 + j
        BY <1>7
      <4> QED BY <3>3, <3>4, <4>1
    <3> QED BY <3>1, <3>3, <3>4, <3>5 DEF Data, d
  <2> HIDE DEF d
  <2>6. ASSUME NEW j \in 1 .. l
        PROVE  d[j] = IF s + 1 + j <= arrived THEN v[j] ELSE 0
    <3>1. s + 1 + j \in 1 .. Len(buf)
      BY <1>2, <1>7
    <3> QED BY <1>3, <1>7, <2>5, <3>1
  <2>7. CASE p[k] <= arrived
    <3>1. \A j \in 1 .. l : d[j] = v[j]
      <4> SUFFICES ASSUME NEW j \in 1 .. l PROVE d[j] = v[j]
        OBVIOUS
      <4>1. s + 1 + j <= arrived
        BY <1>2, <1>7, <2>7
      <4> QED BY <2>6, <4>1
    <3>2. d = v
      <4>1. d \in Seq(Nat) /\ v \in Seq(Nat) /\ Len(d) = Len(v)
        BY <1>7, <2>5 DEF Cells, l
      <4> QED BY <2>5, <3>1, <4>1, SeqEqual
    <3>3. ValueRead(p, k) = v
      BY <2>7 DEF ValueRead, v
    <3> QED BY <1>6, <2>3, <2>4, <2>5, <3>2, <3>3 DEF n
  <2>8. CASE ~(p[k] <= arrived)
    <3> DEFINE m == arrived - s - 1
    <3> DEFINE part == SubSeq(v, 1, m)
    <3>1. m \in Nat /\ m <= l /\ s < arrived /\ Len(v) = l
      BY <1>2, <1>7, <1>9, <2>8 DEF l
    <3>2. ValueRead(p, k) = Padded(part, l)
      BY <2>8, <3>1 DEF ValueRead, v, l, s
    <3>3. part \in Cells /\ Len(part) = m /\ \A j \in 1 .. m : part[j] = v[j]
      <4> HIDE DEF m
      <4>1. /\ part \in Cells /\ Len(part) = IF 1 <= m THEN m - 1 + 1 ELSE 0
            /\ \A j \in 1 .. m - 1 + 1 : part[j] = v[1 + j - 1]
        BY <1>7, <3>1, PartCells
      <4> HIDE DEF part
      <4>2. m - 1 + 1 = m /\ Len(part) = m
        BY <3>1, <4>1
      <4>3. \A j \in 1 .. m : 1 + j - 1 = j
        BY <3>1
      <4> QED BY <4>1, <4>2, <4>3
    <3> HIDE DEF part
    <3> DEFINE w == Padded(part, l)
    <3>4. w \in Cells /\ Len(w) = l /\ \A j \in 1 .. l : w[j] = IF j <= m THEN part[j] ELSE 0
      <4> HIDE DEF m
      <4>1. /\ w \in Cells /\ Len(w) = IF Len(part) <= l THEN l ELSE Len(part)
            /\ \A j \in 1 .. Len(w) : w[j] = IF j <= Len(part) THEN part[j] ELSE 0
        BY <1>7, <3>3, PaddedCells
      <4> HIDE DEF w
      <4> QED BY <3>1, <3>3, <4>1
    <3> HIDE DEF w
    <3>5. \A j \in 1 .. l : d[j] = w[j]
      <4> SUFFICES ASSUME NEW j \in 1 .. l PROVE d[j] = w[j]
        OBVIOUS
      <4>1. CASE j <= m
        <5>1. s + 1 + j <= arrived /\ j \in 1 .. m
          BY <1>2, <1>7, <3>1, <4>1
        <5> HIDE DEF m
        <5> QED BY <2>6, <3>3, <3>4, <4>1, <5>1
      <4>2. CASE ~(j <= m)
        <5>1. ~(s + 1 + j <= arrived)
          BY <1>2, <1>7, <3>1, <4>2
        <5> HIDE DEF m
        <5> QED BY <2>6, <3>4, <4>2, <5>1
      <4> QED BY <4>1, <4>2
    <3>6. d = w
      <4>1. d \in Seq(Nat) /\ w \in Seq(Nat) /\ Len(d) = Len(w)
        BY <2>5, <3>4 DEF Cells
      <4> QED BY <2>5, <3>5, <4>1, SeqEqual
    <3> QED BY <1>6, <2>3, <2>4, <2>5, <3>2, <3>6 DEF n, w
  <2> QED BY <2>7, <2>8
<1>10. CASE arrived < at /\ at <= s + 1
  <2>1. at \in 1 .. Len(buf) /\ at \in 1 .. Len(memory) /\ ~(at <= arrived)
    BY <1>2, <1>3, <1>7, <1>10
  <2>2. memory[at] = 0
    BY <1>3, <2>1
  <2>3. e = at + 1 /\ e \in Nat /\ e <= Len(memory) + 1 /\ arrived < e /\ e <= p[k] + 1
    BY <1>2, <1>7, <1>10, <2>1, <2>2
  <2>4. e \in Ends /\ Inside(at, e)
    BY <1>2, <2>1, <2>2, <2>3 DEF Ends, Inside
  <2>5. Data(at) = <<>>
    <3>1. at + 1 \in Int /\ at + memory[at] \in Int /\ at + memory[at] < at + 1
      BY <1>2, <2>2
    <3> QED BY <3>1, SubSeqEmpty DEF Data
  <2>6. ValueRead(p, k) = <<>>
    <3>1. ~(p[k] <= arrived) /\ ~(s < arrived)
      BY <1>2, <1>7, <1>10
    <3> QED BY <3>1 DEF ValueRead, s
  <2>7. <<>> \in Cells
    BY EmptySeq DEF Cells
  <2> QED BY <1>6, <2>3, <2>4, <2>5, <2>6, <2>7 DEF n
<1>11. (at = s + 1 /\ at <= arrived) \/ (arrived < at /\ at <= s + 1)
  BY <1>2, <1>7, <1>8
<1>12. QED
  BY <1>9, <1>10, <1>11

\* A packet that arrives, in part or as a whole, in a buffer of zeros.
LEMMA RpcArrives ==
  ASSUME TypeInv, ReceivePacket
  PROVE  RpcInv'
<1>1. PICK n \in 1 .. Len(Body) :
        Arrives({"call", "result"}, n, Padded(SubSeq(Body, 1, n), Len(Body)))
  BY DEF ReceivePacket
<1>2. /\ phase = "write" /\ todo = <<>> /\ IsRpc /\ phase' = "read" /\ arrived' = n
      /\ memory' = Padded(SubSeq(Body, 1, n), Len(Body))
      /\ UNCHANGED <<message, buf, at, left, out>>
  BY <1>1 DEF Arrives, IsRpc, senderVars
<1>3. message \in Messages /\ buf \in Cells /\ out = <<>>
  BY <1>2 DEF TypeInv, Shape, WriteInv, Writing
<1>4. /\ Body \in Cells /\ Len(Body) \in Nat /\ Len(buf) \in Nat /\ Len(buf) <= Len(Body)
      /\ \A i \in 1 .. Len(buf) : Body[i] = buf[i]
  <2>1. Body = IF message.kind = "result" THEN buf \o Suffix ELSE buf
    BY DEF Body
  <2>2. Len(buf) \in Nat /\ Body \in Cells /\ Len(Body) \in Nat /\ Len(buf) <= Len(Body)
    BY <1>3, <2>1, BodyCells
  <2>3. ASSUME NEW i \in 1 .. Len(buf) PROVE Body[i] = buf[i]
    BY <1>3, <2>1, BodyCells
  <2> QED BY <2>2, <2>3
<1>5. n \in Nat /\ n >= 1 /\ n <= Len(Body)
  BY <1>1, <1>4
<1> DEFINE part == SubSeq(Body, 1, n)
<1>6. part \in Cells /\ Len(part) = n /\ \A i \in 1 .. n : part[i] = Body[i]
  <2>1. /\ part \in Cells /\ Len(part) = IF 1 <= n THEN n - 1 + 1 ELSE 0
        /\ \A i \in 1 .. n - 1 + 1 : part[i] = Body[1 + i - 1]
    BY <1>4, <1>5, PartCells
  <2> HIDE DEF part
  <2>2. n - 1 + 1 = n /\ Len(part) = n /\ \A i \in 1 .. n : 1 + i - 1 = i
    BY <1>5, <2>1
  <2> QED BY <2>1, <2>2
<1> HIDE DEF part
<1> DEFINE cells == Padded(part, Len(Body))
<1>7. Len(cells) = Len(Body) /\ \A i \in 1 .. Len(Body) : cells[i] = IF i <= n THEN part[i] ELSE 0
  <2>1. /\ Len(cells) = IF Len(part) <= Len(Body) THEN Len(Body) ELSE Len(part)
        /\ \A i \in 1 .. Len(cells) : cells[i] = IF i <= Len(part) THEN part[i] ELSE 0
    BY <1>4, <1>6, PaddedCells
  <2> HIDE DEF cells
  <2> QED BY <1>5, <1>6, <2>1
<1> HIDE DEF cells
<1>8. memory' = cells
  BY <1>2 DEF cells, part
<1>9. ASSUME NEW i \in 1 .. Len(buf) PROVE memory'[i] = IF i <= n THEN buf[i] ELSE 0
  <2>1. i \in 1 .. Len(Body) /\ (i <= n => i \in 1 .. n)
    BY <1>4, <1>5
  <2> QED BY <1>4, <1>6, <1>7, <1>8, <2>1
<1>10. QED
  BY <1>2, <1>3, <1>4, <1>5, <1>7, <1>8, <1>9 DEF RpcInv

LEMMA RpcHead ==
  ASSUME TypeInv, RpcInv, ReadRpcHead
  PROVE  RpcInv'
<1>1. /\ phase = "read" /\ IsRpc /\ phase' = "values" /\ left' = memory[2] /\ at' = 3
      /\ UNCHANGED <<message, buf, arrived, memory, out>>
  BY DEF ReadRpcHead, Expect, IsRpc, senderVars
<1>2. ~Writing
  BY <1>1 DEF Writing
<1>3. /\ arrived >= 1 /\ Len(memory) >= Len(buf) /\ out = <<>>
      /\ \A i \in 1 .. Len(buf) : memory[i] = IF i <= arrived THEN buf[i] ELSE 0
  BY <1>1, <1>2 DEF RpcInv
<1>4. Len(out') = 0 /\ memory[2] \in Nat
  <2>1. 2 \in 1 .. Len(memory)
    BY <1>1, <1>2, <1>3, RpcFacts
  <2> QED BY <1>1, <1>2, <1>3, <2>1, RpcFacts
<1>5. Values' = Values
  BY <1>1 DEF Values
<1>6. ASSUME NEW p \in RpcPlaces(Values', buf') PROVE ValuesRead(p)'
  <2>1. p[0] = 2
    BY <1>6 DEF RpcPlaces
  <2>2. Position(p)'
    BY <1>1, <1>4, <2>1 DEF Position
  <2>3. 1 .. Len(out') = {}
    BY <1>4
  <2> QED BY <2>2, <2>3 DEF ValuesRead
<1>7. left' + Len(out') = memory'[2]
  BY <1>1, <1>4
<1>8. (\A p \in RpcPlaces(Values, buf) : ValuesRead(p))'
  BY <1>6
<1>9. QED
  BY <1>1, <1>3, <1>7, <1>8 DEF RpcInv

LEMMA RpcValue ==
  ASSUME TypeInv, RpcInv, ReadValue
  PROVE  RpcInv'
<1>1. PICK e \in Ends : phase = "values" /\ left > 0 /\ Inside(at, e) /\ Take(Data(at), e)
  BY DEF ReadValue
<1>2. /\ phase' = phase /\ out' = Append(out, Data(at)) /\ at' = e /\ left' = left - 1
      /\ e = at + 1 + memory[at] /\ UNCHANGED <<message, buf, arrived, memory>>
  BY <1>1 DEF Take, Inside, senderVars
<1>3. IsRpc /\ ~Writing
  BY <1>1 DEF TypeInv, KindInv, Writing
<1> DEFINE d == Data(at)
<1> DEFINE k == Len(out) + 1
<1>4. out \in Seq(Cells) /\ Len(out) \in Nat /\ left \in Nat /\ arrived \in Nat
  BY <1>3, RpcFacts
<1>5. /\ arrived >= 1 /\ Len(memory) >= Len(buf)
      /\ \A i \in 1 .. Len(buf) : memory[i] = IF i <= arrived THEN buf[i] ELSE 0
      /\ left + Len(out) = memory[2]
      /\ \A p \in RpcPlaces(Values, buf) : ValuesRead(p)
  BY <1>1, <1>3 DEF RpcInv
<1>6. d \in Cells
  <2>1. PICK p \in RpcPlaces(Values, buf) : TRUE
    BY <1>3, RpcFacts
  <2> QED BY <1>1, <1>2, <2>1, NextValue
<1> HIDE DEF d
<1>7. /\ Len(out') = k
      /\ \A i \in 1 .. Len(out) : out'[i] = out[i]
      /\ out'[k] = d
  <2>1. out' = Append(out, d)
    BY <1>2 DEF d
  <2> QED BY <1>4, <1>6, <2>1, AppendProperties
<1>8. left' + Len(out') = memory'[2]
  <2>1. memory'[2] = left + Len(out) /\ memory'[2] = memory[2]
    BY <1>2, <1>5
  <2> QED BY <1>1, <1>2, <1>4, <1>7, <2>1
<1>9. ASSUME NEW p \in RpcPlaces(Values, buf) PROVE ValuesRead(p)'
  <2>1. /\ d = ValueRead(p, k)
        /\ e = p[k] + 1 \/ (arrived < e /\ e <= p[k] + 1)
    BY <1>1, <1>2, NextValue DEF d
  <2>2. Position(p)'
    <3> HIDE DEF k
    <3> QED BY <1>2, <1>7, <2>1 DEF Position
  <2>3. \A j : ValueRead(p, j)' = ValueRead(p, j)
    BY <1>2 DEF ValueRead, Values
  <2>4. ASSUME NEW j \in 1 .. Len(out') PROVE out'[j] = ValueRead(p, j)
    <3>1. CASE j = k
      BY <1>7, <2>1, <3>1
    <3>2. CASE j # k
      <4>1. j \in 1 .. Len(out)
        BY <1>4, <1>7, <3>2
      <4> QED BY <1>5, <1>7, <4>1 DEF ValuesRead
    <3> QED BY <3>1, <3>2
  <2> QED BY <2>2, <2>3, <2>4 DEF ValuesRead
<1>10. (\A p \in RpcPlaces(Values, buf) : ValuesRead(p))'
  <2>1. Values' = Values /\ buf' = buf
    BY <1>2 DEF Values
  <2> QED BY <1>9, <2>1
<1>11. QED
  BY <1>1, <1>2, <1>5, <1>8, <1>10 DEF RpcInv

LEMMA RpcNext ==
  TypeInv /\ RpcInv /\ [Next]_vars => RpcInv'
<1> SUFFICES ASSUME TypeInv, RpcInv, [Next]_vars PROVE RpcInv'
  OBVIOUS
<1>1. CASE copy_to_buffer \/ CopyUnset
  <2>1. phase' \in {"write", "overrun"}
    BY <1>1 DEF copy_to_buffer, CopyUnset
  <2> QED BY <2>1 DEF RpcInv, Writing
<1>2. CASE ReceivePacket
  BY <1>2, RpcArrives
<1>3. CASE ReadRpcHead
  BY <1>3, RpcHead
<1>4. CASE ReadValue
  BY <1>4, RpcValue
<1>5. CASE message' = message /\ ~IsRpc
  BY <1>5 DEF RpcInv, IsRpc
<1>6. ASSUME \/ ReceiveBroadcast \/ ReceiveInfo \/ ReadListHead \/ ReadInfoHead
             \/ ReadEntry \/ ReadAttr \/ ReadInfoCount
      PROVE  message' = message /\ ~IsRpc
  <2>1. CASE ReceiveBroadcast \/ ReceiveInfo
    BY <2>1 DEF ReceiveBroadcast, ReceiveInfo, Arrives, senderVars, IsRpc
  <2>2. CASE ReadListHead \/ ReadInfoHead
    BY <2>2 DEF ReadListHead, ReadInfoHead, Goes, Expect, senderVars, IsRpc
  <2>3. CASE ReadEntry \/ ReadAttr
    BY <2>3 DEF ReadEntry, ReadAttr, Take, senderVars, IsRpc, TypeInv, KindInv
  <2>4. CASE ReadInfoCount
    BY <2>4 DEF ReadInfoCount, Expect, senderVars, IsRpc, TypeInv, KindInv
  <2> QED BY <1>6, <2>1, <2>2, <2>3, <2>4
<1>7. CASE ReadOutside /\ IsRpc
  <2>1. phase = "values" /\ left > 0 /\ ~(\E e \in Ends : Inside(at, e))
    <3>1. phase = "values"
      BY <1>7 DEF ReadOutside, IsRpc, TypeInv, KindInv
    <3>2. left > 0 /\ ~ItemFits
      BY <1>7, <3>1 DEF ReadOutside
    <3> QED BY <3>1, <3>2 DEF ItemFits
  <2>2. ~Writing
    BY <2>1 DEF Writing
  <2>3. PICK p \in RpcPlaces(Values, buf) : TRUE
    BY <1>7, <2>2, RpcFacts
  <2>4. at + 1 + memory[at] \in Ends /\ Inside(at, at + 1 + memory[at])
    BY <2>1, <2>3, NextValue
  <2> QED BY <2>1, <2>4
<1>8. CASE UNCHANGED <<message, buf, arrived, memory, at, left, out>>
           /\ (phase' = phase \/ (phase' = "done" /\ left = 0 /\ phase = "values"))
  <2>1. Values' = Values /\ IsRpc' = IsRpc
    BY <1>8 DEF Values, IsRpc
  <2>2. SUFFICES ASSUME IsRpc, ~Writing' PROVE RpcInv'
    BY <2>1 DEF RpcInv
  <2>3. ~Writing
    BY <1>8, <2>2 DEF Writing
  <2>4. phase' # "read" => \A p \in RpcPlaces(Values, buf) : ValuesRead(p)
    BY <1>8, <2>2, <2>3 DEF RpcInv
  <2>5. phase' # "read" => (\A p \in RpcPlaces(Values, buf) : ValuesRead(p))'
    <3>1. \A p : ValuesRead(p)' <=> ValuesRead(p)
      BY <1>8, <2>1 DEF ValuesRead, Position, ValueRead
    <3> QED BY <1>8, <2>1, <2>4, <3>1
  <2> QED BY <1>8, <2>2, <2>3, <2>5 DEF RpcInv
<1>9. CASE UNCHANGED vars
  BY <1>8, <1>9 DEF vars, senderVars
<1>10. CASE Return
  <2>1. /\ phase \in {"entries", "values", "rets"} /\ left = 0 /\ phase' = "done"
        /\ UNCHANGED <<message, buf, arrived, memory, at, left, out>>
    BY <1>10 DEF Return, Goes, senderVars
  <2>2. IsRpc => phase = "values"
    BY <2>1 DEF IsRpc, TypeInv, KindInv
  <2> QED BY <1>5, <1>8, <2>1, <2>2
<1>11. CASE ReadOutside /\ ~IsRpc
  BY <1>5, <1>11 DEF ReadOutside, Goes, senderVars
<1>12. QED
  BY <1>1, <1>2, <1>3, <1>4, <1>5, <1>6, <1>7, <1>9, <1>10, <1>11 DEF Next

LEMMA RpcAlways ==
  Spec => [](TypeInv /\ RpcInv)
<1>1. Init => RpcInv
  BY DEF Init, RpcInv, Writing
<1>2. QED
  BY <1>1, InitTypes, TypeNext, RpcNext, PTL DEF Spec

\* A call or a result that has arrived as a whole is read back as it was
\* written, whatever follows it in the buffer.
THEOREM RpcRoundTripHolds ==
  Spec => []RpcRoundTrip
<1>1. ASSUME TypeInv, RpcInv PROVE RpcRoundTrip
  <2> SUFFICES ASSUME IsRpc, arrived >= Len(buf), phase \in {"done", "outside"}
               PROVE  phase = "done" /\ out = Values
    BY DEF RpcRoundTrip, Values
  <2>1. ~Writing
    BY DEF Writing
  <2>2. /\ phase = "done" /\ Len(memory) >= Len(buf)
        /\ \A i \in 1 .. Len(buf) : memory[i] = IF i <= arrived THEN buf[i] ELSE 0
        /\ left + Len(out) = memory[2] /\ left = 0
        /\ \A p \in RpcPlaces(Values, buf) : ValuesRead(p)
    BY <1>1, <2>1 DEF RpcInv
  <2>3. /\ Values \in Seq(Field) /\ Len(Values) \in Nat /\ Len(buf) \in Nat
        /\ Len(buf) >= 2 /\ buf[2] = Len(Values) /\ arrived \in Nat
        /\ out \in Seq(Cells) /\ Len(out) \in Nat
    BY <1>1, <2>1, RpcFacts
  <2>4. Len(out) = Len(Values)
    <3>1. 2 \in 1 .. Len(buf) /\ 2 <= arrived
      BY <2>3
    <3> QED BY <2>2, <2>3, <3>1
  <2>5. PICK p \in RpcPlaces(Values, buf) : ValuesRead(p)
    BY <1>1, <2>1, <2>2, RpcFacts
  <2>6. ASSUME NEW j \in 1 .. Len(out) PROVE out[j] = Values[j]
    <3>1. p[j] \in Nat /\ p[j] <= Len(buf)
      BY <2>3, <2>4 DEF RpcPlaces
    <3>2. p[j] <= arrived
      BY <2>3, <3>1
    <3> QED BY <2>5, <3>2 DEF ValuesRead, ValueRead
  <2>7. out \in Seq(Field)
    <3>1. Cells \subseteq Field
      BY DEF Field
    <3> QED BY <2>3, <3>1, SeqMonotonic
  <2> QED BY <2>2, <2>3, <2>4, <2>6, <2>7, SeqEqual
<1>2. QED
  BY <1>1, RpcAlways, PTL

\* What is missing of a call or a result is never looked for outside the
\* buffer: values that did not arrive are read as empty or end in zeros, and
\* those before them are read as they were.
THEOREM ShortReadStaysInsideHolds ==
  Spec => []ShortReadStaysInside
<1>1. ASSUME TypeInv, RpcInv PROVE ShortReadStaysInside
  <2> SUFFICES ASSUME IsRpc
               PROVE  /\ phase # "outside"
                      /\ \A k \in DOMAIN out :
                           \/ out[k] = Values[k] /\ \A j \in 1 .. k - 1 : out[j] = Values[j]
                           \/ out[k] = <<>>
                           \/ /\ Len(out[k]) = Len(Values[k])
                              /\ \E n \in 0 .. Len(Values[k]) :
                                   out[k] = Padded(SubSeq(Values[k], 1, n), Len(Values[k]))
    BY DEF ShortReadStaysInside, Values
  <2>1. CASE Writing \/ phase = "read"
    <3>1. phase # "outside" /\ (phase = "overrun" \/ out = <<>>)
      BY <1>1, <2>1 DEF Writing, TypeInv, WriteInv, RpcInv
    <3>2. DOMAIN <<>> = {}
      OBVIOUS
    <3>3. phase = "overrun" => out = <<>>
      BY <1>1 DEF TypeInv, WriteInv, Writing
    <3> QED BY <3>1, <3>2, <3>3
  <2>2. CASE ~Writing /\ phase # "read"
    <3>1. /\ phase # "outside"
          /\ left + Len(out) = memory[2] /\ Len(memory) >= Len(buf)
          /\ \A i \in 1 .. Len(buf) : memory[i] = IF i <= arrived THEN buf[i] ELSE 0
          /\ \A p \in RpcPlaces(Values, buf) : ValuesRead(p)
      BY <1>1, <2>2 DEF RpcInv
    <3>2. /\ Values \in Seq(Field) /\ Len(Values) \in Nat /\ Len(buf) \in Nat
          /\ Len(buf) >= 2 /\ buf[2] = Len(Values) /\ arrived \in Nat /\ left \in Nat
          /\ out \in Seq(Cells) /\ Len(out) \in Nat
      BY <1>1, <2>2, RpcFacts
    <3>3. Len(out) <= Len(Values) /\ DOMAIN out = 1 .. Len(out)
      <4>1. memory[2] = IF 2 <= arrived THEN Len(Values) ELSE 0
        BY <3>1, <3>2
      <4>2. Len(out) <= Len(Values)
        BY <3>1, <3>2, <4>1
      <4>3. DOMAIN out = 1 .. Len(out)
        BY <3>2, LenProperties
      <4> QED BY <4>2, <4>3
    <3>4. PICK p \in RpcPlaces(Values, buf) : ValuesRead(p)
      BY <1>1, <2>2, <3>1, RpcFacts
    <3>5. /\ p \in [0 .. Len(Values) -> Nat]
          /\ \A i \in 1 .. Len(Values) :
               Values[i] \in Cells /\ p[i] = p[i - 1] + 1 + Len(Values[i])
      BY DEF RpcPlaces
    <3>6. \A j \in 1 .. Len(out) : out[j] = ValueRead(p, j)
      BY <3>4 DEF ValuesRead
    <3> SUFFICES ASSUME NEW k \in 1 .. Len(out)
                 PROVE  \/ out[k] = Values[k] /\ \A j \in 1 .. k - 1 : out[j] = Values[j]
                        \/ out[k] = <<>>
                        \/ /\ Len(out[k]) = Len(Values[k])
                           /\ \E n \in 0 .. Len(Values[k]) :
                                out[k] = Padded(SubSeq(Values[k], 1, n), Len(Values[k]))
      BY <3>1, <3>3
    <3> DEFINE v == Values[k]
    <3> DEFINE l == Len(v)
    <3>7. v \in Cells /\ l \in Nat /\ p[k] = p[k - 1] + 1 + l
      <4>1. k \in 1 .. Len(Values)
        BY <3>2, <3>3
      <4>2. v \in Cells /\ p[k] = p[k - 1] + 1 + l
        BY <3>5, <4>1
      <4> HIDE DEF v
      <4> QED BY <4>2, LenProperties DEF Cells
    <3>8. \A j \in 0 .. k : p[j] \in Nat
      <4>1. \A j \in 0 .. k : j \in 0 .. Len(Values)
        BY <3>2, <3>3
      <4> QED BY <3>5, <4>1
    <3>9. k \in Nat /\ k >= 1 /\ k - 1 \in 0 .. k /\ k \in 0 .. k
      BY <3>2
    <3> HIDE DEF v, l
    <3>10. CASE p[k] <= arrived
      <4>1. out[k] = v
        BY <3>6, <3>10 DEF ValueRead, v
      <4>2. \A j \in 0 .. k : p[j] <= p[k]
        <5> DEFINE S == {i \in Nat : i <= k => p[k - i] <= p[k]}
        <5>1. 0 \in S
          BY <3>8, <3>9
        <5>2. ASSUME NEW i \in S PROVE i + 1 \in S
          <6>1. SUFFICES ASSUME i + 1 <= k PROVE p[k - (i + 1)] <= p[k]
            BY <5>2
          <6> DEFINE a == k - i
          <6>2. a \in 1 .. Len(Values) /\ a \in 0 .. k /\ a - 1 \in 0 .. k /\ a - 1 = k - (i + 1)
            BY <3>2, <3>3, <3>9, <5>2, <6>1
          <6>3. p[a] <= p[k]
            BY <3>9, <5>2, <6>1
          <6> HIDE DEF a
          <6>4. p[a] = p[a - 1] + 1 + Len(Values[a]) /\ Len(Values[a]) \in Nat
            <7>1. Values[a] \in Cells /\ p[a] = p[a - 1] + 1 + Len(Values[a])
              BY <3>5, <6>2
            <7> QED BY <7>1, LenProperties DEF Cells
          <6>5. p[a - 1] <= p[k]
            BY <3>8, <3>9, <6>2, <6>3, <6>4
          <6> QED BY <6>2, <6>5
        <5>3. S = Nat
          <6>1. S \subseteq Nat
            OBVIOUS
          <6> HIDE DEF S
          <6> QED BY <5>1, <5>2, <6>1, SetInduction
        <5>4. ASSUME NEW j \in 0 .. k PROVE p[j] <= p[k]
          <6>1. k - j \in Nat /\ k - j <= k /\ k - (k - j) = j
            BY <3>9
          <6>2. k - j \in S
            BY <5>3, <6>1
          <6> QED BY <6>1, <6>2
        <5> QED BY <5>4
      <4>3. ASSUME NEW j \in 1 .. k - 1 PROVE out[j] = Values[j]
        <5>1. j \in 0 .. k /\ j \in 1 .. Len(out)
          BY <3>2, <3>9
        <5>2. p[j] <= arrived
          BY <3>2, <3>8, <3>9, <3>10, <4>2, <5>1
        <5> QED BY <3>6, <5>1, <5>2 DEF ValueRead
      <4> QED BY <4>1, <4>3 DEF v
    <3>11. CASE ~(p[k] <= arrived) /\ p[k - 1] < arrived
      <4> DEFINE n == arrived - p[k - 1] - 1
      <4> DEFINE part == SubSeq(v, 1, n)
      <4>1. n \in 0 .. l
        BY <3>2, <3>7, <3>8, <3>9, <3>11
      <4>2. out[k] = Padded(part, l)
        BY <3>6, <3>11 DEF ValueRead, v, l
      <4>3. part \in Cells /\ Len(part) <= l /\ Len(part) \in Nat
        <5> HIDE DEF n
        <5>1. part \in Cells /\ Len(part) = IF 1 <= n THEN n - 1 + 1 ELSE 0
          <6>1. n \in Nat /\ n <= Len(v)
            BY <3>7, <4>1 DEF l
          <6> QED BY <3>7, <6>1, PartCells
        <5> HIDE DEF part
        <5> QED BY <3>7, <4>1, <5>1
      <4>4. Len(Padded(part, l)) = l
        <5> HIDE DEF part
        <5>1. Len(Padded(part, l)) = IF Len(part) <= l THEN l ELSE Len(part)
          BY <3>7, <4>3, PaddedCells
        <5> QED BY <4>3, <5>1
      <4> HIDE DEF n
      <4>5. \E m \in 0 .. l : out[k] = Padded(SubSeq(v, 1, m), l)
        BY <4>1, <4>2
      <4> QED BY <4>2, <4>4, <4>5 DEF v, l
    <3>12. CASE ~(p[k] <= arrived) /\ ~(p[k - 1] < arrived)
      BY <3>6, <3>12 DEF ValueRead
    <3> QED BY <3>10, <3>11, <3>12
  <2> QED BY <2>1, <2>2
<1>2. QED
  BY <1>1, RpcAlways, PTL

-----------------------------------------------------------------------------
(* Where cells stand in a buffer.                                          *)

\* The cells c stand in b after place s.
Stands(b, s, c) == s + Len(c) <= Len(b) /\ \A j \in 1 .. Len(c) : b[s + j] = c[j]

LEMMA StandsConcat ==
  ASSUME NEW b \in Cells, NEW s \in Nat, NEW x \in Cells, NEW y \in Cells,
         Stands(b, s, x \o y)
  PROVE  /\ x \o y \in Cells /\ Len(x) \in Nat /\ Len(y) \in Nat
         /\ Len(x \o y) = Len(x) + Len(y)
         /\ Stands(b, s, x) /\ Stands(b, s + Len(x), y)
<1>1. x \in Seq(Nat) /\ y \in Seq(Nat) /\ Len(x) \in Nat /\ Len(y) \in Nat /\ Len(b) \in Nat
  BY LenProperties DEF Cells
<1>2. /\ x \o y \in Seq(Nat) /\ Len(x \o y) = Len(x) + Len(y)
      /\ \A i \in 1 .. Len(x) + Len(y) : (x \o y)[i] = IF i <= Len(x) THEN x[i] ELSE y[i - Len(x)]
  BY ONLY <1>1, ConcatProperties
<1> DEFINE w == x \o y
<1> DEFINE l == Len(x)
<1> DEFINE m == Len(y)
<1> HIDE DEF w, l, m
<1>3. /\ l \in Nat /\ m \in Nat /\ s + (l + m) <= Len(b)
      /\ \A j \in 1 .. l + m : b[s + j] = w[j]
  BY <1>1, <1>2 DEF Stands, w, l, m
<1>4. \A i \in 1 .. l + m : w[i] = IF i <= l THEN x[i] ELSE y[i - l]
  BY <1>2 DEF w, l, m
<1>5. s + l <= Len(b) /\ (s + l) + m <= Len(b)
  BY <1>1, <1>3
<1>6. ASSUME NEW j \in 1 .. l PROVE b[s + j] = x[j]
  <2>1. j \in 1 .. l + m /\ j <= l
    BY <1>3
  <2> QED BY <1>3, <1>4, <2>1
<1>7. ASSUME NEW j \in 1 .. m PROVE b[(s + l) + j] = y[j]
  <2> DEFINE i == l + j
  <2>1. i \in 1 .. l + m /\ ~(i <= l) /\ i - l = j /\ s + i = (s + l) + j
    BY <1>3
  <2> HIDE DEF i
  <2>2. b[s + i] = w[i] /\ w[i] = y[i - l]
    BY <1>3, <1>4, <2>1
  <2> QED BY <2>1, <2>2
<1>8. Stands(b, s, x) /\ Stands(b, s + l, y)
  BY <1>5, <1>6, <1>7 DEF Stands, l, m
<1>9. QED
  BY <1>1, <1>2, <1>8 DEF Cells, l

LEMMA StandsNumber ==
  ASSUME NEW b \in Cells, NEW s \in Nat, NEW n \in Nat, Stands(b, s, <<n>>)
  PROVE  s + 1 <= Len(b) /\ b[s + 1] = n
<1>1. Len(<<n>>) = 1 /\ <<n>>[1] = n /\ 1 \in 1 .. 1
  OBVIOUS
<1> DEFINE c == <<n>>
<1>2. Len(c) = 1 /\ c[1] = n
  BY <1>1
<1>3. Stands(b, s, c)
  OBVIOUS
<1> HIDE DEF c
<1>4. QED
  BY <1>1, <1>2, <1>3 DEF Stands

\* What stands in a part of the buffer stands in the buffer.
LEMMA StandsWithin ==
  ASSUME NEW b \in Cells, NEW c \in Cells, NEW x \in Cells, NEW s \in Nat, NEW t \in Nat,
         Stands(b, s, c), Stands(c, t, x)
  PROVE  Stands(b, s + t, x)
<1>1. Len(b) \in Nat /\ Len(c) \in Nat /\ Len(x) \in Nat
  BY LenProperties DEF Cells
<1>2. /\ s + Len(c) <= Len(b) /\ \A j \in 1 .. Len(c) : b[s + j] = c[j]
      /\ t + Len(x) <= Len(c) /\ \A j \in 1 .. Len(x) : c[t + j] = x[j]
  BY DEF Stands
<1>3. (s + t) + Len(x) <= Len(b)
  BY <1>1, <1>2
<1>4. ASSUME NEW j \in 1 .. Len(x) PROVE b[(s + t) + j] = x[j]
  <2> DEFINE i == t + j
  <2>1. i \in 1 .. Len(c) /\ s + i = (s + t) + j
    BY <1>1, <1>2
  <2> HIDE DEF i
  <2>2. b[s + i] = c[i]
    BY <1>2, <2>1
  <2> QED BY <1>2, <2>1, <2>2 DEF i
<1>5. QED
  BY <1>3, <1>4 DEF Stands

\* The parts of what was joined follow each other.
Follow(p, g, b) ==
  \A k \in 1 .. Len(g) : p[k] = p[k - 1] + Len(g[k]) /\ Stands(b, p[k - 1], g[k])

LEMMA StandsItems ==
  ASSUME NEW b \in Cells, NEW s \in Nat, NEW g \in Seq(Cells), Stands(b, s, FlattenSeq(g))
  PROVE  \E p \in [0 .. Len(g) -> Nat] :
           p[0] = s /\ p[Len(g)] = s + Len(FlattenSeq(g)) /\ Follow(p, g, b)
<1> DEFINE n == Len(g)
<1> DEFINE w == FlattenSeq(g)
<1>1. g \in Seq(Seq(Nat)) /\ n \in Nat
  BY LenProperties DEF Cells
<1>2. w \in Cells /\ Len(w) \in Nat
  <2>1. w \in Seq(Nat)
    BY <1>1, FlattenType
  <2> HIDE DEF w
  <2> QED BY <2>1, LenProperties DEF Cells
<1>3. PICK q \in [0 .. n -> Nat] :
        /\ q[0] = 0 /\ q[n] = Len(w)
        /\ \A k \in 1 .. n :
             /\ q[k] = q[k - 1] + Len(g[k]) /\ q[k] <= q[n]
             /\ \A j \in 1 .. Len(g[k]) : w[q[k - 1] + j] = g[k][j]
  BY <1>1, FlattenPlaces
<1> DEFINE p == [k \in 0 .. n |-> s + q[k]]
<1> HIDE DEF n, w
<1>4. p \in [0 .. n -> Nat] /\ \A k \in 0 .. n : p[k] = s + q[k] /\ q[k] \in Nat
  BY <1>3
<1> HIDE DEF p
<1>5. p[0] = s /\ p[n] = s + Len(w)
  <2>1. 0 \in 0 .. n /\ n \in 0 .. n
    BY <1>1
  <2>2. p[0] = s + q[0] /\ p[n] = s + q[n]
    BY <1>4, <2>1
  <2>3. q[0] = 0 /\ q[n] = Len(w) /\ s + 0 = s
    BY <1>3
  <2> QED BY <2>2, <2>3
<1>6. ASSUME NEW k \in 1 .. n
      PROVE  p[k] = p[k - 1] + Len(g[k]) /\ Stands(b, p[k - 1], g[k])
  <2>1. k \in 0 .. n /\ k - 1 \in 0 .. n
    BY <1>1
  <2>2. g[k] \in Cells
    BY ElementOfSeq DEF n
  <2>3. Len(g[k]) \in Nat
    BY <2>2, LenProperties DEF Cells
  <2>4. /\ q[k - 1] \in Nat /\ q[k] = q[k - 1] + Len(g[k]) /\ q[k] <= Len(w)
        /\ \A j \in 1 .. Len(g[k]) : w[q[k - 1] + j] = g[k][j]
    BY <1>3, <1>4, <2>1
  <2>5. Stands(w, q[k - 1], g[k])
    BY <2>4 DEF Stands
  <2>6. Stands(b, s, w)
    BY DEF w
  <2>7. Stands(b, s + q[k - 1], g[k])
    BY <1>2, <2>2, <2>4, <2>5, <2>6, StandsWithin
  <2>8. p[k - 1] = s + q[k - 1] /\ p[k] = s + q[k]
    BY <1>4, <2>1
  <2>9. p[k] = p[k - 1] + Len(g[k])
    BY <2>3, <2>4, <2>8
  <2> QED BY <2>7, <2>8, <2>9
<1>7. QED
  BY <1>4, <1>5, <1>6 DEF Follow, n, w

\* A packet of some fields and then items.
LEMMA ItemCells ==
  ASSUME NEW head \in Seq(Cells), NEW items \in Seq(Seq(Field)),
         Copyable(head \o FlattenSeq(items)),
         NEW g, g = [k \in 1 .. Len(items) |-> FlattenSeq(items[k])]
  PROVE  /\ g \in Seq(Cells) /\ Len(g) = Len(items)
         /\ FlattenSeq(head \o FlattenSeq(items)) = FlattenSeq(head) \o FlattenSeq(g)
         /\ FlattenSeq(head) \in Cells /\ FlattenSeq(g) \in Cells
<1> DEFINE n == Len(items)
<1> DEFINE rest == FlattenSeq(items)
<1>1. n \in Nat /\ rest \in Seq(Field)
  BY LenProperties, FlattenType
<1>2. head \in Seq(Field) /\ head \in Seq(Seq(Nat))
  <2>1. Cells \subseteq Field
    BY DEF Field
  <2>2. head \in Seq(Field)
    BY <2>1, SeqMonotonic
  <2> QED BY <2>2 DEF Cells
<1>3. Copyable(rest)
  <2>1. Copyable(head \o rest)
    OBVIOUS
  <2> HIDE DEF rest
  <2> QED BY <1>1, <1>2, <2>1, CopyablePart
<1>4. \A k \in 1 .. n : items[k] \in Seq(Cells)
  <2>1. \A k \in 1 .. n : Copyable(items[k]) /\ items[k] \in Seq(Field)
    BY <1>3, CopyableItems, ElementOfSeq
  <2> HIDE DEF n
  <2> QED BY <2>1, CopyableCells
<1>5. items \in Seq(Seq(Seq(Nat)))
  <2>1. items \in [1 .. n -> Seq(Field)]
    BY LenProperties
  <2>2. items = [k \in 1 .. n |-> items[k]]
    <3> HIDE DEF n
    <3> QED BY <2>1
  <2>3. \A k \in 1 .. n : items[k] \in Seq(Seq(Nat))
    BY <1>4 DEF Cells
  <2> HIDE DEF n
  <2>4. [k \in 1 .. n |-> items[k]] \in Seq(Seq(Seq(Nat)))
    BY <1>1, <2>3
  <2> QED BY <2>2, <2>4
<1>6. g \in Seq(Seq(Nat)) /\ FlattenSeq(rest) = FlattenSeq(g) /\ Len(g) = n
  <2>1. FlattenSeq(FlattenSeq(items)) = FlattenSeq(g) /\ g \in Seq(Seq(Nat))
    BY <1>5, FlattenNested
  <2>2. Len(g) = n
    <3> HIDE DEF n
    <3>1. g = [k \in 1 .. n |-> FlattenSeq(items[k])]
      BY DEF n
    <3> QED BY <1>1, <2>1, <3>1
  <2> QED BY <2>1, <2>2
<1>7. rest \in Seq(Seq(Nat))
  <2>1. rest \in Seq(Cells)
    <3> HIDE DEF rest
    <3> QED BY <1>1, <1>3, CopyableCells
  <2> QED BY <2>1 DEF Cells
<1>8. FlattenSeq(head \o rest) = FlattenSeq(head) \o FlattenSeq(rest)
  <2> HIDE DEF rest
  <2> QED BY <1>2, <1>7, FlattenConcat
<1>9. FlattenSeq(head) \in Seq(Nat) /\ FlattenSeq(g) \in Seq(Nat)
  BY <1>2, <1>6, FlattenType
<1>10. QED
  <2> HIDE DEF n
  <2> QED BY <1>6, <1>8, <1>9 DEF Cells, n

LEMMA ConcatCells ==
  ASSUME NEW x \in Cells, NEW y \in Cells
  PROVE  x \o y \in Cells
  BY DEF Cells

LEMMA NumberCells ==
  ASSUME NEW n \in Nat
  PROVE  <<n>> \in Cells /\ << <<n>> >> \in Seq(Cells) /\ FlattenSeq(<< <<n>> >>) = <<n>>
<1>1. <<n>> \in Seq(Nat)
  OBVIOUS
<1> DEFINE x == <<n>>
<1>2. x \in Seq(Nat)
  BY <1>1
<1> HIDE DEF x
<1>3. <<x>> \in Seq(Cells) /\ FlattenSeq(<<x>>) = x
  BY <1>2, FlattenOne DEF Cells
<1>4. QED
  BY <1>2, <1>3 DEF Cells, x

LEMMA FlattenTwo ==
  ASSUME NEW x \in Cells, NEW y \in Cells
  PROVE  <<x, y>> \in Seq(Cells) /\ FlattenSeq(<<x, y>>) = x \o y
<1>1. x \in Seq(Nat) /\ y \in Seq(Nat)
  BY DEF Cells
<1>2. <<x, y>> = <<x>> \o <<y>> /\ <<x>> \in Seq(Seq(Nat)) /\ <<y>> \in Seq(Seq(Nat))
  <2>1. <<x, y>> = <<x>> \o <<y>>
    BY <1>1, PairIsConcat
  <2>2. <<x>> \in Seq(Seq(Nat)) /\ <<y>> \in Seq(Seq(Nat))
    BY <1>1
  <2> QED BY <2>1, <2>2
<1>3. FlattenSeq(<<x>> \o <<y>>) = FlattenSeq(<<x>>) \o FlattenSeq(<<y>>)
  BY <1>2, FlattenConcat
<1>4. FlattenSeq(<<x>>) = x /\ FlattenSeq(<<y>>) = y
  BY <1>1, FlattenOne
<1>5. <<x, y>> \in Seq(Cells)
  OBVIOUS
<1>6. QED
  BY <1>2, <1>3, <1>4, <1>5

LEMMA FlattenParts ==
  ASSUME NEW x \in Seq(Cells), NEW y \in Seq(Cells)
  PROVE  /\ x \o y \in Seq(Cells) /\ FlattenSeq(x) \in Cells /\ FlattenSeq(y) \in Cells
         /\ FlattenSeq(x \o y) = FlattenSeq(x) \o FlattenSeq(y)
<1>1. x \in Seq(Seq(Nat)) /\ y \in Seq(Seq(Nat))
  BY DEF Cells
<1>2. x \o y \in Seq(Seq(Nat)) /\ FlattenSeq(x \o y) = FlattenSeq(x) \o FlattenSeq(y)
  BY <1>1, FlattenConcat, ConcatProperties
<1>3. FlattenSeq(x) \in Seq(Nat) /\ FlattenSeq(y) \in Seq(Nat)
  BY <1>1, FlattenType
<1>4. QED
  BY <1>2, <1>3 DEF Cells

CountedCells(c) == <<Len(c)>> \o c

LEMMA CountedFlat ==
  ASSUME NEW c \in Cells
  PROVE  /\ Len(c) \in Nat /\ <<Len(c)>> \in Cells /\ CountedCells(c) \in Cells
         /\ Counted(c) \in Seq(Cells) /\ FlattenSeq(Counted(c)) = CountedCells(c)
<1>1. Len(c) \in Nat
  BY LenProperties DEF Cells
<1>2. <<Len(c)>> \in Cells
  BY <1>1, NumberCells
<1> DEFINE l == <<Len(c)>>
<1>3. l \in Cells
  BY <1>2
<1> HIDE DEF l
<1>4. l \o c \in Cells /\ <<l, c>> \in Seq(Cells) /\ FlattenSeq(<<l, c>>) = l \o c
  BY <1>3, FlattenTwo, ConcatCells
<1>5. Counted(c) = <<l, c>> /\ CountedCells(c) = l \o c
  BY DEF Counted, CountedCells, l
<1>6. QED
  BY <1>1, <1>2, <1>4, <1>5

\* A counted part, where it stands, is what the reader takes for one.
LEMMA CountedRead ==
  ASSUME NEW s \in Nat, NEW c \in Cells, memory \in Cells, Stands(memory, s, CountedCells(c)),
         NEW k, k = s + 1, NEW e \in Ends
  PROVE  /\ Len(c) \in Nat /\ Data(k) = c
         /\ Inside(k, e) <=> e = k + 1 + Len(c)
         /\ k + 1 + Len(c) \in Ends /\ s + Len(CountedCells(c)) = k + Len(c)
<1> DEFINE l == Len(c)
<1> DEFINE x == <<l>>
<1>1. l \in Nat /\ x \in Cells /\ CountedCells(c) = x \o c
  BY CountedFlat DEF CountedCells
<1>2. Len(x) = 1
  OBVIOUS
<1> DEFINE w == x \o c
<1>3. Stands(memory, s, x) /\ Stands(memory, s + Len(x), c) /\ Len(w) = Len(x) + l
  <2>1. Stands(memory, s, w)
    BY <1>1
  <2> HIDE DEF x
  <2> QED BY <1>1, <2>1, StandsConcat
<1>4. s + 1 <= Len(memory) /\ memory[s + 1] = l
  <2> HIDE DEF l
  <2> QED BY <1>1, <1>3, StandsNumber
<1> HIDE DEF x, w
<1>5. k + l <= Len(memory) /\ \A j \in 1 .. l : memory[k + j] = c[j]
  BY <1>2, <1>3 DEF Stands
<1> HIDE DEF l
<1>6. k \in Nat /\ Len(memory) \in Nat /\ memory[k] = l
  BY <1>4, LenProperties DEF Cells
<1>7. Data(k) = c
  <2> DEFINE a == k + 1
  <2> DEFINE z == k + l
  <2> DEFINE d == SubSeq(memory, a, z)
  <2>1. a \in Nat \ {0} /\ z \in Nat /\ z <= Len(memory) /\ z - a + 1 = l
        /\ \A j \in 1 .. l : a + j - 1 = k + j
    BY <1>1, <1>5, <1>6
  <2>2. Data(k) = d
    BY <1>6 DEF Data
  <2> HIDE DEF a, z
  <2>3. /\ d \in Cells /\ Len(d) = IF a <= z THEN z - a + 1 ELSE 0
        /\ \A j \in 1 .. z - a + 1 : d[j] = memory[a + j - 1]
    BY <2>1, PartCells
  <2> HIDE DEF d
  <2>4. Len(d) = l
    BY <1>1, <2>1, <2>3
  <2>5. \A j \in 1 .. l : d[j] = c[j]
    BY <1>5, <2>1, <2>3
  <2>6. d \in Seq(Nat) /\ c \in Seq(Nat) /\ Len(c) = l
    BY <2>3 DEF Cells, l
  <2>7. d = c
    BY <2>4, <2>5, <2>6, SeqEqual
  <2> QED BY <2>2, <2>7
<1>8. k + 1 + l \in Ends
  BY <1>1, <1>5, <1>6 DEF Ends
<1>9. Inside(k, e) <=> e = k + 1 + l
  <2>1. k <= Len(memory) /\ k + 1 + l <= Len(memory) + 1
    BY <1>1, <1>4, <1>5, <1>6
  <2> QED BY <1>6, <2>1 DEF Inside
<1>10. s + Len(CountedCells(c)) = k + l
  <2>1. Len(CountedCells(c)) = 1 + l
    BY <1>1, <1>2, <1>3 DEF w
  <2> QED BY <1>1, <2>1
<1>11. QED
  BY <1>1, <1>7, <1>8, <1>9, <1>10 DEF l

-----------------------------------------------------------------------------
(* Lists.                                                                  *)

EntryCells(e) == <<e.id>> \o (CountedCells(e.arg_flags) \o CountedCells(e.ret_flags))

LEMMA CompleteEntry ==
  ASSUME NEW e \in Entry \cup {NULL}, Complete(e)
  PROVE  /\ e \in Entry /\ e.id \in Nat /\ e.arg_flags \in Cells /\ e.ret_flags \in Cells
         /\ EntryCells(e) \in Cells /\ FlattenSeq(EntryFields(e)) = EntryCells(e)
<1> DEFINE a == e.arg_flags
<1> DEFINE r == e.ret_flags
<1>1. e \in Entry /\ e.id \in Nat /\ a \in Cells /\ r \in Cells
  BY DEF Entry, Complete
<1> DEFINE i == << <<e.id>> >>
<1>2. EntryFields(e) = i \o (Counted(a) \o Counted(r))
  BY DEF EntryFields, Complete
<1>3. /\ i \in Seq(Cells) /\ FlattenSeq(i) = <<e.id>> /\ <<e.id>> \in Cells
  BY <1>1, NumberCells
<1> HIDE DEF a, r, i
<1> DEFINE x == Counted(a)
<1> DEFINE y == Counted(r)
<1>4. /\ x \in Seq(Cells) /\ FlattenSeq(x) = CountedCells(a) /\ CountedCells(a) \in Cells
      /\ y \in Seq(Cells) /\ FlattenSeq(y) = CountedCells(r) /\ CountedCells(r) \in Cells
  BY <1>1, CountedFlat
<1> HIDE DEF x, y
<1>5. x \o y \in Seq(Cells) /\ FlattenSeq(x \o y) = CountedCells(a) \o CountedCells(r)
  BY <1>4, FlattenParts
<1>6. FlattenSeq(i \o (x \o y)) = <<e.id>> \o (CountedCells(a) \o CountedCells(r))
  <2> DEFINE z == x \o y
  <2>1. z \in Seq(Cells)
    BY <1>5
  <2> HIDE DEF z
  <2>2. FlattenSeq(i \o z) = FlattenSeq(i) \o FlattenSeq(z)
    BY <1>3, <2>1, FlattenParts
  <2> QED BY <1>3, <1>5, <2>2 DEF z
<1>7. <<e.id>> \o (CountedCells(a) \o CountedCells(r)) \in Cells
  <2> DEFINE n == <<e.id>>
  <2>1. n \in Cells
    BY <1>3
  <2> HIDE DEF n
  <2>2. n \o (CountedCells(a) \o CountedCells(r)) \in Cells
    BY <1>4, <2>1, ConcatCells
  <2> QED BY <2>2 DEF n
<1>8. EntryCells(e) = <<e.id>> \o (CountedCells(a) \o CountedCells(r))
  BY DEF EntryCells, a, r
<1>9. FlattenSeq(EntryFields(e)) = EntryCells(e)
  BY <1>2, <1>6, <1>8 DEF x, y
<1>10. QED
  BY <1>1, <1>7, <1>8, <1>9 DEF a, r

\* Where complete entries stand.
ListPlaces(list, b) ==
  {p \in [0 .. Len(list) -> Nat] :
     /\ p[0] = 1
     /\ \A k \in 1 .. Len(list) :
          Complete(list[k]) =>
            /\ p[k] = p[k - 1] + Len(EntryCells(list[k]))
            /\ Stands(b, p[k - 1], EntryCells(list[k]))}

LEMMA ListCells ==
  ASSUME NEW m \in Messages, m.kind = "list", Copyable(Fields(m)),
         NEW list, list = m.content,
         NEW b \in Cells, Stands(b, 0, FlattenSeq(Fields(m)))
  PROVE  /\ list \in Seq(Entry \cup {NULL}) /\ Len(list) \in Nat
         /\ Len(b) >= 1 /\ b[1] = Len(list)
         /\ ListPlaces(list, b) # {}
<1> DEFINE n == Len(list)
<1>1. list \in Seq(Entry \cup {NULL}) /\ n \in Nat
  BY KindFacts, LenProperties
<1> DEFINE items == ListItems(list)
<1>2. items \in Seq(Seq(Field)) /\ Len(items) = n
  BY <1>1, ListItemsType
<1> DEFINE head == << <<n>> >>
<1>3. Fields(m) = head \o FlattenSeq(items)
  BY FieldsType
<1>4. head \in Seq(Cells) /\ FlattenSeq(head) = <<n>> /\ <<n>> \in Cells
  <2> HIDE DEF n
  <2> QED BY <1>1, NumberCells
<1> DEFINE g == [k \in 1 .. Len(items) |-> FlattenSeq(items[k])]
<1> HIDE DEF items, n
<1>5. /\ g \in Seq(Cells) /\ Len(g) = n
      /\ FlattenSeq(head \o FlattenSeq(items)) = <<n>> \o FlattenSeq(g)
      /\ FlattenSeq(g) \in Cells
  <2> DEFINE h == head
  <2>1. h \in Seq(Cells) /\ FlattenSeq(h) = <<n>> /\ Copyable(h \o FlattenSeq(items))
    BY <1>3, <1>4
  <2> HIDE DEF h
  <2>2. /\ g \in Seq(Cells) /\ Len(g) = Len(items)
        /\ FlattenSeq(h \o FlattenSeq(items)) = FlattenSeq(h) \o FlattenSeq(g)
        /\ FlattenSeq(g) \in Cells
    <3>1. g = [k \in 1 .. Len(items) |-> FlattenSeq(items[k])]
      OBVIOUS
    <3> HIDE DEF g
    <3> QED BY ONLY <1>2, <2>1, <3>1, ItemCells
  <2> HIDE DEF g
  <2> QED BY <1>2, <2>1, <2>2 DEF h
<1>6. \A k \in 1 .. n : g[k] = FlattenSeq(EntryFields(list[k])) /\ list[k] \in Entry \cup {NULL}
  <2>1. DOMAIN list = 1 .. n
    BY <1>1, LenProperties DEF n
  <2>2. \A k \in 1 .. n : g[k] = FlattenSeq(items[k])
    BY <1>2
  <2>3. \A k \in 1 .. n : items[k] = EntryFields(list[k])
    BY <2>1 DEF items, ListItems
  <2>4. \A k \in 1 .. n : list[k] \in Entry \cup {NULL}
    BY <1>1, ElementOfSeq DEF n
  <2> HIDE DEF g
  <2> QED BY <2>2, <2>3, <2>4
<1> HIDE DEF g
<1> DEFINE h == <<n>>
<1> DEFINE w == FlattenSeq(g)
<1>7. Stands(b, 0, h) /\ Stands(b, 0 + Len(h), w)
  <2>1. h \in Cells /\ w \in Cells /\ Stands(b, 0, h \o w)
    BY <1>3, <1>4, <1>5
  <2> HIDE DEF h, w
  <2> QED BY <2>1, StandsConcat
<1>8. Len(h) = 1 /\ 0 + 1 = 1
  OBVIOUS
<1>9. 0 + 1 <= Len(b) /\ b[0 + 1] = n
  BY <1>1, <1>7, StandsNumber DEF n
<1>10. Len(b) >= 1 /\ b[1] = n
  <2>1. Len(b) \in Nat
    BY LenProperties DEF Cells
  <2> QED BY <1>8, <1>9, <2>1
<1>11. Stands(b, 1, w)
  <2> HIDE DEF w, h
  <2> QED BY <1>7, <1>8
<1>12. PICK p \in [0 .. Len(g) -> Nat] : p[0] = 1 /\ Follow(p, g, b)
  BY <1>5, <1>11, StandsItems
<1>13. ASSUME NEW k \in 1 .. n, Complete(list[k])
       PROVE  /\ p[k] = p[k - 1] + Len(EntryCells(list[k]))
              /\ Stands(b, p[k - 1], EntryCells(list[k]))
  <2>1. g[k] = EntryCells(list[k])
    BY <1>6, <1>13, CompleteEntry
  <2>2. p[k] = p[k - 1] + Len(g[k]) /\ Stands(b, p[k - 1], g[k])
    BY <1>5, <1>12, <1>13 DEF Follow
  <2> QED BY <2>1, <2>2
<1>14. p \in ListPlaces(list, b)
  BY <1>5, <1>12, <1>13 DEF ListPlaces, n
<1>15. QED
  BY <1>1, <1>10, <1>14 DEF n

Listing == message.content

CompleteUpTo(k) == \A j \in 1 .. k : Complete(Listing[j])

ListInv ==
  message.kind = "list" /\ ~Writing =>
    /\ phase \in {"read", "refused", "entries", "outside", "done"}
    /\ Stands(memory, 0, buf)
    /\ phase \in {"read", "refused"} => out = <<>>
    /\ phase = "refused" <=> (phase # "read" /\ Len(Listing) > MAX_INTERFACES)
    /\ phase \in {"entries", "outside", "done"} =>
         /\ left + Len(out) = Len(Listing)
         /\ phase = "done" => left = 0
         /\ phase = "outside" => ~CompleteUpTo(Len(Listing))
         /\ \A p \in ListPlaces(Listing, memory) :
              CompleteUpTo(Len(out)) => at = p[Len(out)] + 1
         /\ \A k \in 1 .. Len(out) : CompleteUpTo(k) => out[k] = Listing[k]

\* What is known of the packet while it is read.
LEMMA ListFacts ==
  ASSUME TypeInv, ListInv, message.kind = "list", ~Writing
  PROVE  /\ Listing \in Seq(Entry \cup {NULL}) /\ Len(Listing) \in Nat
         /\ memory \in Cells /\ Len(memory) \in Nat
         /\ Len(memory) >= 1 /\ memory[1] = Len(Listing)
         /\ ListPlaces(Listing, memory) # {}
         /\ at \in Nat /\ at >= 1 /\ left \in Nat
         /\ out \in Seq(Entry) /\ Len(out) \in Nat
<1>1. message \in Messages /\ Copyable(Fields(message)) /\ buf = FlattenSeq(Fields(message))
  BY DEF TypeInv, Shape, WriteInv
<1>2. /\ memory \in Cells /\ at \in Nat /\ at >= 1 /\ left \in Nat /\ out \in Seq(Entry)
  BY <1>1, ItemFacts DEF TypeInv, Shape
<1>3. Len(memory) \in Nat /\ Len(out) \in Nat
  BY <1>2, LenProperties DEF Cells
<1>4. Stands(memory, 0, FlattenSeq(Fields(message)))
  BY <1>1 DEF ListInv
<1>5. /\ Listing \in Seq(Entry \cup {NULL}) /\ Len(Listing) \in Nat
      /\ Len(memory) >= 1 /\ memory[1] = Len(Listing) /\ ListPlaces(Listing, memory) # {}
  <2>1. Listing = message.content
    BY DEF Listing
  <2> QED BY <1>1, <1>2, <1>4, <2>1, ListCells
<1>6. QED
  BY <1>2, <1>3, <1>5

\* The next entry, if it is complete and all before it were.
LEMMA NextEntry ==
  ASSUME TypeInv, ListInv, phase = "entries", left > 0,
         NEW p \in ListPlaces(Listing, memory), NEW k, k = Len(out) + 1, CompleteUpTo(k)
  PROVE  \E d \in Ends, e \in Ends :
           /\ e = p[k] + 1
           /\ \A x \in Ends, y \in Ends : IsEntry(x, y) <=> x = d /\ y = e
           /\ [id |-> memory[at], arg_flags |-> Data(at + 1), ret_flags |-> Data(d)] = Listing[k]
<1>1. message.kind = "list" /\ ~Writing
  BY DEF TypeInv, KindInv, Writing
<1>2. /\ Listing \in Seq(Entry \cup {NULL}) /\ Len(Listing) \in Nat
      /\ memory \in Cells /\ Len(memory) \in Nat
      /\ at \in Nat /\ at >= 1 /\ left \in Nat /\ Len(out) \in Nat
  BY <1>1, ListFacts
<1>3. left + Len(out) = Len(Listing) /\ (CompleteUpTo(Len(out)) => at = p[Len(out)] + 1)
  BY <1>1 DEF ListInv
<1>4. k \in 1 .. Len(Listing) /\ k \in 1 .. k /\ k - 1 = Len(out) /\ k - 1 \in 0 .. Len(Listing)
  BY <1>2, <1>3
<1>5. CompleteUpTo(Len(out)) /\ Complete(Listing[k])
  <2>1. \A j \in 1 .. Len(out) : j \in 1 .. k
    BY <1>2
  <2> QED BY <1>4, <2>1 DEF CompleteUpTo
<1> DEFINE entry == Listing[k]
<1> DEFINE s == p[k - 1]
<1> DEFINE a == entry.arg_flags
<1> DEFINE r == entry.ret_flags
<1>6. s \in Nat /\ at = s + 1 /\ p[k] = s + Len(EntryCells(entry)) /\ Stands(memory, s, EntryCells(entry))
  <2>1. p \in [0 .. Len(Listing) -> Nat]
    BY DEF ListPlaces
  <2>2. p[k] = s + Len(EntryCells(entry)) /\ Stands(memory, s, EntryCells(entry))
    BY <1>4, <1>5 DEF ListPlaces
  <2> QED BY <1>3, <1>4, <1>5, <2>1, <2>2
<1>7. /\ entry \in Entry /\ entry.id \in Nat /\ a \in Cells /\ r \in Cells
  <2>1. entry \in Entry \cup {NULL}
    BY <1>2, <1>4, ElementOfSeq
  <2> QED BY <1>5, <2>1, CompleteEntry
<1> DEFINE id == entry.id
<1>8. EntryCells(entry) = <<id>> \o (CountedCells(a) \o CountedCells(r))
  BY DEF EntryCells
<1>9. entry = [id |-> id, arg_flags |-> a, ret_flags |-> r]
  BY <1>7 DEF Entry
<1> HIDE DEF entry, s, a, r, id
<1> DEFINE x == CountedCells(a)
<1> DEFINE y == CountedCells(r)
<1>10. x \in Cells /\ y \in Cells /\ Len(a) \in Nat /\ Len(r) \in Nat
  BY <1>7, CountedFlat
<1> HIDE DEF x, y
<1> DEFINE h == <<id>>
<1>11. h \in Cells /\ Len(h) = 1
  BY <1>7, NumberCells DEF id
<1>12. /\ Stands(memory, s, h) /\ Stands(memory, s + 1, x \o y)
       /\ Len(h \o (x \o y)) = 1 + Len(x \o y)
  <2> HIDE DEF h
  <2>1. x \o y \in Cells /\ Stands(memory, s, h \o (x \o y))
    BY <1>6, <1>8, <1>10, ConcatCells DEF x, y, h
  <2> DEFINE z == x \o y
  <2>2. z \in Cells /\ Stands(memory, s, h \o z)
    BY <2>1
  <2> HIDE DEF z
  <2>3. Stands(memory, s, h) /\ Stands(memory, s + Len(h), z) /\ Len(h \o z) = Len(h) + Len(z)
    <3>1. memory \in Cells /\ s \in Nat /\ h \in Cells
      BY <1>2, <1>6, <1>11
    <3> QED BY ONLY <2>2, <3>1, StandsConcat
  <2> QED BY <1>11, <2>3 DEF z
<1>13. memory[at] = id
  BY <1>2, <1>6, <1>7, <1>12, StandsNumber DEF id
<1>14. /\ Stands(memory, s + 1, x) /\ Stands(memory, s + 1 + Len(x), y)
       /\ Len(x \o y) = Len(x) + Len(y) /\ Len(x) \in Nat /\ Len(y) \in Nat
  <2> DEFINE t == s + 1
  <2>1. t \in Nat /\ Stands(memory, t, x \o y)
    BY <1>6, <1>12
  <2> HIDE DEF t
  <2>2. /\ Stands(memory, t, x) /\ Stands(memory, t + Len(x), y)
        /\ Len(x \o y) = Len(x) + Len(y) /\ Len(x) \in Nat /\ Len(y) \in Nat
    BY <1>2, <1>10, <2>1, StandsConcat
  <2> QED BY <2>2 DEF t
<1> DEFINE d == at + 2 + Len(a)
<1> DEFINE e == d + 1 + Len(r)
<1>15. /\ Data(at + 1) = a /\ d \in Ends /\ (s + 1) + Len(x) = d - 1
       /\ \A u \in Ends : Inside(at + 1, u) <=> u = d
  <2> DEFINE t == s + 1
  <2> DEFINE f == at + 1
  <2>1. t \in Nat /\ f = t + 1 /\ Stands(memory, t, CountedCells(a))
    BY <1>6, <1>14 DEF x
  <2> HIDE DEF t, f
  <2>2. 1 \in Ends
    BY <1>2 DEF Ends
  <2>3. Data(f) = a /\ f + 1 + Len(a) \in Ends /\ t + Len(x) = f + Len(a)
    BY <1>2, <1>7, <2>1, <2>2, CountedRead DEF x
  <2>4. \A u \in Ends : Inside(f, u) <=> u = f + 1 + Len(a)
    BY <1>2, <1>7, <2>1, CountedRead
  <2>5. f + 1 + Len(a) = d /\ f + Len(a) = d - 1
    BY <1>2, <1>10 DEF f
  <2> HIDE DEF d
  <2> QED BY <2>3, <2>4, <2>5 DEF t, f
<1>16. /\ Data(d) = r /\ e \in Ends /\ (d - 1) + Len(y) = e - 1
       /\ \A u \in Ends : Inside(d, u) <=> u = e
  <2> DEFINE t == d - 1
  <2>1. t \in Nat /\ d = t + 1
    BY <1>2, <1>10
  <2>2. Stands(memory, t, CountedCells(r))
    BY <1>14, <1>15 DEF y
  <2> HIDE DEF t, d
  <2>3. 1 \in Ends
    BY <1>2 DEF Ends
  <2>4. Data(d) = r /\ d + 1 + Len(r) \in Ends /\ t + Len(y) = d + Len(r)
    BY <1>2, <1>7, <2>1, <2>2, <2>3, CountedRead DEF y
  <2>5. \A u \in Ends : Inside(d, u) <=> u = d + 1 + Len(r)
    BY <1>2, <1>7, <2>1, <2>2, CountedRead
  <2>6. d + Len(r) = e - 1
    BY <1>10, <2>1
  <2> QED BY <2>4, <2>5, <2>6 DEF t
<1>17. e = p[k] + 1
  <2>1. p[k] = s + (1 + (Len(x) + Len(y)))
    <3>1. EntryCells(entry) = h \o (x \o y)
      BY <1>8 DEF x, y
    <3> HIDE DEF h
    <3> QED BY <1>6, <1>12, <1>14, <3>1
  <2>2. d \in Nat /\ e \in Nat
    BY <1>2, <1>10
  <2> HIDE DEF d, e
  <2> QED BY <1>6, <1>14, <1>15, <1>16, <2>1, <2>2
<1> HIDE DEF d, e
<1>18. \A u \in Ends, v \in Ends : IsEntry(u, v) <=> u = d /\ v = e
  BY <1>15, <1>16 DEF IsEntry
<1>19. [id |-> memory[at], arg_flags |-> Data(at + 1), ret_flags |-> Data(d)] = entry
  BY <1>9, <1>13, <1>15, <1>16
<1>20. QED
  BY <1>15, <1>16, <1>17, <1>18, <1>19 DEF entry

LEMMA StandsSelf ==
  ASSUME NEW c \in Cells
  PROVE  Stands(c, 0, c)
<1>1. Len(c) \in Nat
  BY LenProperties DEF Cells
<1>2. \A j \in 1 .. Len(c) : 0 + j = j
  BY <1>1
<1>3. QED
  BY <1>1, <1>2 DEF Stands

LEMMA PaddedStands ==
  ASSUME NEW c \in Cells, NEW size \in Nat
  PROVE  Padded(c, size) \in Cells /\ Stands(Padded(c, size), 0, c)
<1> DEFINE w == Padded(c, size)
<1>1. /\ w \in Cells /\ Len(c) \in Nat /\ Len(w) = IF Len(c) <= size THEN size ELSE Len(c)
      /\ \A i \in 1 .. Len(w) : w[i] = IF i <= Len(c) THEN c[i] ELSE 0
  BY PaddedCells
<1> HIDE DEF w
<1>2. 0 + Len(c) <= Len(w)
  BY <1>1
<1>3. ASSUME NEW j \in 1 .. Len(c) PROVE w[0 + j] = c[j]
  <2>1. j \in 1 .. Len(w) /\ j <= Len(c) /\ 0 + j = j
    BY <1>1
  <2> QED BY <1>1, <2>1
<1>4. QED
  BY <1>1, <1>2, <1>3 DEF Stands, w

LEMMA OverStands ==
  ASSUME NEW c \in Cells, NEW old \in Cells
  PROVE  Stands(Over(c, old), 0, c)
<1> DEFINE rest == SubSeq(old, Len(c) + 1, Len(old))
<1>1. rest \in Cells
  <2>1. Len(c) \in Nat /\ Len(old) \in Nat
    BY LenProperties DEF Cells
  <2> DEFINE a == Len(c) + 1
  <2>2. a \in Nat \ {0} /\ Len(old) <= Len(old)
    BY <2>1
  <2> HIDE DEF a
  <2>3. SubSeq(old, a, Len(old)) \in Cells
    BY <2>1, <2>2, PartCells
  <2> QED BY <2>3 DEF a
<1>2. Over(c, old) = c \o rest
  BY DEF Over
<1> HIDE DEF rest
<1> DEFINE w == c \o rest
<1>3. w \in Cells /\ Stands(w, 0, w)
  BY <1>1, ConcatCells, StandsSelf
<1>4. Stands(w, 0, c \o rest)
  BY <1>3
<1> HIDE DEF w
<1>5. Stands(w, 0, c)
  BY <1>1, <1>3, <1>4, StandsConcat
<1>6. QED
  BY <1>2, <1>5 DEF w

LEMMA ListArrives ==
  ASSUME TypeInv, ReceiveBroadcast
  PROVE  ListInv'
<1>1. PICK old \in Leftovers :
        Arrives({"list"}, Len(buf), Padded(Over(buf, old), MAX_BUFFER_SIZE))
  BY DEF ReceiveBroadcast
<1>2. /\ phase = "write" /\ phase' = "read"
      /\ memory' = Padded(Over(buf, old), MAX_BUFFER_SIZE)
      /\ UNCHANGED <<message, buf, out>>
  BY <1>1 DEF Arrives, senderVars
<1>3. buf \in Cells /\ out = <<>> /\ old \in Cells
  BY <1>2, PacketsAssumption DEF TypeInv, Shape, WriteInv, Writing
<1> DEFINE o == Over(buf, old)
<1>4. o \in Cells /\ Stands(o, 0, buf)
  BY <1>3, OverCells, OverStands
<1> HIDE DEF o
<1> DEFINE w == Padded(o, MAX_BUFFER_SIZE)
<1>5. w \in Cells /\ Stands(w, 0, o)
  BY <1>4, PaddedStands, PacketsAssumption
<1>6. memory' = w
  BY <1>2 DEF o
<1> HIDE DEF w
<1>7. Stands(w, 0, buf)
  <2>1. 0 \in Nat /\ 0 + 0 = 0
    OBVIOUS
  <2>2. Stands(w, 0 + 0, buf)
    BY <1>3, <1>4, <1>5, <2>1, StandsWithin
  <2> QED BY <2>1, <2>2
<1>8. Stands(memory', 0, buf')
  BY <1>2, <1>6, <1>7
<1>9. QED
  BY <1>2, <1>3, <1>8 DEF ListInv

LEMMA ListHead ==
  ASSUME TypeInv, ListInv, ReadListHead
  PROVE  ListInv'
<1>1. /\ phase = "read" /\ message.kind = "list"
      /\ UNCHANGED <<message, buf, memory, out>>
      /\ \/ memory[1] > MAX_INTERFACES /\ phase' = "refused"
         \/ ~(memory[1] > MAX_INTERFACES) /\ phase' = "entries" /\ left' = memory[1] /\ at' = 2
  BY DEF ReadListHead, Goes, Expect, senderVars
<1>2. ~Writing
  BY <1>1 DEF Writing
<1>3. memory[1] = Len(Listing) /\ Len(Listing) \in Nat
  BY <1>1, <1>2, ListFacts
<1>4. Listing' = Listing /\ Stands(memory', 0, buf') /\ out' = <<>>
  BY <1>1, <1>2 DEF Listing, ListInv
<1>5. CASE memory[1] > MAX_INTERFACES /\ phase' = "refused"
  BY <1>3, <1>4, <1>5 DEF ListInv
<1>6. CASE ~(memory[1] > MAX_INTERFACES) /\ phase' = "entries" /\ left' = memory[1] /\ at' = 2
  <2>1. Len(out') = 0 /\ 1 .. Len(out') = {}
    BY <1>4
  <2>2. \A p \in ListPlaces(Listing', memory') : at' = p[Len(out')] + 1
    BY <1>6, <2>1 DEF ListPlaces
  <2>3. left' + Len(out') = Len(Listing')
    BY <1>3, <1>4, <1>6, <2>1
  <2>4. (\A p \in ListPlaces(Listing, memory) : CompleteUpTo(Len(out)) => at = p[Len(out)] + 1)'
    BY <2>2
  <2> QED BY <1>3, <1>4, <1>6, <2>1, <2>3, <2>4 DEF ListInv
<1>7. QED
  BY <1>1, <1>5, <1>6

LEMMA ListEntry ==
  ASSUME TypeInv, ListInv, ReadEntry
  PROVE  ListInv'
<1>1. PICK u \in Ends, v \in Ends :
        /\ phase = "entries" /\ left > 0 /\ IsEntry(u, v)
        /\ Take([id |-> memory[at], arg_flags |-> Data(at + 1), ret_flags |-> Data(u)], v)
  BY DEF ReadEntry
<1> DEFINE item == [id |-> memory[at], arg_flags |-> Data(at + 1), ret_flags |-> Data(u)]
<1> DEFINE k == Len(out) + 1
<1>2. /\ phase' = phase /\ out' = Append(out, item) /\ at' = v /\ left' = left - 1
      /\ UNCHANGED <<message, buf, memory>>
  BY <1>1 DEF Take, senderVars
<1>3. message.kind = "list" /\ ~Writing
  BY <1>1 DEF TypeInv, KindInv, Writing
<1>4. /\ out \in Seq(Entry) /\ Len(out) \in Nat /\ left \in Nat /\ Len(Listing) \in Nat
  BY <1>3, ListFacts
<1>5. /\ Stands(memory, 0, buf) /\ ~(Len(Listing) > MAX_INTERFACES)
      /\ left + Len(out) = Len(Listing)
      /\ \A j \in 1 .. Len(out) : CompleteUpTo(j) => out[j] = Listing[j]
  BY <1>1, <1>3 DEF ListInv
<1> HIDE DEF item
<1>6. /\ Len(out') = k /\ out'[k] = item
      /\ \A j \in 1 .. Len(out) : out'[j] = out[j]
  <2> DEFINE S == Entry \cup {item}
  <2>1. out \in Seq(S) /\ item \in S
    <3>1. Entry \subseteq S
      OBVIOUS
    <3> HIDE DEF S
    <3>2. out \in Seq(S)
      BY <1>4, <3>1, SeqMonotonic
    <3> QED BY <3>2 DEF S
  <2> HIDE DEF S
  <2> QED BY <1>2, <2>1, AppendProperties
<1>7. Listing' = Listing /\ \A j : CompleteUpTo(j)' <=> CompleteUpTo(j)
  BY <1>2 DEF Listing, CompleteUpTo
<1>8. ASSUME CompleteUpTo(k), NEW p \in ListPlaces(Listing, memory)
      PROVE  v = p[k] + 1 /\ item = Listing[k]
  <2>1. PICK d \in Ends, e \in Ends :
          /\ e = p[k] + 1
          /\ \A x \in Ends, y \in Ends : IsEntry(x, y) <=> x = d /\ y = e
          /\ [id |-> memory[at], arg_flags |-> Data(at + 1), ret_flags |-> Data(d)] = Listing[k]
    BY <1>1, <1>8, NextEntry
  <2>2. u = d /\ v = e
    BY <1>1, <2>1
  <2> QED BY <2>1, <2>2 DEF item
<1>9. PICK q \in ListPlaces(Listing, memory) : TRUE
  BY <1>3, ListFacts
<1>10. ASSUME NEW j \in 1 .. Len(out'), CompleteUpTo(j) PROVE out'[j] = Listing[j]
  <2>1. CASE j = k
    BY <1>6, <1>8, <1>9, <1>10, <2>1
  <2>2. CASE j # k
    <3>1. j \in 1 .. Len(out)
      BY <1>4, <1>6, <2>2
    <3> QED BY <1>5, <1>6, <1>10, <3>1
  <2> QED BY <2>1, <2>2
<1>11. \A p \in ListPlaces(Listing, memory) : CompleteUpTo(Len(out')) => at' = p[Len(out')] + 1
  BY <1>2, <1>6, <1>8
<1>12. (\A p \in ListPlaces(Listing, memory) : CompleteUpTo(Len(out)) => at = p[Len(out)] + 1)'
  <2>1. ListPlaces(Listing', memory') = ListPlaces(Listing, memory)
    BY <1>2, <1>7
  <2> QED BY <1>7, <1>11, <2>1
<1>13. (\A j \in 1 .. Len(out) : CompleteUpTo(j) => out[j] = Listing[j])'
  BY <1>7, <1>10
<1>14. left' + Len(out') = Len(Listing')
  BY <1>1, <1>2, <1>4, <1>5, <1>6, <1>7
<1>15. Stands(memory', 0, buf') /\ ~(Len(Listing') > MAX_INTERFACES) /\ phase' = "entries"
  BY <1>1, <1>2, <1>5, <1>7
<1>16. QED
  BY <1>12, <1>13, <1>14, <1>15 DEF ListInv

LEMMA ListNext ==
  TypeInv /\ ListInv /\ [Next]_vars => ListInv'
<1> SUFFICES ASSUME TypeInv, ListInv, [Next]_vars PROVE ListInv'
  OBVIOUS
<1>1. CASE copy_to_buffer \/ CopyUnset
  <2>1. phase' \in {"write", "overrun"}
    BY <1>1 DEF copy_to_buffer, CopyUnset
  <2> QED BY <2>1 DEF ListInv, Writing
<1>2. CASE ReceiveBroadcast
  BY <1>2, ListArrives
<1>3. CASE ReadListHead
  BY <1>3, ListHead
<1>4. CASE ReadEntry
  BY <1>4, ListEntry
<1>5. CASE message' = message /\ message.kind # "list"
  BY <1>5 DEF ListInv
<1>6. ASSUME \/ ReceivePacket \/ ReceiveInfo \/ ReadRpcHead \/ ReadInfoHead
             \/ ReadValue \/ ReadAttr \/ ReadInfoCount
      PROVE  message' = message /\ message.kind # "list"
  <2>1. CASE ReceivePacket \/ ReceiveInfo
    BY <2>1 DEF ReceivePacket, ReceiveInfo, Arrives, senderVars
  <2>2. CASE ReadRpcHead \/ ReadInfoHead
    BY <2>2 DEF ReadRpcHead, ReadInfoHead, Expect, senderVars
  <2>3. CASE ReadValue \/ ReadAttr
    BY <2>3 DEF ReadValue, ReadAttr, Take, senderVars, IsRpc, TypeInv, KindInv
  <2>4. CASE ReadInfoCount
    BY <2>4 DEF ReadInfoCount, Expect, senderVars, TypeInv, KindInv
  <2> QED BY <1>6, <2>1, <2>2, <2>3, <2>4
<1>7. CASE /\ UNCHANGED <<message, buf, memory, at, left, out>> /\ message.kind = "list"
           /\ \/ phase' = phase
              \/ phase = "entries" /\ phase' = "done" /\ left = 0
              \/ phase = "entries" /\ phase' = "outside" /\ ~CompleteUpTo(Len(Listing))
  <2>1. Listing' = Listing /\ \A j : CompleteUpTo(j)' <=> CompleteUpTo(j)
    BY <1>7 DEF Listing, CompleteUpTo
  <2>2. SUFFICES ASSUME ~Writing' PROVE ListInv'
    BY DEF ListInv
  <2>3. ~Writing
    BY <1>7, <2>2 DEF Writing
  <2>4. ListPlaces(Listing', memory') = ListPlaces(Listing, memory)
    BY <1>7, <2>1
  <2>5. /\ phase' \in {"read", "refused", "entries", "outside", "done"}
        /\ Stands(memory', 0, buf')
        /\ phase' \in {"read", "refused"} => out' = <<>>
        /\ phase' = "refused" <=> (phase' # "read" /\ Len(Listing') > MAX_INTERFACES)
    BY <1>7, <2>1, <2>3 DEF ListInv
  <2>6. ASSUME phase' \in {"entries", "outside", "done"}
        PROVE  /\ left' + Len(out') = Len(Listing')
               /\ phase' = "done" => left' = 0
               /\ phase' = "outside" => ~CompleteUpTo(Len(Listing))
               /\ \A p \in ListPlaces(Listing, memory) :
                    CompleteUpTo(Len(out)) => at = p[Len(out)] + 1
               /\ \A k \in 1 .. Len(out) : CompleteUpTo(k) => out[k] = Listing[k]
    BY <1>7, <2>1, <2>3, <2>6 DEF ListInv
  <2>7. ASSUME phase' \in {"entries", "outside", "done"}
        PROVE  /\ (\A p \in ListPlaces(Listing, memory) :
                     CompleteUpTo(Len(out)) => at = p[Len(out)] + 1)'
               /\ (\A k \in 1 .. Len(out) : CompleteUpTo(k) => out[k] = Listing[k])'
               /\ (phase = "outside" => ~CompleteUpTo(Len(Listing)))'
    BY <1>7, <2>1, <2>4, <2>6, <2>7
  <2> QED BY <2>5, <2>6, <2>7 DEF ListInv
<1>8. CASE ReadOutside /\ message.kind = "list"
  <2>1. /\ phase = "entries" /\ left > 0 /\ ~ItemFits /\ phase' = "outside"
        /\ UNCHANGED <<message, buf, memory, at, left, out>>
    <3>1. /\ phase = "entries" /\ phase' = "outside"
          /\ UNCHANGED <<message, buf, memory, at, left, out>>
      BY <1>8 DEF ReadOutside, Goes, senderVars, IsRpc, TypeInv, KindInv
    <3>2. left > 0 /\ ~ItemFits
      BY <1>8, <3>1 DEF ReadOutside
    <3> QED BY <3>1, <3>2
  <2>2. ~(\E d \in Ends, e \in Ends : IsEntry(d, e))
    BY <2>1 DEF ItemFits
  <2>3. ~Writing
    BY <2>1 DEF Writing
  <2>4. ASSUME CompleteUpTo(Len(Listing)) PROVE FALSE
    <3>1. /\ left \in Nat /\ Len(out) \in Nat /\ Len(Listing) \in Nat
          /\ ListPlaces(Listing, memory) # {}
      BY <1>8, <2>3, ListFacts
    <3>2. left + Len(out) = Len(Listing)
      BY <1>8, <2>1, <2>3 DEF ListInv
    <3> DEFINE k == Len(out) + 1
    <3>3. \A j \in 1 .. k : j \in 1 .. Len(Listing)
      BY <2>1, <3>1, <3>2
    <3>4. CompleteUpTo(k)
      BY <2>4, <3>3 DEF CompleteUpTo
    <3>5. PICK p \in ListPlaces(Listing, memory) : TRUE
      BY <3>1
    <3>6. k = Len(out) + 1
      OBVIOUS
    <3> HIDE DEF k
    <3>7. \E d \in Ends, e \in Ends :
            \A x \in Ends, y \in Ends : IsEntry(x, y) <=> x = d /\ y = e
      BY <2>1, <3>4, <3>5, <3>6, NextEntry
    <3> QED BY <2>2, <3>7
  <2> QED BY <1>7, <1>8, <2>1, <2>4
<1>9. CASE UNCHANGED vars
  BY <1>5, <1>7, <1>9 DEF vars, senderVars
<1>10. CASE Return
  <2>1. /\ phase \in {"entries", "values", "rets"} /\ left = 0 /\ phase' = "done"
        /\ UNCHANGED <<message, buf, memory, at, left, out>>
    BY <1>10 DEF Return, Goes, senderVars
  <2>2. message.kind = "list" => phase = "entries"
    BY <2>1 DEF IsRpc, TypeInv, KindInv
  <2> QED BY <1>5, <1>7, <2>1, <2>2
<1>11. CASE ReadOutside /\ message.kind # "list"
  BY <1>5, <1>11 DEF ReadOutside, Goes, senderVars
<1>12. QED
  BY <1>1, <1>2, <1>3, <1>4, <1>5, <1>6, <1>8, <1>9, <1>10, <1>11 DEF Next

\* The entries of a list are read back up to the first that was skipped, and
\* the reader leaves the buffer only if one was: what an earlier packet left
\* behind this one is never taken for an entry of it.
THEOREM ListRoundTripHolds ==
  Spec => []ListRoundTrip
<1>1. Init => ListInv
  BY DEF Init, ListInv, Writing
<1>2. ASSUME TypeInv, ListInv PROVE ListRoundTrip
  <2>1. SUFFICES ASSUME message.kind = "list"
                 PROVE  /\ \A k \in DOMAIN out : CompleteUpTo(k) => out[k] = Listing[k]
                        /\ phase = "refused" <=>
                             Len(Listing) > MAX_INTERFACES
                               /\ phase \notin {"write", "overrun", "read"}
                        /\ phase = "done" => Len(out) = Len(Listing)
                        /\ phase = "outside" => ~CompleteUpTo(Len(Listing))
    BY DEF ListRoundTrip, CompleteUpTo, Listing
  <2>2. CASE Writing \/ phase \in {"read", "refused"}
    <3>1. out = <<>>
      BY <1>2, <2>1, <2>2 DEF TypeInv, WriteInv, ListInv, Writing
    <3>2. DOMAIN <<>> = {}
      OBVIOUS
    <3>3. phase = "refused" <=>
            Len(Listing) > MAX_INTERFACES /\ phase \notin {"write", "overrun", "read"}
      BY <1>2, <2>1, <2>2 DEF ListInv, Writing
    <3> QED BY <2>2, <3>1, <3>2, <3>3 DEF Writing
  <2>3. CASE ~Writing /\ phase \notin {"read", "refused"}
    <3>1. /\ phase \in {"entries", "outside", "done"}
          /\ ~(Len(Listing) > MAX_INTERFACES)
          /\ left + Len(out) = Len(Listing)
          /\ phase = "done" => left = 0
          /\ phase = "outside" => ~CompleteUpTo(Len(Listing))
          /\ \A k \in 1 .. Len(out) : CompleteUpTo(k) => out[k] = Listing[k]
      BY <1>2, <2>1, <2>3 DEF ListInv
    <3>2. DOMAIN out = 1 .. Len(out) /\ Len(out) \in Nat /\ Len(Listing) \in Nat
      <4>1. out \in Seq(Entry) /\ Len(out) \in Nat /\ Len(Listing) \in Nat
        BY <1>2, <2>1, <2>3, ListFacts
      <4> QED BY <4>1
    <3> QED BY <2>3, <3>1, <3>2
  <2> QED BY <2>2, <2>3
<1>3. QED
  BY <1>1, <1>2, InitTypes, TypeNext, ListNext, PTL DEF Spec

-----------------------------------------------------------------------------
(* Descriptions.                                                           *)

AttrCells(a) == String(a.name) \o String(a.description)

LEMMA StringCells ==
  ASSUME NEW t \in Text
  PROVE  /\ t \in Seq(Nat) /\ Len(t) \in Nat /\ String(t) \in Cells
         /\ Len(String(t)) = Len(t) + 1 /\ String(t)[Len(t) + 1] = 0
         /\ \A j \in 1 .. Len(t) : String(t)[j] = t[j] /\ t[j] \in Nat \ {0}
<1>1. t \in Seq(Nat \ {0}) /\ Len(t) \in Nat /\ \A j \in 1 .. Len(t) : t[j] \in Nat \ {0}
  BY LenProperties, ElementOfSeq DEF Text
<1>2. t \in Seq(Nat) /\ String(t) \in Cells
  BY <1>1, SeqMonotonic, StringType
<1>3. /\ Len(String(t)) = Len(t) + 1 /\ String(t)[Len(t) + 1] = 0
      /\ \A j \in 1 .. Len(t) : String(t)[j] = t[j]
  BY <1>2, AppendProperties DEF String
<1>4. QED
  BY <1>1, <1>2, <1>3

\* A string, where it stands, is what the reader takes for one: no string ends
\* earlier, and none later.
LEMMA StringRead ==
  ASSUME NEW s \in Nat, NEW t \in Text, memory \in Cells, Stands(memory, s, String(t)),
         NEW k, k = s + 1, NEW z, z = k + Len(t) + 1
  PROVE  /\ z \in Ends /\ s + Len(String(t)) = z - 1 /\ TextAt(k, z) = t
         /\ \A e \in Ends : IsString(k, e) <=> e = z
<1> DEFINE l == Len(t)
<1> DEFINE c == String(t)
<1>1. /\ t \in Seq(Nat) /\ l \in Nat /\ Len(c) = l + 1 /\ c[l + 1] = 0
      /\ \A j \in 1 .. l : c[j] = t[j] /\ t[j] \in Nat \ {0}
  BY StringCells
<1>2. s + Len(c) <= Len(memory) /\ \A j \in 1 .. Len(c) : memory[s + j] = c[j]
  BY DEF Stands
<1> HIDE DEF l, c
<1>3. /\ s + (l + 1) <= Len(memory) /\ memory[s + (l + 1)] = 0
      /\ \A j \in 1 .. l : memory[s + j] = t[j] /\ memory[s + j] # 0
  <2>1. l + 1 \in 1 .. Len(c) /\ \A j \in 1 .. l : j \in 1 .. Len(c)
    BY <1>1
  <2>2. s + (l + 1) <= Len(memory) /\ memory[s + (l + 1)] = 0
    BY <1>1, <1>2, <2>1
  <2>3. ASSUME NEW j \in 1 .. l PROVE memory[s + j] = t[j] /\ memory[s + j] # 0
    <3>1. memory[s + j] = c[j] /\ c[j] = t[j] /\ t[j] # 0
      BY <1>1, <1>2, <2>1
    <3> QED BY <3>1
  <2> QED BY <2>2, <2>3
<1>4. Len(memory) \in Nat /\ k \in Nat /\ z \in Nat /\ z = s + l + 2
  BY <1>1, LenProperties DEF Cells, l
<1>5. z \in Ends /\ s + Len(c) = z - 1
  <2>1. Len(c) = l + 1 /\ l \in Nat /\ z = s + l + 2 /\ s + (l + 1) <= Len(memory)
    BY <1>1, <1>3, <1>4
  <2>2. z <= Len(memory) + 1 /\ z >= 1 /\ z \in Nat
    BY <1>4, <2>1
  <2> QED BY <1>4, <2>1, <2>2 DEF Ends
<1>6. memory[z - 1] = 0
  <2>1. z - 1 = s + (l + 1)
    BY <1>1, <1>4
  <2> QED BY <1>3, <2>1
<1>7. ASSUME NEW j \in k .. z - 2 PROVE memory[j] # 0
  <2>1. j - s \in 1 .. l /\ s + (j - s) = j
    BY <1>1, <1>4
  <2> QED BY <1>3, <2>1
<1>8. ASSUME NEW e \in Ends PROVE IsString(k, e) <=> e = z
  <2>1. e \in Nat
    BY <1>4 DEF Ends
  <2>2. CASE e = z
    <3>1. z > k
      BY <1>1, <1>4
    <3> QED BY <1>6, <1>7, <2>2, <3>1 DEF IsString
  <2>3. CASE e < z
    <3>1. e > k => e - 1 \in k .. z - 2
      BY <1>4, <2>1, <2>3
    <3> QED BY <1>4, <1>7, <2>1, <2>3, <3>1 DEF IsString
  <2>4. CASE e > z
    <3>1. z - 1 \in k .. e - 2
      BY <1>1, <1>4, <2>1, <2>4
    <3> QED BY <1>4, <1>6, <2>1, <2>4, <3>1 DEF IsString
  <2> QED BY <1>4, <2>1, <2>2, <2>3, <2>4
<1>9. TextAt(k, z) = t
  <2> DEFINE n == z - 2
  <2> DEFINE d == SubSeq(memory, k, n)
  <2>1. k \in Nat \ {0} /\ n \in Nat /\ n <= Len(memory) /\ n - k + 1 = l
        /\ \A j \in 1 .. l : k + j - 1 = s + j
    <3>1. /\ l \in Nat /\ s + (l + 1) <= Len(memory) /\ Len(memory) \in Nat
          /\ z = s + l + 2 /\ k = s + 1
      BY <1>1, <1>3, <1>4
    <3>2. n = s + l
      BY <3>1
    <3> QED BY <3>1, <3>2
  <2>2. TextAt(k, z) = d
    BY DEF TextAt
  <2> HIDE DEF n
  <2>3. /\ d \in Cells /\ Len(d) = IF k <= n THEN n - k + 1 ELSE 0
        /\ \A j \in 1 .. n - k + 1 : d[j] = memory[k + j - 1]
    BY <2>1, PartCells
  <2> HIDE DEF d
  <2>4. Len(d) = l
    BY <1>1, <2>1, <2>3
  <2>5. \A j \in 1 .. l : d[j] = t[j]
    BY <1>3, <2>1, <2>3
  <2>6. d \in Seq(Nat) /\ t \in Seq(Nat) /\ Len(t) = l
    BY <1>1, <2>3 DEF Cells, l
  <2>7. d = t
    BY <2>4, <2>5, <2>6, SeqEqual
  <2> QED BY <2>2, <2>7
<1>10. QED
  BY <1>5, <1>8, <1>9 DEF c

\* A name and a description, where they stand, are read as they were written.
LEMMA AttrRead ==
  ASSUME NEW a \in Attr, memory \in Cells, NEW s \in Nat, at = s + 1,
         Stands(memory, s, AttrCells(a)), NEW e, e = at + Len(AttrCells(a))
  PROVE  \E d \in Ends :
           /\ e \in Ends
           /\ \A x \in Ends, y \in Ends : IsAttr(x, y) <=> x = d /\ y = e
           /\ [name |-> TextAt(at, d), description |-> TextAt(d, e)] = a
<1> DEFINE t == a.name
<1> DEFINE u == a.description
<1>1. t \in Text /\ u \in Text /\ a = [name |-> t, description |-> u]
  BY DEF Attr
<1>2. AttrCells(a) = String(t) \o String(u)
  BY DEF AttrCells
<1> HIDE DEF t, u
<1> DEFINE x == String(t)
<1> DEFINE y == String(u)
<1>3. /\ x \in Cells /\ y \in Cells /\ Len(t) \in Nat /\ Len(u) \in Nat
      /\ Len(x) = Len(t) + 1 /\ Len(y) = Len(u) + 1
  BY <1>1, StringCells
<1>4. Stands(memory, s, x) /\ Stands(memory, s + Len(x), y) /\ Len(AttrCells(a)) = Len(x) + Len(y)
  <2>1. Stands(memory, s, x \o y) /\ AttrCells(a) = x \o y
    BY <1>2
  <2> HIDE DEF x, y
  <2>2. Stands(memory, s, x) /\ Stands(memory, s + Len(x), y) /\ Len(x \o y) = Len(x) + Len(y)
    <3>1. memory \in Cells /\ s \in Nat /\ x \in Cells /\ y \in Cells
      BY <1>3
    <3> QED BY ONLY <2>1, <3>1, StandsConcat
  <2> QED BY <2>1, <2>2
<1> DEFINE d == at + Len(t) + 1
<1> DEFINE r == s + Len(x)
<1>5. d \in Ends /\ TextAt(at, d) = t /\ \A v \in Ends : IsString(at, v) <=> v = d
  <2>1. Stands(memory, s, String(t))
    BY <1>4
  <2>2. d = at + Len(t) + 1
    OBVIOUS
  <2> HIDE DEF d
  <2> QED BY <1>1, <2>1, <2>2, StringRead
<1>6. r \in Nat /\ d = r + 1 /\ e = d + Len(u) + 1
  <2> HIDE DEF x, y
  <2> QED BY <1>3, <1>4
<1>7. e \in Ends /\ TextAt(d, e) = u /\ \A v \in Ends : IsString(d, v) <=> v = e
  <2>1. Stands(memory, r, String(u))
    BY <1>4
  <2> HIDE DEF d, r, x, y
  <2>2. memory \in Cells /\ u \in Text /\ r \in Nat /\ d = r + 1 /\ e = d + Len(u) + 1
    BY <1>1, <1>6
  <2> QED BY ONLY <2>1, <2>2, StringRead
<1> HIDE DEF d
<1>8. \A v \in Ends, w \in Ends : IsAttr(v, w) <=> v = d /\ w = e
  BY <1>5, <1>7 DEF IsAttr
<1>9. QED
  BY <1>1, <1>5, <1>7, <1>8

AttrParts(attrs) == [k \in 1 .. Len(attrs) |-> AttrCells(attrs[k])]

LEMMA AttrFlat ==
  ASSUME NEW a \in Attr, NEW f, f = <<String(a.name), String(a.description)>>
  PROVE  f \in Seq(Cells) /\ AttrCells(a) \in Cells /\ FlattenSeq(f) = AttrCells(a)
<1> DEFINE x == String(a.name)
<1> DEFINE y == String(a.description)
<1>1. x \in Cells /\ y \in Cells
  BY StringType DEF Attr
<1>2. f = <<x, y>> /\ AttrCells(a) = x \o y
  BY DEF AttrCells
<1> HIDE DEF x, y
<1>3. <<x, y>> \in Seq(Cells) /\ FlattenSeq(<<x, y>>) = x \o y /\ x \o y \in Cells
  BY <1>1, FlattenTwo, ConcatCells
<1>4. QED
  BY <1>2, <1>3

\* As long as it does not run past them, the loop that writes descriptions
\* writes their cells.
LEMMA AttrsFlat ==
  ASSUME NEW attrs \in Seq(Attr), NEW n \in Nat, n <= Len(attrs)
  PROVE  /\ AttrFields(attrs, n) \in Seq(Cells)
         /\ AttrParts(attrs) \in Seq(Cells) /\ Len(AttrParts(attrs)) = Len(attrs)
         /\ n = Len(attrs) => FlattenSeq(AttrFields(attrs, n)) = FlattenSeq(AttrParts(attrs))
<1> DEFINE one(k) ==
      IF k \in DOMAIN attrs THEN <<String(attrs[k].name), String(attrs[k].description)>>
                            ELSE <<Unset>>
<1> DEFINE F == [k \in 1 .. n |-> one(k)]
<1>1. Len(attrs) \in Nat /\ DOMAIN attrs = 1 .. Len(attrs)
  BY LenProperties
<1>2. ASSUME NEW k \in 1 .. n
      PROVE  one(k) \in Seq(Cells) /\ FlattenSeq(one(k)) = AttrCells(attrs[k])
  <2>1. k \in DOMAIN attrs /\ attrs[k] \in Attr
    BY <1>1, ElementOfSeq
  <2> DEFINE a == attrs[k]
  <2>2. a \in Attr /\ one(k) = <<String(a.name), String(a.description)>>
    BY <2>1
  <2> HIDE DEF one
  <2>3. one(k) \in Seq(Cells) /\ FlattenSeq(one(k)) = AttrCells(a)
    BY <2>2, AttrFlat
  <2> QED BY <2>3
<1>3. AttrFields(attrs, n) = FlattenSeq(F)
  BY DEF AttrFields
<1> HIDE DEF one
<1>4. F \in Seq(Seq(Cells)) /\ Len(F) = n
  BY <1>2
<1>5. AttrFields(attrs, n) \in Seq(Cells)
  <2> HIDE DEF F
  <2> QED BY <1>3, <1>4, FlattenType
<1>6. AttrParts(attrs) \in Seq(Cells) /\ Len(AttrParts(attrs)) = Len(attrs)
  <2>1. \A k \in 1 .. Len(attrs) : AttrCells(attrs[k]) \in Cells
    BY <1>1, ElementOfSeq, AttrFlat
  <2> QED BY <1>1, <2>1 DEF AttrParts
<1>7. ASSUME n = Len(attrs) PROVE FlattenSeq(FlattenSeq(F)) = FlattenSeq(AttrParts(attrs))
  <2> DEFINE G == [k \in 1 .. Len(F) |-> FlattenSeq(F[k])]
  <2>1. G = AttrParts(attrs)
    <3>1. \A k \in 1 .. n : F[k] = one(k)
      OBVIOUS
    <3>2. \A k \in 1 .. n : FlattenSeq(F[k]) = AttrCells(attrs[k])
      BY <1>2, <3>1
    <3> HIDE DEF F
    <3> QED BY <1>4, <1>7, <3>2 DEF AttrParts
  <2>2. F \in Seq(Seq(Seq(Nat)))
    BY <1>4 DEF Cells
  <2>3. FlattenSeq(FlattenSeq(F)) = FlattenSeq(G)
    <3> HIDE DEF F
    <3> QED BY <2>2, FlattenNested
  <2> QED BY <2>1, <2>3
<1>8. QED
  BY <1>3, <1>5, <1>6, <1>7

\* A description in parts: each attribute one, and each number of attributes.
InfoParts(i) ==
  << <<i.id>>, AttrCells(i.own), <<Len(i.args)>> >> \o AttrParts(i.args)
    \o << <<Len(i.rets)>> >> \o AttrParts(i.rets)

Info == [id : Nat, own : Attr, args : Seq(Attr), rets : Seq(Attr)]

HeadFields(a, b, c, d) == <<a, b, c, d>>
HeadParts(a, b, c, d) == <<a, b \o c, d>>

LEMMA InfoHead ==
  ASSUME NEW a \in Cells, NEW b \in Cells, NEW c \in Cells, NEW d \in Cells,
         NEW h, h = HeadFields(a, b, c, d), NEW g, g = HeadParts(a, b, c, d)
  PROVE  h \in Seq(Cells) /\ g \in Seq(Cells) /\ FlattenSeq(h) = FlattenSeq(g)
<1> DEFINE z == b \o c
<1>1. z \in Cells /\ h = <<a, b, c, d>> /\ g = <<a, z, d>>
  BY ConcatCells DEF HeadFields, HeadParts
<1> HIDE DEF z
<1> DEFINE f == <<a>>
<1> DEFINE p == <<b, c>>
<1> DEFINE q == <<z>>
<1> DEFINE t == <<d>>
<1>2. /\ p \in Seq(Cells) /\ q \in Seq(Cells) /\ f \in Seq(Cells) /\ t \in Seq(Cells)
      /\ FlattenSeq(p) = z /\ FlattenSeq(q) = z
  <2>1. FlattenSeq(p) = z /\ p \in Seq(Cells)
    BY FlattenTwo DEF z
  <2>2. f \in Seq(Cells) /\ t \in Seq(Cells) /\ q \in Seq(Cells)
    BY <1>1
  <2>3. FlattenSeq(q) = z
    BY <1>1, FlattenOne DEF Cells
  <2> QED BY <2>1, <2>2, <2>3
<1>3. /\ <<a, b, c, d>> = <<a>> \o <<b, c, d>> /\ <<b, c, d>> = <<b, c>> \o <<d>>
      /\ <<a, z, d>> = <<a>> \o <<z, d>> /\ <<z, d>> = <<z>> \o <<d>>
  <2> DEFINE S == Cells
  <2>1. a \in S /\ b \in S /\ c \in S /\ d \in S /\ z \in S
    BY <1>1
  <2> HIDE DEF S
  <2>2. <<b, c, d>> \in Seq(S) /\ <<a>> \in Seq(S) /\ <<a, b, c, d>> = <<a>> \o <<b, c, d>>
    BY ONLY <2>1
  <2>3. <<b, c>> \in Seq(S) /\ <<d>> \in Seq(S) /\ <<b, c, d>> = <<b, c>> \o <<d>>
    BY ONLY <2>1
  <2>4. <<z, d>> \in Seq(S) /\ <<a>> \in Seq(S) /\ <<a, z, d>> = <<a>> \o <<z, d>>
    BY ONLY <2>1
  <2>5. <<z>> \in Seq(S) /\ <<d>> \in Seq(S) /\ <<z, d>> = <<z>> \o <<d>>
    BY ONLY <2>1
  <2> QED BY <2>2, <2>3, <2>4, <2>5
<1>4. h = f \o (p \o t) /\ g = f \o (q \o t)
  BY <1>1, <1>3
<1> HIDE DEF f, p, q, t
<1> DEFINE v == p \o t
<1> DEFINE w == q \o t
<1>5. v \in Seq(Cells) /\ FlattenSeq(v) = z \o FlattenSeq(t)
  BY <1>2, FlattenParts
<1>6. w \in Seq(Cells) /\ FlattenSeq(w) = z \o FlattenSeq(t)
  BY <1>2, FlattenParts
<1> HIDE DEF v, w
<1>7. f \o v \in Seq(Cells) /\ FlattenSeq(f \o v) = FlattenSeq(f) \o FlattenSeq(v)
  BY <1>2, <1>5, FlattenParts
<1>8. f \o w \in Seq(Cells) /\ FlattenSeq(f \o w) = FlattenSeq(f) \o FlattenSeq(w)
  BY <1>2, <1>6, FlattenParts
<1>9. h = f \o v /\ g = f \o w
  BY <1>4 DEF v, w
<1>10. QED
  BY <1>5, <1>6, <1>7, <1>8, <1>9

\* Four sequences, joined.
Four(h, x, r, y) == h \o x \o r \o y

LEMMA FlattenFour ==
  ASSUME NEW h \in Seq(Cells), NEW x \in Seq(Cells), NEW r \in Seq(Cells), NEW y \in Seq(Cells)
  PROVE  /\ Four(h, x, r, y) \in Seq(Cells)
         /\ FlattenSeq(Four(h, x, r, y)) =
              Four(FlattenSeq(h), FlattenSeq(x), FlattenSeq(r), FlattenSeq(y))
<1> DEFINE u == h \o x
<1>1. u \in Seq(Cells) /\ FlattenSeq(u) = FlattenSeq(h) \o FlattenSeq(x)
  BY FlattenParts
<1> HIDE DEF u
<1> DEFINE v == u \o r
<1>2. v \in Seq(Cells) /\ FlattenSeq(v) = FlattenSeq(u) \o FlattenSeq(r)
  BY <1>1, FlattenParts
<1> HIDE DEF v
<1>3. v \o y \in Seq(Cells) /\ FlattenSeq(v \o y) = FlattenSeq(v) \o FlattenSeq(y)
  BY <1>2, FlattenParts
<1>4. Four(h, x, r, y) = v \o y
  BY DEF Four, u, v
<1>5. QED
  BY <1>1, <1>2, <1>3, <1>4 DEF Four

\* If there are as many return values as arguments, the fields of a description
\* make its parts, and a pointer is followed only if there are fewer.
LEMMA InfoFlat ==
  ASSUME NEW i \in Info, Len(i.args) <= Len(i.rets)
  PROVE  /\ InfoFields(i) \in Seq(Cells) /\ InfoParts(i) \in Seq(Cells)
         /\ Len(i.args) = Len(i.rets) => FlattenSeq(InfoFields(i)) = FlattenSeq(InfoParts(i))
<1> DEFINE n == Len(i.args)
<1> DEFINE a == <<i.id>>
<1> DEFINE b == String(i.own.name)
<1> DEFINE c == String(i.own.description)
<1> DEFINE d == <<n>>
<1>1. /\ i.id \in Nat /\ i.own \in Attr /\ i.args \in Seq(Attr) /\ i.rets \in Seq(Attr)
      /\ n \in Nat /\ Len(i.rets) \in Nat
  BY LenProperties DEF Info
<1>2. a \in Cells /\ b \in Cells /\ c \in Cells /\ d \in Cells
  <2>1. b \in Cells /\ c \in Cells
    BY <1>1, StringType DEF Attr
  <2>2. a \in Cells /\ d \in Cells
    <3> HIDE DEF n
    <3> QED BY <1>1, NumberCells
  <2> QED BY <2>1, <2>2
<1> DEFINE x == AttrFields(i.args, n)
<1> DEFINE y == AttrFields(i.rets, n)
<1> DEFINE u == AttrParts(i.args)
<1> DEFINE v == AttrParts(i.rets)
<1>3. /\ x \in Seq(Cells) /\ u \in Seq(Cells) /\ FlattenSeq(x) = FlattenSeq(u)
      /\ y \in Seq(Cells) /\ v \in Seq(Cells)
      /\ n = Len(i.rets) => FlattenSeq(y) = FlattenSeq(v)
  BY <1>1, AttrsFlat
<1> DEFINE r == << <<Len(i.rets)>> >>
<1>4. r \in Seq(Cells)
  BY <1>1, NumberCells
<1> DEFINE h == HeadFields(a, b, c, d)
<1> DEFINE g == HeadParts(a, b, c, d)
<1>5. InfoFields(i) = Four(h, x, r, y) /\ InfoParts(i) = Four(g, u, r, v)
  BY DEF InfoFields, InfoParts, Four, HeadFields, HeadParts, AttrCells
<1> HIDE DEF a, b, c, d, x, y, u, v, r
<1>6. h \in Seq(Cells) /\ g \in Seq(Cells) /\ FlattenSeq(h) = FlattenSeq(g)
  BY ONLY <1>2, InfoHead
<1> HIDE DEF h, g
<1>7. /\ Four(h, x, r, y) \in Seq(Cells)
      /\ FlattenSeq(Four(h, x, r, y)) =
           Four(FlattenSeq(h), FlattenSeq(x), FlattenSeq(r), FlattenSeq(y))
  BY <1>3, <1>4, <1>6, FlattenFour
<1>8. /\ Four(g, u, r, v) \in Seq(Cells)
       /\ FlattenSeq(Four(g, u, r, v)) =
            Four(FlattenSeq(g), FlattenSeq(u), FlattenSeq(r), FlattenSeq(v))
  BY <1>3, <1>4, <1>6, FlattenFour
<1>9. QED
  <2>1. n = Len(i.rets) => FlattenSeq(Four(h, x, r, y)) = FlattenSeq(Four(g, u, r, v))
    BY <1>3, <1>6, <1>7, <1>8
  <2> QED BY <1>5, <1>7, <1>8, <2>1

LEMMA ConcatAt ==
  ASSUME NEW S, NEW a \in Seq(S), NEW b \in Seq(S)
  PROVE  /\ a \o b \in Seq(S) /\ Len(a) \in Nat /\ Len(b) \in Nat /\ Len(a \o b) = Len(a) + Len(b)
         /\ \A j \in 1 .. Len(a) : (a \o b)[j] = a[j]
         /\ \A j \in 1 .. Len(b) : (a \o b)[Len(a) + j] = b[j]
<1>1. Len(a) \in Nat /\ Len(b) \in Nat
  BY LenProperties
<1> DEFINE w == a \o b
<1>2. /\ w \in Seq(S) /\ Len(w) = Len(a) + Len(b)
      /\ \A i \in 1 .. Len(a) + Len(b) : w[i] = IF i <= Len(a) THEN a[i] ELSE b[i - Len(a)]
  BY ConcatProperties
<1> HIDE DEF w
<1>3. ASSUME NEW j \in 1 .. Len(a) PROVE w[j] = a[j]
  <2>1. j \in 1 .. Len(a) + Len(b) /\ j <= Len(a)
    BY <1>1
  <2> QED BY <1>2, <2>1
<1>4. ASSUME NEW j \in 1 .. Len(b) PROVE w[Len(a) + j] = b[j]
  <2> DEFINE i == Len(a) + j
  <2>1. i \in 1 .. Len(a) + Len(b) /\ ~(i <= Len(a)) /\ i - Len(a) = j
    BY <1>1
  <2> HIDE DEF i
  <2>2. w[i] = b[j]
    BY <1>2, <2>1
  <2> QED BY <2>2 DEF i
<1>5. QED
  BY <1>1, <1>2, <1>3, <1>4 DEF w

\* Which part is which, if there are as many return values as arguments.
LEMMA InfoPartAt ==
  ASSUME NEW i \in Info, NEW n, n = Len(i.args), n = Len(i.rets)
  PROVE  /\ n \in Nat /\ Len(InfoParts(i)) = 4 + n + n
         /\ InfoParts(i)[1] = <<i.id>> /\ InfoParts(i)[2] = AttrCells(i.own)
         /\ InfoParts(i)[3] = <<n>> /\ InfoParts(i)[4 + n] = <<n>>
         /\ \A k \in 1 .. n : InfoParts(i)[3 + k] = AttrCells(i.args[k])
         /\ \A m \in 5 + n .. 4 + n + n : InfoParts(i)[m] = AttrCells(i.rets[m - (4 + n)])
<1>1. /\ i.id \in Nat /\ i.own \in Attr /\ i.args \in Seq(Attr) /\ i.rets \in Seq(Attr)
      /\ n \in Nat
  BY LenProperties DEF Info
<1> DEFINE a == <<i.id>>
<1> DEFINE b == AttrCells(i.own)
<1> DEFINE c == <<n>>
<1> DEFINE x == AttrParts(i.args)
<1> DEFINE y == AttrParts(i.rets)
<1>2. x \in Seq(Cells) /\ y \in Seq(Cells) /\ Len(x) = n /\ Len(y) = n
  <2>1. n <= n
    BY <1>1
  <2> QED BY <1>1, <2>1, AttrsFlat
<1>3. \A k \in 1 .. n : x[k] = AttrCells(i.args[k]) /\ y[k] = AttrCells(i.rets[k])
  BY DEF AttrParts
<1>4. a \in Cells /\ b \in Cells /\ c \in Cells
  BY <1>1, NumberCells, AttrFlat
<1>5. InfoParts(i) = <<a, b, c>> \o x \o <<c>> \o y
  BY DEF InfoParts
<1> HIDE DEF a, b, c, x, y
<1> DEFINE h == <<a, b, c>>
<1> DEFINE r == <<c>>
<1>6. /\ h \in Seq(Cells) /\ Len(h) = 3 /\ h[1] = a /\ h[2] = b /\ h[3] = c
      /\ r \in Seq(Cells) /\ Len(r) = 1 /\ r[1] = c
  BY <1>4
<1> HIDE DEF h, r
<1> DEFINE u == h \o x
<1>7. /\ u \in Seq(Cells) /\ Len(u) = 3 + n
      /\ \A j \in 1 .. 3 : u[j] = h[j]
      /\ \A j \in 1 .. n : u[3 + j] = x[j]
  <2>1. u \in Seq(Cells) /\ Len(u) = Len(h) + Len(x)
    BY <1>2, <1>6, ConcatAt
  <2>2. \A j \in 1 .. Len(h) : u[j] = h[j]
    BY <1>2, <1>6, ConcatAt
  <2>3. \A j \in 1 .. Len(x) : u[Len(h) + j] = x[j]
    <3>1. h \in Seq(Cells) /\ x \in Seq(Cells)
      BY <1>2, <1>6
    <3> QED BY ONLY <3>1, ConcatAt
  <2> HIDE DEF u
  <2> QED BY <1>2, <1>6, <2>1, <2>2, <2>3
<1> HIDE DEF u
<1> DEFINE v == u \o r
<1>8. /\ v \in Seq(Cells) /\ Len(v) = 4 + n
      /\ \A j \in 1 .. 3 + n : v[j] = u[j]
      /\ v[4 + n] = c
  <2>1. v \in Seq(Cells) /\ Len(v) = Len(u) + Len(r)
    BY <1>6, <1>7, ConcatAt
  <2>2. \A j \in 1 .. Len(u) : v[j] = u[j]
    BY <1>6, <1>7, ConcatAt
  <2>3. \A j \in 1 .. Len(r) : v[Len(u) + j] = r[j]
    <3>1. u \in Seq(Cells) /\ r \in Seq(Cells)
      BY <1>6, <1>7
    <3> QED BY ONLY <3>1, ConcatAt
  <2> HIDE DEF v
  <2>4. Len(u) + Len(r) = 4 + n /\ Len(u) + 1 = 4 + n /\ 1 \in 1 .. Len(r)
    BY <1>1, <1>6, <1>7
  <2>5. v[4 + n] = c
    BY <1>6, <2>3, <2>4
  <2> QED BY <1>7, <2>1, <2>2, <2>4, <2>5
<1> HIDE DEF v
<1> DEFINE w == v \o y
<1>9. /\ Len(w) = 4 + n + n
      /\ \A j \in 1 .. 4 + n : w[j] = v[j]
      /\ \A j \in 1 .. n : w[4 + n + j] = y[j]
  <2>1. Len(w) = Len(v) + Len(y)
    BY <1>2, <1>8, ConcatAt
  <2>2. \A j \in 1 .. Len(v) : w[j] = v[j]
    BY <1>2, <1>8, ConcatAt
  <2>3. \A j \in 1 .. Len(y) : w[Len(v) + j] = y[j]
    BY <1>2, <1>8, ConcatAt
  <2> HIDE DEF w
  <2> QED BY <1>2, <1>8, <2>1, <2>2, <2>3
<1>10. InfoParts(i) = w
  BY <1>5 DEF h, r, u, v
<1> HIDE DEF w
<1>11. w[1] = a /\ w[2] = b /\ w[3] = c
  <2>1. \A j \in 1 .. 3 : j \in 1 .. 3 + n /\ j \in 1 .. 4 + n
    BY <1>1
  <2>2. \A j \in 1 .. 3 : w[j] = h[j]
    BY <1>7, <1>8, <1>9, <2>1
  <2> QED BY <1>6, <2>2
<1>12. w[4 + n] = c
  <2>1. 4 + n \in 1 .. 4 + n
    BY <1>1
  <2> QED BY <1>8, <1>9, <2>1
<1>13. ASSUME NEW k \in 1 .. n PROVE w[3 + k] = x[k]
  <2>1. 3 + k \in 1 .. 3 + n /\ 3 + k \in 1 .. 4 + n
    BY <1>1
  <2> QED BY <1>7, <1>8, <1>9, <2>1
<1>14. ASSUME NEW m \in 5 + n .. 4 + n + n PROVE w[m] = y[m - (4 + n)]
  <2>1. m - (4 + n) \in 1 .. n /\ 4 + n + (m - (4 + n)) = m
    BY <1>1
  <2> QED BY <1>9, <2>1
<1>15. \A m \in 5 + n .. 4 + n + n : w[m] = AttrCells(i.rets[m - (4 + n)])
  <2>1. \A m \in 5 + n .. 4 + n + n : m - (4 + n) \in 1 .. n
    BY <1>1
  <2> QED BY <1>3, <1>14, <2>1
<1>16. QED
  BY <1>1, <1>3, <1>9, <1>10, <1>11, <1>12, <1>13, <1>15 DEF a, b, c

\* Where the parts of a description stand.
InfoPlaces(i, b) ==
  {p \in [0 .. Len(InfoParts(i)) -> Nat] : p[0] = 0 /\ Follow(p, InfoParts(i), b)}

LEMMA InfoCells ==
  ASSUME NEW i \in Info, Len(i.args) = Len(i.rets),
         NEW b \in Cells, Stands(b, 0, FlattenSeq(InfoFields(i)))
  PROVE  InfoPlaces(i, b) # {}
<1> DEFINE g == InfoParts(i)
<1>1. g \in Seq(Cells) /\ Stands(b, 0, FlattenSeq(g))
  <2>1. Len(i.args) \in Nat /\ Len(i.args) <= Len(i.rets)
    BY LenProperties DEF Info
  <2> QED BY <2>1, InfoFlat
<1> HIDE DEF g
<1>2. PICK p \in [0 .. Len(g) -> Nat] : p[0] = 0 /\ Follow(p, g, b)
  BY <1>1, StandsItems
<1>3. QED
  BY <1>2 DEF InfoPlaces, g

\* What is read back of a description.
AllOf(i) == <<i.own>> \o i.args \o i.rets

LEMMA AllAt ==
  ASSUME NEW i \in Info, NEW n, n = Len(i.args), n = Len(i.rets)
  PROVE  /\ AllOf(i) \in Seq(Attr) /\ Len(AllOf(i)) = 1 + n + n /\ AllOf(i)[1] = i.own
         /\ \A k \in 1 .. n : AllOf(i)[1 + k] = i.args[k]
         /\ \A k \in 1 .. n : AllOf(i)[1 + n + k] = i.rets[k]
<1> DEFINE h == <<i.own>>
<1> DEFINE x == i.args
<1> DEFINE y == i.rets
<1>1. /\ i.own \in Attr /\ x \in Seq(Attr) /\ y \in Seq(Attr)
      /\ n \in Nat /\ Len(x) = n /\ Len(y) = n
  BY LenProperties DEF Info
<1>2. h \in Seq(Attr) /\ Len(h) = 1 /\ h[1] = i.own
  BY <1>1
<1> HIDE DEF h, x, y
<1> DEFINE u == h \o x
<1>3. u \in Seq(Attr) /\ Len(u) = 1 + n /\ u[1] = i.own /\ \A k \in 1 .. n : u[1 + k] = x[k]
  <2>1. u \in Seq(Attr) /\ Len(u) = Len(h) + Len(x)
    BY <1>1, <1>2, ConcatAt
  <2>2. \A j \in 1 .. Len(h) : u[j] = h[j]
    BY <1>1, <1>2, ConcatAt
  <2>3. \A j \in 1 .. Len(x) : u[Len(h) + j] = x[j]
    <3>1. h \in Seq(Attr) /\ x \in Seq(Attr)
      BY <1>1, <1>2
    <3> QED BY ONLY <3>1, ConcatAt
  <2> HIDE DEF u
  <2> QED BY <1>1, <1>2, <2>1, <2>2, <2>3
<1> HIDE DEF u
<1> DEFINE w == u \o y
<1>4. /\ w \in Seq(Attr) /\ Len(w) = 1 + n + n
      /\ \A j \in 1 .. 1 + n : w[j] = u[j]
      /\ \A j \in 1 .. n : w[1 + n + j] = y[j]
  <2>1. w \in Seq(Attr) /\ Len(w) = Len(u) + Len(y)
    BY <1>1, <1>3, ConcatAt
  <2>2. \A j \in 1 .. Len(u) : w[j] = u[j]
    BY <1>1, <1>3, ConcatAt
  <2>3. \A j \in 1 .. Len(y) : w[Len(u) + j] = y[j]
    <3>1. u \in Seq(Attr) /\ y \in Seq(Attr)
      BY <1>1, <1>3
    <3> QED BY ONLY <3>1, ConcatAt
  <2> HIDE DEF w
  <2> QED BY <1>1, <1>3, <2>1, <2>2, <2>3
<1>5. AllOf(i) = w
  BY DEF AllOf, h, x, y, u
<1> HIDE DEF w
<1>6. w[1] = i.own /\ \A k \in 1 .. n : w[1 + k] = x[k]
  <2>1. 1 \in 1 .. 1 + n /\ \A k \in 1 .. n : 1 + k \in 1 .. 1 + n
    BY <1>1
  <2> QED BY <1>3, <1>4, <2>1
<1>7. QED
  BY <1>4, <1>5, <1>6 DEF x, y

\* How many parts that are no attributes come before the next attribute, and how
\* many attributes have been read when a list of them ends.
Base(ph) == IF ph = "own" THEN 1 ELSE IF ph = "args" THEN 2 ELSE 3
Until(ph, n) == IF ph = "own" THEN 1 ELSE IF ph = "args" THEN 1 + n ELSE 1 + n + n

\* With k attributes read and l left of a list, the next part is the next
\* attribute.
LEMMA NextPart ==
  ASSUME NEW i \in Info, NEW n, n = Len(i.args), n = Len(i.rets),
         NEW ph \in {"own", "args", "rets"}, NEW l \in Nat, NEW k \in Nat,
         l > 0, l + k = Until(ph, n), ph # "own" => l <= n
  PROVE  /\ Base(ph) + k + 1 \in 1 .. Len(InfoParts(i))
         /\ AllOf(i)[k + 1] \in Attr
         /\ InfoParts(i)[Base(ph) + k + 1] = AttrCells(AllOf(i)[k + 1])
<1>1. n \in Nat /\ Len(InfoParts(i)) = 4 + n + n
  BY InfoPartAt
<1>2. i.own \in Attr /\ i.args \in Seq(Attr) /\ i.rets \in Seq(Attr)
  BY DEF Info
<1>3. CASE ph = "own"
  <2>1. k = 0 /\ Base(ph) + k + 1 = 2 /\ k + 1 = 1 /\ 2 \in 1 .. 4 + n + n
    BY <1>1, <1>3 DEF Base, Until
  <2>2. InfoParts(i)[2] = AttrCells(i.own)
    BY InfoPartAt
  <2>3. AllOf(i)[1] = i.own
    BY AllAt
  <2> QED BY <1>1, <1>2, <2>1, <2>2, <2>3
<1>4. CASE ph = "args"
  <2>1. /\ k \in 1 .. n /\ Base(ph) + k + 1 = 3 + k /\ k + 1 = 1 + k
        /\ 3 + k \in 1 .. 4 + n + n
    BY <1>1, <1>4 DEF Base, Until
  <2>2. InfoParts(i)[3 + k] = AttrCells(i.args[k])
    BY <2>1, InfoPartAt
  <2>3. AllOf(i)[1 + k] = i.args[k]
    BY <2>1, AllAt
  <2>4. i.args[k] \in Attr
    BY <1>2, <2>1, ElementOfSeq
  <2> QED BY <1>1, <2>1, <2>2, <2>3, <2>4
<1>5. CASE ph = "rets"
  <2> DEFINE j == k - n
  <2>1. /\ j \in 1 .. n /\ Base(ph) + k + 1 = 4 + n + j /\ k + 1 = 1 + n + j
        /\ 4 + n + j \in 1 .. 4 + n + n
    <3>1. l + k = 1 + n + n /\ l <= n /\ Base(ph) = 3
      BY <1>5 DEF Base, Until
    <3>2. k >= 1 + n /\ k <= n + n
      BY <1>1, <3>1
    <3>3. j \in 1 .. n /\ k = n + j
      BY <1>1, <3>2
    <3> HIDE DEF j
    <3> QED BY <1>1, <3>1, <3>3
  <2> HIDE DEF j
  <2>2. InfoParts(i)[4 + n + j] = AttrCells(i.rets[j])
    <3> DEFINE m == 4 + n + j
    <3>1. m \in 5 + n .. 4 + n + n /\ m - (4 + n) = j
      BY <1>1, <2>1
    <3> HIDE DEF m
    <3>2. InfoParts(i)[m] = AttrCells(i.rets[m - (4 + n)])
      BY <3>1, InfoPartAt
    <3> QED BY <3>1, <3>2 DEF m
  <2>3. AllOf(i)[1 + n + j] = i.rets[j]
    BY <2>1, AllAt
  <2>4. i.rets[j] \in Attr
    BY <1>2, <2>1, ElementOfSeq
  <2> QED BY <1>1, <2>1, <2>2, <2>3, <2>4
<1>6. QED
  BY <1>3, <1>4, <1>5

Described == message.content

\* A description that has arrived as a whole, of as many return values as
\* arguments.
Whole ==
  /\ message.kind = "info" /\ ~Writing /\ arrived >= Len(buf)
  /\ Len(Described.args) = Len(Described.rets)

InfoInv ==
  Whole =>
    /\ phase \in {"read", "own", "args", "rets", "done"}
    /\ Stands(memory, 0, buf)
    /\ phase = "read" => out = <<>>
    /\ phase # "read" =>
         /\ left + Len(out) = Until(phase, Len(Described.args))
         /\ phase \in {"args", "rets"} => left <= Len(Described.args)
         /\ phase = "done" => left = 0
         /\ \A p \in InfoPlaces(Described, memory) : at = p[Base(phase) + Len(out)] + 1
         /\ \A j \in 1 .. Len(out) : out[j] = AllOf(Described)[j]

\* What is known of the packet while it is read.
LEMMA InfoFacts ==
  ASSUME TypeInv, InfoInv, Whole
  PROVE  /\ Described \in Info /\ Len(Described.args) \in Nat
         /\ memory \in Cells /\ Len(memory) \in Nat
         /\ InfoPlaces(Described, memory) # {}
         /\ at \in Nat /\ at >= 1 /\ left \in Nat /\ out \in Seq(Attr) /\ Len(out) \in Nat
<1>1. message \in Messages /\ message.kind = "info" /\ buf = FlattenSeq(Fields(message))
  BY DEF TypeInv, Shape, WriteInv, Whole
<1>2. /\ memory \in Cells /\ at \in Nat /\ at >= 1 /\ left \in Nat /\ out \in Seq(Attr)
  BY <1>1, ItemFacts DEF TypeInv, Shape
<1>3. Len(memory) \in Nat /\ Len(out) \in Nat
  BY <1>2, LenProperties DEF Cells
<1>4. Described \in Info
  BY <1>1, KindFacts DEF Described, Info
<1>5. Len(Described.args) \in Nat
  BY <1>4, LenProperties DEF Info
<1>6. Stands(memory, 0, FlattenSeq(InfoFields(Described)))
  <2>1. Fields(message) = InfoFields(Described)
    BY <1>1 DEF Fields, Described
  <2> QED BY <1>1, <2>1 DEF InfoInv
<1>7. InfoPlaces(Described, memory) # {}
  BY <1>2, <1>4, <1>6, InfoCells DEF Whole
<1>8. QED
  BY <1>2, <1>3, <1>4, <1>5, <1>7

\* The next attribute is where the reader is, and it takes nothing else for it.
LEMMA NextAttr ==
  ASSUME TypeInv, InfoInv, Whole, phase \in {"own", "args", "rets"}, left > 0,
         NEW p \in InfoPlaces(Described, memory), NEW k, k = Len(out) + 1
  PROVE  \E d \in Ends, e \in Ends :
           /\ e = p[Base(phase) + k] + 1
           /\ \A x \in Ends, y \in Ends : IsAttr(x, y) <=> x = d /\ y = e
           /\ [name |-> TextAt(at, d), description |-> TextAt(d, e)] = AllOf(Described)[k]
<1> DEFINE i == Described
<1> DEFINE n == Len(i.args)
<1> DEFINE g == InfoParts(i)
<1> DEFINE a == AllOf(i)[k]
<1> DEFINE m == Base(phase) + Len(out) + 1
<1>1. /\ i \in Info /\ n \in Nat /\ n = Len(i.rets)
      /\ memory \in Cells /\ at \in Nat /\ left \in Nat /\ Len(out) \in Nat
  BY InfoFacts DEF Whole
<1>2. /\ left + Len(out) = Until(phase, n) /\ (phase # "own" => left <= n)
      /\ at = p[Base(phase) + Len(out)] + 1
  BY DEF InfoInv
<1>3. m \in 1 .. Len(g) /\ a \in Attr /\ g[m] = AttrCells(a)
  <2> DEFINE l == Len(out)
  <2>1. /\ i \in Info /\ n = Len(i.args) /\ n = Len(i.rets) /\ l \in Nat
        /\ phase \in {"own", "args", "rets"} /\ left \in Nat /\ left > 0
        /\ left + l = Until(phase, n) /\ (phase # "own" => left <= n)
    BY <1>1, <1>2
  <2> HIDE DEF n, i, l
  <2>2. /\ Base(phase) + l + 1 \in 1 .. Len(InfoParts(i))
        /\ AllOf(i)[l + 1] \in Attr
        /\ InfoParts(i)[Base(phase) + l + 1] = AttrCells(AllOf(i)[l + 1])
    BY ONLY <2>1, NextPart
  <2> QED BY <2>2 DEF l
<1>4. m - 1 = Base(phase) + Len(out) /\ m = Base(phase) + k /\ Len(g) \in Nat
  <2>1. Base(phase) \in Nat
    BY DEF Base
  <2>2. g \in Seq(Cells)
    <3>1. n <= Len(i.rets)
      BY <1>1
    <3> QED BY <1>1, <3>1, InfoFlat
  <2> HIDE DEF g
  <2> QED BY <1>1, <2>1, <2>2, LenProperties
<1>5. /\ p \in [0 .. Len(g) -> Nat] /\ Follow(p, g, memory)
  BY DEF InfoPlaces
<1> HIDE DEF g, a, m
<1> DEFINE s == p[m - 1]
<1>6. /\ s \in Nat /\ at = s + 1 /\ p[m] = s + Len(AttrCells(a))
      /\ Stands(memory, s, AttrCells(a))
  <2>1. m - 1 \in 0 .. Len(g)
    BY <1>3, <1>4
  <2>2. s \in Nat
    BY <1>5, <2>1
  <2>3. p[m] = s + Len(g[m]) /\ Stands(memory, s, g[m])
    BY <1>3, <1>5 DEF Follow
  <2> QED BY <1>2, <1>3, <1>4, <2>2, <2>3
<1>7. Len(AttrCells(a)) \in Nat
  <2>1. AttrCells(a) \in Cells
    BY <1>3, AttrFlat
  <2> QED BY <2>1, LenProperties DEF Cells
<1> DEFINE e == at + Len(AttrCells(a))
<1>8. e = p[m] + 1
  BY <1>6, <1>7
<1>9. e = at + Len(AttrCells(a))
  OBVIOUS
<1> HIDE DEF s, e
<1>10. PICK d \in Ends :
         /\ e \in Ends
         /\ \A x \in Ends, y \in Ends : IsAttr(x, y) <=> x = d /\ y = e
         /\ [name |-> TextAt(at, d), description |-> TextAt(d, e)] = a
  BY <1>1, <1>3, <1>6, <1>9, AttrRead
<1>11. QED
  BY <1>4, <1>8, <1>10 DEF a

\* After the last attribute of a list, the reader is at the number of attributes
\* of the next one.
LEMMA NextCount ==
  ASSUME TypeInv, InfoInv, Whole, phase \in {"own", "args"}, left = 0,
         NEW p \in InfoPlaces(Described, memory)
  PROVE  /\ at \in DOMAIN memory /\ memory[at] = Len(Described.args)
         /\ p[Base(phase) + Len(out) + 1] = at
<1> DEFINE i == Described
<1> DEFINE n == Len(i.args)
<1> DEFINE g == InfoParts(i)
<1> DEFINE m == Base(phase) + Len(out) + 1
<1>1. /\ i \in Info /\ n \in Nat /\ n = Len(i.rets)
      /\ memory \in Cells /\ Len(memory) \in Nat /\ at \in Nat /\ Len(out) \in Nat
  BY InfoFacts DEF Whole
<1>2. Len(out) = Until(phase, n) /\ at = p[Base(phase) + Len(out)] + 1
  <2>1. left + Len(out) = Until(phase, n) /\ at = p[Base(phase) + Len(out)] + 1
    BY DEF InfoInv
  <2> QED BY <1>1, <2>1
<1>3. Len(g) = 4 + n + n /\ g[3] = <<n>> /\ g[4 + n] = <<n>>
  <2>1. i \in Info /\ n = Len(i.args) /\ n = Len(i.rets)
    BY <1>1
  <2> HIDE DEF i, n
  <2> QED BY ONLY <2>1, InfoPartAt
<1> HIDE DEF g, n
<1>4. m \in 1 .. Len(g) /\ g[m] = <<n>> /\ m - 1 = Base(phase) + Len(out) /\ m - 1 \in 0 .. Len(g)
  <2>1. CASE phase = "own"
    <3>1. Len(out) = 1 /\ Base(phase) = 1
      BY <1>2, <2>1 DEF Until, Base
    <3>2. m = 3
      BY <3>1
    <3> QED BY <1>1, <1>3, <3>1, <3>2
  <2>2. CASE phase = "args"
    <3>1. Len(out) = 1 + n /\ Base(phase) = 2
      BY <1>2, <2>2 DEF Until, Base
    <3>2. m = 4 + n
      BY <1>1, <3>1
    <3> QED BY <1>1, <1>3, <3>1, <3>2
  <2> QED BY <2>1, <2>2
<1>5. p \in [0 .. Len(g) -> Nat] /\ Follow(p, g, memory)
  BY DEF InfoPlaces, g
<1> DEFINE s == p[m - 1]
<1>6. s \in Nat /\ at = s + 1 /\ p[m] = s + Len(<<n>>) /\ Stands(memory, s, <<n>>)
  <2>1. p[m] = s + Len(g[m]) /\ Stands(memory, s, g[m])
    BY <1>4, <1>5 DEF Follow
  <2>2. s \in Nat
    BY <1>4, <1>5
  <2> QED BY <1>2, <1>4, <2>1, <2>2
<1> HIDE DEF m, s
<1>7. s + 1 <= Len(memory) /\ memory[s + 1] = n
  BY <1>1, <1>6, StandsNumber
<1>8. DOMAIN memory = 1 .. Len(memory)
  BY <1>1 DEF Cells
<1>9. p[m] = at
  <2>1. Len(<<n>>) = 1
    OBVIOUS
  <2> QED BY <1>6, <2>1
<1>10. at \in DOMAIN memory /\ memory[at] = n
  BY <1>1, <1>6, <1>7, <1>8
<1>11. QED
  BY <1>9, <1>10 DEF m, n

LEMMA InfoArrives ==
  ASSUME TypeInv, ReceiveInfo
  PROVE  InfoInv'
<1>1. PICK n \in 1 .. Len(buf) :
        Arrives({"info"}, n, Padded(SubSeq(buf, 1, n), MAX_BUFFER_SIZE))
  BY DEF ReceiveInfo
<1>2. /\ phase = "write" /\ phase' = "read" /\ arrived' = n
      /\ memory' = Padded(SubSeq(buf, 1, n), MAX_BUFFER_SIZE)
      /\ UNCHANGED <<message, buf, out>>
  BY <1>1 DEF Arrives, senderVars
<1>3. buf \in Cells /\ Len(buf) \in Nat /\ out = <<>>
  BY <1>2, LenProperties DEF TypeInv, Shape, WriteInv, Writing, Cells
<1>4. ASSUME n >= Len(buf) PROVE Stands(memory', 0, buf)
  <2>1. n = Len(buf)
    BY <1>3, <1>4
  <2>2. SubSeq(buf, 1, n) = buf
    <3> DEFINE c == SubSeq(buf, 1, n)
    <3> DEFINE a == 1
    <3>1. /\ n \in Nat /\ n <= Len(buf) /\ a \in Nat \ {0} /\ a <= n
          /\ n - a + 1 = n /\ \A j \in 1 .. n : a + j - 1 = j
      BY <1>3, <2>1
    <3>2. c = SubSeq(buf, a, n)
      OBVIOUS
    <3> HIDE DEF a, c
    <3>3. /\ c \in Cells /\ Len(c) = IF a <= n THEN n - a + 1 ELSE 0
          /\ \A j \in 1 .. n - a + 1 : c[j] = buf[a + j - 1]
      BY <1>3, <3>1, <3>2, PartCells
    <3>4. Len(c) = n /\ \A j \in 1 .. n : c[j] = buf[j]
      BY <3>1, <3>3
    <3>5. c \in Seq(Nat) /\ buf \in Seq(Nat)
      BY <1>3, <3>3 DEF Cells
    <3>6. c = buf
      BY <2>1, <3>4, <3>5, SeqEqual
    <3> QED BY <3>6 DEF c
  <2>3. Stands(Padded(buf, MAX_BUFFER_SIZE), 0, buf)
    BY <1>3, PaddedStands, PacketsAssumption
  <2> QED BY <1>2, <2>2, <2>3
<1>5. ASSUME Whole' PROVE Stands(memory', 0, buf')
  <2>1. n >= Len(buf)
    BY <1>2, <1>5 DEF Whole
  <2> QED BY <1>2, <1>4, <2>1
<1>6. QED
  BY <1>2, <1>3, <1>5 DEF InfoInv

LEMMA InfoStarts ==
  ASSUME TypeInv, InfoInv, ReadInfoHead
  PROVE  InfoInv'
<1>1. /\ phase = "read" /\ phase' = "own" /\ left' = 1 /\ at' = 2
      /\ UNCHANGED <<message, buf, arrived, memory, out>>
  BY DEF ReadInfoHead, Expect, senderVars
<1>2. SUFFICES ASSUME Whole' PROVE InfoInv'
  BY DEF InfoInv
<1>3. Whole
  BY <1>1, <1>2 DEF Whole, Writing, Described
<1>4. Stands(memory', 0, buf') /\ out' = <<>> /\ Described' = Described
  BY <1>1, <1>3 DEF InfoInv, Described
<1> DEFINE i == Described
<1> DEFINE n == Len(i.args)
<1> DEFINE g == InfoParts(i)
<1>5. /\ Len(out') = 0 /\ left' + Len(out') = Until(phase', n) /\ Base(phase') + Len(out') = 1
      /\ 1 .. Len(out') = {}
  BY <1>1, <1>4 DEF Until, Base
<1>6. Len(g) >= 1 /\ Len(g) \in Nat /\ Len(g[1]) = 1
  <2>1. i \in Info /\ n = Len(i.args) /\ n = Len(i.rets)
    BY <1>3, InfoFacts DEF Whole
  <2>2. n \in Nat /\ Len(g) = 4 + n + n /\ g[1] = <<i.id>>
    <3> HIDE DEF i, n
    <3> QED BY ONLY <2>1, InfoPartAt
  <2>3. Len(<<i.id>>) = 1
    OBVIOUS
  <2> HIDE DEF g, n
  <2> QED BY <2>2, <2>3
<1>7. ASSUME NEW p \in InfoPlaces(Described, memory) PROVE at' = p[Base(phase') + Len(out')] + 1
  <2>1. /\ p[0] = 0 /\ \A k \in 1 .. Len(g) : p[k] = p[k - 1] + Len(g[k])
    BY DEF InfoPlaces, Follow
  <2> HIDE DEF g
  <2> DEFINE k == 1
  <2>2. k \in 1 .. Len(g) /\ k - 1 = 0 /\ Len(g[k]) = 1
    BY <1>6
  <2> HIDE DEF k
  <2>3. p[k] = 1
    <3>1. p[k] = p[k - 1] + Len(g[k])
      BY <2>1, <2>2
    <3> QED BY <2>1, <2>2, <3>1
  <2> QED BY <1>1, <1>5, <2>3 DEF k
<1>8. (\A p \in InfoPlaces(Described, memory) : at = p[Base(phase) + Len(out)] + 1)'
  <2>1. InfoPlaces(Described', memory') = InfoPlaces(Described, memory)
    BY <1>1, <1>4
  <2> QED BY <1>7, <2>1
<1>9. left' + Len(out') = Until(phase', Len(Described'.args))
  BY <1>4, <1>5
<1>10. QED
  BY <1>1, <1>4, <1>5, <1>8, <1>9 DEF InfoInv

LEMMA InfoAttr ==
  ASSUME TypeInv, InfoInv, ReadAttr
  PROVE  InfoInv'
<1>1. PICK u \in Ends, v \in Ends :
        /\ phase \in {"own", "args", "rets"} /\ left > 0 /\ IsAttr(u, v)
        /\ Take([name |-> TextAt(at, u), description |-> TextAt(u, v)], v)
  BY DEF ReadAttr
<1> DEFINE item == [name |-> TextAt(at, u), description |-> TextAt(u, v)]
<1> DEFINE k == Len(out) + 1
<1> DEFINE n == Len(Described.args)
<1>2. /\ phase' = phase /\ out' = Append(out, item) /\ at' = v /\ left' = left - 1
      /\ UNCHANGED <<message, buf, arrived, memory>>
  BY <1>1 DEF Take, senderVars
<1>3. SUFFICES ASSUME Whole' PROVE InfoInv'
  BY DEF InfoInv
<1>4. Whole
  BY <1>2, <1>3 DEF Whole, Writing, Described
<1>5. /\ out \in Seq(Attr) /\ Len(out) \in Nat /\ left \in Nat /\ n \in Nat
      /\ InfoPlaces(Described, memory) # {}
  BY <1>4, InfoFacts
<1>6. /\ Stands(memory, 0, buf)
      /\ left + Len(out) = Until(phase, n)
      /\ phase \in {"args", "rets"} => left <= n
      /\ \A j \in 1 .. Len(out) : out[j] = AllOf(Described)[j]
  BY <1>1, <1>4 DEF InfoInv
<1> HIDE DEF item, n
<1>7. /\ Len(out') = k /\ out'[k] = item
      /\ \A j \in 1 .. Len(out) : out'[j] = out[j]
  <2> DEFINE S == Attr \cup {item}
  <2>1. out \in Seq(S) /\ item \in S
    <3>1. Attr \subseteq S
      OBVIOUS
    <3> HIDE DEF S
    <3>2. out \in Seq(S)
      BY <1>5, <3>1, SeqMonotonic
    <3> QED BY <3>2 DEF S
  <2> HIDE DEF S
  <2> QED BY <1>2, <2>1, AppendProperties
<1>8. ASSUME NEW p \in InfoPlaces(Described, memory)
      PROVE  v = p[Base(phase) + k] + 1 /\ item = AllOf(Described)[k]
  <2>1. PICK d \in Ends, e \in Ends :
          /\ e = p[Base(phase) + k] + 1
          /\ \A x \in Ends, y \in Ends : IsAttr(x, y) <=> x = d /\ y = e
          /\ [name |-> TextAt(at, d), description |-> TextAt(d, e)] = AllOf(Described)[k]
    BY <1>1, <1>4, NextAttr
  <2>2. u = d /\ v = e
    BY <1>1, <2>1
  <2> QED BY <2>1, <2>2 DEF item
<1>9. ASSUME NEW j \in 1 .. Len(out') PROVE out'[j] = AllOf(Described)[j]
  <2>1. CASE j = k
    BY <1>5, <1>7, <1>8, <2>1
  <2>2. CASE j # k
    <3>1. j \in 1 .. Len(out)
      BY <1>5, <1>7, <2>2
    <3> QED BY <1>6, <1>7, <3>1
  <2> QED BY <2>1, <2>2
<1>10. Described' = Described
  BY <1>2 DEF Described
<1>11. (\A p \in InfoPlaces(Described, memory) : at = p[Base(phase) + Len(out)] + 1)'
  <2>1. InfoPlaces(Described', memory') = InfoPlaces(Described, memory)
    BY <1>2, <1>10
  <2>2. \A p \in InfoPlaces(Described, memory) : at' = p[Base(phase') + Len(out')] + 1
    BY <1>2, <1>7, <1>8
  <2> QED BY <2>1, <2>2
<1>12. (\A j \in 1 .. Len(out) : out[j] = AllOf(Described)[j])'
  BY <1>9, <1>10
<1>13. /\ left' + Len(out') = Until(phase', n) /\ n' = n
       /\ phase' \in {"args", "rets"} => left' <= n
  <2>1. left' + Len(out') = left + Len(out) /\ left' <= left
    BY <1>1, <1>2, <1>5, <1>7
  <2>2. n' = n
    BY <1>10 DEF n
  <2> QED BY <1>2, <1>5, <1>6, <2>1, <2>2
<1>14. Stands(memory', 0, buf') /\ phase' \in {"own", "args", "rets"}
  BY <1>1, <1>2, <1>6
<1>15. QED
  BY <1>10, <1>11, <1>12, <1>13, <1>14 DEF InfoInv, n

LEMMA InfoCount ==
  ASSUME TypeInv, InfoInv, ReadInfoCount
  PROVE  InfoInv'
<1>1. /\ left = 0 /\ left' = memory[at] /\ at' = at + 1
      /\ (phase = "own" /\ phase' = "args") \/ (phase = "args" /\ phase' = "rets")
      /\ UNCHANGED <<message, buf, arrived, memory, out>>
  BY DEF ReadInfoCount, Expect, senderVars
<1>2. SUFFICES ASSUME Whole' PROVE InfoInv'
  BY DEF InfoInv
<1>3. Whole
  BY <1>1, <1>2 DEF Whole, Writing, Described
<1> DEFINE n == Len(Described.args)
<1>4. n \in Nat /\ Len(out) \in Nat /\ InfoPlaces(Described, memory) # {} /\ at \in Nat
  BY <1>3, InfoFacts
<1>5. /\ Stands(memory, 0, buf)
      /\ left + Len(out) = Until(phase, n)
      /\ \A j \in 1 .. Len(out) : out[j] = AllOf(Described)[j]
  BY <1>1, <1>3 DEF InfoInv
<1>6. Described' = Described
  BY <1>1 DEF Described
<1>7. ASSUME NEW p \in InfoPlaces(Described, memory)
      PROVE  memory[at] = n /\ p[Base(phase) + Len(out) + 1] = at
  BY <1>1, <1>3, NextCount
<1>8. left' = n
  BY <1>1, <1>4, <1>7
<1>9. /\ left' + Len(out') = Until(phase', n) /\ left' <= n
      /\ Base(phase') + Len(out') = Base(phase) + Len(out) + 1
  <2> HIDE DEF n
  <2>1. Len(out) = Until(phase, n) /\ out' = out
    BY <1>1, <1>4, <1>5
  <2>2. Until(phase', n) = n + Until(phase, n) /\ Base(phase') = Base(phase) + 1
    BY <1>1, <1>4 DEF Until, Base
  <2>3. Base(phase) \in Nat
    BY DEF Base
  <2> QED BY <1>4, <1>8, <2>1, <2>2, <2>3
<1>10. (\A p \in InfoPlaces(Described, memory) : at = p[Base(phase) + Len(out)] + 1)'
  <2>1. InfoPlaces(Described', memory') = InfoPlaces(Described, memory)
    BY <1>1, <1>6
  <2>2. \A p \in InfoPlaces(Described, memory) : at' = p[Base(phase') + Len(out')] + 1
    BY <1>1, <1>7, <1>9
  <2> QED BY <2>1, <2>2
<1>11. (\A j \in 1 .. Len(out) : out[j] = AllOf(Described)[j])'
  BY <1>1, <1>5, <1>6
<1>12. n' = n /\ Stands(memory', 0, buf') /\ phase' \in {"args", "rets"}
  BY <1>1, <1>5, <1>6
<1>13. QED
  BY <1>9, <1>10, <1>11, <1>12 DEF InfoInv

LEMMA InfoNext ==
  TypeInv /\ InfoInv /\ [Next]_vars => InfoInv'
<1> SUFFICES ASSUME TypeInv, InfoInv, [Next]_vars PROVE InfoInv'
  OBVIOUS
<1>1. CASE copy_to_buffer \/ CopyUnset
  <2>1. phase' \in {"write", "overrun"}
    BY <1>1 DEF copy_to_buffer, CopyUnset
  <2> QED BY <2>1 DEF InfoInv, Whole, Writing
<1>2. CASE ReceiveInfo
  BY <1>2, InfoArrives
<1>3. CASE ReadInfoHead
  BY <1>3, InfoStarts
<1>4. CASE ReadAttr
  BY <1>4, InfoAttr
<1>5. CASE ReadInfoCount
  BY <1>5, InfoCount
<1>6. CASE message' = message /\ message.kind # "info"
  BY <1>6 DEF InfoInv, Whole
<1>7. ASSUME \/ ReceiveBroadcast \/ ReceivePacket \/ ReadListHead \/ ReadRpcHead
             \/ ReadEntry \/ ReadValue
      PROVE  message' = message /\ message.kind # "info"
  <2>1. CASE ReceiveBroadcast \/ ReceivePacket
    BY <2>1 DEF ReceiveBroadcast, ReceivePacket, Arrives, senderVars
  <2>2. CASE ReadListHead \/ ReadRpcHead
    BY <2>2 DEF ReadListHead, ReadRpcHead, Goes, Expect, senderVars
  <2>3. CASE ReadEntry \/ ReadValue
    BY <2>3 DEF ReadEntry, ReadValue, Take, senderVars, IsRpc, TypeInv, KindInv
  <2> QED BY <1>7, <2>1, <2>2, <2>3
<1>8. CASE ReadOutside /\ Whole
  <2>1. phase \in {"own", "args", "rets"}
    BY <1>8 DEF ReadOutside, InfoInv, Whole, TypeInv, KindInv, IsRpc
  <2>2. PICK p \in InfoPlaces(Described, memory) : TRUE
    BY <1>8, InfoFacts
  <2>3. CASE left > 0
    <3>1. ~(\E d \in Ends, e \in Ends : IsAttr(d, e))
      BY <1>8, <2>1, <2>3 DEF ReadOutside, ItemFits
    <3> DEFINE k == Len(out) + 1
    <3>2. k = Len(out) + 1
      OBVIOUS
    <3> HIDE DEF k
    <3>3. PICK d \in Ends, e \in Ends :
            /\ e = p[Base(phase) + k] + 1
            /\ \A x \in Ends, y \in Ends : IsAttr(x, y) <=> x = d /\ y = e
            /\ [name |-> TextAt(at, d), description |-> TextAt(d, e)] = AllOf(Described)[k]
      BY <1>8, <2>1, <2>2, <2>3, <3>2, NextAttr
    <3> QED BY <3>1, <3>3
  <2>4. CASE ~(left > 0)
    <3>1. phase \in {"own", "args"} /\ at \notin DOMAIN memory
      BY <1>8, <2>4 DEF ReadOutside
    <3>2. left = 0
      BY <1>8, <2>4, InfoFacts
    <3> QED BY <1>8, <2>2, <3>1, <3>2, NextCount
  <2> QED BY <2>3, <2>4
<1>9. CASE UNCHANGED <<message, buf, arrived, memory, at, left, out>> /\ ~Whole
           /\ phase # "write" /\ phase # "overrun"
  <2>1. ~Whole'
    BY <1>9 DEF Whole, Writing, Described
  <2> QED BY <2>1 DEF InfoInv
<1>10. CASE /\ UNCHANGED <<message, buf, arrived, memory, at, left, out>>
            /\ phase' = phase \/ (phase = "rets" /\ phase' = "done" /\ left = 0)
  <2>1. Described' = Described
    BY <1>10 DEF Described
  <2>2. SUFFICES ASSUME Whole' PROVE InfoInv'
    BY DEF InfoInv
  <2>3. Whole
    BY <1>10, <2>1, <2>2 DEF Whole, Writing
  <2>4. /\ Until(phase', Len(Described'.args)) = Until(phase, Len(Described.args))
        /\ Base(phase') = Base(phase)
    BY <1>10, <2>1 DEF Until, Base
  <2>5. /\ phase' \in {"read", "own", "args", "rets", "done"}
        /\ Stands(memory', 0, buf')
        /\ phase' = "read" => out' = <<>>
    BY <1>10, <2>3 DEF InfoInv
  <2>6. ASSUME phase' # "read"
        PROVE  /\ left' + Len(out') = Until(phase', Len(Described'.args))
               /\ phase' \in {"args", "rets"} => left' <= Len(Described'.args)
               /\ phase' = "done" => left' = 0
               /\ \A p \in InfoPlaces(Described, memory) :
                    at' = p[Base(phase') + Len(out')] + 1
               /\ \A j \in 1 .. Len(out) : out[j] = AllOf(Described)[j]
    BY <1>10, <2>1, <2>3, <2>4, <2>6 DEF InfoInv
  <2>7. ASSUME phase' # "read"
        PROVE  /\ (\A p \in InfoPlaces(Described, memory) :
                     at = p[Base(phase) + Len(out)] + 1)'
               /\ (\A j \in 1 .. Len(out) : out[j] = AllOf(Described)[j])'
    <3>1. InfoPlaces(Described', memory') = InfoPlaces(Described, memory)
      BY <1>10, <2>1
    <3> QED BY <1>10, <2>1, <2>6, <2>7, <3>1
  <2> QED BY <2>5, <2>6, <2>7 DEF InfoInv
<1>11. CASE UNCHANGED vars
  BY <1>10, <1>11 DEF vars, senderVars
<1>12. CASE Return
  <2>1. /\ phase \in {"entries", "values", "rets"} /\ left = 0 /\ phase' = "done"
        /\ UNCHANGED <<message, buf, arrived, memory, at, left, out>>
    BY <1>12 DEF Return, Goes, senderVars
  <2>2. message.kind = "info" => phase = "rets"
    BY <2>1 DEF IsRpc, TypeInv, KindInv
  <2> QED BY <1>6, <1>10, <2>1, <2>2
<1>13. CASE ReadOutside /\ ~Whole
  BY <1>9, <1>13 DEF ReadOutside, Goes, senderVars
<1>14. QED
  BY <1>1, <1>2, <1>3, <1>4, <1>5, <1>6, <1>7, <1>8, <1>11, <1>12, <1>13 DEF Next

\* No pointer is left to be followed unless there are more arguments than return
\* values, and the copy stops at a field.
CopyInv ==
  /\ phase = "overrun" => todo # <<>>
  /\ Writing /\ message.kind = "info" /\ Len(Described.args) <= Len(Described.rets) =>
       todo \in Seq(Cells)

LEMMA CopyAlways ==
  Spec => []CopyInv
<1>1. Init => CopyInv
  <2> SUFFICES ASSUME Init PROVE CopyInv
    OBVIOUS
  <2>1. message \in Messages /\ todo = Fields(message) /\ phase = "write"
    BY DEF Init
  <2>2. ASSUME message.kind = "info", Len(Described.args) <= Len(Described.rets)
        PROVE  todo \in Seq(Cells)
    <3>1. Described \in Info /\ Fields(message) = InfoFields(Described)
      BY <2>1, <2>2, KindFacts DEF Described, Info, Fields
    <3> QED BY <2>1, <2>2, <3>1, InfoFlat
  <2> QED BY <2>1, <2>2 DEF CopyInv
<1>2. CopyInv /\ [Next]_vars => CopyInv'
  <2> SUFFICES ASSUME CopyInv, [Next]_vars PROVE CopyInv'
    OBVIOUS
  <2>1. CASE copy_to_buffer
    <3>1. /\ phase = "write" /\ todo # <<>> /\ message' = message
          /\ (todo' = Tail(todo) /\ phase' = phase) \/ (todo' = todo /\ phase' = "overrun")
      BY <2>1 DEF copy_to_buffer
    <3>2. todo \in Seq(Cells) => Tail(todo) \in Seq(Cells)
      BY <3>1, HeadTailProperties
    <3> QED BY <3>1, <3>2 DEF CopyInv, Writing, Described
  <2>2. CASE CopyUnset
    BY <2>2 DEF CopyUnset, senderVars, CopyInv, Writing, Described
  <2>3. CASE ReceiveBroadcast \/ ReceivePacket \/ ReceiveInfo
    BY <2>3 DEF ReceiveBroadcast, ReceivePacket, ReceiveInfo, Arrives, CopyInv, Writing
  <2>4. CASE \/ ReadListHead \/ ReadRpcHead \/ ReadInfoHead \/ ReadInfoCount
             \/ ReadOutside \/ Return
    BY <2>4 DEF ReadListHead, ReadRpcHead, ReadInfoHead, ReadInfoCount, ReadOutside, Return,
                Goes, Expect, CopyInv, Writing
  <2>5. CASE ReadEntry \/ ReadValue \/ ReadAttr
    BY <2>5 DEF ReadEntry, ReadValue, ReadAttr, Take, CopyInv, Writing
  <2>6. CASE UNCHANGED vars
    BY <2>6 DEF vars, senderVars, CopyInv, Writing, Described
  <2> QED BY <2>1, <2>2, <2>3, <2>4, <2>5, <2>6 DEF Next
<1>3. QED
  BY <1>1, <1>2, PTL DEF Spec

\* A description that has arrived as a whole is read back as it was written if
\* there are as many return values as arguments, and a pointer that was never set
\* is followed only if there are fewer.
THEOREM InfoRoundTripHolds ==
  Spec => []InfoRoundTrip
<1>1. Init => InfoInv
  BY DEF Init, InfoInv, Whole, Writing
<1>2. ASSUME TypeInv, InfoInv, CopyInv PROVE InfoRoundTrip
  <2>1. SUFFICES ASSUME message.kind = "info"
        PROVE  /\ phase \in {"done", "outside"} /\ arrived >= Len(buf)
                    /\ Len(Described.args) = Len(Described.rets) =>
                  phase = "done" /\ out = AllOf(Described)
               /\ phase = "overrun" /\ Head(todo) = Unset =>
                    Len(Described.args) > Len(Described.rets)
    BY DEF InfoRoundTrip, Described, AllOf
  <2>2. ASSUME phase \in {"done", "outside"}, arrived >= Len(buf),
               Len(Described.args) = Len(Described.rets)
        PROVE  phase = "done" /\ out = AllOf(Described)
    <3> DEFINE n == Len(Described.args)
    <3>1. Whole
      BY <2>1, <2>2 DEF Whole, Writing
    <3>2. /\ phase = "done" /\ left = 0 /\ left + Len(out) = Until("done", n)
          /\ \A j \in 1 .. Len(out) : out[j] = AllOf(Described)[j]
      BY <1>2, <2>2, <3>1 DEF InfoInv
    <3>3. Described \in Info /\ n \in Nat /\ out \in Seq(Attr) /\ Len(out) \in Nat
      BY <1>2, <3>1, InfoFacts
    <3>4. AllOf(Described) \in Seq(Attr) /\ Len(AllOf(Described)) = 1 + n + n
      BY <2>2, <3>3, AllAt
    <3>5. Len(out) = 1 + n + n
      <4> HIDE DEF n
      <4> QED BY <3>2, <3>3 DEF Until
    <3> HIDE DEF n
    <3> QED BY <3>2, <3>3, <3>4, <3>5, SeqEqual
  <2>3. ASSUME phase = "overrun", Head(todo) = Unset
        PROVE  Len(Described.args) > Len(Described.rets)
    <3>1. Described \in Info
      BY <1>2, <2>1, KindFacts DEF TypeInv, Shape, Described, Info
    <3>2. Len(Described.args) \in Nat /\ Len(Described.rets) \in Nat
      BY <3>1, LenProperties DEF Info
    <3>3. ASSUME Len(Described.args) <= Len(Described.rets) PROVE FALSE
      <4>1. todo \in Seq(Cells) /\ todo # <<>>
        BY <1>2, <2>1, <2>3, <3>3 DEF CopyInv, Writing
      <4>2. Head(todo) \in Cells
        BY <4>1, HeadTailProperties
      <4> QED BY <2>3, <4>2, PacketsAssumption
    <3> QED BY <3>2, <3>3
  <2> QED BY <2>2, <2>3
<1>3. QED
  BY <1>1, <1>2, InitTypes, TypeNext, InfoNext, CopyAlways, PTL DEF Spec
=============================================================================
