--------------------------- MODULE Summing_proofs ----------------------------
(***************************************************************************)
(* Induction over the natural numbers in the form of a statement about     *)
(* sets, and what it says of sums.                                         *)
(***************************************************************************)
EXTENDS Summing, WellFoundedInduction, TLAPS

NatLess == {p \in Nat \X Nat : p[1] < p[2]}

LEMMA NatLessWF == IsWellFoundedOn(NatLess, Nat)
<1>1. NatLess = OpToRel(<, Nat)
  BY DEF NatLess, OpToRel
<1> QED
  BY <1>1, NatLessThanWellFounded

\* A set of natural numbers that is not empty has a least element.
LEMMA LeastElement ==
    ASSUME NEW T, T \subseteq Nat, T # {}
    PROVE  \E x \in T : \A y \in T : x <= y
<1>1. PICK x \in T : \A y \in T : ~ (<<y, x>> \in NatLess)
  BY NatLessWF, WFMin
<1>2. \A y \in T : ~ (y < x)
  BY <1>1 DEF NatLess
<1> QED
  BY <1>2

LEMMA SetInduction ==
    ASSUME NEW S, 0 \in S, \A n \in Nat : n \in S => n + 1 \in S
    PROVE  \A n \in Nat : n \in S
<1> DEFINE T == Nat \ S
<1>1. SUFFICES ASSUME T # {} PROVE FALSE
  OBVIOUS
<1>2. PICK x \in T : \A y \in T : x <= y
  BY <1>1, LeastElement
<1>3. x \in Nat /\ x # 0 /\ x - 1 \in Nat
  OBVIOUS
<1>4. x - 1 \in S
  BY <1>2, <1>3
<1> QED
  BY <1>3, <1>4

----------------------------------------------------------------------------
(***************************************************************************)
(* Sums                                                                    *)
(***************************************************************************)

\* f holds the sums of the beginnings of s up to the n-th.
Sums(f, s, n) ==
    /\ f \in [0 .. n -> Int]
    /\ \A k \in 0 .. n : f[k] = IF k = 0 THEN 0 ELSE f[k - 1] + s[k]

LEMMA SumsUnique ==
    ASSUME NEW s \in Seq(Int), NEW n \in Nat, n <= Len(s),
           NEW f, Sums(f, s, n), NEW g, Sums(g, s, n)
    PROVE  f = g
<1> DEFINE S == {k \in Nat : k <= n => f[k] = g[k]}
<1>1. 0 \in S
  BY DEF Sums
<1>2. ASSUME NEW k \in Nat, k \in S PROVE k + 1 \in S
  <2>1. CASE k + 1 <= n
    <3>1. f[k + 1] = f[k] + s[k + 1] /\ g[k + 1] = g[k] + s[k + 1]
      <4>1. k + 1 \in 0 .. n /\ k + 1 # 0 /\ (k + 1) - 1 = k
        BY <2>1
      <4> QED
        BY <4>1 DEF Sums
    <3>2. f[k] = g[k]
      BY <1>2, <2>1
    <3> QED
      BY <3>1, <3>2
  <2> QED
    BY <2>1
<1> HIDE DEF S
<1>3. \A k \in Nat : k \in S
  BY <1>1, <1>2, SetInduction
<1>4. \A k \in 0 .. n : f[k] = g[k]
  BY <1>3 DEF S
<1> QED
  BY <1>4 DEF Sums

LEMMA SumsExist ==
    ASSUME NEW s \in Seq(Int)
    PROVE  \A n \in Nat : n <= Len(s) => \E f : Sums(f, s, n)
<1> DEFINE S == {n \in Nat : n <= Len(s) => \E f : Sums(f, s, n)}
<1>1. 0 \in S
  <2>1. Sums([k \in 0 .. 0 |-> 0], s, 0)
    BY DEF Sums
  <2> QED
    BY <2>1
<1>2. ASSUME NEW n \in Nat, n \in S PROVE n + 1 \in S
  <2> SUFFICES ASSUME n + 1 <= Len(s) PROVE \E f : Sums(f, s, n + 1)
    OBVIOUS
  <2>1. PICK f : Sums(f, s, n)
    BY <1>2
  <2> DEFINE g == [k \in 0 .. n + 1 |->
                      IF k = n + 1 THEN f[n] + s[n + 1] ELSE f[k]]
  <2>2. s[n + 1] \in Int
    OBVIOUS
  <2>3. g \in [0 .. n + 1 -> Int]
    BY <2>1, <2>2 DEF Sums
  <2>4. ASSUME NEW k \in 0 .. n + 1
        PROVE  g[k] = IF k = 0 THEN 0 ELSE g[k - 1] + s[k]
    <3>1. CASE k = n + 1
      BY <3>1
    <3>2. CASE k # n + 1
      <4>1. k \in 0 .. n /\ (k # 0 => k - 1 \in 0 .. n + 1 /\ k - 1 # n + 1)
        BY <3>2
      <4> QED
        BY <2>1, <4>1 DEF Sums
    <3> QED
      BY <3>1, <3>2
  <2>5. Sums(g, s, n + 1)
    BY <2>3, <2>4 DEF Sums
  <2> QED
    BY <2>5
<1> HIDE DEF S
<1>3. \A n \in Nat : n \in S
  BY <1>1, <1>2, SetInduction
<1> QED
  BY <1>3 DEF S

\* The recursive function of SumOf is the one that holds these sums.
LEMMA SumOfIsLast ==
    ASSUME NEW s \in Seq(Int)
    PROVE  \E f : Sums(f, s, Len(s)) /\ SumOf(s) = f[Len(s)]
<1> DEFINE Def(f) == f = [n \in 0 .. Len(s) |->
                             IF n = 0 THEN 0 ELSE f[n - 1] + s[n]]
           sum == CHOOSE f : Def(f)
<1>1. Len(s) \in Nat
  OBVIOUS
<1>2. PICK f : Sums(f, s, Len(s))
  BY <1>1, SumsExist
<1>3. Def(f)
  BY <1>2 DEF Sums
<1>4. Def(sum)
  BY <1>3
<1>5. Sums(sum, s, Len(s))
  <2> DEFINE S == {k \in Nat : k <= Len(s) => sum[k] \in Int}
  <2> HIDE DEF sum
  <2>1. \A k \in 0 .. Len(s) : sum[k] = IF k = 0 THEN 0 ELSE sum[k - 1] + s[k]
    BY <1>4
  <2>2. 0 \in S
    BY <2>1
  <2>3. ASSUME NEW k \in Nat, k \in S PROVE k + 1 \in S
    <3>1. CASE k + 1 <= Len(s)
      <4>1. k + 1 \in 0 .. Len(s) /\ k + 1 # 0 /\ (k + 1) - 1 = k
        BY <3>1
      <4>2. sum[k + 1] = sum[k] + s[k + 1] /\ s[k + 1] \in Int
        BY <2>1, <4>1
      <4> QED
        BY <2>3, <3>1, <4>2
    <3> QED
      BY <3>1
  <2> HIDE DEF S
  <2>4. \A k \in Nat : k \in S
    BY <2>2, <2>3, SetInduction
  <2>5. \A k \in 0 .. Len(s) : sum[k] \in Int
    BY <2>4 DEF S
  <2> QED
    BY <1>4, <2>1, <2>5 DEF Sums
<1>6. SumOf(s) = sum[Len(s)]
  BY DEF SumOf
<1> QED
  BY <1>5, <1>6

\* No samples add up to 0.
THEOREM SumOfNothing == SumOf(<<>>) = 0
<1> DEFINE s == <<>>
<1>0. s \in Seq(Int) /\ Len(s) = 0
  OBVIOUS
<1> HIDE DEF s
<1>1. PICK f : Sums(f, s, Len(s)) /\ SumOf(s) = f[Len(s)]
  BY <1>0, SumOfIsLast
<1>2. SumOf(s) = 0
  BY <1>0, <1>1 DEF Sums
<1> QED
  BY <1>2 DEF s

\* One more sample adds its value to the sum.
THEOREM SumOfOneMore ==
    ASSUME NEW s \in Seq(Int), NEW v \in Int
    PROVE  SumOf(Append(s, v)) = SumOf(s) + v
<1> DEFINE n == Len(s)
           t == Append(s, v)
<1>0. /\ n \in Nat /\ t \in Seq(Int) /\ Len(t) = n + 1 /\ t[n + 1] = v
      /\ \A k \in 1 .. n : t[k] = s[k]
  OBVIOUS
<1>1. PICK f : Sums(f, s, n) /\ SumOf(s) = f[n]
  BY SumOfIsLast
<1>2. PICK g : Sums(g, t, n + 1) /\ SumOf(t) = g[n + 1]
  BY <1>0, SumOfIsLast
<1> HIDE DEF n, t
<1> DEFINE h == [k \in 0 .. n |-> g[k]]
<1>3. Sums(h, t, n) /\ Sums(h, s, n)
  <2>1. h \in [0 .. n -> Int]
    BY <1>0, <1>2 DEF Sums
  <2>2. ASSUME NEW k \in 0 .. n
        PROVE  h[k] = IF k = 0 THEN 0 ELSE h[k - 1] + t[k]
    BY <1>0, <1>2 DEF Sums
  <2>3. ASSUME NEW k \in 0 .. n
        PROVE  h[k] = IF k = 0 THEN 0 ELSE h[k - 1] + s[k]
    BY <1>0, <2>2
  <2> QED
    BY <2>1, <2>2, <2>3 DEF Sums
<1>4. h = f
  BY <1>0, <1>1, <1>3, SumsUnique DEF n
<1>5. g[n + 1] = g[n] + v
  BY <1>0, <1>2 DEF Sums
<1>6. g[n] = f[n]
  BY <1>0, <1>4
<1> QED
  BY <1>0, <1>1, <1>2, <1>5, <1>6 DEF t, n

\* A sum of natural numbers, or of any integers, is one.
LEMMA SumOfType == \A s \in Seq(Int) : SumOf(s) \in Int
<1> SUFFICES ASSUME NEW s \in Seq(Int) PROVE SumOf(s) \in Int
  OBVIOUS
<1>1. PICK f : Sums(f, s, Len(s)) /\ SumOf(s) = f[Len(s)]
  BY SumOfIsLast
<1> QED
  BY <1>1 DEF Sums

\* No sum of natural numbers is negative.
LEMMA SumOfNat == \A s \in Seq(Nat) : SumOf(s) \in Nat
<1> SUFFICES ASSUME NEW s \in Seq(Nat) PROVE SumOf(s) \in Nat
  OBVIOUS
<1>1. s \in Seq(Int) /\ Len(s) \in Nat
  OBVIOUS
<1>2. PICK f : Sums(f, s, Len(s)) /\ SumOf(s) = f[Len(s)]
  BY <1>1, SumOfIsLast
<1> DEFINE S == {k \in Nat : k <= Len(s) => f[k] \in Nat}
<1>3. 0 \in S
  BY <1>1, <1>2 DEF Sums
<1>4. ASSUME NEW k \in Nat, k \in S PROVE k + 1 \in S
  <2>1. CASE k + 1 <= Len(s)
    <3>1. k + 1 \in 0 .. Len(s) /\ k + 1 # 0 /\ (k + 1) - 1 = k
      BY <1>1, <2>1
    <3>2. f[k + 1] = f[k] + s[k + 1] /\ s[k + 1] \in Nat
      BY <1>2, <3>1 DEF Sums
    <3> QED
      BY <1>4, <2>1, <3>2
  <2> QED
    BY <2>1
<1> HIDE DEF S
<1>5. \A k \in Nat : k \in S
  BY <1>3, <1>4, SetInduction
<1> QED
  BY <1>1, <1>2, <1>5 DEF S
=============================================================================
