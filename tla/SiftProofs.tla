----------------------------- MODULE SiftProofs -----------------------------
(***************************************************************************)
(* What Within leaves of a sequence.  It is a recursive function, and the  *)
(* library's induction takes an operator; the induction here is over a set *)
(* of numbers, and comes from their least element (WFMin).                 *)
(***************************************************************************)
EXTENDS Sift, SequenceTheorems, WellFoundedInduction, TLAPS

\* A set of natural numbers has a least member.
LEMMA NatMin ==
  ASSUME NEW T \in SUBSET Nat, T # {}
  PROVE  \E x \in T : \A y \in T : x <= y
<1> DEFINE R == OpToRel(<, Nat)
<1>1. IsWellFoundedOn(R, Nat)
  BY NatLessThanWellFounded
<1>2. PICK x \in T : \A y \in T : ~ (<<y, x>> \in R)
  <2> HIDE DEF R
  <2> QED BY <1>1, WFMin
<1>3. \A y \in T : ~(y < x)
  BY <1>2 DEF OpToRel
<1> QED BY <1>3

\* Induction, stated of a set: no operator is passed.
LEMMA Induction ==
  ASSUME NEW S \in SUBSET Nat, 0 \in S, \A n \in S : n + 1 \in S
  PROVE  S = Nat
<1>1. SUFFICES ASSUME Nat \ S # {} PROVE FALSE
  OBVIOUS
<1>2. PICK x \in Nat \ S : \A y \in Nat \ S : x <= y
  BY <1>1, NatMin
<1>3. x # 0 /\ x - 1 \in Nat
  BY <1>2
<1>4. x - 1 \in S
  BY <1>2, <1>3
<1>5. (x - 1) + 1 \in S
  BY <1>4
<1> QED BY <1>2, <1>5

\* f holds, for each length up to n, what a queue of that length leaves.
Sifts(f, s, T, n) ==
  f = [i \in 0..n |-> IF i = 0 THEN <<>>
                      ELSE IF s[i] \in T THEN Append(f[i - 1], s[i]) ELSE f[i - 1]]

\* The recursive function of Within exists.
LEMMA SiftExists ==
  ASSUME NEW s, NEW T, NEW n \in Nat
  PROVE  \E f : Sifts(f, s, T, n)
<1> DEFINE S == {m \in Nat : \E f : Sifts(f, s, T, m)}
<1>1. 0 \in S
  <2> DEFINE f == [i \in 0..0 |-> <<>>]
  <2>1. Sifts(f, s, T, 0)
    BY DEF Sifts
  <2> QED BY <2>1
<1>2. ASSUME NEW m \in S PROVE m + 1 \in S
  <2>1. PICK f : Sifts(f, s, T, m)
    OBVIOUS
  <2> DEFINE g == [i \in 0..(m + 1) |->
        IF i <= m THEN f[i]
        ELSE IF s[i] \in T THEN Append(f[i - 1], s[i]) ELSE f[i - 1]]
  <2>2. ASSUME NEW i \in 0..(m + 1)
        PROVE  g[i] = IF i = 0 THEN <<>>
                      ELSE IF s[i] \in T THEN Append(g[i - 1], s[i]) ELSE g[i - 1]
    <3>1. CASE i = 0
      BY <2>1, <3>1 DEF Sifts
    <3>2. CASE i # 0 /\ i <= m
      <4>1. i - 1 \in 0..m /\ i \in 0..m
        BY <3>2
      <4>2. g[i] = f[i] /\ g[i - 1] = f[i - 1]
        BY <4>1
      <4>3. f[i] = IF s[i] \in T THEN Append(f[i - 1], s[i]) ELSE f[i - 1]
        BY <2>1, <3>2, <4>1 DEF Sifts
      <4> QED BY <3>2, <4>2, <4>3
    <3>3. CASE i = m + 1
      <4>1. g[i - 1] = f[i - 1]
        BY <3>3
      <4> QED BY <3>3, <4>1
    <3> QED BY <3>1, <3>2, <3>3
  <2>3. Sifts(g, s, T, m + 1)
    <3>1. g = [i \in 0..(m + 1) |-> g[i]]
      OBVIOUS
    <3> HIDE DEF g
    <3> QED BY <2>2, <3>1 DEF Sifts
  <2> QED BY <2>3
<1> HIDE DEF S
<1>3. S \in SUBSET Nat
  BY DEF S
<1>4. S = Nat
  BY <1>1, <1>2, <1>3, Induction
<1> QED BY <1>4 DEF S

\* Within is the last value of that function.
LEMMA SiftIs ==
  ASSUME NEW A, NEW s \in Seq(A), NEW T
  PROVE  \E f : Sifts(f, s, T, Len(s)) /\ Within(s, T) = f[Len(s)]
<1> DEFINE F == CHOOSE f : Sifts(f, s, T, Len(s))
<1>1. Sifts(F, s, T, Len(s))
  BY SiftExists
<1>2. Within(s, T) = F[Len(s)]
  BY DEF Within, Sifts
<1> QED BY <1>1, <1>2

Unrepeated(s) == \A i, j \in DOMAIN s : i # j => s[i] # s[j]

\* w is made of the members at the places p of the first m of s: all those in T,
\* and in their order.
Picks(w, p, s, T, m) ==
  /\ p \in [1..Len(w) -> 1..m]
  /\ \A k \in 1..Len(w) : w[k] = s[p[k]] /\ s[p[k]] \in T
  /\ \A j, k \in 1..Len(w) : j < k => p[j] < p[k]
  /\ \A i \in 1..m : s[i] \in T => \E k \in 1..Len(w) : p[k] = i

\* One more member, taken or left.
LEMMA PicksMore ==
  ASSUME NEW A, NEW s \in Seq(A), NEW T, NEW m \in Nat, m + 1 \in 1..Len(s),
         NEW g \in Seq(A), NEW p, Picks(g, p, s, T, m),
         NEW h, h = IF s[m + 1] \in T THEN Append(g, s[m + 1]) ELSE g
  PROVE  h \in Seq(A) /\ \E q : Picks(h, q, s, T, m + 1)
<1>1. CASE s[m + 1] \notin T
  <2>1. \A i \in 1..(m + 1) : i \in 1..m \/ i = m + 1
    OBVIOUS
  <2>2. p \in [1..Len(g) -> 1..(m + 1)]
    BY DEF Picks
  <2>3. Picks(g, p, s, T, m + 1)
    BY <1>1, <2>1, <2>2 DEF Picks
  <2> QED BY <1>1, <2>3
<1>2. CASE s[m + 1] \in T
  <2> DEFINE n == Len(g)
             q == [k \in 1..(n + 1) |-> IF k <= n THEN p[k] ELSE m + 1]
  <2>1. s[m + 1] \in A /\ n \in Nat
    OBVIOUS
  <2>2. h = Append(g, s[m + 1])
    BY <1>2
  <2>3. h \in Seq(A) /\ Len(h) = n + 1 /\ h[n + 1] = s[m + 1]
    BY <2>1, <2>2
  <2>4. \A k \in 1..n : h[k] = g[k]
    BY <2>1, <2>2
  <2>5. \A k \in 1..(n + 1) : k \in 1..n \/ k = n + 1
    BY <2>1
  <2>6. \A k \in 1..n : q[k] = p[k] /\ q[k] \in 1..m
    BY <2>1 DEF Picks
  <2>7. q[n + 1] = m + 1
    BY <2>1
  <2>8. q \in [1..(n + 1) -> 1..(m + 1)]
    BY <2>1 DEF Picks
  <2> HIDE DEF n, q
  <2>9. \A k \in 1..(n + 1) : h[k] = s[q[k]] /\ s[q[k]] \in T
    <3>1. \A k \in 1..n : g[k] = s[p[k]] /\ s[p[k]] \in T
      BY DEF Picks, n
    <3> QED BY <1>2, <2>3, <2>4, <2>5, <2>6, <2>7, <3>1
  <2>10. \A j, k \in 1..(n + 1) : j < k => q[j] < q[k]
    <3>1. \A j, k \in 1..n : j < k => p[j] < p[k]
      BY DEF Picks, n
    <3> QED BY <2>1, <2>5, <2>6, <2>7, <3>1
  <2>11. \A i \in 1..(m + 1) : s[i] \in T => \E k \in 1..(n + 1) : q[k] = i
    <3> SUFFICES ASSUME NEW i \in 1..(m + 1), s[i] \in T
                 PROVE  \E k \in 1..(n + 1) : q[k] = i
      OBVIOUS
    <3>1. CASE i = m + 1
      BY <2>1, <2>7, <3>1
    <3>2. CASE i \in 1..m
      <4>1. PICK k \in 1..n : p[k] = i
        BY <3>2 DEF Picks, n
      <4>2. k \in 1..(n + 1)
        BY <2>1
      <4> QED BY <2>6, <4>1, <4>2
    <3> QED BY <3>1, <3>2
  <2>12. Picks(h, q, s, T, m + 1)
    <3>1. Len(h) = n + 1
      BY <2>3
    <3> QED BY <2>8, <2>9, <2>10, <2>11, <3>1 DEF Picks
  <2> QED BY <2>3, <2>12
<1> QED BY <1>1, <1>2

\* What is left stands at places of s, in order: all those whose member is in T.
LEMMA SiftPicks ==
  ASSUME NEW A, NEW s \in Seq(A), NEW T
  PROVE  Within(s, T) \in Seq(A) /\ \E p : Picks(Within(s, T), p, s, T, Len(s))
<1>1. PICK f : Sifts(f, s, T, Len(s)) /\ Within(s, T) = f[Len(s)]
  BY SiftIs
<1> DEFINE Good(m) == f[m] \in Seq(A) /\ \E p : Picks(f[m], p, s, T, m)
           S == {m \in Nat : m <= Len(s) => Good(m)}
<1>2. 0 \in S
  <2>1. f[0] = <<>>
    BY <1>1 DEF Sifts
  <2> DEFINE p == [k \in 1..0 |-> k]
  <2>2. Len(f[0]) = 0 /\ f[0] \in Seq(A)
    BY <2>1
  <2>3. p \in [1..0 -> 1..0]
    OBVIOUS
  <2>4. Picks(f[0], p, s, T, 0)
    BY <2>2, <2>3 DEF Picks
  <2> QED BY <2>2, <2>4
<1>3. ASSUME NEW m \in S PROVE m + 1 \in S
  <2>1. m \in Nat /\ (m <= Len(s) => Good(m))
    OBVIOUS
  <2> HIDE DEF S
  <2>2. ASSUME m + 1 <= Len(s) PROVE Good(m + 1)
    <3>1. Len(s) \in Nat /\ m + 1 \in 1..Len(s) /\ m + 1 \in 0..Len(s)
      BY <2>1, <2>2
    <3>2. f[m] \in Seq(A)
      BY <2>1, <3>1
    <3>3. PICK p : Picks(f[m], p, s, T, m)
      BY <2>1, <3>1
    <3>4. f[m + 1] = IF s[m + 1] \in T THEN Append(f[m], s[m + 1]) ELSE f[m]
      <4>1. \A i \in 0..Len(s) : f[i] =
              IF i = 0 THEN <<>>
              ELSE IF s[i] \in T THEN Append(f[i - 1], s[i]) ELSE f[i - 1]
        BY <1>1 DEF Sifts
      <4>2. m + 1 # 0 /\ (m + 1) - 1 = m
        BY <2>1
      <4> QED BY <3>1, <4>1, <4>2
    <3> QED BY <2>1, <3>1, <3>2, <3>3, <3>4, PicksMore
  <2> HIDE DEF Good
  <2>3. m + 1 \in Nat
    BY <2>1
  <2> QED BY <2>2, <2>3 DEF S
<1> HIDE DEF Good, S
<1>4. S = Nat
  <2>1. S \in SUBSET Nat
    BY DEF S
  <2> QED BY <1>2, <1>3, <2>1, Induction
<1>5. Good(Len(s))
  BY <1>4 DEF S
<1> QED BY <1>1, <1>5 DEF Good

\* What is left are members of s that are in T, each in one place if it was in one.
LEMMA SiftKeeps ==
  ASSUME NEW A, NEW s \in Seq(A), NEW T
  PROVE  /\ Within(s, T) \in Seq(A)
         /\ \A k \in DOMAIN Within(s, T) :
              \E i \in DOMAIN s : Within(s, T)[k] = s[i] /\ s[i] \in T
         /\ Unrepeated(s) => Unrepeated(Within(s, T))
<1> DEFINE w == Within(s, T)
<1>1. w \in Seq(A)
  BY SiftPicks
<1>2. PICK p : Picks(w, p, s, T, Len(s))
  BY SiftPicks
<1> HIDE DEF w
<1>3. DOMAIN w = 1..Len(w) /\ DOMAIN s = 1..Len(s)
  BY <1>1
<1>4. \A k \in DOMAIN w : p[k] \in DOMAIN s /\ w[k] = s[p[k]] /\ s[p[k]] \in T
  BY <1>2, <1>3 DEF Picks
<1>5. \A j, k \in DOMAIN w : j # k => p[j] # p[k]
  <2>1. \A j, k \in 1..Len(w) : j < k => p[j] < p[k]
    BY <1>2 DEF Picks
  <2>2. \A k \in 1..Len(w) : p[k] \in Nat
    BY <1>2 DEF Picks
  <2> QED BY <1>3, <2>1, <2>2
<1> QED BY <1>1, <1>4, <1>5 DEF Unrepeated, w

\* One member more: it comes last if it is kept, and what was left stands, though
\* the set may have grown by what the sequence did not have.
LEMMA SiftAppend ==
  ASSUME NEW A, NEW s \in Seq(A), NEW x \in A, NEW T, NEW U,
         \A i \in 1..Len(s) : s[i] \in T <=> s[i] \in U
  PROVE  Within(Append(s, x), U) = IF x \in U THEN Append(Within(s, T), x) ELSE Within(s, T)
<1> DEFINE r == Append(s, x)
           n == Len(s)
<1>1. n \in Nat /\ r \in Seq(A) /\ Len(r) = n + 1 /\ r[n + 1] = x /\ \A i \in 1..n : r[i] = s[i]
  OBVIOUS
<1>2. PICK f : Sifts(f, s, T, n) /\ Within(s, T) = f[n]
  BY SiftIs
<1>3. PICK g : Sifts(g, r, U, n + 1) /\ Within(r, U) = g[n + 1]
  BY <1>1, SiftIs
<1> DEFINE S == {m \in Nat : m <= n => f[m] = g[m]}
<1> HIDE DEF r, n
<1>4. 0 \in S
  BY <1>1, <1>2, <1>3 DEF Sifts
<1>5. ASSUME NEW m \in S PROVE m + 1 \in S
  <2>1. m \in Nat /\ (m <= n => f[m] = g[m])
    OBVIOUS
  <2>2. ASSUME m + 1 <= n PROVE f[m + 1] = g[m + 1]
    <3>1. m + 1 \in 0..n /\ m + 1 \in 0..(n + 1) /\ m + 1 \in 1..n /\ m + 1 # 0 /\ (m + 1) - 1 = m
      BY <1>1, <2>1, <2>2
    <3>2. f[m + 1] = IF s[m + 1] \in T THEN Append(f[m], s[m + 1]) ELSE f[m]
      BY <1>2, <3>1 DEF Sifts
    <3>3. g[m + 1] = IF r[m + 1] \in U THEN Append(g[m], r[m + 1]) ELSE g[m]
      BY <1>3, <3>1 DEF Sifts
    <3>4. s[m + 1] \in T <=> s[m + 1] \in U
      BY <3>1 DEF n
    <3>5. f[m] = g[m] /\ r[m + 1] = s[m + 1]
      BY <1>1, <2>1, <2>2, <3>1
    <3> QED BY <3>2, <3>3, <3>4, <3>5
  <2> QED BY <2>1, <2>2
<1>6. S = Nat
  <2>1. S \in SUBSET Nat
    OBVIOUS
  <2> HIDE DEF S
  <2> QED BY <1>4, <1>5, <2>1, Induction
<1>7. f[n] = g[n]
  <2>1. n \in S
    BY <1>1, <1>6
  <2> QED BY <1>1, <2>1
<1>8. g[n + 1] = IF x \in U THEN Append(g[n], x) ELSE g[n]
  <2>1. n + 1 \in 0..(n + 1) /\ n + 1 # 0 /\ (n + 1) - 1 = n
    BY <1>1
  <2>2. g[n + 1] = IF r[n + 1] \in U THEN Append(g[n], r[n + 1]) ELSE g[n]
    BY <1>3, <2>1 DEF Sifts
  <2> QED BY <1>1, <2>2
<1> QED BY <1>2, <1>3, <1>7, <1>8 DEF r

\* What leaves nothing out is the sequence itself.
LEMMA SiftAll ==
  ASSUME NEW A, NEW s \in Seq(A), NEW T, \A i \in 1..Len(s) : s[i] \in T
  PROVE  Within(s, T) = s
<1>1. PICK f : Sifts(f, s, T, Len(s)) /\ Within(s, T) = f[Len(s)]
  BY SiftIs
<1> DEFINE n == Len(s)
           S == {m \in Nat : m <= n => f[m] = SubSeq(s, 1, m)}
<1>2. n \in Nat
  OBVIOUS
<1>3. 0 \in S
  <2>1. f[0] = <<>>
    BY <1>1 DEF Sifts
  <2>2. SubSeq(s, 1, 0) = <<>>
    OBVIOUS
  <2> QED BY <2>1, <2>2
<1>4. ASSUME NEW m \in S PROVE m + 1 \in S
  <2>1. m \in Nat /\ (m <= n => f[m] = SubSeq(s, 1, m))
    OBVIOUS
  <2>2. ASSUME m + 1 <= n PROVE f[m + 1] = SubSeq(s, 1, m + 1)
    <3>1. m + 1 \in 0..n /\ m + 1 \in 1..n /\ m + 1 # 0 /\ (m + 1) - 1 = m
      BY <1>2, <2>1, <2>2
    <3>2. f[m + 1] = IF s[m + 1] \in T THEN Append(f[m], s[m + 1]) ELSE f[m]
      BY <1>1, <3>1 DEF Sifts
    <3>3. f[m] = SubSeq(s, 1, m) /\ s[m + 1] \in A
      BY <2>1, <2>2, <3>1
    <3>4. Append(SubSeq(s, 1, m), s[m + 1]) = SubSeq(s, 1, m + 1)
      BY <2>1, <3>1
    <3> QED BY <3>1, <3>2, <3>3, <3>4
  <2> QED BY <2>1, <2>2
<1>5. S = Nat
  <2>1. S \in SUBSET Nat
    OBVIOUS
  <2> HIDE DEF S
  <2> QED BY <1>3, <1>4, <2>1, Induction
<1>6. n \in S
  BY <1>2, <1>5
<1>7. SubSeq(s, 1, n) = s
  OBVIOUS
<1> QED BY <1>1, <1>2, <1>6, <1>7

\* Of nothing, nothing is left.
LEMMA SiftEmpty == \A T : Within(<<>>, T) = <<>>
<1> SUFFICES ASSUME NEW T PROVE Within(<<>>, T) = <<>>
  OBVIOUS
<1>1. <<>> \in Seq({}) /\ Len(<<>>) = 0
  OBVIOUS
<1>2. PICK f : Sifts(f, <<>>, T, Len(<<>>)) /\ Within(<<>>, T) = f[Len(<<>>)]
  BY <1>1, SiftIs
<1>3. 0 \in 0..Len(<<>>) /\ Len(<<>>) = 0
  OBVIOUS
<1> QED BY <1>2, <1>3 DEF Sifts
=============================================================================
