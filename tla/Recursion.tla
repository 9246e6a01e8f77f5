----------------------------- MODULE Recursion -----------------------------
(* Induction on a natural number and what it gives: the solution of a      *)
(* recursive definition by steps, and what flattening a sequence of        *)
(* sequences comes to.  The induction set is a set and never a predicate,  *)
(* so that every fact here can be cited by name.                           *)
EXTENDS Integers, SequencesExt, WellFoundedInduction, TLAPS

\* Every set of naturals with a member has a least one.
LEMMA Least ==
    ASSUME NEW T, T \subseteq Nat, T # {}
    PROVE  \E x \in T : \A y \in T : x <= y
<1> DEFINE R == {ss \in Nat \X Nat : ss[1] < ss[2]}
<1>1. IsWellFoundedOn(R, Nat)
  BY NatLessThanWellFounded DEF OpToRel
<1>2. PICK x \in T : \A y \in T : ~ (<<y, x>> \in R)
  <2> HIDE DEF R
  <2> QED BY <1>1, WFMin
<1>3. \A y \in T : ~ (y < x)
  BY <1>2
<1> QED BY <1>3

\* A set of naturals with 0 that is closed under successor has them all.
LEMMA Induct ==
    ASSUME NEW T, 0 \in T, \A n \in Nat : n \in T => n + 1 \in T
    PROVE  Nat \subseteq T
<1> DEFINE M == Nat \ T
<1>1. SUFFICES ASSUME M # {} PROVE FALSE
  BY DEF M
<1>2. PICK x \in M : \A y \in M : x <= y
  <2>1. M \subseteq Nat
    BY DEF M
  <2> HIDE DEF M
  <2> QED BY <1>1, <2>1, Least
<1>3. x - 1 \in Nat /\ x - 1 \in T
  BY <1>2
<1>4. (x - 1) + 1 \in T
  BY <1>3
<1> QED BY <1>2, <1>4

\* f starts at b and takes step k with G[k].
Solves(f, S, b, n, G) ==
    /\ f \in [0 .. n -> S]
    /\ f[0] = b
    /\ \A k \in 1 .. n : f[k] = G[k][f[k - 1]]

\* There is one for every start and all steps that stay in a set.
LEMMA Solution ==
    ASSUME NEW S, NEW b \in S, NEW n \in Nat, NEW G \in [1 .. n -> [S -> S]]
    PROVE  \E f : Solves(f, S, b, n, G)
<1> DEFINE T == {i \in Nat : i <= n => \E f : Solves(f, S, b, i, G)}
<1>1. 0 \in T
  <2>1. Solves([k \in 0 .. 0 |-> b], S, b, 0, G)
    BY DEF Solves
  <2> QED BY <2>1
<1>2. ASSUME NEW i \in Nat, i \in T PROVE i + 1 \in T
  <2>1. SUFFICES ASSUME i + 1 <= n PROVE \E f : Solves(f, S, b, i + 1, G)
    OBVIOUS
  <2>2. PICK f : Solves(f, S, b, i, G)
    BY <1>2, <2>1
  <2> USE DEF Solves
  <2> DEFINE next == G[i + 1][f[i]]
             g == [k \in 0 .. i + 1 |-> IF k = i + 1 THEN next ELSE f[k]]
  <2>3. next \in S
    BY <2>1, <2>2
  <2>4. g \in [0 .. i + 1 -> S]
    BY <2>2, <2>3
  <2>5. g[0] = b
    BY <2>2
  <2>6. ASSUME NEW k \in 1 .. i + 1 PROVE g[k] = G[k][g[k - 1]]
    <3>1. CASE k = i + 1
      <4>1. g[k] = next /\ k - 1 = i /\ g[i] = f[i]
        BY <3>1
      <4> QED BY <3>1, <4>1
    <3>2. CASE k # i + 1
      <4>1. g[k] = f[k] /\ g[k - 1] = f[k - 1] /\ k \in 1 .. i
        BY <3>2
      <4> QED BY <4>1, <2>2
    <3> QED BY <3>1, <3>2
  <2> HIDE DEF g
  <2>7. Solves(g, S, b, i + 1, G)
    BY <2>4, <2>5, <2>6
  <2> HIDE DEF Solves
  <2> QED BY <2>7
<1>3. n \in T
  <2> HIDE DEF T
  <2>1. Nat \subseteq T
    BY <1>1, <1>2, Induct
  <2> QED BY <2>1
<1> QED BY <1>3

-----------------------------------------------------------------------------
(* Folding a sequence.                                                     *)

\* f[k] is what step makes of the first k elements of s, beginning with b.
FoldsTo(f, b, s, step) ==
    f = [k \in 0 .. Len(s) |-> IF k = 0 THEN b ELSE step[<<f[k - 1], s[k]>>]]

\* Such an f there is, in the set step stays in.
LEMMA FoldExists ==
    ASSUME NEW S, NEW X, NEW b \in S, NEW s \in Seq(X), NEW step \in [S \X X -> S]
    PROVE  \E f \in [0 .. Len(s) -> S] : FoldsTo(f, b, s, step)
<1> DEFINE n == Len(s)
           G == [k \in 1 .. n |-> [y \in S |-> step[<<y, s[k]>>]]]
<1>1. n \in Nat /\ \A k \in 1 .. n : s[k] \in X
  OBVIOUS
<1>2. G \in [1 .. n -> [S -> S]]
  <2>1. \A k \in 1 .. n : \A y \in S : step[<<y, s[k]>>] \in S
    BY <1>1
  <2> QED BY <2>1
<1>3. \A k \in 1 .. n : \A y \in S : G[k][y] = step[<<y, s[k]>>]
  OBVIOUS
<1> HIDE DEF n, G
<1>4. PICK f : Solves(f, S, b, n, G)
  BY <1>1, <1>2, Solution
<1>5. f \in [0 .. n -> S] /\ f[0] = b /\ \A k \in 1 .. n : f[k] = G[k][f[k - 1]]
  BY <1>4 DEF Solves
<1>6. \A k \in 1 .. n : k - 1 \in 0 .. n
  BY <1>1
<1>7. \A k \in 1 .. n : f[k] = step[<<f[k - 1], s[k]>>]
  BY <1>3, <1>5, <1>6
<1>8. \A k \in 0 .. n : f[k] = IF k = 0 THEN b ELSE step[<<f[k - 1], s[k]>>]
  BY <1>1, <1>5, <1>7
<1> QED BY <1>5, <1>8 DEF FoldsTo, n

Folded(f, s, step, n) == \A k \in 1 .. n : f[k] = step[<<f[k - 1], s[k]>>]

LEMMA FoldShape ==
    ASSUME NEW b, NEW s, Len(s) \in Nat, NEW step, NEW f, FoldsTo(f, b, s, step)
    PROVE  f[0] = b /\ Folded(f, s, step, Len(s))
<1>1. Len(s) \in Nat
  OBVIOUS
<1> DEFINE n == Len(s)
<1>2. f = [k \in 0 .. n |-> IF k = 0 THEN b ELSE step[<<f[k - 1], s[k]>>]]
  BY DEF FoldsTo
<1>3. n \in Nat
  BY <1>1
<1> HIDE DEF n
<1>4. 0 \in 0 .. n /\ \A k \in 1 .. n : k \in 0 .. n /\ k # 0
  BY <1>3
<1>5. f[0] = b
  BY <1>2, <1>4, Zenon
<1>6. ASSUME NEW k \in 1 .. n PROVE f[k] = step[<<f[k - 1], s[k]>>]
  BY <1>2, <1>4, Zenon
<1> QED BY <1>5, <1>6 DEF n, Folded

\* It is the only one.
LEMMA FoldIsOne ==
    ASSUME NEW n \in Nat, NEW f, NEW g, NEW s, NEW step, f[0] = g[0],
           Folded(f, s, step, n), Folded(g, s, step, n)
    PROVE  g[n] = f[n]
<1> USE DEF Folded
<1> DEFINE T == {i \in Nat : i <= n => g[i] = f[i]}
<1>1. 0 \in T
  OBVIOUS
<1>2. ASSUME NEW i \in Nat, i \in T PROVE i + 1 \in T
  <2>1. SUFFICES ASSUME i + 1 <= n PROVE g[i + 1] = f[i + 1]
    OBVIOUS
  <2>2. g[i] = f[i] /\ i + 1 \in 1 .. n /\ (i + 1) - 1 = i
    BY <1>2, <2>1
  <2> QED BY <2>2
<1> HIDE DEF T
<1>3. Nat \subseteq T
  BY <1>1, <1>2, Induct
<1> QED BY <1>3 DEF T

\* One more element, x, is one more step.
Longer(t, s, n, x) == /\ Len(s) = n /\ Len(t) = n + 1 /\ t[n + 1] = x
                      /\ \A k \in 1 .. n : t[k] = s[k]

LEMMA FoldAppend ==
    ASSUME NEW b, NEW s, NEW t, NEW n \in Nat, NEW step, NEW f, NEW g, NEW x,
           Longer(t, s, n, x), FoldsTo(f, b, s, step), FoldsTo(g, b, t, step)
    PROVE  g[n + 1] = step[<<f[n], x>>]
<1> USE DEF Longer
<1>1. f[0] = b /\ Folded(f, s, step, n)
  BY FoldShape
<1>2. g[0] = b /\ Folded(g, t, step, n + 1)
  <2>1. Len(t) \in Nat
    OBVIOUS
  <2> QED BY <2>1, FoldShape
<1>3. Folded(g, s, step, n)
  BY <1>2 DEF Folded
<1>4. g[n] = f[n]
  BY <1>1, <1>2, <1>3, FoldIsOne
<1>5. g[n + 1] = step[<<g[n], x>>]
  <2>1. n + 1 \in 1 .. n + 1 /\ (n + 1) - 1 = n
    OBVIOUS
  <2>2. g[n + 1] = step[<<g[(n + 1) - 1], t[n + 1]>>]
    BY <1>2, <2>1 DEF Folded
  <2> QED BY <2>1, <2>2
<1> QED BY <1>4, <1>5

-----------------------------------------------------------------------------
(* Flattening.                                                             *)

\* f[k] is the first k sequences of ss, one after the other.
Runs(ss, f, S) == /\ f \in [0 .. Len(ss) -> Seq(S)]
                  /\ f[0] = <<>>
                  /\ \A k \in 1 .. Len(ss) : f[k] = f[k - 1] \o ss[k]

\* Such an f there is.
LEMMA RunsExist ==
    ASSUME NEW S, NEW ss \in Seq(Seq(S))
    PROVE  \E f : Runs(ss, f, S)
<1> DEFINE n == Len(ss)
           Q == Seq(S)
           e == <<>>
           G == [k \in 1 .. n |-> [x \in Q |-> x \o ss[k]]]
<1>1. n \in Nat /\ e \in Q /\ \A k \in 1 .. n : ss[k] \in Q
  OBVIOUS
<1>2. \A k \in 1 .. n : \A x \in Q : x \o ss[k] \in Q
  BY <1>1
<1> HIDE DEF n, Q, e
<1>3. G \in [1 .. n -> [Q -> Q]]
  BY <1>2
<1>4. \A k \in 1 .. n : \A x \in Q : G[k][x] = x \o ss[k]
  OBVIOUS
<1> HIDE DEF G
<1>5. PICK f : Solves(f, Q, e, n, G)
  BY <1>1, <1>3, Solution
<1>6. /\ f \in [0 .. n -> Q] /\ f[0] = e
      /\ \A k \in 1 .. n : f[k] = G[k][f[k - 1]]
  BY <1>5 DEF Solves
<1>7. \A k \in 1 .. n : f[k - 1] \in Q
  BY <1>1, <1>6
<1>8. \A k \in 1 .. n : f[k] = f[k - 1] \o ss[k]
  BY <1>4, <1>6, <1>7
<1> QED BY <1>6, <1>8 DEF Runs, n, Q, e

\* And FlattenSeq returns its last value.
LEMMA FlattenIs ==
    ASSUME NEW S, NEW ss \in Seq(Seq(S)), NEW f, Runs(ss, f, S)
    PROVE  FlattenSeq(ss) = f[Len(ss)]
<1>1. CASE Len(ss) = 0
  <2>1. FlattenSeq(ss) = ss /\ ss = <<>>
    BY <1>1 DEF FlattenSeq
  <2> QED BY <1>1, <2>1 DEF Runs
<1>2. CASE Len(ss) # 0
  <2> DEFINE n == Len(ss)
             h == [k \in 1 .. n |-> f[k]]
             w == CHOOSE w : w = [i \in 1 .. n |->
                                    IF i = 1 THEN ss[i] ELSE w[i - 1] \o ss[i]]
  <2>1. FlattenSeq(ss) = w[n]
    BY <1>2 DEF FlattenSeq
  <2>2. n \in Nat \ {0} /\ ss[1] \in Seq(S)
    BY <1>2
  <2>3. f[0] = <<>> /\ \A k \in 1 .. n : f[k] = f[k - 1] \o ss[k]
    BY DEF Runs
  <2>4. f[1] = ss[1]
    <3>1. f[1] = f[0] \o ss[1]
      <4>1. 1 \in 1 .. n /\ 1 - 1 = 0
        BY <2>2
      <4> HIDE DEF n
      <4>2. f[1] = f[1 - 1] \o ss[1]
        BY <2>3, <4>1
      <4> QED BY <4>1, <4>2
    <3> QED BY <2>2, <2>3, <3>1
  <2> HIDE DEF n, w
  <2>5. h = [i \in 1 .. n |-> IF i = 1 THEN ss[i] ELSE h[i - 1] \o ss[i]]
    <3>1. ASSUME NEW i \in 1 .. n
          PROVE  h[i] = IF i = 1 THEN ss[i] ELSE h[i - 1] \o ss[i]
      <4>1. CASE i = 1
        BY <2>2, <2>4, <4>1
      <4>2. CASE i # 1
        <5>1. h[i] = f[i] /\ h[i - 1] = f[i - 1]
          BY <2>2, <4>2
        <5> QED BY <2>3, <4>2, <5>1
      <4> QED BY <4>1, <4>2
    <3> HIDE DEF h
    <3>2. h = [i \in 1 .. n |-> h[i]]
      BY DEF h
    <3> QED BY <3>1, <3>2
  <2>6. w = [i \in 1 .. n |-> IF i = 1 THEN ss[i] ELSE w[i - 1] \o ss[i]]
    <3> HIDE DEF h
    <3> QED BY <2>5 DEF w
  <2> DEFINE T == {i \in Nat : i + 1 \in 1 .. n => w[i + 1] = f[i + 1]}
  <2>7. 0 \in T
    BY <2>2, <2>4, <2>6
  <2>8. ASSUME NEW i \in Nat, i \in T PROVE i + 1 \in T
    <3> DEFINE j == (i + 1) + 1
    <3> SUFFICES ASSUME j \in 1 .. n PROVE w[j] = f[j]
      OBVIOUS
    <3>1. i + 1 \in 1 .. n /\ j # 1 /\ j - 1 = i + 1
      BY <2>2
    <3> HIDE DEF j
    <3>2. w[i + 1] = f[i + 1]
      BY <2>8, <3>1
    <3>3. w[j] = w[j - 1] \o ss[j]
      BY <2>6, <3>1
    <3>4. f[j] = f[j - 1] \o ss[j]
      BY <2>3, <3>1
    <3> QED BY <3>1, <3>2, <3>3, <3>4
  <2>9. n - 1 \in T
    <3> HIDE DEF T
    <3>1. Nat \subseteq T
      BY <2>7, <2>8, Induct
    <3> QED BY <2>2, <3>1
  <2>10. w[n] = f[n]
    BY <2>2, <2>9
  <2> QED BY <2>1, <2>10 DEF n
<1> QED BY <1>1, <1>2

\* What s \o t is made of.
Joined(s, t) ==
    /\ Len(s) \in Nat /\ Len(t) \in Nat /\ Len(s \o t) = Len(s) + Len(t)
    /\ \A p \in 1 .. Len(s) : (s \o t)[p] = s[p]
    /\ \A p \in 1 .. Len(t) : (s \o t)[Len(s) + p] = t[p]

LEMMA Concatenation ==
    ASSUME NEW S, NEW s \in Seq(S), NEW t \in Seq(S)
    PROVE  s \o t \in Seq(S) /\ Joined(s, t)
BY DEF Joined

\* And a part of s.
Slice(s, a, b) == SubSeq(s, a, b) = [i \in 1 .. b - a + 1 |-> s[a + i - 1]]

LEMMA SliceOf ==
    ASSUME NEW S, NEW s \in Seq(S), NEW a \in 1 .. Len(s) + 1, NEW b \in a - 1 .. Len(s)
    PROVE  Slice(s, a, b)
<1> DEFINE t == SubSeq(s, a, b)
           k == b - a + 1
<1>1. /\ t \in Seq(S) /\ Len(t) = k /\ k \in Nat
      /\ \A i \in 1 .. k : t[i] = s[a + i - 1]
  OBVIOUS
<1>2. t = [i \in 1 .. k |-> t[i]]
  <2> HIDE DEF t, k
  <2> QED BY <1>1
<1>3. t = [i \in 1 .. k |-> s[a + i - 1]]
  <2> HIDE DEF t, k
  <2> QED BY <1>1, <1>2
<1> QED BY <1>3 DEF Slice

\* The k-th sequence stands in the whole after the ones before it.
Stands(ss, f, k) ==
    /\ Len(f[k - 1]) \in Nat /\ Len(f[Len(ss)]) \in Nat
    /\ Len(f[k]) = Len(f[k - 1]) + Len(ss[k])
    /\ Len(f[k]) <= Len(f[Len(ss)])
    /\ \A p \in 1 .. Len(ss[k]) : f[Len(ss)][Len(f[k - 1]) + p] = ss[k][p]

LEMMA RunsPlace ==
    ASSUME NEW S, NEW ss \in Seq(Seq(S)), NEW f, Runs(ss, f, S),
           NEW k \in 1 .. Len(ss)
    PROVE  Stands(ss, f, k)
<1> DEFINE n == Len(ss)
           l == [i \in 0 .. n |-> Len(f[i])]
           T == {i \in Nat : i \in k .. n =>
                   l[k] <= l[i] /\ \A p \in 1 .. l[k] : f[i][p] = f[k][p]}
<1>1. /\ n \in Nat /\ k \in 1 .. n
      /\ \A i \in 0 .. n : f[i] \in Seq(S)
      /\ \A i \in 1 .. n : ss[i] \in Seq(S) /\ f[i] = f[i - 1] \o ss[i]
  <2>1. n \in Nat /\ k \in 1 .. n /\ \A i \in 1 .. n : ss[i] \in Seq(S)
    OBVIOUS
  <2>2. f \in [0 .. n -> Seq(S)] /\ \A i \in 1 .. n : f[i] = f[i - 1] \o ss[i]
    BY DEF Runs
  <2> HIDE DEF n
  <2> QED BY <2>1, <2>2
<1>2. \A i \in 0 .. n : l[i] = Len(f[i]) /\ l[i] \in Nat
  <2> HIDE DEF n
  <2> QED BY <1>1
<1> HIDE DEF n, l
<1>3. ASSUME NEW i \in 1 .. n
      PROVE  /\ Len(ss[i]) \in Nat /\ l[i - 1] \in Nat /\ l[i] = l[i - 1] + Len(ss[i])
             /\ \A p \in 1 .. l[i - 1] : f[i][p] = f[i - 1][p]
             /\ \A p \in 1 .. Len(ss[i]) : f[i][l[i - 1] + p] = ss[i][p]
  <2>1. i \in 0 .. n /\ i - 1 \in 0 .. n
    BY <1>1
  <2>2. f[i - 1] \in Seq(S) /\ ss[i] \in Seq(S) /\ f[i] = f[i - 1] \o ss[i]
    BY <1>1, <2>1
  <2>3. l[i - 1] = Len(f[i - 1]) /\ l[i] = Len(f[i])
    BY <1>2, <2>1
  <2> DEFINE s == f[i - 1]
             t == ss[i]
  <2> HIDE DEF s, t
  <2>4. s \in Seq(S) /\ t \in Seq(S) /\ f[i] = s \o t
    BY <2>2 DEF s, t
  <2>5. /\ Len(s) \in Nat /\ Len(t) \in Nat /\ Len(s \o t) = Len(s) + Len(t)
        /\ \A p \in 1 .. Len(s) : (s \o t)[p] = s[p]
        /\ \A p \in 1 .. Len(t) : (s \o t)[Len(s) + p] = t[p]
    BY <2>4, Concatenation DEF Joined
  <2>6. l[i - 1] = Len(s) /\ l[i] = Len(s \o t)
    BY <2>3, <2>4 DEF s
  <2> QED BY <2>4, <2>5, <2>6 DEF s, t
<1>4. 0 \in T
  BY <1>1
<1>5. ASSUME NEW i \in Nat, i \in T PROVE i + 1 \in T
  <2> DEFINE j == i + 1
  <2> SUFFICES ASSUME j \in k .. n
               PROVE  l[k] <= l[j] /\ \A p \in 1 .. l[k] : f[j][p] = f[k][p]
    OBVIOUS
  <2>1. CASE j = k
    <3>1. l[k] \in Nat
      BY <1>1, <1>2
    <3> QED BY <2>1, <3>1
  <2>2. CASE j # k
    <3>1. i \in k .. n /\ j \in 1 .. n /\ j - 1 = i /\ k \in 0 .. n
      BY <1>1, <2>2
    <3>2. l[k] <= l[i] /\ \A p \in 1 .. l[k] : f[i][p] = f[k][p]
      BY <1>5, <3>1
    <3> HIDE DEF j, T
    <3>3. /\ Len(ss[j]) \in Nat /\ l[i] \in Nat /\ l[j] = l[i] + Len(ss[j])
          /\ \A p \in 1 .. l[i] : f[j][p] = f[i][p]
      BY <1>3, <3>1
    <3>4. l[k] \in Nat
      BY <1>2, <3>1
    <3> QED BY <3>2, <3>3, <3>4
  <2> QED BY <2>1, <2>2
<1>6. l[k] <= l[n] /\ \A p \in 1 .. l[k] : f[n][p] = f[k][p]
  <2>1. n \in T
    <3> HIDE DEF T
    <3>1. Nat \subseteq T
      BY <1>4, <1>5, Induct
    <3> QED BY <1>1, <3>1
  <2> QED BY <1>1, <2>1
<1>7. /\ Len(ss[k]) \in Nat /\ l[k - 1] \in Nat /\ l[k] = l[k - 1] + Len(ss[k])
      /\ \A p \in 1 .. Len(ss[k]) : f[k][l[k - 1] + p] = ss[k][p]
  BY <1>1, <1>3
<1>8. ASSUME NEW p \in 1 .. Len(ss[k]) PROVE f[n][l[k - 1] + p] = ss[k][p]
  <2>1. l[k - 1] + p \in 1 .. l[k]
    BY <1>7
  <2> QED BY <1>6, <1>7, <2>1
<1>9. /\ l[k - 1] = Len(f[k - 1]) /\ l[k] = Len(f[k]) /\ l[n] = Len(f[n])
      /\ l[n] \in Nat
  BY <1>1, <1>2
<1> QED BY <1>6, <1>7, <1>8, <1>9 DEF n, Stands

\* The first k of them alone flatten to what f has after k steps.
LEMMA RunsPrefix ==
    ASSUME NEW S, NEW ss \in Seq(Seq(S)), NEW f, Runs(ss, f, S),
           NEW k \in 0 .. Len(ss)
    PROVE  FlattenSeq(SubSeq(ss, 1, k)) = f[k]
<1> DEFINE part == SubSeq(ss, 1, k)
           g == [i \in 0 .. k |-> f[i]]
<1>1. part \in Seq(Seq(S)) /\ Len(part) = k /\ \A i \in 1 .. k : part[i] = ss[i]
  OBVIOUS
<1>2. Runs(part, g, S)
  <2> HIDE DEF part
  <2>1. g \in [0 .. k -> Seq(S)] /\ g[0] = <<>>
    BY DEF Runs
  <2>2. ASSUME NEW i \in 1 .. k PROVE g[i] = g[i - 1] \o part[i]
    <3>1. g[i] = f[i] /\ g[i - 1] = f[i - 1] /\ i \in 1 .. Len(ss)
      OBVIOUS
    <3> QED BY <1>1, <3>1 DEF Runs
  <2> QED BY <1>1, <2>1, <2>2 DEF Runs
<1>3. FlattenSeq(part) = g[Len(part)]
  <2> HIDE DEF part, g
  <2> QED BY <1>1, <1>2, FlattenIs
<1> QED BY <1>1, <1>3

\* Sequences of one length stand that far apart.
EqualParts(ss, c, flat) ==
    /\ Len(flat) = c * Len(ss)
    /\ \A k \in 1 .. Len(ss) : \A p \in 1 .. c :
         c * (k - 1) + p \in 1 .. Len(flat) /\ flat[c * (k - 1) + p] = ss[k][p]

LEMMA EqualPartsPlace ==
    ASSUME NEW S, NEW ss \in Seq(Seq(S)), NEW c \in Nat,
           \A k \in 1 .. Len(ss) : Len(ss[k]) = c
    PROVE  FlattenSeq(ss) \in Seq(S) /\ EqualParts(ss, c, FlattenSeq(ss))
<1> DEFINE n == Len(ss)
<1>1. PICK f : Runs(ss, f, S)
  BY RunsExist
<1>2. FlattenSeq(ss) = f[n]
  BY <1>1, FlattenIs
<1>3. n \in Nat /\ \A k \in 0 .. n : f[k] \in Seq(S) /\ Len(f[k]) \in Nat
  <2>1. f \in [0 .. n -> Seq(S)] /\ n \in Nat
    BY <1>1 DEF Runs
  <2> HIDE DEF n
  <2> QED BY <2>1
<1>4. ASSUME NEW k \in 1 .. n
      PROVE  /\ Len(f[k]) = Len(f[k - 1]) + c /\ Len(f[k]) <= Len(f[n])
             /\ \A p \in 1 .. c : f[n][Len(f[k - 1]) + p] = ss[k][p]
  <2>1. Stands(ss, f, k)
    BY <1>1, RunsPlace
  <2>2. Len(ss[k]) = c
    OBVIOUS
  <2> QED BY <2>1, <2>2 DEF Stands
<1> DEFINE U == {i \in Nat : i <= n => Len(f[i]) = c * i}
<1>5. 0 \in U
  <2>1. f[0] = <<>> /\ c * 0 = 0
    BY <1>1 DEF Runs
  <2> QED BY <2>1
<1>6. ASSUME NEW i \in Nat, i \in U PROVE i + 1 \in U
  <2> DEFINE j == i + 1
  <2> SUFFICES ASSUME j <= n PROVE Len(f[j]) = c * j
    OBVIOUS
  <2>1. j \in 1 .. n /\ j - 1 = i /\ i <= n
    BY <1>3
  <2>2. Len(f[i]) = c * i
    BY <1>6, <2>1
  <2>3. c * j = c * i + c
    OBVIOUS
  <2> HIDE DEF j, n, U
  <2> QED BY <1>4, <2>1, <2>2, <2>3
<1>7. \A i \in 0 .. n : Len(f[i]) = c * i
  <2> HIDE DEF U, n
  <2>1. Nat \subseteq U
    BY <1>5, <1>6, Induct
  <2>2. \A i \in 0 .. n : i \in U
    BY <1>3, <2>1
  <2> QED BY <1>3, <2>2 DEF U
<1>8. ASSUME NEW k \in 1 .. n, NEW p \in 1 .. c
      PROVE  c * (k - 1) + p \in 1 .. Len(f[n]) /\ f[n][c * (k - 1) + p] = ss[k][p]
  <2> DEFINE l == c * (k - 1)
             m == Len(f[k])
             z == Len(f[n])
  <2>1. Len(f[k - 1]) = l /\ l \in Nat /\ z \in Nat /\ m \in Nat
    <3>1. k - 1 \in 0 .. n /\ k \in 0 .. n /\ n \in 0 .. n
      BY <1>3
    <3>2. Len(f[k - 1]) = c * (k - 1) /\ Len(f[k - 1]) \in Nat
      BY <1>3, <1>7, <3>1
    <3> HIDE DEF n
    <3> QED BY <1>3, <3>1, <3>2
  <2>2. m = l + c /\ m <= z /\ f[n][l + p] = ss[k][p]
    BY <1>4, <2>1
  <2> HIDE DEF l, m, z
  <2>3. l + p \in 1 .. z
    BY <2>1, <2>2
  <2> QED BY <2>2, <2>3 DEF l, z
<1>9. n \in 0 .. n
  BY <1>3
<1> QED BY <1>2, <1>3, <1>7, <1>8, <1>9 DEF EqualParts
=============================================================================
