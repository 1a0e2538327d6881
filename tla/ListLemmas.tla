----------------------------- MODULE ListLemmas -----------------------------
(***************************************************************************)
(* What the modules' proofs need of lists and numbers: induction over a    *)
(* set of naturals, powers of two, sums over finite sets, and what the     *)
(* recursive operators on lists return.                                    *)
(***************************************************************************)
EXTENDS Integers, SequencesExt, FiniteSetTheorems, FunctionTheorems, WellFoundedInduction, TLAPS

(* A set of naturals that is not empty has a least element.                *)
LEMMA LeastNatural ==
  ASSUME NEW T, T \subseteq Nat, T # {}
  PROVE  \E x \in T : \A y \in T : x <= y
<1>1. PICK x \in T : \A y \in T : ~ (<<y, x>> \in OpToRel(<, Nat))
  BY NatLessThanWellFounded, WFMin
<1>2. \A y \in T : ~ (y < x)
  BY <1>1 DEF OpToRel
<1>3. QED
  BY <1>2

(* Induction, for a set instead of a predicate.                            *)
LEMMA SetInduction ==
  ASSUME NEW S, 0 \in S, \A n \in Nat : n \in S => n + 1 \in S
  PROVE  \A n \in Nat : n \in S
<1> SUFFICES ASSUME Nat \ S # {} PROVE FALSE
  OBVIOUS
<1>1. PICK x \in Nat \ S : \A y \in Nat \ S : x <= y
  BY LeastNatural
<1>2. x # 0 /\ x - 1 \in Nat
  BY <1>1
<1>3. x - 1 \in S
  BY <1>1, <1>2
<1>4. QED
  BY <1>1, <1>2, <1>3

-----------------------------------------------------------------------------
(* F holds the lists of ss end to end, up to each of them.                 *)
Flattens(F, ss) ==
  \A n \in 1 .. Len(ss) : F[n] = IF n = 1 THEN ss[1] ELSE F[n-1] \o ss[n]

(* Flattening appends one list after the other.                            *)
LEMMA FlattenUnfolds ==
  ASSUME NEW ss, Len(ss) \in Nat \ {0}
  PROVE  \E F : Flattens(F, ss) /\ FlattenSeq(ss) = F[Len(ss)]
<1> DEFINE Step(g, i) == IF i = 1 THEN ss[i] ELSE g[i-1] \o ss[i]
           Upto(n) == \E g : g = [i \in 1 .. n |-> Step(g, i)]
           F == CHOOSE g : g = [i \in 1 .. Len(ss) |-> Step(g, i)]
<1>0. Len(ss) \in Nat /\ Len(ss) >= 1
  OBVIOUS
<1>1. Upto(Len(ss))
  <2> DEFINE N == {n \in Nat : Upto(n)}
  <2>0. \A m \in Nat : m \in N <=> Upto(m)
    BY Zenon
  <2>1. 0 \in N
    <3> DEFINE e == [i \in 1 .. 0 |-> <<>>]
    <3>1. e = [i \in 1 .. 0 |-> Step(e, i)]
      OBVIOUS
    <3>2. Upto(0)
      BY <3>1, Zenon
    <3>3. QED
      BY <3>2
  <2>2. ASSUME NEW n \in Nat, n \in N PROVE n + 1 \in N
    <3>0. Upto(n)
      BY <2>2
    <3>1. PICK g : g = [i \in 1 .. n |-> Step(g, i)]
      BY <3>0, Zenon
    <3> DEFINE h == [i \in 1 .. n + 1 |-> IF i = n + 1 THEN Step(g, i) ELSE g[i]]
    <3>2. \A i \in 1 .. n + 1 : h[i] = Step(h, i)
      <4>0. \A i \in 1 .. n : g[i] = Step(g, i)
        BY <3>1, Zenon
      <4>1. \A i \in 1 .. n : h[i] = g[i] /\ h[i] = Step(g, i)
        BY <4>0
      <4>2. \A i \in 1 .. n + 1 : i # 1 => h[i-1] = g[i-1]
        BY <4>1
      <4>3. ASSUME NEW i \in 1 .. n + 1 PROVE h[i] = Step(g, i)
        <5>1. CASE i = n + 1
          BY <5>1
        <5>2. CASE i # n + 1
          <6>1. i \in 1 .. n
            BY <5>2
          <6>2. QED
            BY <4>1, <6>1
        <5>3. QED
          BY <5>1, <5>2
      <4>4. ASSUME NEW i \in 1 .. n + 1 PROVE Step(g, i) = Step(h, i)
        BY <4>2
      <4>5. QED
        BY <4>3, <4>4
    <3>3. h = [i \in 1 .. n + 1 |-> Step(h, i)]
      BY <3>2
    <3> HIDE DEF h
    <3>4. Upto(n + 1)
      <4> WITNESS h
      <4> QED
        BY <3>3
    <3>5. n + 1 \in Nat
      OBVIOUS
    <3> HIDE DEF N, Upto
    <3>6. QED
      BY <2>0, <3>4, <3>5
  <2> HIDE DEF N
  <2>3. \A n \in Nat : n \in N
    BY <2>1, <2>2, SetInduction
  <2>4. QED
    BY <1>0, <2>3 DEF N
<1>2. F = [i \in 1 .. Len(ss) |-> Step(F, i)]
  BY <1>1, Zenon
<1>3. FlattenSeq(ss) = F[Len(ss)]
  BY <1>0 DEF FlattenSeq
<1> HIDE DEF F
<1>4. \A n \in 1 .. Len(ss) : F[n] = Step(F, n)
  BY <1>2
<1>5. Flattens(F, ss)
  BY <1>4 DEF Flattens
<1>6. QED
  BY <1>3, <1>5, Zenon

(* Lists of lists of S, end to end, are a list of S.                       *)
LEMMA FlattenSeqType ==
  ASSUME NEW S, NEW ss \in Seq(Seq(S))
  PROVE  FlattenSeq(ss) \in Seq(S)
<1>1. CASE Len(ss) = 0
  BY <1>1 DEF FlattenSeq
<1>2. CASE Len(ss) # 0
  <2>1. Len(ss) \in Nat \ {0}
    BY <1>2
  <2>2. PICK F : Flattens(F, ss) /\ FlattenSeq(ss) = F[Len(ss)]
    BY <2>1, FlattenUnfolds, Zenon
  <2> DEFINE T == {n \in Nat : n \in 1 .. Len(ss) => F[n] \in Seq(S)}
  <2>3. 0 \in T
    OBVIOUS
  <2>4. ASSUME NEW n \in Nat, n \in T PROVE n + 1 \in T
    <3> SUFFICES ASSUME n + 1 \in 1 .. Len(ss) PROVE F[n + 1] \in Seq(S)
      OBVIOUS
    <3>1. F[n + 1] = (IF n + 1 = 1 THEN ss[1] ELSE F[n] \o ss[n + 1]) /\ ss[n + 1] \in Seq(S)
      BY <2>2 DEF Flattens
    <3>2. n = 0 \/ F[n] \in Seq(S)
      BY <2>4
    <3>3. QED
      BY <3>1, <3>2
  <2> HIDE DEF T
  <2>5. \A n \in Nat : n \in T
    BY <2>3, <2>4, SetInduction
  <2>6. QED
    BY <2>1, <2>2, <2>5 DEF T
<1>3. QED
  BY <1>1, <1>2

(* A quotient and a remainder.                                             *)
LEMMA DivisionIs ==
  ASSUME NEW L \in Nat \ {0}, NEW q \in Nat, NEW e \in 0 .. L-1
  PROVE  (q * L + e) \div L = q /\ (q * L + e) % L = e
<1>1. q * L \in Nat
  OBVIOUS
<1>2. QED
  BY <1>1

(* Two lists, one after the other.                                         *)
LEMMA ConcatIs ==
  ASSUME NEW S, NEW U \in Seq(S), NEW V \in Seq(S)
  PROVE  /\ U \o V \in Seq(S) /\ Len(U \o V) = Len(U) + Len(V)
         /\ \A r \in 1 .. Len(U) + Len(V) :
              (U \o V)[r] = IF r <= Len(U) THEN U[r] ELSE V[r - Len(U)]
  OBVIOUS

(* Lists of one length, end to end.                                        *)
LEMMA FlattenUniform ==
  ASSUME NEW S, NEW ss \in Seq(Seq(S)), NEW L \in Nat \ {0}, \A k \in DOMAIN ss : Len(ss[k]) = L
  PROVE  /\ Len(FlattenSeq(ss)) = Len(ss) * L
         /\ \A r \in 1 .. Len(ss) * L :
              FlattenSeq(ss)[r] = ss[(r - 1) \div L + 1][((r - 1) % L) + 1]
<1>1. CASE Len(ss) = 0
  <2>1. FlattenSeq(ss) = ss
    BY <1>1 DEF FlattenSeq
  <2>2. QED
    BY <1>1, <2>1
<1>2. CASE Len(ss) # 0
  <2>1. Len(ss) \in Nat \ {0}
    BY <1>2
  <2>2. PICK F : Flattens(F, ss) /\ FlattenSeq(ss) = F[Len(ss)]
    BY <2>1, FlattenUnfolds, Zenon
  <2> DEFINE At(r) == ss[(r - 1) \div L + 1][((r - 1) % L) + 1]
             P(n) == F[n] \in Seq(S) /\ Len(F[n]) = n * L /\ \A r \in 1 .. n * L : F[n][r] = At(r)
             T == {n \in Nat : n \in 1 .. Len(ss) => P(n)}
  <2>3. 0 \in T
    OBVIOUS
  <2>4. ASSUME NEW n \in Nat, n \in T PROVE n + 1 \in T
    <3> SUFFICES ASSUME n + 1 \in 1 .. Len(ss) PROVE P(n + 1)
      OBVIOUS
    <3>1. F[n + 1] = (IF n + 1 = 1 THEN ss[1] ELSE F[n] \o ss[n + 1])
      BY <2>2 DEF Flattens
    <3>2. ss[n + 1] \in Seq(S) /\ Len(ss[n + 1]) = L
      OBVIOUS
    <3>3. n * L \in Nat /\ (n + 1) * L = n * L + L
      OBVIOUS
    <3>4. \A e \in 1 .. L : ss[n + 1][e] = At(n * L + e)
      <4> SUFFICES ASSUME NEW e \in 1 .. L PROVE ss[n + 1][e] = At(n * L + e)
        OBVIOUS
      <4>1. e - 1 \in 0 .. L - 1 /\ (n * L + e) - 1 = n * L + (e - 1)
        BY <3>3
      <4>2. (n * L + (e - 1)) \div L = n /\ (n * L + (e - 1)) % L = e - 1
        BY <4>1, DivisionIs
      <4>3. (e - 1) + 1 = e
        OBVIOUS
      <4>4. QED
        BY <4>1, <4>2, <4>3
    <3> HIDE DEF At
    <3>5. CASE n = 0
      <4>1. F[n + 1] = ss[n + 1]
        BY <3>1, <3>5
      <4>2. n * L = 0 /\ (n + 1) * L = L
        BY <3>5
      <4>3. \A r \in 1 .. L : F[n + 1][r] = At(r)
        BY <3>4, <4>1, <4>2
      <4>4. QED
        BY <3>2, <4>1, <4>2, <4>3
    <3>6. CASE n # 0
      <4>0. n + 1 # 1
        BY <3>6
      <4>1. F[n + 1] = F[n] \o ss[n + 1]
        BY <3>1, <4>0, Zenon
      <4>2. P(n)
        BY <2>4, <3>6
      <4> DEFINE U == F[n]
                 V == ss[n + 1]
                 K == n * L
      <4>6. U \in Seq(S) /\ V \in Seq(S) /\ Len(U) = K /\ Len(V) = L /\ K \in Nat
        BY <3>2, <3>3, <4>2
      <4>7. \A e \in 1 .. K : U[e] = At(e)
        BY <4>2
      <4>8. \A e \in 1 .. L : V[e] = At(K + e)
        BY <3>4
      <4>9. F[n + 1] = U \o V /\ (n + 1) * L = K + L
        BY <3>3, <4>1
      <4> HIDE DEF U, V, K
      <4>10. /\ U \o V \in Seq(S) /\ Len(U \o V) = Len(U) + Len(V)
             /\ \A r \in 1 .. Len(U) + Len(V) :
                  (U \o V)[r] = IF r <= Len(U) THEN U[r] ELSE V[r - Len(U)]
        BY <4>6, ConcatIs, Zenon
      <4>3. U \o V \in Seq(S) /\ Len(U \o V) = K + L
        BY <4>6, <4>10, Zenon
      <4>4. ASSUME NEW r \in 1 .. K + L PROVE (U \o V)[r] = At(r)
        <5>1. (U \o V)[r] = IF r <= K THEN U[r] ELSE V[r - K]
          BY <4>6, <4>10, Zenon
        <5>2. CASE r <= K
          BY <4>6, <4>7, <5>1, <5>2
        <5>3. CASE ~ (r <= K)
          <6>1. r - K \in 1 .. L /\ K + (r - K) = r
            BY <4>6, <5>3
          <6>2. (U \o V)[r] = V[r - K]
            BY <5>1, <5>3
          <6>3. QED
            BY <4>8, <6>1, <6>2
        <5>4. QED
          BY <5>2, <5>3
      <4>5. QED
        BY <4>3, <4>4, <4>9
    <3>7. QED
      BY <3>5, <3>6
  <2> HIDE DEF T
  <2>5. \A n \in Nat : n \in T
    BY <2>3, <2>4, SetInduction
  <2>6. P(Len(ss))
    BY <2>1, <2>5 DEF T
  <2>7. QED
    BY <2>2, <2>6
<1>3. QED
  BY <1>1, <1>2

(* What g makes of the entries of a list.                                  *)
Mapped(g, s) == [i \in DOMAIN s |-> g[s[i]]]

(* It may be made before or after two lists are put together.              *)
LEMMA MappedConcat ==
  ASSUME NEW S, NEW g, NEW s \in Seq(S), NEW u \in Seq(S)
  PROVE  Mapped(g, s) \o Mapped(g, u) = Mapped(g, s \o u)
<1> DEFINE R == {g[x] : x \in S}
           p == Mapped(g, s)
           q == Mapped(g, u)
           r == Mapped(g, s \o u)
<1>1. /\ s \o u \in Seq(S) /\ Len(s \o u) = Len(s) + Len(u) /\ Len(s) \in Nat /\ Len(u) \in Nat
      /\ \A i \in 1 .. Len(s) + Len(u) :
           (s \o u)[i] = IF i <= Len(s) THEN s[i] ELSE u[i - Len(s)]
  BY ConcatIs
<1>2. ASSUME NEW w \in Seq(S)
      PROVE  /\ Mapped(g, w) \in Seq(R) /\ Len(Mapped(g, w)) = Len(w)
             /\ \A i \in 1 .. Len(w) : Mapped(g, w)[i] = g[w[i]]
  BY DEF Mapped
<1>3. /\ p \in Seq(R) /\ Len(p) = Len(s) /\ \A i \in 1 .. Len(s) : p[i] = g[s[i]]
      /\ q \in Seq(R) /\ Len(q) = Len(u) /\ \A i \in 1 .. Len(u) : q[i] = g[u[i]]
  BY <1>2
<1>4. /\ r \in Seq(R) /\ Len(r) = Len(s) + Len(u)
      /\ \A i \in 1 .. Len(s) + Len(u) : r[i] = g[(s \o u)[i]]
  BY <1>1, <1>2
<1> HIDE DEF p, q, r, R
<1>5. /\ p \o q \in Seq(R) /\ Len(p \o q) = Len(s) + Len(u)
      /\ \A i \in 1 .. Len(s) + Len(u) :
           (p \o q)[i] = IF i <= Len(s) THEN p[i] ELSE q[i - Len(s)]
  <2>1. /\ p \o q \in Seq(R) /\ Len(p \o q) = Len(p) + Len(q)
        /\ \A i \in 1 .. Len(p) + Len(q) :
             (p \o q)[i] = IF i <= Len(p) THEN p[i] ELSE q[i - Len(p)]
    <3>1. p \in Seq(R) /\ q \in Seq(R)
      BY <1>3
    <3>2. QED
      BY ONLY <3>1, ConcatIs, Zenon
  <2>2. Len(p) = Len(s) /\ Len(q) = Len(u)
    BY <1>3
  <2>3. QED
    BY <2>1, <2>2, Zenon
<1>6. \A i \in 1 .. Len(s) + Len(u) : (p \o q)[i] = r[i]
  <2> SUFFICES ASSUME NEW i \in 1 .. Len(s) + Len(u) PROVE (p \o q)[i] = r[i]
    OBVIOUS
  <2>1. CASE i <= Len(s)
    <3>1. i \in 1 .. Len(s)
      BY <1>1, <2>1
    <3>2. (p \o q)[i] = p[i] /\ (s \o u)[i] = s[i]
      BY <1>1, <1>5, <2>1, Zenon
    <3>3. QED
      BY <1>3, <1>4, <3>1, <3>2, Zenon
  <2>2. CASE ~ (i <= Len(s))
    <3>1. i - Len(s) \in 1 .. Len(u)
      BY <1>1, <2>2
    <3>2. (p \o q)[i] = q[i - Len(s)] /\ (s \o u)[i] = u[i - Len(s)]
      BY <1>1, <1>5, <2>2, Zenon
    <3>3. QED
      BY <1>3, <1>4, <3>1, <3>2, Zenon
  <2>3. QED
    BY <2>1, <2>2
<1>7. p \o q = r
  BY <1>1, <1>4, <1>5, <1>6
<1>8. QED
  BY <1>7 DEF p, q, r

(* It may be made before or after lists are flattened.                     *)
LEMMA FlattenMap ==
  ASSUME NEW S, NEW ss \in Seq(Seq(S)), NEW g,
         NEW tt, tt = [k \in DOMAIN ss |-> Mapped(g, ss[k])]
  PROVE  FlattenSeq(tt) = Mapped(g, FlattenSeq(ss))
<1>0. Len(ss) \in Nat /\ DOMAIN ss = 1 .. Len(ss) /\ \A k \in DOMAIN ss : ss[k] \in Seq(S)
  OBVIOUS
<1>1. DOMAIN tt = DOMAIN ss /\ Len(tt) = Len(ss) /\ \A k \in DOMAIN ss : tt[k] = Mapped(g, ss[k])
  BY <1>0
<1>4. CASE Len(ss) = 0
  <2>1. ss = <<>> /\ tt = <<>>
    BY <1>0, <1>4
  <2>2. FlattenSeq(ss) = <<>> /\ FlattenSeq(tt) = <<>>
    BY <2>1 DEF FlattenSeq
  <2>3. QED
    BY <2>2 DEF Mapped
<1>5. CASE Len(ss) # 0
  <2>1. Len(ss) \in Nat \ {0} /\ Len(tt) \in Nat \ {0}
    BY <1>0, <1>1, <1>5
  <2>2. PICK F : Flattens(F, ss) /\ FlattenSeq(ss) = F[Len(ss)]
    BY <2>1, FlattenUnfolds, Zenon
  <2>3. PICK G : Flattens(G, tt) /\ FlattenSeq(tt) = G[Len(tt)]
    BY <2>1, FlattenUnfolds, Zenon
  <2> DEFINE P(n) == F[n] \in Seq(S) /\ G[n] = Mapped(g, F[n])
             T == {n \in Nat : n \in 1 .. Len(ss) => P(n)}
  <2>4. 0 \in T
    OBVIOUS
  <2>5. ASSUME NEW n \in Nat, n \in T PROVE n + 1 \in T
    <3> SUFFICES ASSUME n + 1 \in 1 .. Len(ss) PROVE P(n + 1)
      OBVIOUS
    <3>0. (n + 1) - 1 = n /\ n + 1 \in 1 .. Len(tt)
      BY <1>1
    <3>1. /\ F[n + 1] = (IF n + 1 = 1 THEN ss[1] ELSE F[n] \o ss[n + 1])
          /\ G[n + 1] = (IF n + 1 = 1 THEN tt[1] ELSE G[n] \o tt[n + 1])
      BY <2>2, <2>3, <3>0, Zenon DEF Flattens
    <3>2. ss[n + 1] \in Seq(S) /\ tt[n + 1] = Mapped(g, ss[n + 1])
      BY <1>0, <1>1
    <3>3. CASE n = 0
      BY <3>1, <3>2, <3>3
    <3>4. CASE n # 0
      <4>1. P(n)
        BY <2>5, <3>4
      <4>2. n + 1 # 1
        BY <3>4
      <4>3. F[n + 1] = F[n] \o ss[n + 1] /\ G[n + 1] = Mapped(g, F[n]) \o Mapped(g, ss[n + 1])
        BY <3>1, <3>2, <4>1, <4>2, Zenon
      <4>4. F[n] \o ss[n + 1] \in Seq(S)
        BY <3>2, <4>1, ConcatIs, Zenon
      <4>7. F[n] \in Seq(S) /\ ss[n + 1] \in Seq(S)
        BY <3>2, <4>1
      <4>5. Mapped(g, F[n]) \o Mapped(g, ss[n + 1]) = Mapped(g, F[n] \o ss[n + 1])
        <5> DEFINE X == F[n]
                   Y == ss[n + 1]
        <5>1. X \in Seq(S) /\ Y \in Seq(S)
          BY <4>7
        <5> HIDE DEF X, Y
        <5>2. Mapped(g, X) \o Mapped(g, Y) = Mapped(g, X \o Y)
          BY <5>1, MappedConcat, SMT
        <5>3. QED
          BY <5>2 DEF X, Y
      <4>6. QED
        BY <4>3, <4>4, <4>5
    <3>5. QED
      BY <3>3, <3>4
  <2> HIDE DEF T
  <2>6. \A n \in Nat : n \in T
    BY <2>4, <2>5, SetInduction
  <2>7. Len(ss) \in T /\ Len(ss) \in 1 .. Len(ss)
    BY <2>1, <2>6
  <2>8. P(Len(ss))
    BY <2>7 DEF T
  <2>9. FlattenSeq(tt) = Mapped(g, FlattenSeq(ss))
    BY <1>1, <2>2, <2>3, <2>8
  <2>10. QED
    BY <2>9
<1>6. QED
  BY <1>4, <1>5

-----------------------------------------------------------------------------
(* Powers of two, counted as sets of subsets.                              *)

(* A power of two is a natural number above its exponent, and the next one *)
(* is twice as large.                                                      *)
LEMMA PowerStep ==
  /\ 2^0 = 1
  /\ \A n \in Nat : 2^n \in Nat /\ 2^(n + 1) = 2 * 2^n
<1>1. 2^0 = 1
  <2>1. IsFiniteSet({}) /\ Cardinality({}) = 0
    BY FS_EmptySet
  <2>2. Cardinality(SUBSET {}) = 2^0
    BY <2>1, FS_SUBSET, Zenon
  <2>3. SUBSET {} = {{}}
    OBVIOUS
  <2>4. Cardinality({{}}) = 1
    BY FS_Singleton, Zenon
  <2>5. QED
    BY <2>2, <2>3, <2>4
<1>2. ASSUME NEW n \in Nat
      PROVE  /\ IsFiniteSet(SUBSET (1 .. n)) /\ Cardinality(SUBSET (1 .. n)) = 2^n
             /\ 2^n \in Nat
  <2>1. IsFiniteSet(1 .. n) /\ Cardinality(1 .. n) = n
    <3>0. n \in Int /\ 1 \in Int
      OBVIOUS
    <3>1. /\ IsFiniteSet(1 .. n)
          /\ Cardinality(1 .. n) = IF 1 > n THEN 0 ELSE n - 1 + 1
      BY <3>0, FS_Interval, Zenon
    <3>2. QED
      BY <3>1
  <2>2. IsFiniteSet(SUBSET (1 .. n)) /\ Cardinality(SUBSET (1 .. n)) = 2^Cardinality(1 .. n)
    BY <2>1, FS_SUBSET, Zenon
  <2>3. Cardinality(SUBSET (1 .. n)) \in Nat
    BY <2>2, FS_CardinalityType, Zenon
  <2>4. QED
    BY <2>1, <2>2, <2>3, Zenon
<1>3. ASSUME NEW n \in Nat PROVE 2^(n + 1) = 2 * 2^n
  <2> DEFINE A == SUBSET (1 .. n)
             f == [X \in A |-> X \cup {n + 1}]
             B == {X \cup {n + 1} : X \in A}
  <2>1. IsFiniteSet(A) /\ Cardinality(A) = 2^n /\ 2^n \in Nat
    BY <1>2
  <2>2. Cardinality(SUBSET (1 .. n + 1)) = 2^(n + 1)
    <3>1. n + 1 \in Nat
      OBVIOUS
    <3>2. QED
      BY <3>1, <1>2
  <2>3. SUBSET (1 .. n + 1) = A \cup B
    <3>1. ASSUME NEW Y \in SUBSET (1 .. n + 1) PROVE Y \in A \cup B
      <4>1. CASE n + 1 \in Y
        <5> DEFINE X == Y \ {n + 1}
        <5>1. X \in A
          OBVIOUS
        <5>2. Y = X \cup {n + 1}
          BY <4>1
        <5> HIDE DEF X
        <5>3. QED
          BY <5>1, <5>2
      <4>2. CASE n + 1 \notin Y
        BY <4>2
      <4>3. QED
        BY <4>1, <4>2
    <3>2. \A Y \in A : Y \in SUBSET (1 .. n + 1)
      OBVIOUS
    <3>3. \A Y \in B : Y \in SUBSET (1 .. n + 1)
      <4>1. 1 .. n \subseteq 1 .. n + 1 /\ n + 1 \in 1 .. n + 1
        OBVIOUS
      <4>2. QED
        BY <4>1
    <3>4. QED
      BY <3>1, <3>2, <3>3
  <2>4. A \cap B = {}
    <3>1. n + 1 \notin 1 .. n
      OBVIOUS
    <3>2. QED
      BY <3>1
  <2>5. f \in Bijection(A, B)
    <3>1. n + 1 \notin 1 .. n
      OBVIOUS
    <3>2. f \in [A -> B]
      OBVIOUS
    <3>3. \A X, Y \in A : f[X] = f[Y] => X = Y
      BY <3>1
    <3>4. \A Y \in B : \E X \in A : f[X] = Y
      OBVIOUS
    <3> HIDE DEF A, B, f
    <3>5. QED
      BY <3>2, <3>3, <3>4 DEF Bijection, Injection, Surjection, IsInjective
  <2>6. IsFiniteSet(B) /\ Cardinality(B) = Cardinality(A)
    <3> HIDE DEF A, B, f
    <3>1. f \in Surjection(A, B) /\ ExistsBijection(A, B)
      BY <2>5 DEF Bijection, ExistsBijection
    <3>2. QED
      BY <2>1, <3>1, FS_Surjection, FS_Bijection, Zenon
  <2>7. Cardinality(A \cup B) = Cardinality(A) + Cardinality(B) - Cardinality(A \cap B)
    <3> HIDE DEF A, B
    <3>1. QED
      BY <2>1, <2>6, FS_Union, Zenon
  <2>8. Cardinality(A \cap B) = 0
    BY <2>4, FS_EmptySet, Zenon
  <2> HIDE DEF A, B, f
  <2>9. Cardinality(A \cup B) = 2^n + 2^n - 0
    BY <2>1, <2>6, <2>7, <2>8, Zenon
  <2>10. \A a \in Nat : a + a - 0 = 2 * a
    OBVIOUS
  <2>11. QED
    BY <2>1, <2>2, <2>3, <2>9, <2>10, Zenon
<1>4. QED
  BY <1>1, <1>2, <1>3

(* The power of a sum is the product of the powers.                        *)
LEMMA PowerOfSum == \A m, n \in Nat : 2^(m + n) = 2^m * 2^n
<1> SUFFICES ASSUME NEW m \in Nat PROVE \A n \in Nat : 2^(m + n) = 2^m * 2^n
  OBVIOUS
<1> DEFINE N == {n \in Nat : 2^(m + n) = 2^m * 2^n}
<1>1. 0 \in N
  <2>1. m + 0 = m
    OBVIOUS
  <2>2. 2^(m + 0) = 2^m
    BY <2>1, Zenon
  <2>3. 2^m \in Nat /\ 2^0 = 1
    BY PowerStep
  <2>4. 2^m = 2^m * 1
    BY <2>3
  <2>5. QED
    BY <2>2, <2>3, <2>4
<1>2. ASSUME NEW n \in Nat, n \in N PROVE n + 1 \in N
  <2>1. m + (n + 1) = (m + n) + 1 /\ m + n \in Nat
    OBVIOUS
  <2>2. 2^(m + (n + 1)) = 2 * 2^(m + n)
    BY <2>1, PowerStep
  <2>3. 2^(n + 1) = 2 * 2^n /\ 2^m \in Nat /\ 2^n \in Nat
    BY PowerStep
  <2>4. 2^(m + n) = 2^m * 2^n
    BY <1>2
  <2>5. 2 * (2^m * 2^n) = 2^m * (2 * 2^n)
    BY <2>3
  <2>6. QED
    BY <2>2, <2>3, <2>4, <2>5
<1> HIDE DEF N
<1>3. \A n \in Nat : n \in N
  BY <1>1, <1>2, SetInduction
<1>4. QED
  BY <1>3 DEF N

(* Powers outgrow their exponents, and grow with them.                     *)
LEMMA PowerBounds ==
  /\ \A n \in Nat : n < 2^n /\ 1 <= 2^n
  /\ \A m, n \in Nat : m <= n => 2^m <= 2^n
<1> DEFINE N == {n \in Nat : n < 2^n}
<1>1. 0 \in N
  BY PowerStep
<1>2. ASSUME NEW n \in Nat, n \in N PROVE n + 1 \in N
  <2>1. 2^(n + 1) = 2 * 2^n /\ 2^n \in Nat /\ n < 2^n
    BY <1>2, PowerStep
  <2>2. n + 1 < 2 * 2^n
    BY <2>1
  <2>3. QED
    BY <2>1, <2>2
<1> HIDE DEF N
<1>3. \A n \in Nat : n \in N
  BY <1>1, <1>2, SetInduction
<1>4. \A n \in Nat : n < 2^n /\ 1 <= 2^n
  BY <1>3, PowerStep DEF N
<1>5. ASSUME NEW m \in Nat, NEW n \in Nat, m <= n PROVE 2^m <= 2^n
  <2> DEFINE d == n - m
  <2>1. d \in Nat /\ m + d = n
    BY <1>5
  <2> HIDE DEF d
  <2>2. 2^n = 2^m * 2^d
    BY <2>1, PowerOfSum
  <2>3. 2^m \in Nat /\ 2^d \in Nat /\ 1 <= 2^d
    BY <2>1, <1>4, PowerStep
  <2>4. \A a, b \in Nat : 1 <= b => a <= a * b
    OBVIOUS
  <2>5. QED
    BY <2>2, <2>3, <2>4
<1>6. QED
  BY <1>4, <1>5
-----------------------------------------------------------------------------
(* Sums over a finite set.                                                 *)

Chosen(s) == CHOOSE x \in s : TRUE

(* The sum over a set is that of one chosen member and of the others.      *)
SumsOf(iter, f, S) ==
  /\ iter[{}] = 0
  /\ \A s \in SUBSET S : s # {} => iter[s] = f[Chosen(s)] + iter[s \ {Chosen(s)}]

(* A sum is computed by taking one term out of it after the other.         *)
LEMMA SumUnfolds ==
  ASSUME NEW S, IsFiniteSet(S), NEW f
  PROVE  \E iter : SumsOf(iter, f, S) /\ SumFunctionOnSet(f, S) = iter[S]
<1> DEFINE Entry(g, s) == IF s = {} THEN 0 ELSE f[Chosen(s)] + g[s \ {Chosen(s)}]
           Small(n) == {s \in SUBSET S : Cardinality(s) <= n}
           Upto(n) == \E g : \A s \in Small(n) : g[s] = Entry(g, s)
           F == CHOOSE g : g = [s \in SUBSET S |-> Entry(g, s)]
<1>1. \A s \in SUBSET S : IsFiniteSet(s) /\ Cardinality(s) \in Nat /\ Cardinality(s) <= Cardinality(S)
  BY FS_Subset, FS_CardinalityType, Zenon
<1>2. \A s \in SUBSET S : s # {} =>
        /\ Chosen(s) \in s
        /\ s \ {Chosen(s)} \in SUBSET S
        /\ Cardinality(s \ {Chosen(s)}) = Cardinality(s) - 1
  <2> SUFFICES ASSUME NEW s \in SUBSET S, s # {}
               PROVE  /\ Chosen(s) \in s
                      /\ s \ {Chosen(s)} \in SUBSET S
                      /\ Cardinality(s \ {Chosen(s)}) = Cardinality(s) - 1
    OBVIOUS
  <2>1. Chosen(s) \in s
    BY DEF Chosen
  <2>2. Cardinality(s \ {Chosen(s)}) = IF Chosen(s) \in s THEN Cardinality(s) - 1 ELSE Cardinality(s)
    BY <1>1, FS_RemoveElement, Zenon
  <2>3. QED
    BY <2>1, <2>2
<1>3. \A s \in SUBSET S : Cardinality(s) = 0 => s = {}
  BY <1>1, FS_EmptySet, Zenon
<1>4. Cardinality(S) \in Nat
  BY <1>1
<1>5. \A n \in Nat : Upto(n)
  <2> DEFINE N == {n \in Nat : Upto(n)}
  <2>0. \A n \in Nat : n \in N <=> Upto(n)
    BY Zenon
  <2>1. 0 \in N
    <3> DEFINE z == [s \in SUBSET S |-> 0]
    <3>1. \A s \in Small(0) : s = {} /\ z[s] = 0
      BY <1>1, <1>3
    <3>2. \A s \in Small(0) : z[s] = Entry(z, s)
      BY <3>1
    <3> HIDE DEF z, Small
    <3>3. Upto(0)
      BY <3>2, Zenon
    <3>4. QED
      BY <2>0, <3>3
  <2>2. ASSUME NEW n \in Nat, n \in N PROVE n + 1 \in N
    <3>1. PICK g : \A s \in Small(n) : g[s] = Entry(g, s)
      BY <2>0, <2>2, Zenon
    <3> DEFINE h == [s \in SUBSET S |-> Entry(g, s)]
    <3>2. \A s \in Small(n) : h[s] = g[s]
      BY <3>1
    <3>3. ASSUME NEW s \in Small(n + 1) PROVE h[s] = Entry(h, s)
      <4>1. CASE s = {}
        BY <4>1
      <4>2. CASE s # {}
        <5>1. s \ {Chosen(s)} \in Small(n)
          BY <1>1, <1>2, <4>2
        <5>2. h[s \ {Chosen(s)}] = g[s \ {Chosen(s)}]
          BY <3>2, <5>1
        <5>3. h[s] = f[Chosen(s)] + g[s \ {Chosen(s)}]
          BY <4>2
        <5> HIDE DEF h, Small
        <5>4. QED
          BY <4>2, <5>2, <5>3
      <4>3. QED
        BY <4>1, <4>2
    <3> HIDE DEF h, Small
    <3>4. Upto(n + 1)
      BY <3>3, Zenon
    <3>5. n + 1 \in Nat
      OBVIOUS
    <3>6. QED
      BY <2>0, <3>4, <3>5
  <2> HIDE DEF N, Upto
  <2>3. \A n \in Nat : n \in N
    BY <2>1, <2>2, SetInduction
  <2>4. QED
    BY <2>0, <2>3
<1>6. \E g : g = [s \in SUBSET S |-> Entry(g, s)]
  <2>1. PICK g : \A s \in Small(Cardinality(S)) : g[s] = Entry(g, s)
    BY <1>4, <1>5, Zenon
  <2>2. Small(Cardinality(S)) = SUBSET S
    BY <1>1
  <2> DEFINE h == [s \in SUBSET S |-> g[s]]
  <2>3. ASSUME NEW s \in SUBSET S PROVE h[s] = Entry(h, s)
    <3>1. g[s] = Entry(g, s)
      BY <2>1, <2>2
    <3>2. s # {} => h[s \ {Chosen(s)}] = g[s \ {Chosen(s)}]
      BY <1>2
    <3>3. QED
      BY <3>1, <3>2
  <2>4. h = [s \in SUBSET S |-> Entry(h, s)]
    BY <2>3
  <2> HIDE DEF h
  <2>5. QED
    BY <2>4, Zenon
<1>7. F = [s \in SUBSET S |-> Entry(F, s)]
  BY <1>6, Zenon
<1>8. SumFunctionOnSet(f, S) = F[S]
  BY DEF SumFunctionOnSet, FoldFunctionOnSet, MapThenFoldSet, Chosen
<1> HIDE DEF F
<1>9. \A s \in SUBSET S : F[s] = Entry(F, s)
  BY <1>7
<1>10. SumsOf(F, f, S)
  BY <1>9 DEF SumsOf
<1>11. QED
  BY <1>8, <1>10, Zenon

(* A sum of integers is one, and no further from zero than the number of   *)
(* its terms times the largest of them.                                    *)
LEMMA SumBound ==
  ASSUME NEW S, IsFiniteSet(S), NEW f, NEW M \in Nat,
         \A i \in S : f[i] \in Int /\ -M <= f[i] /\ f[i] <= M
  PROVE  /\ SumFunctionOnSet(f, S) \in Int
         /\ - (Cardinality(S) * M) <= SumFunctionOnSet(f, S)
         /\ SumFunctionOnSet(f, S) <= Cardinality(S) * M
<1>1. PICK iter : SumsOf(iter, f, S) /\ SumFunctionOnSet(f, S) = iter[S]
  BY SumUnfolds, Zenon
<1> DEFINE Bounded(s) == iter[s] \in Int /\ - (Cardinality(s) * M) <= iter[s]
                                         /\ iter[s] <= Cardinality(s) * M
           N == {n \in Nat : \A s \in SUBSET S : Cardinality(s) = n => Bounded(s)}
<1>2. \A s \in SUBSET S : IsFiniteSet(s) /\ Cardinality(s) \in Nat
  BY FS_Subset, FS_CardinalityType, Zenon
<1>3. 0 \in N
  <2>1. ASSUME NEW s \in SUBSET S, Cardinality(s) = 0 PROVE Bounded(s)
    <3>1. s = {}
      BY <1>2, <2>1, FS_EmptySet, Zenon
    <3>2. iter[s] = 0
      BY <1>1, <3>1 DEF SumsOf
    <3>3. QED
      BY <2>1, <3>2
  <2>2. QED
    BY <2>1
<1>4. ASSUME NEW n \in Nat, n \in N PROVE n + 1 \in N
  <2>1. ASSUME NEW s \in SUBSET S, Cardinality(s) = n + 1 PROVE Bounded(s)
    <3> DEFINE x == Chosen(s)
               r == s \ {x}
    <3>0. Cardinality(s) # 0
      BY <2>1
    <3>1. s # {}
      BY <3>0, FS_EmptySet, Zenon
    <3>2. x \in s
      BY <3>1 DEF Chosen
    <3>3. Cardinality(r) = IF x \in s THEN Cardinality(s) - 1 ELSE Cardinality(s)
      BY <1>2, FS_RemoveElement, Zenon
    <3>4. Cardinality(r) = n /\ r \in SUBSET S
      BY <2>1, <3>2, <3>3
    <3>5. iter[s] = f[x] + iter[r]
      BY <1>1, <3>1 DEF SumsOf
    <3>6. f[x] \in Int /\ -M <= f[x] /\ f[x] <= M
      BY <3>2
    <3> HIDE DEF x, r
    <3>7. Bounded(r)
      BY <1>4, <3>4
    <3>8. iter[r] \in Int /\ - (n * M) <= iter[r] /\ iter[r] <= n * M
      BY <3>4, <3>7 DEF Bounded
    <3>9. (n + 1) * M = n * M + M /\ n * M \in Nat
      OBVIOUS
    <3>10. QED
      BY <2>1, <3>5, <3>6, <3>8, <3>9
  <2>2. QED
    BY <2>1
<1> HIDE DEF N, Bounded
<1>5. \A n \in Nat : n \in N
  BY <1>3, <1>4, SetInduction
<1>6. Bounded(S)
  BY <1>2, <1>5 DEF N
<1>7. QED
  BY <1>1, <1>6 DEF Bounded

(* So are the partial sums.                                                *)
LEMMA SumsType ==
  ASSUME NEW S, IsFiniteSet(S), NEW f, \A i \in S : f[i] \in Int,
         NEW iter, SumsOf(iter, f, S)
  PROVE  \A s \in SUBSET S : iter[s] \in Int
<1> DEFINE N == {n \in Nat : \A s \in SUBSET S : Cardinality(s) = n => iter[s] \in Int}
<1>1. \A s \in SUBSET S : IsFiniteSet(s) /\ Cardinality(s) \in Nat
  BY FS_Subset, FS_CardinalityType, Zenon
<1>2. 0 \in N
  <2>1. ASSUME NEW s \in SUBSET S, Cardinality(s) = 0 PROVE iter[s] \in Int
    <3>1. s = {}
      BY <1>1, <2>1, FS_EmptySet, Zenon
    <3>2. QED
      BY <3>1 DEF SumsOf
  <2>2. QED
    BY <2>1
<1>3. ASSUME NEW n \in Nat, n \in N PROVE n + 1 \in N
  <2>1. ASSUME NEW s \in SUBSET S, Cardinality(s) = n + 1 PROVE iter[s] \in Int
    <3> DEFINE x == Chosen(s)
               r == s \ {x}
    <3>0. Cardinality(s) # 0
      BY <2>1
    <3>1. s # {}
      BY <3>0, FS_EmptySet, Zenon
    <3>2. x \in s
      BY <3>1 DEF Chosen
    <3>3. Cardinality(r) = IF x \in s THEN Cardinality(s) - 1 ELSE Cardinality(s)
      BY <1>1, FS_RemoveElement, Zenon
    <3>4. Cardinality(r) = n /\ r \in SUBSET S
      BY <2>1, <3>2, <3>3
    <3>5. iter[s] = f[x] + iter[r]
      BY <3>1 DEF SumsOf
    <3>6. f[x] \in Int
      BY <3>2
    <3> HIDE DEF x, r
    <3>7. iter[r] \in Int
      BY <1>3, <3>4
    <3>8. QED
      BY <3>5, <3>6, <3>7
  <2>2. QED
    BY <2>1
<1> HIDE DEF N
<1>4. \A n \in Nat : n \in N
  BY <1>2, <1>3, SetInduction
<1>5. QED
  BY <1>1, <1>4 DEF N

(* The sum of integers over a finite set.                                  *)
LEMMA SumType ==
  ASSUME NEW S, IsFiniteSet(S), NEW f, \A i \in S : f[i] \in Int
  PROVE  SumFunctionOnSet(f, S) \in Int
<1>1. PICK iter : SumsOf(iter, f, S) /\ SumFunctionOnSet(f, S) = iter[S]
  BY SumUnfolds, Zenon
<1>2. QED
  BY <1>1, SumsType

(* Any term of a sum may be taken out of it.                               *)
Separable(iter, f, S) ==
  \A s \in SUBSET S : \A x \in s : iter[s] = f[x] + iter[s \ {x}]

(* A sum over a finite set lets any of its terms be taken out.              *)
LEMMA SumsRemove ==
  ASSUME NEW S, IsFiniteSet(S), NEW f, \A i \in S : f[i] \in Int,
         NEW iter, SumsOf(iter, f, S)
  PROVE  Separable(iter, f, S)
<1> DEFINE Splits(s) == \A x \in s : iter[s] = f[x] + iter[s \ {x}]
           N == {n \in Nat : \A s \in SUBSET S : Cardinality(s) = n => Splits(s)}
<1>1. \A s \in SUBSET S : IsFiniteSet(s) /\ Cardinality(s) \in Nat
  BY FS_Subset, FS_CardinalityType, Zenon
<1>2. 0 \in N
  <2>1. ASSUME NEW s \in SUBSET S, Cardinality(s) = 0 PROVE Splits(s)
    <3>1. s = {}
      BY <1>1, <2>1, FS_EmptySet, Zenon
    <3>2. QED
      BY <3>1
  <2>2. QED
    BY <2>1
<1>3. ASSUME NEW n \in Nat, n \in N PROVE n + 1 \in N
  <2>1. ASSUME NEW s \in SUBSET S, Cardinality(s) = n + 1, NEW x \in s
        PROVE  iter[s] = f[x] + iter[s \ {x}]
    <3> DEFINE c == Chosen(s)
               r == (s \ {c}) \ {x}
    <3>2. c \in s
      BY DEF Chosen
    <3>3. iter[s] = f[c] + iter[s \ {c}]
      BY DEF SumsOf
    <3> HIDE DEF c
    <3>4. ASSUME NEW y \in s PROVE Cardinality(s \ {y}) = n /\ s \ {y} \in SUBSET S
      <4>1. Cardinality(s \ {y}) = IF y \in s THEN Cardinality(s) - 1 ELSE Cardinality(s)
        BY <1>1, FS_RemoveElement, Zenon
      <4>2. QED
        BY <2>1, <4>1
    <3>5. \A y \in s : Splits(s \ {y})
      BY <1>3, <3>4
    <3>6. CASE x = c
      BY <3>3, <3>6
    <3>7. CASE x # c
      <4>1. x \in s \ {c} /\ c \in s \ {x}
        BY <3>2, <3>7
      <4>2. iter[s \ {c}] = f[x] + iter[r]
        BY <3>2, <3>5, <4>1
      <4>3. iter[s \ {x}] = f[c] + iter[(s \ {x}) \ {c}]
        BY <3>5, <4>1
      <4>4. (s \ {x}) \ {c} = r /\ r \in SUBSET S
        OBVIOUS
      <4> HIDE DEF r
      <4>5. iter[r] \in Int
        BY <4>4, SumsType, Zenon
      <4>6. f[x] \in Int /\ f[c] \in Int
        BY <3>2
      <4>7. iter[s] = f[c] + (f[x] + iter[r])
        BY <3>3, <4>2, Zenon
      <4>8. iter[s \ {x}] = f[c] + iter[r]
        BY <4>3, <4>4, Zenon
      <4>9. f[c] + (f[x] + iter[r]) = f[x] + (f[c] + iter[r])
        BY <4>5, <4>6
      <4>10. QED
        BY <4>7, <4>8, <4>9, Zenon
    <3>8. QED
      BY <3>6, <3>7
  <2>2. QED
    BY <2>1
<1> HIDE DEF N, Splits
<1>4. \A n \in Nat : n \in N
  BY <1>2, <1>3, SetInduction
<1>5. \A s \in SUBSET S : Splits(s)
  BY <1>1, <1>4 DEF N
<1>6. QED
  BY <1>5 DEF Splits, Separable

(* Partial sums of one and of another set are the same.                    *)
LEMMA SumsAgree ==
  ASSUME NEW S, IsFiniteSet(S), NEW f, NEW iter, SumsOf(iter, f, S), NEW T \in SUBSET S
  PROVE  SumFunctionOnSet(f, T) = iter[T]
<1>0. IsFiniteSet(T)
  BY FS_Subset, Zenon
<1>1. PICK it : SumsOf(it, f, T) /\ SumFunctionOnSet(f, T) = it[T]
  BY <1>0, SumUnfolds, Zenon
<1> DEFINE N == {n \in Nat : \A s \in SUBSET T : Cardinality(s) = n => it[s] = iter[s]}
<1>2. \A s \in SUBSET T : IsFiniteSet(s) /\ Cardinality(s) \in Nat
  BY <1>0, FS_Subset, FS_CardinalityType, Zenon
<1>3. 0 \in N
  <2>1. ASSUME NEW s \in SUBSET T, Cardinality(s) = 0 PROVE it[s] = iter[s]
    <3>1. s = {}
      BY <1>2, <2>1, FS_EmptySet, Zenon
    <3>2. QED
      BY <1>1, <3>1 DEF SumsOf
  <2>2. QED
    BY <2>1
<1>4. ASSUME NEW n \in Nat, n \in N PROVE n + 1 \in N
  <2>1. ASSUME NEW s \in SUBSET T, Cardinality(s) = n + 1 PROVE it[s] = iter[s]
    <3> DEFINE x == Chosen(s)
               r == s \ {x}
    <3>0. Cardinality(s) # 0
      BY <2>1
    <3>1. s # {}
      BY <3>0, FS_EmptySet, Zenon
    <3>2. x \in s
      BY <3>1 DEF Chosen
    <3>3. Cardinality(r) = IF x \in s THEN Cardinality(s) - 1 ELSE Cardinality(s)
      BY <1>2, FS_RemoveElement, Zenon
    <3>4. Cardinality(r) = n /\ r \in SUBSET T /\ s \in SUBSET S
      BY <2>1, <3>2, <3>3
    <3>5. iter[s] = f[x] + iter[r] /\ it[s] = f[x] + it[r]
      BY <1>1, <3>1, <3>4 DEF SumsOf
    <3> HIDE DEF x, r
    <3>7. it[r] = iter[r]
      BY <1>4, <3>4
    <3>8. QED
      BY <3>5, <3>7
  <2>2. QED
    BY <2>1
<1> HIDE DEF N
<1>5. \A n \in Nat : n \in N
  BY <1>3, <1>4, SetInduction
<1>6. it[T] = iter[T]
  BY <1>2, <1>5 DEF N
<1>7. QED
  BY <1>1, <1>6

(* Taking one term out of a sum.                                           *)
LEMMA SumRemove ==
  ASSUME NEW S, IsFiniteSet(S), NEW f, \A i \in S : f[i] \in Int, NEW x \in S
  PROVE  SumFunctionOnSet(f, S) = f[x] + SumFunctionOnSet(f, S \ {x})
<1>1. PICK iter : SumsOf(iter, f, S) /\ SumFunctionOnSet(f, S) = iter[S]
  BY SumUnfolds, Zenon
<1>2. S \in SUBSET S /\ S \ {x} \in SUBSET S
  OBVIOUS
<1>3. iter[S] = f[x] + iter[S \ {x}]
  <2>1. Separable(iter, f, S)
    BY <1>1, SumsRemove, Zenon
  <2>2. QED
    BY <1>2, <2>1 DEF Separable
<1>4. SumFunctionOnSet(f, S \ {x}) = iter[S \ {x}]
  <2> DEFINE T == S \ {x}
  <2>1. T \in SUBSET S
    OBVIOUS
  <2> HIDE DEF T
  <2>2. SumsOf(iter, f, S)
    BY <1>1
  <2>3. SumFunctionOnSet(f, T) = iter[T]
    BY <2>1, <2>2, SumsAgree
  <2>4. QED
    BY <2>3 DEF T
<1>5. QED
  BY <1>1, <1>3, <1>4

(* Part of a sum of natural numbers is no larger than the whole.           *)
LEMMA SumOfPart ==
  ASSUME NEW S, IsFiniteSet(S), NEW f, \A i \in S : f[i] \in Nat, NEW P \in SUBSET S
  PROVE  /\ SumFunctionOnSet(f, P) \in Nat
         /\ SumFunctionOnSet(f, P) <= SumFunctionOnSet(f, S)
<1>1. PICK iter : SumsOf(iter, f, S) /\ SumFunctionOnSet(f, S) = iter[S]
  BY SumUnfolds, Zenon
<1>2. SumFunctionOnSet(f, P) = iter[P]
  BY <1>1, SumsAgree
<1>3. \A i \in S : f[i] \in Int
  OBVIOUS
<1>4. \A s \in SUBSET S : iter[s] \in Int
  BY <1>1, <1>3, SumsType
<1> DEFINE Grows(s) == 0 <= iter[s] /\ \A t \in SUBSET s : iter[t] <= iter[s]
           N == {n \in Nat : \A s \in SUBSET S : Cardinality(s) = n => Grows(s)}
<1>5. \A s \in SUBSET S : IsFiniteSet(s) /\ Cardinality(s) \in Nat
  BY FS_Subset, FS_CardinalityType, Zenon
<1>6. 0 \in N
  <2>1. ASSUME NEW s \in SUBSET S, Cardinality(s) = 0 PROVE Grows(s)
    <3>1. s = {}
      BY <1>5, <2>1, FS_EmptySet, Zenon
    <3>2. iter[s] = 0 /\ \A t \in SUBSET s : t = s
      BY <1>1, <3>1 DEF SumsOf
    <3>3. QED
      BY <3>2
  <2>2. QED
    BY <2>1
<1>7. ASSUME NEW n \in Nat, n \in N PROVE n + 1 \in N
  <2>1. ASSUME NEW s \in SUBSET S, Cardinality(s) = n + 1 PROVE Grows(s)
    <3>1. ASSUME NEW y \in s
          PROVE  /\ iter[s] = f[y] + iter[s \ {y}] /\ f[y] \in Nat
                 /\ iter[s \ {y}] \in Int /\ Grows(s \ {y})
      <4>1. Cardinality(s \ {y}) = IF y \in s THEN Cardinality(s) - 1 ELSE Cardinality(s)
        BY <1>5, FS_RemoveElement, Zenon
      <4>2. Cardinality(s \ {y}) = n /\ s \ {y} \in SUBSET S
        BY <2>1, <4>1
      <4>3. Grows(s \ {y}) /\ iter[s \ {y}] \in Int
        BY <1>4, <1>7, <4>2
      <4>4. iter[s] = f[y] + iter[s \ {y}]
        <5>1. Separable(iter, f, S)
          BY <1>1, <1>3, SumsRemove, Zenon
        <5>2. QED
          BY <5>1 DEF Separable
      <4>5. QED
        BY <4>3, <4>4
    <3>2. iter[s] \in Int
      BY <1>4
    <3>3. Cardinality(s) # 0
      BY <2>1
    <3>4. PICK x \in s : TRUE
      BY <3>3, FS_EmptySet, Zenon
    <3>5. 0 <= iter[s]
      <4>1. /\ iter[s] = f[x] + iter[s \ {x}] /\ f[x] \in Nat
            /\ iter[s \ {x}] \in Int /\ 0 <= iter[s \ {x}]
        BY <3>1
      <4>2. QED
        BY <4>1
    <3>6. ASSUME NEW t \in SUBSET s, t # s PROVE iter[t] <= iter[s]
      <4>1. PICK y \in s : t \in SUBSET (s \ {y})
        BY <3>6
      <4>2. iter[t] <= iter[s \ {y}]
        BY <3>1, <4>1
      <4>3. iter[t] \in Int
        <5>1. t \in SUBSET S
          BY <4>1
        <5>2. QED
          BY <1>4, <5>1
      <4>4. /\ iter[s] = f[y] + iter[s \ {y}] /\ f[y] \in Nat
            /\ iter[s \ {y}] \in Int
        BY <3>1
      <4>5. QED
        BY <4>2, <4>3, <4>4
    <3>7. QED
      BY <3>2, <3>5, <3>6
  <2>2. QED
    BY <2>1
<1> HIDE DEF N, Grows
<1>8. \A n \in Nat : n \in N
  BY <1>6, <1>7, SetInduction
<1>9. Grows(S) /\ Grows(P)
  BY <1>5, <1>8 DEF N
<1>10. QED
  BY <1>1, <1>2, <1>4, <1>9 DEF Grows

(* The largest of finitely many integers.                                  *)
LEMMA LargestInteger ==
  ASSUME NEW S, S \subseteq Int, IsFiniteSet(S), S # {}
  PROVE  Max(S) \in S /\ \A y \in S : y <= Max(S)
<1> DEFINE Has(s) == \E x \in s : \A y \in s : x >= y
           N == {n \in Nat : \A s \in SUBSET S : Cardinality(s) = n /\ s # {} => Has(s)}
<1>1. \A s \in SUBSET S : IsFiniteSet(s) /\ Cardinality(s) \in Nat
  BY FS_Subset, FS_CardinalityType, Zenon
<1>2. 0 \in N
  BY <1>1, FS_EmptySet
<1>3. ASSUME NEW n \in Nat, n \in N PROVE n + 1 \in N
  <2>1. ASSUME NEW s \in SUBSET S, Cardinality(s) = n + 1, s # {} PROVE Has(s)
    <3>1. PICK c \in s : TRUE
      BY <2>1
    <3>2. Cardinality(s \ {c}) = IF c \in s THEN Cardinality(s) - 1 ELSE Cardinality(s)
      BY <1>1, FS_RemoveElement, Zenon
    <3>3. Cardinality(s \ {c}) = n /\ s \ {c} \in SUBSET S
      BY <2>1, <3>2
    <3>4. CASE s \ {c} = {}
      BY <3>4
    <3>5. CASE s \ {c} # {}
      <4>1. Has(s \ {c})
        BY <1>3, <3>3, <3>5
      <4>2. PICK x \in s \ {c} : \A y \in s \ {c} : x >= y
        BY <4>1
      <4>3. c \in Int /\ x \in Int /\ \A y \in s : y \in Int
        OBVIOUS
      <4>4. CASE x >= c
        BY <4>2, <4>4
      <4>5. CASE ~ (x >= c)
        BY <4>2, <4>3, <4>5
      <4>6. QED
        BY <4>4, <4>5
    <3>6. QED
      BY <3>4, <3>5
  <2>2. QED
    BY <2>1
<1> HIDE DEF N
<1>4. \A n \in Nat : n \in N
  BY <1>2, <1>3, SetInduction
<1>5. Has(S)
  BY <1>1, <1>4 DEF N
<1>6. Max(S) \in S /\ \A y \in S : Max(S) >= y
  BY <1>5 DEF Max
<1>7. QED
  BY <1>6

-----------------------------------------------------------------------------
(* More of sums: of an image, of a union, of congruent terms, by groups.    *)

(* The sum of nothing.                                                     *)
LEMMA SumEmpty == \A f : SumFunctionOnSet(f, {}) = 0
<1> SUFFICES ASSUME NEW f PROVE SumFunctionOnSet(f, {}) = 0
  OBVIOUS
<1>1. IsFiniteSet({})
  BY FS_EmptySet, Zenon
<1>2. PICK iter : SumsOf(iter, f, {}) /\ SumFunctionOnSet(f, {}) = iter[{}]
  BY <1>1, SumUnfolds, Zenon
<1>3. QED
  BY <1>2 DEF SumsOf

(* The images under h of the members of a set.                             *)
Images(h, s) == {h[i] : i \in s}

(* An image is finite, and so is that of all members but one, the image    *)
(* without the image of that one, when h is one to one.                    *)
LEMMA ImagesAre ==
  ASSUME NEW S, IsFiniteSet(S), NEW h, \A i, j \in S : h[i] = h[j] => i = j
  PROVE  /\ IsFiniteSet(Images(h, S))
         /\ \A x \in S : h[x] \in Images(h, S) /\ Images(h, S) \ {h[x]} = Images(h, S \ {x})
<1> DEFINE m == [i \in S |-> h[i]]
<1>1. m \in Surjection(S, Images(h, S))
  BY DEF Surjection, Images
<1> HIDE DEF m
<1>2. IsFiniteSet(Images(h, S))
  BY <1>1, FS_Surjection, Zenon
<1>3. ASSUME NEW x \in S
      PROVE  h[x] \in Images(h, S) /\ Images(h, S) \ {h[x]} = Images(h, S \ {x})
  BY DEF Images
<1>4. QED
  BY <1>2, <1>3

(* Two sums, term by term: a relation that holds of nothing and of nothing *)
(* and survives the addition of a term to each side holds of the sums.      *)
LEMMA SumsRelate ==
  ASSUME NEW S, IsFiniteSet(S), NEW f, NEW g, NEW h, NEW R,
         \A i, j \in S : h[i] = h[j] => i = j,
         \A i \in S : f[i] \in Int /\ g[h[i]] \in Int,
         <<0, 0>> \in R,
         \A i \in S : \A a, b \in Int : <<a, b>> \in R => <<f[i] + a, g[h[i]] + b>> \in R
  PROVE  <<SumFunctionOnSet(f, S), SumFunctionOnSet(g, Images(h, S))>> \in R
<1> DEFINE P(s) == <<SumFunctionOnSet(f, s), SumFunctionOnSet(g, Images(h, s))>> \in R
           N == {n \in Nat : \A s \in SUBSET S : Cardinality(s) = n => P(s)}
<1>1. \A s \in SUBSET S : IsFiniteSet(s) /\ Cardinality(s) \in Nat
  BY FS_Subset, FS_CardinalityType, Zenon
<1>2. 0 \in N
  <2>1. ASSUME NEW s \in SUBSET S, Cardinality(s) = 0 PROVE P(s)
    <3>1. s = {}
      BY <1>1, <2>1, FS_EmptySet, Zenon
    <3>2. Images(h, s) = {}
      BY <3>1 DEF Images
    <3>3. QED
      BY <3>1, <3>2, SumEmpty
  <2>2. QED
    BY <2>1
<1>3. ASSUME NEW n \in Nat, n \in N PROVE n + 1 \in N
  <2>1. ASSUME NEW s \in SUBSET S, Cardinality(s) = n + 1 PROVE P(s)
    <3>1. Cardinality(s) # 0
      BY <2>1
    <3>2. PICK x \in s : TRUE
      BY <3>1, FS_EmptySet, Zenon
    <3> DEFINE r == s \ {x}
    <3>3. Cardinality(r) = IF x \in s THEN Cardinality(s) - 1 ELSE Cardinality(s)
      BY <1>1, FS_RemoveElement, Zenon
    <3>4. Cardinality(r) = n /\ r \in SUBSET S
      BY <2>1, <3>2, <3>3
    <3>5. P(r)
      BY <1>3, <3>4
    <3>6. IsFiniteSet(s) /\ IsFiniteSet(r) /\ \A i, j \in s : h[i] = h[j] => i = j
      BY <1>1, <3>4
    <3>7. /\ IsFiniteSet(Images(h, s)) /\ IsFiniteSet(Images(h, r))
          /\ h[x] \in Images(h, s) /\ Images(h, s) \ {h[x]} = Images(h, r)
      <4>1. \A i, j \in r : h[i] = h[j] => i = j
        BY <3>6
      <4>2. IsFiniteSet(Images(h, r))
        BY <3>6, <4>1, ImagesAre
      <4>3. QED
        BY <3>2, <3>6, <4>2, ImagesAre
    <3>8. \A i \in s : f[i] \in Int
      OBVIOUS
    <3>9. \A y \in Images(h, s) : g[y] \in Int
      BY DEF Images
    <3>10. SumFunctionOnSet(f, s) = f[x] + SumFunctionOnSet(f, r)
      BY <3>2, <3>6, <3>8, SumRemove
    <3>11. SumFunctionOnSet(g, Images(h, s)) = g[h[x]] + SumFunctionOnSet(g, Images(h, r))
      <4> DEFINE I == Images(h, s)
                 y == h[x]
      <4>1. IsFiniteSet(I) /\ y \in I /\ \A z \in I : g[z] \in Int
        BY <3>7, <3>9
      <4>2. I \ {y} = Images(h, r)
        BY <3>7
      <4> HIDE DEF I, y
      <4>3. SumFunctionOnSet(g, I) = g[y] + SumFunctionOnSet(g, I \ {y})
        BY <4>1, SumRemove
      <4>4. QED
        BY <4>2, <4>3 DEF I, y
    <3>12. SumFunctionOnSet(f, r) \in Int
      <4>1. \A i \in r : f[i] \in Int
        BY <3>4
      <4> HIDE DEF r
      <4>2. QED
        BY <3>6, <4>1, SumType
    <3>13. SumFunctionOnSet(g, Images(h, r)) \in Int
      <4>1. \A y \in Images(h, r) : g[y] \in Int
        BY <3>7, <3>9
      <4>2. QED
        BY <3>7, <4>1, SumType
    <3> HIDE DEF r
    <3>14. x \in S
      BY <3>2
    <3>15. QED
      BY <3>5, <3>10, <3>11, <3>12, <3>13, <3>14
  <2>2. QED
    BY <2>1
<1> HIDE DEF N
<1>4. \A n \in Nat : n \in N
  BY <1>2, <1>3, SetInduction
<1>5. QED
  BY <1>1, <1>4 DEF N

(* Equal terms have equal sums, whatever indexes them.                     *)
LEMMA SumImage ==
  ASSUME NEW S, IsFiniteSet(S), NEW f, NEW g, NEW h,
         \A i, j \in S : h[i] = h[j] => i = j,
         \A i \in S : f[i] \in Int /\ f[i] = g[h[i]]
  PROVE  SumFunctionOnSet(f, S) = SumFunctionOnSet(g, Images(h, S))
<1> DEFINE R == {<<a, a>> : a \in Int}
<1>1. <<0, 0>> \in R
  OBVIOUS
<1>2. ASSUME NEW i \in S, NEW a \in Int, NEW b \in Int, <<a, b>> \in R
      PROVE  <<f[i] + a, g[h[i]] + b>> \in R
  <2>1. a = b /\ f[i] + a \in Int
    BY <1>2
  <2>2. <<f[i] + a, g[h[i]] + b>> = <<f[i] + a, f[i] + a>>
    BY <2>1
  <2>3. QED
    BY <2>1, <2>2
<1> HIDE DEF R
<1>3. <<SumFunctionOnSet(f, S), SumFunctionOnSet(g, Images(h, S))>> \in R
  BY <1>1, <1>2, SumsRelate
<1>4. QED
  BY <1>3 DEF R

(* A factor of all terms is one of the sum.                                *)
LEMMA SumScale ==
  ASSUME NEW S, IsFiniteSet(S), NEW f, NEW g, NEW c \in Int,
         \A i \in S : g[i] \in Int /\ f[i] = c * g[i]
  PROVE  SumFunctionOnSet(f, S) = c * SumFunctionOnSet(g, S)
<1> DEFINE R == {<<c * a, a>> : a \in Int}
           h == [i \in S |-> i]
<1>1. Images(h, S) = S
  BY DEF Images
<1>2. \A i, j \in S : h[i] = h[j] => i = j
  OBVIOUS
<1>3. \A i \in S : f[i] \in Int /\ g[h[i]] \in Int
  OBVIOUS
<1>4. <<0, 0>> \in R
  <2>1. c * 0 = 0
    OBVIOUS
  <2>2. <<c * 0, 0>> \in R
    OBVIOUS
  <2>3. QED
    BY <2>1, <2>2
<1>5. ASSUME NEW i \in S, NEW a \in Int, NEW b \in Int, <<a, b>> \in R
      PROVE  <<f[i] + a, g[h[i]] + b>> \in R
  <2>1. a = c * b
    BY <1>5
  <2>2. f[i] + a = c * (g[i] + b) /\ g[i] + b \in Int
    BY <2>1
  <2>3. h[i] = i
    OBVIOUS
  <2>4. QED
    BY <2>2, <2>3
<1> HIDE DEF R, h
<1>6. <<SumFunctionOnSet(f, S), SumFunctionOnSet(g, Images(h, S))>> \in R
  BY <1>2, <1>3, <1>4, <1>5, SumsRelate
<1>7. <<SumFunctionOnSet(f, S), SumFunctionOnSet(g, S)>> \in R
  BY <1>1, <1>6
<1>8. QED
  BY <1>7 DEF R

(* u and v leave the same remainder modulo m.                              *)
Congruent(u, v, m) == \E k \in Int : u = v + k * m

(* Congruent terms have congruent sums.                                    *)
LEMMA SumCongruent ==
  ASSUME NEW S, IsFiniteSet(S), NEW f, NEW g, NEW m \in Int,
         \A i \in S : f[i] \in Int /\ g[i] \in Int /\ Congruent(f[i], g[i], m)
  PROVE  Congruent(SumFunctionOnSet(f, S), SumFunctionOnSet(g, S), m)
<1> DEFINE R == {ab \in Int \X Int : Congruent(ab[1], ab[2], m)}
           h == [i \in S |-> i]
<1>1. Images(h, S) = S
  BY DEF Images
<1>2. \A i, j \in S : h[i] = h[j] => i = j
  OBVIOUS
<1>3. \A i \in S : f[i] \in Int /\ g[h[i]] \in Int
  OBVIOUS
<1>4. <<0, 0>> \in R
  <2>1. 0 = 0 + 0 * m
    OBVIOUS
  <2>2. Congruent(0, 0, m)
    BY <2>1 DEF Congruent
  <2>3. QED
    BY <2>2
<1>5. ASSUME NEW i \in S, NEW a \in Int, NEW b \in Int, <<a, b>> \in R
      PROVE  <<f[i] + a, g[h[i]] + b>> \in R
  <2>1. PICK k \in Int : a = b + k * m
    BY <1>5 DEF Congruent
  <2>2. PICK l \in Int : f[i] = g[i] + l * m
    BY DEF Congruent
  <2>3. f[i] + a = (g[i] + b) + (k + l) * m /\ k + l \in Int
    BY <2>1, <2>2
  <2>4. h[i] = i /\ f[i] + a \in Int /\ g[i] + b \in Int
    OBVIOUS
  <2>5. Congruent(f[i] + a, g[i] + b, m)
    BY <2>3 DEF Congruent
  <2>6. QED
    BY <2>4, <2>5
<1> HIDE DEF R, h
<1>6. <<SumFunctionOnSet(f, S), SumFunctionOnSet(g, Images(h, S))>> \in R
  BY <1>2, <1>3, <1>4, <1>5, SumsRelate
<1>7. <<SumFunctionOnSet(f, S), SumFunctionOnSet(g, S)>> \in R
  BY <1>1, <1>6
<1>8. QED
  BY <1>7 DEF R

(* A sum over two sets with no member in common.                           *)
LEMMA SumUnion ==
  ASSUME NEW S, IsFiniteSet(S), NEW T, IsFiniteSet(T), S \cap T = {},
         NEW f, \A i \in S \cup T : f[i] \in Int
  PROVE  SumFunctionOnSet(f, S \cup T) = SumFunctionOnSet(f, S) + SumFunctionOnSet(f, T)
<1> DEFINE P(u) == SumFunctionOnSet(f, S \cup u) = SumFunctionOnSet(f, S) + SumFunctionOnSet(f, u)
           N == {n \in Nat : \A u \in SUBSET T : Cardinality(u) = n => P(u)}
<1>1. \A u \in SUBSET T : IsFiniteSet(u) /\ Cardinality(u) \in Nat /\ IsFiniteSet(S \cup u)
  BY FS_Subset, FS_CardinalityType, FS_Union, Zenon
<1>2. SumFunctionOnSet(f, S) \in Int
  BY SumType
<1>3. \A u \in SUBSET T : SumFunctionOnSet(f, u) \in Int
  BY <1>1, SumType
<1>4. 0 \in N
  <2>1. ASSUME NEW u \in SUBSET T, Cardinality(u) = 0 PROVE P(u)
    <3>1. u = {}
      BY <1>1, <2>1, FS_EmptySet, Zenon
    <3>2. S \cup u = S
      BY <3>1
    <3>3. QED
      BY <1>2, <3>1, <3>2, SumEmpty
  <2>2. QED
    BY <2>1
<1>5. ASSUME NEW n \in Nat, n \in N PROVE n + 1 \in N
  <2>1. ASSUME NEW u \in SUBSET T, Cardinality(u) = n + 1 PROVE P(u)
    <3>1. Cardinality(u) # 0
      BY <2>1
    <3>2. PICK x \in u : TRUE
      BY <3>1, FS_EmptySet, Zenon
    <3> DEFINE r == u \ {x}
               V == S \cup u
               Q == S \cup r
    <3>3. Cardinality(r) = IF x \in u THEN Cardinality(u) - 1 ELSE Cardinality(u)
      BY <1>1, FS_RemoveElement, Zenon
    <3>4. Cardinality(r) = n /\ r \in SUBSET T
      BY <2>1, <3>2, <3>3
    <3>5. P(r)
      BY <1>5, <3>4
    <3>6. V \ {x} = Q /\ x \in V
      BY <3>2
    <3>7. IsFiniteSet(V) /\ IsFiniteSet(u) /\ \A i \in V : f[i] \in Int
      BY <1>1
    <3>8. \A i \in u : f[i] \in Int
      OBVIOUS
    <3>9. SumFunctionOnSet(f, r) \in Int /\ f[x] \in Int
      BY <1>3, <3>2, <3>4
    <3> HIDE DEF V, Q
    <3>10. SumFunctionOnSet(f, V) = f[x] + SumFunctionOnSet(f, V \ {x})
      BY <3>6, <3>7, SumRemove
    <3>11. SumFunctionOnSet(f, u) = f[x] + SumFunctionOnSet(f, r)
      BY <3>2, <3>7, <3>8, SumRemove
    <3> HIDE DEF r
    <3>12. SumFunctionOnSet(f, Q) = SumFunctionOnSet(f, S) + SumFunctionOnSet(f, r)
      BY <3>5 DEF Q
    <3>13. SumFunctionOnSet(f, V) = f[x] + (SumFunctionOnSet(f, S) + SumFunctionOnSet(f, r))
      BY <3>6, <3>10, <3>12
    <3>14. QED
      BY <1>2, <3>9, <3>11, <3>13 DEF V
  <2>2. QED
    BY <2>1
<1> HIDE DEF N
<1>6. \A n \in Nat : n \in N
  BY <1>4, <1>5, SetInduction
<1>7. QED
  BY <1>1, <1>6 DEF N

(* The members of A with a given key.                                      *)
Keyed(A, key, w) == {a \in A : key[a] = w}

(* The keys of A but 0.                                                     *)
Keys(A, key) == {key[a] : a \in A} \ {0}

(* A sum of weighted values, one weight after the other: the values that   *)
(* share a weight are added up and multiplied once.                        *)
LEMMA SumOfGroups ==
  ASSUME NEW A, IsFiniteSet(A), NEW key, NEW val, NEW f, NEW t,
         \A a \in A : key[a] \in Int /\ val[a] \in Int /\ f[a] = key[a] * val[a],
         \A w \in Keys(A, key) : t[w] = w * SumFunctionOnSet(val, Keyed(A, key, w))
  PROVE  SumFunctionOnSet(t, Keys(A, key)) = SumFunctionOnSet(f, A)
<1> DEFINE K == {key[a] : a \in A}
           W == K \ {0}
           Of(U) == {a \in A : key[a] \in U}
           P(U) == SumFunctionOnSet(t, U) = SumFunctionOnSet(f, Of(U))
           N == {n \in Nat : \A U \in SUBSET W : Cardinality(U) = n => P(U)}
<1>0. Keys(A, key) = W /\ \A w \in W : t[w] = w * SumFunctionOnSet(val, Keyed(A, key, w))
  BY DEF Keys
<1>1. IsFiniteSet(K)
  <2>1. K = Images(key, A)
    BY DEF Images
  <2> DEFINE m == [a \in A |-> key[a]]
  <2>2. m \in Surjection(A, K)
    BY DEF Surjection
  <2> HIDE DEF m, K
  <2>3. QED
    BY <2>2, FS_Surjection, Zenon
<1>2. W \in SUBSET K /\ W \subseteq Int
  OBVIOUS
<1>3. IsFiniteSet(W)
  BY <1>1, <1>2, FS_Subset, Zenon
<1>4. \A U \in SUBSET W : IsFiniteSet(U) /\ Cardinality(U) \in Nat
  BY <1>3, FS_Subset, FS_CardinalityType, Zenon
<1>5. \A a \in A : key[a] \in Int /\ val[a] \in Int /\ f[a] = key[a] * val[a] /\ f[a] \in Int
  OBVIOUS
<1>6. \A B \in SUBSET A : /\ IsFiniteSet(B)
                          /\ SumFunctionOnSet(val, B) \in Int /\ SumFunctionOnSet(f, B) \in Int
  <2>1. \A B \in SUBSET A : IsFiniteSet(B)
    BY FS_Subset, Zenon
  <2>2. \A B \in SUBSET A : \A a \in B : val[a] \in Int /\ f[a] \in Int
    BY <1>5
  <2>3. QED
    BY <2>1, <2>2, SumType
<1>7. ASSUME NEW w \in K
      PROVE  SumFunctionOnSet(f, Keyed(A, key, w)) = w * SumFunctionOnSet(val, Keyed(A, key, w))
  <2> DEFINE B == Keyed(A, key, w)
  <2>1. B \in SUBSET A /\ \A a \in B : val[a] \in Int /\ f[a] = w * val[a]
    BY <1>5 DEF Keyed
  <2>2. w \in Int
    OBVIOUS
  <2>3. IsFiniteSet(B)
    BY <1>6, <2>1
  <2> HIDE DEF B
  <2>4. SumFunctionOnSet(f, B) = w * SumFunctionOnSet(val, B)
    BY <2>1, <2>2, <2>3, SumScale
  <2>5. QED
    BY <2>4 DEF B
<1>8. 0 \in N
  <2>1. ASSUME NEW U \in SUBSET W, Cardinality(U) = 0 PROVE P(U)
    <3>1. U = {}
      BY <1>4, <2>1, FS_EmptySet, Zenon
    <3>2. Of(U) = {}
      BY <3>1
    <3>3. QED
      BY <3>1, <3>2, SumEmpty
  <2>2. QED
    BY <2>1
<1>9. ASSUME NEW n \in Nat, n \in N PROVE n + 1 \in N
  <2>1. ASSUME NEW U \in SUBSET W, Cardinality(U) = n + 1 PROVE P(U)
    <3>1. Cardinality(U) # 0
      BY <2>1
    <3>2. PICK w \in U : TRUE
      BY <3>1, FS_EmptySet, Zenon
    <3> DEFINE r == U \ {w}
               B == Keyed(A, key, w)
               C == Of(r)
    <3>3. Cardinality(r) = IF w \in U THEN Cardinality(U) - 1 ELSE Cardinality(U)
      BY <1>4, FS_RemoveElement, Zenon
    <3>4. Cardinality(r) = n /\ r \in SUBSET W
      BY <2>1, <3>2, <3>3
    <3>5. SumFunctionOnSet(t, r) = SumFunctionOnSet(f, C)
      BY <1>9, <3>4
    <3>6. Of(U) = B \cup C /\ B \cap C = {} /\ B \in SUBSET A /\ C \in SUBSET A
      BY <3>2 DEF Keyed
    <3>7. w \in K /\ w \in W
      BY <3>2
    <3>8. t[w] = w * SumFunctionOnSet(val, B) /\ t[w] \in Int
      <4>1. t[w] = w * SumFunctionOnSet(val, B)
        BY <1>0, <3>7
      <4>2. SumFunctionOnSet(val, B) \in Int /\ w \in Int
        BY <1>2, <1>6, <3>6, <3>7
      <4> HIDE DEF B
      <4>3. QED
        BY <4>1, <4>2
    <3>9. SumFunctionOnSet(f, B) = t[w]
      BY <1>7, <3>7, <3>8
    <3>10. \A u \in U : t[u] \in Int
      <4> SUFFICES ASSUME NEW u \in U PROVE t[u] \in Int
        OBVIOUS
      <4> DEFINE D == Keyed(A, key, u)
      <4>1. t[u] = u * SumFunctionOnSet(val, D) /\ u \in Int
        BY <1>0, <1>2
      <4>2. D \in SUBSET A
        BY DEF Keyed
      <4> HIDE DEF D
      <4>3. SumFunctionOnSet(val, D) \in Int
        BY <1>6, <4>2
      <4>4. QED
        BY <4>1, <4>3
    <3> HIDE DEF B, C
    <3>11. IsFiniteSet(U)
      BY <1>4
    <3>12. SumFunctionOnSet(t, U) = t[w] + SumFunctionOnSet(t, r)
      BY <3>2, <3>10, <3>11, SumRemove
    <3>13. SumFunctionOnSet(f, B \cup C) = SumFunctionOnSet(f, B) + SumFunctionOnSet(f, C)
      <4>1. IsFiniteSet(B) /\ IsFiniteSet(C) /\ \A i \in B \cup C : f[i] \in Int
        BY <1>5, <1>6, <3>6
      <4>2. QED
        BY <3>6, <4>1, SumUnion
    <3>14. QED
      BY <3>5, <3>6, <3>9, <3>12, <3>13
  <2>2. QED
    BY <2>1
<1> HIDE DEF N
<1>10. \A n \in Nat : n \in N
  BY <1>8, <1>9, SetInduction
<1>11. P(W)
  BY <1>4, <1>10 DEF N
<1> DEFINE Z == Keyed(A, key, 0)
           B == Of(W)
<1>12. A = B \cup Z /\ B \cap Z = {} /\ B \in SUBSET A /\ Z \in SUBSET A
  BY DEF Keyed
<1>13. SumFunctionOnSet(f, Z) = 0
  <2>1. \A a \in Z : val[a] \in Int /\ f[a] = 0 * val[a]
    BY <1>5 DEF Keyed
  <2>2. IsFiniteSet(Z) /\ SumFunctionOnSet(val, Z) \in Int
    BY <1>6, <1>12
  <2> HIDE DEF Z
  <2>3. SumFunctionOnSet(f, Z) = 0 * SumFunctionOnSet(val, Z)
    BY <2>1, <2>2, SumScale
  <2>4. QED
    BY <2>2, <2>3
<1>14. SumFunctionOnSet(t, W) = SumFunctionOnSet(f, B)
  BY <1>11
<1>15. /\ IsFiniteSet(B) /\ IsFiniteSet(Z) /\ \A i \in B \cup Z : f[i] \in Int
       /\ SumFunctionOnSet(f, B) \in Int
  BY <1>5, <1>6, <1>12
<1> HIDE DEF B, Z
<1>16. SumFunctionOnSet(f, B \cup Z) = SumFunctionOnSet(f, B) + SumFunctionOnSet(f, Z)
  BY <1>12, <1>15, SumUnion
<1>17. SumFunctionOnSet(f, A) = SumFunctionOnSet(f, B)
  BY <1>12, <1>13, <1>15, <1>16
<1>18. QED
  BY <1>0, <1>14, <1>17
=============================================================================
