----------------------------- MODULE WalkProofs -----------------------------
(***************************************************************************)
(* What every walk over a node list may rely on.  First the order: it      *)
(* lists nodes without repetition, producers first, and it is complete     *)
(* exactly when no set of nodes waits for its own members.  Then the ops:  *)
(* the width the compiler derives for an op's output holds what the op     *)
(* computes from operands that fit theirs (OpFits), and narrower operands  *)
(* make nothing wider (InternalMonotone).  The modules of the walkers      *)
(* (GraphEval, RequantInsertion, CkksEval) cite these facts by name.       *)
(***************************************************************************)
EXTENDS Fusion, GraphWalk, ListLemmas, FiniteSetTheorems

(* A list, whatever its members are.                                       *)
LEMMA ListOfMembers ==
  ASSUME NEW S, NEW s \in Seq(S)
  PROVE  s \in Seq(ToSet(s)) /\ ToSet(s) \subseteq S
<1>1. /\ Len(s) \in Nat /\ DOMAIN s = 1 .. Len(s)
      /\ s = [i \in 1 .. Len(s) |-> s[i]] /\ \A i \in 1 .. Len(s) : s[i] \in S
  OBVIOUS
<1>2. ToSet(s) = {s[i] : i \in 1 .. Len(s)}
  BY <1>1 DEF ToSet
<1>3. \A i \in 1 .. Len(s) : s[i] \in ToSet(s)
  BY <1>2
<1> HIDE DEF ToSet
<1>4. s \in Seq(ToSet(s))
  BY <1>3
<1>5. QED
  BY <1>1, <1>2, <1>4

(* A list of numbers up to n that repeats none holds all of them exactly   *)
(* when it has n entries.                                                  *)
LEMMA FullWhenInjective ==
  ASSUME NEW n \in Nat, NEW o \in Seq(1 .. n),
         \A j, k \in 1 .. Len(o) : o[j] = o[k] => j = k
  PROVE  Len(o) <= n /\ (Len(o) = n <=> ToSet(o) = 1 .. n)
<1>1. IsFiniteSet(1 .. n) /\ Cardinality(1 .. n) = n
  <2>0. n \in Int /\ 1 \in Int
    OBVIOUS
  <2>1. /\ IsFiniteSet(1 .. n)
        /\ Cardinality(1 .. n) = IF 1 > n THEN 0 ELSE n - 1 + 1
    BY <2>0, FS_Interval, Zenon
  <2>2. QED
    BY <2>1
<1>2. IsFiniteSet(1 .. Len(o)) /\ Cardinality(1 .. Len(o)) = Len(o)
  <2>1. Len(o) \in Nat /\ Len(o) \in Int /\ 1 \in Int
    OBVIOUS
  <2>2. /\ IsFiniteSet(1 .. Len(o))
        /\ Cardinality(1 .. Len(o)) = IF 1 > Len(o) THEN 0 ELSE Len(o) - 1 + 1
    BY <2>1, FS_Interval, Zenon
  <2>3. QED
    BY <2>1, <2>2
<1>3. /\ Len(o) \in Nat /\ DOMAIN o = 1 .. Len(o)
      /\ o \in [1 .. Len(o) -> 1 .. n]
  OBVIOUS
<1>4. o \in Injection(1 .. Len(o), 1 .. n)
  BY <1>3 DEF Injection, IsInjective
<1>5. /\ Len(o) <= n
      /\ Len(o) = n <=> o \in Surjection(1 .. Len(o), 1 .. n)
  BY <1>1, <1>2, <1>4, FS_Injection
<1>6. o \in Surjection(1 .. Len(o), 1 .. n)
        <=> \A i \in 1 .. n : \E k \in 1 .. Len(o) : o[k] = i
  BY <1>3 DEF Surjection
<1>7. ToSet(o) = {o[k] : k \in 1 .. Len(o)}
  BY <1>3 DEF ToSet
<1>8. ToSet(o) \subseteq 1 .. n
  <2>1. \A k \in 1 .. Len(o) : o[k] \in 1 .. n
    BY <1>3
  <2>2. QED
    BY <1>7, <2>1
<1>9. (\A i \in 1 .. n : \E k \in 1 .. Len(o) : o[k] = i) <=> ToSet(o) = 1 .. n
  <2>1. \A i : i \in ToSet(o) <=> \E k \in 1 .. Len(o) : o[k] = i
    BY <1>7
  <2>2. QED
    BY <1>8, <2>1, Zenon
<1>10. QED
  BY <1>5, <1>6, <1>9, Zenon

-----------------------------------------------------------------------------
(* A set of nodes each of which waits for a member of the set.             *)
Deadlock(ns, S) ==
  S # {} /\ S \subseteq DOMAIN ns /\ \A i \in S : Producers(ns, i) \cap S # {}

(* A list of nodes of ns, none twice, each after its producers.            *)
ProducersFirst(ns, o) ==
  /\ o \in Seq(DOMAIN ns)
  /\ \A j, k \in 1 .. Len(o) : o[j] = o[k] => j = k
  /\ \A k \in 1 .. Len(o) : \A p \in Producers(ns, o[k]) : \E j \in 1 .. k-1 : o[j] = p

(* One entry of the order from the one before it.                          *)
Extend(ns, o) == IF Ready(ns, o) = {} THEN o ELSE Append(o, Min(Ready(ns, o)))

(* The entry appended has not been out, and its producers have.            *)
LEMMA ExtendKeepsOrder ==
  ASSUME NEW ns, NEW N \in Nat, DOMAIN ns = 1 .. N,
         NEW o, ProducersFirst(ns, o)
  PROVE  /\ ProducersFirst(ns, Extend(ns, o))
         /\ Ready(ns, o) = {} => Extend(ns, o) = o
         /\ Ready(ns, o) # {} => Len(Extend(ns, o)) = Len(o) + 1
<1>1. CASE Ready(ns, o) = {}
  BY <1>1 DEF Extend
<1>2. CASE Ready(ns, o) # {}
  <2> DEFINE r == Min(Ready(ns, o))
  <2>1. Ready(ns, o) \subseteq Nat
    BY DEF Ready
  <2>2. \E x \in Ready(ns, o) : \A y \in Ready(ns, o) : x <= y
    BY <1>2, <2>1, LeastNatural
  <2>3. r \in Ready(ns, o)
    BY <2>2 DEF Min
  <2>4. r \in DOMAIN ns /\ r \notin ToSet(o) /\ Producers(ns, r) \subseteq ToSet(o)
    BY <2>3 DEF Ready
  <2>5. Extend(ns, o) = Append(o, r)
    BY <1>2 DEF Extend
  <2>6. /\ o \in Seq(DOMAIN ns)
        /\ \A j, k \in 1 .. Len(o) : o[j] = o[k] => j = k
        /\ \A k \in 1 .. Len(o) : \A p \in Producers(ns, o[k]) : \E j \in 1 .. k-1 : o[j] = p
    BY DEF ProducersFirst
  <2>7. ToSet(o) = {o[k] : k \in 1 .. Len(o)} /\ Len(o) \in Nat
    BY <2>6 DEF ToSet
  <2> HIDE DEF r
  <2> DEFINE q == Append(o, r)
  <2>8. /\ q \in Seq(DOMAIN ns) /\ Len(q) = Len(o) + 1
        /\ q[Len(o) + 1] = r /\ \A k \in 1 .. Len(o) : q[k] = o[k]
    BY <2>4, <2>6
  <2> HIDE DEF q
  <2>9. \A j, k \in 1 .. Len(q) : q[j] = q[k] => j = k
    <3>1. \A k \in 1 .. Len(o) : q[k] # r
      BY <2>4, <2>7, <2>8
    <3>2. \A k \in 1 .. Len(q) : k \in 1 .. Len(o) \/ k = Len(o) + 1
      BY <2>7, <2>8
    <3>3. ASSUME NEW j \in 1 .. Len(q), NEW k \in 1 .. Len(q), q[j] = q[k] PROVE j = k
      <4>1. CASE j \in 1 .. Len(o) /\ k \in 1 .. Len(o)
        BY <2>6, <2>8, <3>3, <4>1, Zenon
      <4>2. CASE ~ (j \in 1 .. Len(o) /\ k \in 1 .. Len(o))
        BY <2>8, <3>1, <3>2, <3>3, <4>2, Zenon
      <4>3. QED
        BY <4>1, <4>2
    <3>4. QED
      BY <3>3, Zenon
  <2>10. ASSUME NEW k \in 1 .. Len(q), NEW p \in Producers(ns, q[k])
         PROVE  \E j \in 1 .. k-1 : q[j] = p
    <3>1. CASE k \in 1 .. Len(o)
      <4>1. PICK j \in 1 .. k-1 : o[j] = p
        BY <2>6, <2>8, <2>10, <3>1
      <4>2. j \in 1 .. Len(o)
        BY <2>7, <3>1
      <4>3. QED
        BY <2>8, <4>1, <4>2
    <3>2. CASE k = Len(o) + 1
      <4>1. p \in ToSet(o)
        BY <2>4, <2>8, <2>10, <3>2
      <4>2. PICK j \in 1 .. Len(o) : o[j] = p
        BY <2>7, <4>1
      <4>3. QED
        BY <2>7, <2>8, <3>2, <4>2
    <3>3. QED
      BY <2>7, <2>8, <3>1, <3>2
  <2>11. ProducersFirst(ns, q)
    BY <2>8, <2>9, <2>10 DEF ProducersFirst
  <2>12. QED
    BY <1>2, <2>5, <2>8, <2>11 DEF q
<1>3. QED
  BY <1>1, <1>2

-----------------------------------------------------------------------------
(* The order is what N extensions of the empty list give.                  *)
LEMMA OrderUnfolds ==
  ASSUME NEW ns, Len(ns) \in Nat
  PROVE  \E order :
           /\ order[0] = <<>>
           /\ \A k \in 1 .. Len(ns) : order[k] = Extend(ns, order[k-1])
           /\ StableOrder(ns) = order[Len(ns)]
<1> DEFINE Entry(f, k) == IF k = 0 THEN <<>>
                          ELSE LET o == f[k-1]
                               IN  IF Ready(ns, o) = {} THEN o ELSE Append(o, Min(Ready(ns, o)))
           Upto(n) == \E f : f = [k \in 0 .. n |-> Entry(f, k)]
           N == {n \in Nat : Upto(n)}
           F == CHOOSE f : f = [k \in 0 .. Len(ns) |-> Entry(f, k)]
<1>0. \A m \in Nat : m \in N <=> Upto(m)
  BY Zenon
<1>1. 0 \in N
  <2> DEFINE f == [k \in 0 .. 0 |-> <<>>]
  <2>1. \A k \in 0 .. 0 : Entry(f, k) = <<>>
    BY DEF Entry
  <2>2. f = [k \in 0 .. 0 |-> Entry(f, k)]
    BY <2>1
  <2>3. Upto(0)
    BY <2>2, Zenon
  <2>4. QED
    BY <1>0, <2>3
<1>2. ASSUME NEW n \in Nat, n \in N PROVE n + 1 \in N
  <2>0. Upto(n)
    BY <1>0, <1>2
  <2>1. PICK f : f = [k \in 0 .. n |-> Entry(f, k)]
    BY <2>0, Zenon
  <2> DEFINE h == [k \in 0 .. n + 1 |-> IF k = n + 1 THEN Entry(f, k) ELSE f[k]]
  <2>2. \A k \in 0 .. n : f[k] = Entry(f, k)
    BY <2>1, Zenon
  <2>3. \A k \in 0 .. n + 1 : h[k] = Entry(f, k)
    <3>1. \A k \in 0 .. n + 1 : k = n + 1 \/ k \in 0 .. n
      OBVIOUS
    <3> HIDE DEF Entry
    <3>2. QED
      BY <2>2, <3>1
  <2>4. \A k \in 0 .. n + 1 : k # 0 => h[k-1] = f[k-1]
    <3> HIDE DEF Entry
    <3>1. QED
      OBVIOUS
  <2>5. ASSUME NEW k \in 0 .. n + 1 PROVE Entry(h, k) = Entry(f, k)
    <3>1. CASE k = 0
      BY <3>1
    <3>2. CASE k # 0
      <4>1. h[k-1] = f[k-1]
        BY <2>4, <3>2
      <4> HIDE DEF h
      <4>2. QED
        BY <3>2, <4>1
    <3>3. QED
      BY <3>1, <3>2
  <2> HIDE DEF Entry
  <2>6. h = [k \in 0 .. n + 1 |-> Entry(h, k)]
    BY <2>3, <2>5
  <2> HIDE DEF h
  <2>7. Upto(n + 1)
    BY <2>6, Zenon
  <2>8. n + 1 \in Nat
    OBVIOUS
  <2> HIDE DEF N, Upto
  <2>9. QED
    BY <1>0, <2>7, <2>8
<1>3. Upto(Len(ns))
  <2> HIDE DEF N, Upto
  <2>1. \A n \in Nat : n \in N
    BY <1>1, <1>2, SetInduction
  <2>2. QED
    BY <1>0, <2>1
<1>4. F = [k \in 0 .. Len(ns) |-> Entry(F, k)]
  BY <1>3, Zenon
<1>5. StableOrder(ns) = F[Len(ns)]
  BY DEF StableOrder
<1> HIDE DEF F
<1>6. \A k \in 0 .. Len(ns) : F[k] = Entry(F, k)
  BY <1>4, Zenon
<1>7. F[0] = <<>>
  BY <1>6
<1>8. ASSUME NEW k \in 1 .. Len(ns) PROVE F[k] = Extend(ns, F[k-1])
  <2>1. k \in 0 .. Len(ns) /\ k # 0
    OBVIOUS
  <2>2. F[k] = Entry(F, k)
    BY <1>6, <2>1
  <2>3. QED
    BY <2>1, <2>2 DEF Extend
<1>9. QED
  BY <1>5, <1>7, <1>8, Zenon

(* The order is sound, and stops early only where nothing can run: it is   *)
(* complete exactly on the lists in which no set of nodes is deadlocked.   *)
LEMMA OrderIsSound ==
  ASSUME NEW S, NEW ns \in Seq(S)
  PROVE  /\ ProducersFirst(ns, StableOrder(ns))
         /\ Len(StableOrder(ns)) = Len(ns) => ToSet(StableOrder(ns)) = DOMAIN ns
         /\ Len(StableOrder(ns)) = Len(ns) <=> ~ \E T : Deadlock(ns, T)
<1>0. Len(ns) \in Nat /\ DOMAIN ns = 1 .. Len(ns)
  OBVIOUS
<1>1. PICK order : /\ order[0] = <<>>
                   /\ \A k \in 1 .. Len(ns) : order[k] = Extend(ns, order[k-1])
                   /\ StableOrder(ns) = order[Len(ns)]
  BY <1>0, OrderUnfolds
<1> DEFINE Good(k) == /\ ProducersFirst(ns, order[k])
                      /\ Len(order[k]) = k \/ Ready(ns, order[k]) = {}
           G == {k \in Nat : k \in 0 .. Len(ns) => Good(k)}
<1>2. 0 \in G
  <2>1. /\ <<>> \in Seq(DOMAIN ns) /\ Len(<<>>) = 0
        /\ \A k \in 1 .. Len(<<>>) : FALSE
    OBVIOUS
  <2>2. ProducersFirst(ns, <<>>)
    BY <2>1 DEF ProducersFirst
  <2>3. Good(0)
    BY <1>1, <2>1, <2>2
  <2> HIDE DEF Good
  <2>4. QED
    BY <2>3
<1>3. ASSUME NEW k \in Nat, k \in G PROVE k + 1 \in G
  <2> SUFFICES ASSUME k + 1 \in 0 .. Len(ns) PROVE Good(k + 1)
    OBVIOUS
  <2>1. Good(k)
    BY <1>3
  <2>2. order[k + 1] = Extend(ns, order[k])
    <3>1. k + 1 \in 1 .. Len(ns) /\ (k + 1) - 1 = k
      OBVIOUS
    <3>2. order[k + 1] = Extend(ns, order[(k + 1) - 1])
      BY <1>1, <3>1
    <3>3. QED
      BY <3>1, <3>2
  <2>3. /\ ProducersFirst(ns, order[k + 1])
        /\ Ready(ns, order[k]) = {} => order[k + 1] = order[k]
        /\ Ready(ns, order[k]) # {} => Len(order[k + 1]) = Len(order[k]) + 1
    BY <1>0, <2>1, <2>2, ExtendKeepsOrder
  <2>4. QED
    BY <2>1, <2>3
<1>4. Good(Len(ns))
  <2> HIDE DEF G, Good
  <2>1. \A k \in Nat : k \in G
    BY <1>2, <1>3, SetInduction
  <2>2. QED
    BY <1>0, <2>1 DEF G
<1> DEFINE o == StableOrder(ns)
<1>5. ProducersFirst(ns, o) /\ (Len(o) = Len(ns) \/ Ready(ns, o) = {})
  BY <1>1, <1>4
<1> HIDE DEF o, G, Good
<1>6. /\ o \in Seq(1 .. Len(ns)) /\ Len(o) \in Nat
      /\ \A j, k \in 1 .. Len(o) : o[j] = o[k] => j = k
      /\ \A k \in 1 .. Len(o) : \A p \in Producers(ns, o[k]) : \E j \in 1 .. k-1 : o[j] = p
  BY <1>0, <1>5 DEF ProducersFirst
<1>7. Len(o) <= Len(ns) /\ (Len(o) = Len(ns) <=> ToSet(o) = DOMAIN ns)
  BY <1>0, <1>6, FullWhenInjective
<1>8. ToSet(o) = {o[k] : k \in 1 .. Len(o)}
  BY <1>6 DEF ToSet
<1>9. ASSUME Len(o) = Len(ns), NEW T, Deadlock(ns, T) PROVE FALSE
  <2> DEFINE at == {k \in 1 .. Len(o) : o[k] \in T}
  <2>1. T # {} /\ T \subseteq DOMAIN ns /\ \A i \in T : Producers(ns, i) \cap T # {}
    BY <1>9 DEF Deadlock
  <2>2. at # {} /\ at \subseteq Nat
    <3>1. PICK i \in T : i \in ToSet(o)
      BY <1>7, <1>9, <2>1
    <3>2. PICK k \in 1 .. Len(o) : o[k] = i
      BY <1>8, <3>1
    <3>3. QED
      BY <3>1, <3>2
  <2>3. PICK k \in at : \A j \in at : k <= j
    BY <2>2, LeastNatural
  <2>4. PICK p \in Producers(ns, o[k]) : p \in T
    BY <2>1, <2>3
  <2>5. PICK j \in 1 .. k-1 : o[j] = p
    BY <1>6, <2>3, <2>4
  <2>6. j \in at /\ j < k
    BY <1>6, <2>3, <2>4, <2>5
  <2>7. QED
    BY <2>3, <2>6
<1>10. ASSUME Len(o) # Len(ns) PROVE \E T : Deadlock(ns, T)
  <2> DEFINE T == DOMAIN ns \ ToSet(o)
  <2>1. Ready(ns, o) = {}
    BY <1>5, <1>10
  <2>2. T # {} /\ T \subseteq DOMAIN ns
    BY <1>0, <1>6, <1>7, <1>8, <1>10
  <2>3. ASSUME NEW i \in T PROVE Producers(ns, i) \cap T # {}
    <3>1. ~ (Producers(ns, i) \subseteq ToSet(o))
      BY <2>1, <2>3 DEF Ready
    <3>2. Producers(ns, i) \subseteq DOMAIN ns
      BY DEF Producers
    <3>3. QED
      BY <3>1, <3>2
  <2> HIDE DEF T
  <2>4. Deadlock(ns, T)
    BY <2>2, <2>3 DEF Deadlock
  <2>5. QED
    BY <2>4
<1>11. QED
  BY <1>5, <1>7, <1>9, <1>10 DEF o

(* A list whose nodes read only what comes before them is its own order.   *)
LEMMA ListedOrder ==
  ASSUME NEW S, NEW ns \in Seq(S),
         \A i \in DOMAIN ns : \A p \in Producers(ns, i) : p < i
  PROVE  StableOrder(ns) = [k \in 1 .. Len(ns) |-> k]
<1> DEFINE N == Len(ns)
           id(k) == [i \in 1 .. k |-> i]
<1>0. N \in Nat /\ DOMAIN ns = 1 .. N
  OBVIOUS
<1>1. PICK order : /\ order[0] = <<>>
                   /\ \A k \in 1 .. N : order[k] = Extend(ns, order[k-1])
                   /\ StableOrder(ns) = order[N]
  BY <1>0, OrderUnfolds
<1> HIDE DEF N
<1> DEFINE G == {k \in Nat : k \in 0 .. N => order[k] = id(k)}
<1>2. 0 \in G
  <2>1. id(0) = <<>>
    OBVIOUS
  <2>2. QED
    BY <1>1, <2>1
<1>3. ASSUME NEW k \in Nat, k \in G PROVE k + 1 \in G
  <2> SUFFICES ASSUME k + 1 \in 0 .. N PROVE order[k + 1] = id(k + 1)
    OBVIOUS
  <2> DEFINE R == Ready(ns, id(k))
  <2>1. order[k + 1] = Extend(ns, id(k))
    <3>1. k \in 0 .. N /\ k + 1 \in 1 .. N /\ (k + 1) - 1 = k
      BY <1>0
    <3>2. order[k] = id(k)
      BY <1>3, <3>1
    <3>3. QED
      BY <1>1, <3>1, <3>2
  <2>2. ToSet(id(k)) = 1 .. k
    BY DEF ToSet
  <2>3. k + 1 \in R
    <3>1. k + 1 \in DOMAIN ns \ ToSet(id(k))
      BY <1>0, <2>2
    <3>2. Producers(ns, k + 1) \subseteq ToSet(id(k))
      <4> SUFFICES ASSUME NEW p \in Producers(ns, k + 1) PROVE p \in 1 .. k
        BY <2>2
      <4>1. p \in 1 .. N /\ p < k + 1
        BY <1>0, <3>1 DEF Producers
      <4>2. QED
        BY <1>0, <4>1
    <3>3. QED
      BY <3>1, <3>2 DEF Ready
  <2>4. \A y \in R : y \in Nat /\ k + 1 <= y
    BY <1>0, <2>2 DEF Ready
  <2> HIDE DEF R
  <2>5. Min(R) = k + 1
    <3>1. \A x \in R : (\A y \in R : x <= y) => x = k + 1
      BY <2>3, <2>4
    <3>2. k + 1 \in R /\ \A y \in R : k + 1 <= y
      BY <2>3, <2>4
    <3>3. QED
      BY <3>1, <3>2 DEF Min
  <2>6. Extend(ns, id(k)) = Append(id(k), k + 1)
    BY <2>3, <2>5 DEF Extend, R
  <2>7. Append(id(k), k + 1) = id(k + 1)
    OBVIOUS
  <2>8. QED
    BY <2>1, <2>6, <2>7
<1>4. order[N] = id(N)
  <2> HIDE DEF G
  <2>1. \A k \in Nat : k \in G
    BY <1>2, <1>3, SetInduction
  <2>2. QED
    BY <1>0, <2>1 DEF G
<1>5. QED
  BY <1>1, <1>4 DEF N

-----------------------------------------------------------------------------
(* A list without its entry i.                                             *)
LEMMA WithoutEntry ==
  ASSUME NEW S, NEW s \in Seq(S), NEW i \in 1 .. Len(s)
  PROVE  /\ RemoveAt(s, i) \in Seq(S)
         /\ Len(RemoveAt(s, i)) = Len(s) - 1
         /\ \A k \in 1 .. Len(s) - 1 : RemoveAt(s, i)[k] = s[IF k < i THEN k ELSE k + 1]
<1> DEFINE a == SubSeq(s, 1, i-1)
           b == SubSeq(s, i+1, Len(s))
<1>1. /\ a \in Seq(S) /\ Len(a) = i - 1
      /\ \A k \in 1 .. i-1 : a[k] = s[k]
  OBVIOUS
<1>2. /\ b \in Seq(S) /\ Len(b) = Len(s) - i
      /\ \A k \in 1 .. Len(s) - i : b[k] = s[k + i]
  OBVIOUS
<1>3. RemoveAt(s, i) = a \o b
  BY DEF RemoveAt
<1> HIDE DEF a, b
<1>4. /\ a \o b \in Seq(S) /\ Len(a \o b) = Len(a) + Len(b)
      /\ \A k \in 1 .. Len(a) + Len(b) :
           (a \o b)[k] = IF k <= Len(a) THEN a[k] ELSE b[k - Len(a)]
  <2>1. a \in Seq(S) /\ b \in Seq(S) /\ Len(a) \in Nat /\ Len(b) \in Nat
    BY <1>1, <1>2
  <2>2. a \o b \in Seq(S) /\ Len(a \o b) = Len(a) + Len(b)
    BY <2>1
  <2>3. ASSUME NEW k \in 1 .. Len(a) + Len(b)
        PROVE  (a \o b)[k] = IF k <= Len(a) THEN a[k] ELSE b[k - Len(a)]
    BY <2>1
  <2>4. QED
    BY <2>2, <2>3
<1>5. Len(s) \in Nat /\ Len(a) + Len(b) = Len(s) - 1
  BY <1>1, <1>2
<1>6. ASSUME NEW k \in 1 .. Len(s) - 1
      PROVE  (a \o b)[k] = s[IF k < i THEN k ELSE k + 1]
  <2>1. CASE k < i
    BY <1>1, <1>4, <1>5, <2>1
  <2>2. CASE k >= i
    <3>1. k - (i - 1) \in 1 .. Len(s) - i /\ (k - (i - 1)) + i = k + 1
      BY <1>5, <2>2
    <3>2. (a \o b)[k] = b[k - (i - 1)]
      BY <1>1, <1>4, <1>5, <2>2
    <3>3. b[k - (i - 1)] = s[k + 1]
      BY <1>2, <3>1
    <3>4. QED
      BY <1>5, <2>2, <3>2, <3>3
  <2>3. QED
    BY <1>5, <2>1, <2>2
<1>7. QED
  BY <1>3, <1>4, <1>5, <1>6

(* What a rewrite leaves where: the producer's place holds the fused node, *)
(* the consumer's is gone, and every other node is what it was.            *)
Was(c, k) == IF k < c THEN k ELSE k + 1

Layout(S, ns, p, c, fs) ==
  /\ fs \in Seq(S \cup {FusedNode(ns[p], ns[c])})
  /\ Len(fs) = Len(ns) - 1
  /\ p \in 1 .. Len(fs)
  /\ \A k \in 1 .. Len(fs) :
       /\ Was(c, k) \in 1 .. Len(ns) /\ Was(c, k) # c
       /\ fs[k] = IF k = p THEN FusedNode(ns[p], ns[c]) ELSE ns[Was(c, k)]
       /\ k = p <=> Was(c, k) = p
  /\ \A i \in 1 .. Len(ns) \ {c} : \E k \in 1 .. Len(fs) : Was(c, k) = i

(* Where each entry of the rewritten list was.                             *)
LEMMA FuseLayout ==
  ASSUME NEW S, NEW ns \in Seq(S), NEW p \in 1 .. Len(ns), NEW c \in 1 .. Len(ns), p < c
  PROVE  Layout(S, ns, p, c, Fuse(ns, p, c))
<1> DEFINE new == FusedNode(ns[p], ns[c])
           fs == Fuse(ns, p, c)
           es == [ns EXCEPT ![p] = new]
<1>1. fs = RemoveAt(es, c)
  BY DEF Fuse
<1> HIDE DEF new
<1>2. /\ es \in Seq(S \cup {new}) /\ Len(es) = Len(ns)
      /\ \A k \in 1 .. Len(ns) : es[k] = IF k = p THEN new ELSE ns[k]
  OBVIOUS
<1> HIDE DEF es, fs
<1>3. /\ fs \in Seq(S \cup {new}) /\ Len(fs) = Len(ns) - 1
      /\ \A k \in 1 .. Len(ns) - 1 : fs[k] = es[Was(c, k)]
  <2> DEFINE T == S \cup {new}
  <2>1. es \in Seq(T) /\ c \in 1 .. Len(es)
    BY <1>2
  <2> HIDE DEF T
  <2>2. /\ fs \in Seq(T) /\ Len(fs) = Len(es) - 1
        /\ \A k \in 1 .. Len(es) - 1 : fs[k] = es[Was(c, k)]
    BY <1>1, <2>1, WithoutEntry DEF Was
  <2>3. QED
    BY <1>2, <2>2 DEF T
<1>4. Len(ns) \in Nat /\ p \in 1 .. Len(fs)
  BY <1>3
<1>5. \A k \in 1 .. Len(fs) : /\ Was(c, k) \in 1 .. Len(ns) /\ Was(c, k) # c
                              /\ k = p <=> Was(c, k) = p
  BY <1>3, <1>4 DEF Was
<1>6. \A k \in 1 .. Len(fs) : fs[k] = IF k = p THEN new ELSE ns[Was(c, k)]
  BY <1>2, <1>3, <1>5
<1>7. ASSUME NEW i \in 1 .. Len(ns) \ {c}
      PROVE  \E k \in 1 .. Len(fs) : Was(c, k) = i
  <2>1. CASE i < c
    BY <1>3, <1>4, <2>1 DEF Was
  <2>2. CASE i > c
    <3>1. i - 1 \in 1 .. Len(fs) /\ Was(c, i - 1) = i
      BY <1>3, <1>4, <2>2 DEF Was
    <3>2. QED
      BY <3>1
  <2>3. QED
    BY <1>4, <1>7, <2>1, <2>2
<1>8. QED
  BY <1>3, <1>4, <1>5, <1>6, <1>7 DEF Layout, fs, new

(* The name between the two nodes of a rewrite is read by the consumer     *)
(* and by nobody else.                                                     *)
LEMMA OnlyReader ==
  ASSUME NEW ns, IsNodeList(ns), NEW outputs, NEW p \in DOMAIN ns, NEW c \in DOMAIN ns,
         Adjacent(ns, outputs, p, c)
  PROVE  LET t == ns[p].outs[1]
         IN  /\ ToSet(ns[p].outs) = {t}
             /\ \A i \in DOMAIN ns : t \in ToSet(ns[i].ins) <=> i = c
<1> DEFINE t == ns[p].outs[1]
<1>1. /\ Len(ns[p].outs) = 1
      /\ Readers(ns, t) = {<<c, 1>>}
  BY DEF Adjacent
<1>2. ns[p].outs \in Seq(ToSet(ns[p].outs))
  BY DEF IsNodeList, IsNode, HasLists
<1>3. ToSet(ns[p].outs) = {t}
  <2>1. DOMAIN ns[p].outs = 1 .. 1
    BY <1>1, <1>2
  <2>2. QED
    BY <2>1 DEF ToSet
<1> HIDE DEF t
<1>4. \A i \in DOMAIN ns : \A k \in DOMAIN ns[i].ins :
        ns[i].ins[k] = t => <<i, k>> \in Readers(ns, t)
  BY DEF Readers
<1>5. \A i \in DOMAIN ns : t \in ToSet(ns[i].ins) => i = c
  <2> SUFFICES ASSUME NEW i \in DOMAIN ns, t \in ToSet(ns[i].ins) PROVE i = c
    OBVIOUS
  <2>1. PICK k \in DOMAIN ns[i].ins : ns[i].ins[k] = t
    BY DEF ToSet
  <2>2. <<i, k>> = <<c, 1>>
    BY <1>1, <1>4, <2>1
  <2>3. QED
    BY <2>2
<1>6. t \in ToSet(ns[c].ins)
  <2>1. <<c, 1>> \in Readers(ns, t)
    BY <1>1
  <2>2. PICK i \in DOMAIN ns : <<c, 1>> \in {<<i, k>> : k \in {k \in DOMAIN ns[i].ins : ns[i].ins[k] = t}}
    BY <2>1 DEF Readers
  <2>3. PICK k \in DOMAIN ns[i].ins : ns[i].ins[k] = t /\ <<c, 1>> = <<i, k>>
    BY <2>2
  <2>4. QED
    BY <2>3 DEF ToSet
<1>7. QED
  BY <1>3, <1>5, <1>6 DEF t

(* Where the outputs of a node of the rewritten list come from.            *)
Wrote(p, c, k) == IF k = p THEN c ELSE Was(c, k)

Named(ns, p, c, fs) ==
  /\ \A k \in DOMAIN fs :
       /\ Was(c, k) \in DOMAIN ns /\ Was(c, k) # c
       /\ Wrote(p, c, k) \in DOMAIN ns /\ Wrote(p, c, k) # p
       /\ fs[k].ins = ns[Was(c, k)].ins
       /\ fs[k].outs = ns[Wrote(p, c, k)].outs
  /\ \A j, k \in DOMAIN fs : Wrote(p, c, j) = Wrote(p, c, k) => j = k
  /\ \A i \in DOMAIN ns \ {p} : \E k \in DOMAIN fs : Wrote(p, c, k) = i

(* Which names its entries read and write.                                 *)
LEMMA FuseNames ==
  ASSUME NEW ns, IsNodeList(ns), NEW p \in DOMAIN ns, NEW c \in DOMAIN ns, p < c
  PROVE  Named(ns, p, c, Fuse(ns, p, c))
<1> DEFINE fs == Fuse(ns, p, c)
           S == ToSet(ns)
           new == FusedNode(ns[p], ns[c])
<1>1. ns \in Seq(S)
  BY DEF IsNodeList
<1> HIDE DEF S
<1>2. DOMAIN ns = 1 .. Len(ns) /\ Len(ns) \in Nat
  BY <1>1
<1>3. /\ fs \in Seq(S \cup {new})
      /\ Len(fs) = Len(ns) - 1
      /\ p \in 1 .. Len(fs)
      /\ \A k \in 1 .. Len(fs) :
           /\ Was(c, k) \in 1 .. Len(ns) /\ Was(c, k) # c
           /\ fs[k] = IF k = p THEN new ELSE ns[Was(c, k)]
           /\ k = p <=> Was(c, k) = p
      /\ \A i \in 1 .. Len(ns) \ {c} : \E k \in 1 .. Len(fs) : Was(c, k) = i
  <2>1. Layout(S, ns, p, c, fs)
    BY <1>1, <1>2, FuseLayout
  <2>2. QED
    BY <2>1 DEF Layout
<1>4. new.ins = ns[p].ins /\ new.outs = ns[c].outs
  BY DEF FusedNode
<1> HIDE DEF new, fs
<1>5. DOMAIN fs = 1 .. Len(fs) /\ Len(fs) \in Nat
  BY <1>3
<1>6. ASSUME NEW k \in DOMAIN fs
      PROVE  /\ Was(c, k) \in DOMAIN ns /\ Was(c, k) # c
             /\ Wrote(p, c, k) \in DOMAIN ns /\ Wrote(p, c, k) # p
             /\ fs[k].ins = ns[Was(c, k)].ins
             /\ fs[k].outs = ns[Wrote(p, c, k)].outs
  <2>1. CASE k = p
    <3>1. Was(c, k) = p /\ fs[k] = new
      BY <1>3, <1>5, <2>1
    <3>2. Wrote(p, c, k) = c
      BY <2>1 DEF Wrote
    <3>3. c # p
      BY <1>2
    <3>4. fs[k].ins = ns[Was(c, k)].ins /\ fs[k].outs = ns[Wrote(p, c, k)].outs
      BY <1>4, <3>1, <3>2
    <3>5. QED
      BY <3>1, <3>2, <3>3, <3>4
  <2>2. CASE k # p
    BY <1>2, <1>3, <1>5, <2>2 DEF Wrote
  <2>3. QED
    BY <2>1, <2>2
<1>7. ASSUME NEW j \in DOMAIN fs, NEW k \in DOMAIN fs, Wrote(p, c, j) = Wrote(p, c, k)
      PROVE  j = k
  <2>1. j # p /\ k # p => Was(c, j) = Was(c, k)
    BY <1>7 DEF Wrote
  <2>2. j # p => Was(c, j) # c
    BY <1>3, <1>5
  <2>3. k # p => Was(c, k) # c
    BY <1>3, <1>5
  <2>4. (j = p /\ k # p) \/ (j # p /\ k = p) => FALSE
    BY <1>7, <2>2, <2>3 DEF Wrote
  <2>5. Was(c, j) = Was(c, k) => j = k
    BY <1>2, <1>5 DEF Was
  <2>6. QED
    BY <2>1, <2>4, <2>5
<1>8. ASSUME NEW i \in DOMAIN ns \ {p} PROVE \E k \in DOMAIN fs : Wrote(p, c, k) = i
  <2>1. CASE i = c
    BY <1>3, <1>5, <2>1 DEF Wrote
  <2>2. CASE i # c
    <3>1. PICK k \in 1 .. Len(fs) : Was(c, k) = i
      BY <1>2, <1>3, <2>2
    <3>2. k # p
      BY <1>3, <3>1
    <3>3. QED
      BY <1>5, <3>1, <3>2 DEF Wrote
  <2>3. QED
    BY <2>1, <2>2
<1>9. QED
  BY <1>6, <1>7, <1>8 DEF Named, fs

(* Fusing a producer with its only reader keeps a sortable list sortable:  *)
(* every name read is still written, none is written twice, and a set of   *)
(* nodes waiting for each other afterwards would have been one before,     *)
(* with the consumer in the place of the fused node.                       *)
LEMMA FuseKeepsSortable ==
  ASSUME NEW ns, IsNodeList(ns), NEW inputs, NEW outputs,
         NEW p \in DOMAIN ns, NEW c \in DOMAIN ns,
         Adjacent(ns, outputs, p, c), Sortable(ns, inputs)
  PROVE  Sortable(Fuse(ns, p, c), inputs)
<1> DEFINE fs == Fuse(ns, p, c)
           t == ns[p].outs[1]
           S == ToSet(ns)
           new == FusedNode(ns[p], ns[c])
<1>0. ns \in Seq(S)
  BY DEF IsNodeList
<1> HIDE DEF S
<1>1. p < c /\ DOMAIN ns = 1 .. Len(ns) /\ Len(ns) \in Nat
  BY <1>0 DEF Adjacent
<1>2. /\ ToSet(ns[p].outs) = {t}
      /\ \A i \in DOMAIN ns : t \in ToSet(ns[i].ins) <=> i = c
  BY OnlyReader
<1>3. /\ \A k \in DOMAIN fs :
           /\ Was(c, k) \in DOMAIN ns /\ Was(c, k) # c
           /\ Wrote(p, c, k) \in DOMAIN ns /\ Wrote(p, c, k) # p
           /\ fs[k].ins = ns[Was(c, k)].ins
           /\ fs[k].outs = ns[Wrote(p, c, k)].outs
      /\ \A j, k \in DOMAIN fs : Wrote(p, c, j) = Wrote(p, c, k) => j = k
      /\ \A i \in DOMAIN ns \ {p} : \E k \in DOMAIN fs : Wrote(p, c, k) = i
  <2>1. Named(ns, p, c, fs)
    BY <1>1, FuseNames
  <2>2. QED
    BY <2>1 DEF Named
<1>4. /\ \A i \in DOMAIN ns : ToSet(ns[i].ins) \subseteq inputs \cup Written(ns)
      /\ \A i \in DOMAIN ns :
           /\ IsInjective(ns[i].outs)
           /\ ToSet(ns[i].outs) \cap inputs = {}
           /\ \A j \in DOMAIN ns \ {i} : ToSet(ns[i].outs) \cap ToSet(ns[j].outs) = {}
      /\ Len(StableOrder(ns)) = Len(ns)
  BY DEF Sortable
<1>5. fs \in Seq(S \cup {new}) /\ p \in DOMAIN fs
  <2>1. Layout(S, ns, p, c, fs)
    BY <1>0, <1>1, FuseLayout
  <2>2. fs \in Seq(S \cup {new}) /\ p \in 1 .. Len(fs)
    BY <2>1 DEF Layout
  <2> HIDE DEF fs, new
  <2>3. QED
    BY <2>2
<1>6. ~ \E T : Deadlock(ns, T)
  BY <1>0, <1>4, OrderIsSound
<1> HIDE DEF fs, t, new
<1>7. ASSUME NEW k \in DOMAIN fs, NEW x \in ToSet(fs[k].ins)
      PROVE  x \in inputs \cup Written(fs)
  <2>1. x \in inputs \cup Written(ns)
    BY <1>3, <1>4, <1>7
  <2>2. ASSUME x \in Written(ns) PROVE x \in Written(fs)
    <3>1. PICK j \in DOMAIN ns : x \in ToSet(ns[j].outs)
      BY <2>2 DEF Written
    <3>2. j # p
      BY <1>2, <1>3, <1>7, <3>1
    <3>3. PICK m \in DOMAIN fs : Wrote(p, c, m) = j
      BY <1>3, <3>2
    <3>4. x \in ToSet(fs[m].outs)
      BY <1>3, <3>1, <3>3
    <3>5. QED
      BY <3>4 DEF Written
  <2>3. QED
    BY <2>1, <2>2
<1>8. ASSUME NEW k \in DOMAIN fs
      PROVE  /\ IsInjective(fs[k].outs)
             /\ ToSet(fs[k].outs) \cap inputs = {}
             /\ \A j \in DOMAIN fs \ {k} : ToSet(fs[k].outs) \cap ToSet(fs[j].outs) = {}
  <2>1. /\ fs[k].outs = ns[Wrote(p, c, k)].outs /\ Wrote(p, c, k) \in DOMAIN ns
    BY <1>3
  <2>2. ASSUME NEW j \in DOMAIN fs \ {k}
        PROVE  ToSet(fs[k].outs) \cap ToSet(fs[j].outs) = {}
    <3>1. /\ fs[j].outs = ns[Wrote(p, c, j)].outs /\ Wrote(p, c, j) \in DOMAIN ns
          /\ Wrote(p, c, j) # Wrote(p, c, k)
      BY <1>3
    <3>2. QED
      BY <1>4, <2>1, <3>1
  <2>3. QED
    BY <1>4, <2>1, <2>2
<1>9. ASSUME NEW T, Deadlock(fs, T) PROVE FALSE
  <2> DEFINE U == {Was(c, k) : k \in T} \cup {i \in {c} : p \in T}
  <2>1. T # {} /\ T \subseteq DOMAIN fs /\ \A k \in T : Producers(fs, k) \cap T # {}
    BY <1>9 DEF Deadlock
  <2>2. U # {} /\ U \subseteq DOMAIN ns
    <3>1. \A k \in T : Was(c, k) \in U /\ Was(c, k) \in DOMAIN ns
      BY <1>3, <2>1
    <3>2. QED
      BY <2>1, <3>1
  <2>3. Was(c, p) = p
    BY <1>1 DEF Was
  <2>4. \A k \in T : Wrote(p, c, k) \in U
    BY <2>1 DEF Wrote
  <2>5. ASSUME NEW k \in T PROVE Producers(ns, Was(c, k)) \cap U # {}
    <3>1. PICK q \in T : q \in Producers(fs, k)
      BY <2>1
    <3>2. q \in DOMAIN fs /\ k \in DOMAIN fs /\ ToSet(fs[q].outs) \cap ToSet(fs[k].ins) # {}
      BY <2>1, <3>1 DEF Producers
    <3>3. ToSet(ns[Wrote(p, c, q)].outs) \cap ToSet(ns[Was(c, k)].ins) # {}
      BY <1>3, <3>2
    <3>4. Wrote(p, c, q) \in Producers(ns, Was(c, k))
      BY <1>3, <3>2, <3>3 DEF Producers
    <3>5. QED
      BY <2>4, <3>4
  <2>6. ASSUME p \in T PROVE Producers(ns, c) \cap U # {}
    <3>1. p \in Producers(ns, c)
      BY <1>2 DEF Producers
    <3>2. p \in U
      BY <2>3, <2>6
    <3>3. QED
      BY <3>1, <3>2
  <2>7. \A i \in U : Producers(ns, i) \cap U # {}
    BY <2>5, <2>6
  <2> HIDE DEF U
  <2>8. Deadlock(ns, U)
    BY <2>2, <2>7 DEF Deadlock
  <2>9. QED
    BY <1>6, <2>8
<1>10. Len(StableOrder(fs)) = Len(fs)
  BY <1>5, <1>9, OrderIsSound
<1>11. QED
  BY <1>7, <1>8, <1>10 DEF Sortable, fs

(* The op of the fused node is one evaluation accepts again: a table of    *)
(* one entry per value of a block, whose entries fit a block when it is a  *)
(* rescale.                                                                *)
LEMMA FusedOpIsValid ==
  ASSUME NEW m, IsNode(m), NEW n, IsNode(n), Composable(m.op, n.op),
         m.op.type = "Requant" => FitsTable(Composed(m.op, n.op), m.op.outBits),
         Valid(m.op)
  PROVE  LET f == FusedOp(m.op, n.op)
         IN  /\ f.type \in {"Activation", "Requant"}
             /\ Valid(f)
             /\ "type" \in DOMAIN f
             /\ {"outBits", "lut"} \subseteq DOMAIN f /\ f.lut \in Seq(Nat)
             /\ f.type = "Requant" => {"clampLo", "zeroPoint", "channel"} \subseteq DOMAIN f
<1> DEFINE a == m.op
           b == n.op
           lut == Composed(a, b)
<1>1. a.type \in {"Activation", "Requant"} /\ b.type \in {"Activation", "Requant"}
  BY DEF Composable
<1>2. a.type = "Activation" => b.type = "Activation"
  BY DEF Composable
<1>3. /\ "type" \in DOMAIN a /\ "type" \in DOMAIN b
      /\ {"outBits", "lut"} \subseteq DOMAIN a /\ a.lut \in Seq(Nat)
      /\ {"outBits", "lut"} \subseteq DOMAIN b /\ b.lut \in Seq(Nat)
      /\ a.type = "Requant" => {"clampLo", "zeroPoint", "channel"} \subseteq DOMAIN a
  BY <1>1 DEF IsNode
<1>4. /\ lut \in Seq(Nat) /\ Len(lut) = Len(a.lut) /\ DOMAIN lut = DOMAIN a.lut
  <2>1. \A i \in DOMAIN a.lut : Index(a, b, a.lut[i]) \in DOMAIN b.lut
    BY DEF Composable
  <2>2. lut = [i \in DOMAIN a.lut |-> b.lut[Index(a, b, a.lut[i])]]
    BY DEF Composed
  <2>3. DOMAIN a.lut = 1 .. Len(a.lut) /\ Len(a.lut) \in Nat
    BY <1>3
  <2>4. \A i \in DOMAIN a.lut : b.lut[Index(a, b, a.lut[i])] \in Nat
    BY <1>3, <2>1
  <2> HIDE DEF lut, a, b
  <2>5. QED
    BY <2>2, <2>3, <2>4
<1> HIDE DEF lut
<1>5. CASE a.type = "Requant"
  <2> DEFINE f == [a EXCEPT !.lut = lut]
  <2>1. FusedOp(a, b) = f
    BY <1>5 DEF FusedOp, lut
  <2>2. DOMAIN f = DOMAIN a /\ f.lut = lut /\ f.type = "Requant"
    BY <1>3, <1>5
  <2>3. /\ f.outBits = a.outBits /\ f.clampLo = a.clampLo /\ f.zeroPoint = a.zeroPoint
        /\ f.channel = a.channel
    BY <1>3, <1>5
  <2>4. ValidRequant(a)
    BY <1>5 DEF Valid
  <2>5. \A i \in DOMAIN lut : lut[i] \in Message
    BY <1>5 DEF FitsTable, lut
  <2> HIDE DEF f, a, b
  <2>6. FloorImage(f) = FloorImage(a)
    BY <2>3 DEF FloorImage
  <2>7. ValidRequant(f)
    BY <1>4, <2>2, <2>3, <2>4, <2>5, <2>6 DEF ValidRequant
  <2>8. Valid(f)
    BY <2>2, <2>7 DEF Valid
  <2>9. QED
    BY <1>3, <1>4, <1>5, <2>1, <2>2, <2>8 DEF a, b
<1>6. CASE a.type = "Activation"
  <2> DEFINE f == [b EXCEPT !.lut = lut]
  <2>1. FusedOp(a, b) = f
    BY <1>6 DEF FusedOp, lut
  <2>2. DOMAIN f = DOMAIN b /\ f.lut = lut /\ f.type = "Activation"
    BY <1>2, <1>3, <1>6
  <2> HIDE DEF f, a, b
  <2>3. Valid(f)
    BY <2>2 DEF Valid
  <2>4. QED
    BY <1>3, <1>4, <2>1, <2>2, <2>3 DEF a, b
<1>7. QED
  BY <1>1, <1>5, <1>6

(* The rewritten list is a list of nodes that evaluation accepts.          *)
LEMMA FuseKeepsNodes ==
  ASSUME NEW ns, IsNodeList(ns), NEW outputs,
         NEW p \in DOMAIN ns, NEW c \in DOMAIN ns, Fusable(ns, outputs, p, c),
         \A i \in DOMAIN ns : Valid(ns[i].op) /\ Matched(ns[i])
  PROVE  /\ IsNodeList(Fuse(ns, p, c))
         /\ \A k \in DOMAIN Fuse(ns, p, c) :
              Valid(Fuse(ns, p, c)[k].op) /\ Matched(Fuse(ns, p, c)[k])
<1> DEFINE fs == Fuse(ns, p, c)
           S == ToSet(ns)
           new == FusedNode(ns[p], ns[c])
<1>1. ns \in Seq(S) /\ \A i \in DOMAIN ns : IsNode(ns[i])
  BY DEF IsNodeList
<1> HIDE DEF S
<1>2. DOMAIN ns = 1 .. Len(ns)
  BY <1>1
<1>3. /\ Adjacent(ns, outputs, p, c) /\ Composable(ns[p].op, ns[c].op)
      /\ ns[p].op.type = "Requant" => FitsTable(Composed(ns[p].op, ns[c].op), ns[p].op.outBits)
  BY DEF Fusable
<1>4. p < c
  BY <1>2, <1>3 DEF Adjacent
<1>5. Layout(S, ns, p, c, fs)
  BY <1>1, <1>2, <1>4, FuseLayout
<1>6. /\ new.op.type \in {"Activation", "Requant"}
      /\ Valid(new.op)
      /\ "type" \in DOMAIN new.op
      /\ {"outBits", "lut"} \subseteq DOMAIN new.op /\ new.op.lut \in Seq(Nat)
      /\ new.op.type = "Requant" => {"clampLo", "zeroPoint", "channel"} \subseteq DOMAIN new.op
  <2>1. new.op = FusedOp(ns[p].op, ns[c].op)
    BY DEF FusedNode
  <2> HIDE DEF new
  <2>2. IsNode(ns[p]) /\ IsNode(ns[c]) /\ Valid(ns[p].op)
    BY <1>1
  <2>3. QED
    BY <1>3, <2>1, <2>2, FusedOpIsValid
<1>7. /\ new.ins = ns[p].ins /\ new.outs = ns[c].outs
      /\ new = [op |-> new.op, ins |-> new.ins, outs |-> new.outs]
  BY DEF FusedNode
<1> HIDE DEF new
<1>8. IsNode(new)
  <2>1. IsNode(ns[p]) /\ IsNode(ns[c])
    BY <1>1
  <2>2. QED
    BY <1>6, <1>7, <2>1 DEF IsNode, HasLists
<1>9. Matched(new)
  <2>1. Len(ns[p].ins) = 1
    <3>1. ns[p].op.type \in {"Activation", "Requant"} /\ Matched(ns[p])
      BY <1>3 DEF Composable
    <3>2. QED
      BY <3>1 DEF Matched, Arity
  <2>2. Len(ns[c].outs) = 1
    BY <1>3 DEF Adjacent
  <2>3. Arity(new.op) = 1 /\ OutArity(new.op) = 1
    BY <1>6 DEF Arity, OutArity
  <2>4. QED
    BY <1>7, <2>1, <2>2, <2>3 DEF Matched
<1> HIDE DEF fs
<1>10. /\ fs \in Seq(S \cup {new})
       /\ \A k \in 1 .. Len(fs) : fs[k] = new \/ \E i \in DOMAIN ns : fs[k] = ns[i]
  BY <1>2, <1>5 DEF Layout, new
<1>11. fs \in Seq(ToSet(fs)) /\ DOMAIN fs = 1 .. Len(fs)
  BY <1>10, ListOfMembers
<1>12. \A k \in DOMAIN fs : IsNode(fs[k]) /\ Valid(fs[k].op) /\ Matched(fs[k])
  BY <1>1, <1>6, <1>8, <1>9, <1>10, <1>11
<1>13. QED
  BY <1>11, <1>12 DEF IsNodeList, fs

(* There is a first pair to rewrite whenever there is a pair.              *)
LEMMA FirstPairIsFusable ==
  ASSUME NEW ns, IsNodeList(ns), NEW outputs, FusablePairs(ns, outputs) # {}
  PROVE  LET pc == FirstPair(ns, outputs)
         IN  pc[1] \in DOMAIN ns /\ pc[2] \in DOMAIN ns /\ Fusable(ns, outputs, pc[1], pc[2])
<1> DEFINE P == FusablePairs(ns, outputs)
           firsts == {pc[1] : pc \in P}
<1>1. DOMAIN ns \subseteq Nat
  BY DEF IsNodeList
<1>2. \A pc \in P : pc \in (DOMAIN ns) \X (DOMAIN ns) /\ Fusable(ns, outputs, pc[1], pc[2])
  BY DEF FusablePairs
<1> HIDE DEF P
<1>3. firsts # {} /\ firsts \subseteq Nat
  <2>1. P # {}
    BY DEF P
  <2>2. QED
    BY <1>1, <1>2, <2>1
<1>4. PICK a \in firsts : \A b \in firsts : a <= b
  BY <1>3, LeastNatural
<1>5. \E pc \in P : \A qd \in P : pc[1] <= qd[1]
  BY <1>4
<1>6. FirstPair(ns, outputs) \in P
  BY <1>5 DEF FirstPair, P
<1>7. QED
  BY <1>2, <1>6

(* The tables of a node that may be fused.                                 *)
IsTable(op) == op.type \in {"Activation", "Requant"} /\ {"outBits", "lut"} \subseteq DOMAIN op

-----------------------------------------------------------------------------
(* Bits and magnitudes.                                                    *)

(* A magnitude, as an interval.                                            *)
LEMMA MagnitudeIs ==
  ASSUME NEW v \in Int
  PROVE  /\ Magnitude(v) \in Nat
         /\ \A n \in Nat : (Magnitude(v) < n <=> -n < v /\ v < n)
  BY DEF Magnitude

(* MagnitudeBits bits hold a magnitude.                                    *)
LEMMA MagnitudeBitsHold ==
  ASSUME NEW v \in Int
  PROVE  MagnitudeBits(v) \in Nat /\ Magnitude(v) < 2^MagnitudeBits(v)
<1> DEFINE M == Magnitude(v)
           K == {k \in Nat : M < 2^k}
<1>1. M \in Nat /\ \A k \in Nat : 2^k \in Nat
  BY MagnitudeIs, PowerStep
<1>2. MagnitudeBits(v) = CHOOSE k \in 0 .. M : M < 2^k /\ \A j \in 0 .. k-1 : 2^j <= M
  BY DEF MagnitudeBits
<1> HIDE DEF M
<1>3. M \in K
  BY <1>1, PowerBounds
<1>4. PICK k \in K : \A j \in K : k <= j
  <2>1. K \subseteq Nat /\ K # {}
    BY <1>3
  <2> HIDE DEF K
  <2>2. QED
    BY <2>1, LeastNatural
<1>5. k \in 0 .. M /\ M < 2^k
  BY <1>1, <1>3, <1>4
<1>6. \A j \in 0 .. k-1 : 2^j <= M
  <2> SUFFICES ASSUME NEW j \in 0 .. k-1 PROVE 2^j <= M
    OBVIOUS
  <2>1. j \in Nat /\ j \notin K
    BY <1>4
  <2>2. 2^j \in Nat /\ ~ (M < 2^j)
    BY <1>1, <2>1
  <2>3. QED
    BY <1>1, <2>2
<1>7. MagnitudeBits(v) \in 0 .. M /\ M < 2^MagnitudeBits(v)
  BY <1>2, <1>5, <1>6, Zenon
<1>8. QED
  BY <1>1, <1>7 DEF M

(* CeilLog2 bits count to n, and no fewer do.                              *)
LEMMA CeilLog2Holds ==
  ASSUME NEW n \in Nat
  PROVE  /\ CeilLog2(n) \in Nat /\ n <= 2^CeilLog2(n)
         /\ \A j \in 0 .. CeilLog2(n) - 1 : 2^j < n
<1> DEFINE K == {k \in Nat : n <= 2^k}
<1>1. \A k \in Nat : 2^k \in Nat
  BY PowerStep
<1>2. CeilLog2(n) = CHOOSE k \in 0 .. n : n <= 2^k /\ \A j \in 0 .. k-1 : 2^j < n
  BY DEF CeilLog2
<1>3. n \in K
  <2>1. n < 2^n /\ 2^n \in Nat
    BY <1>1, PowerBounds
  <2>2. QED
    BY <2>1
<1>4. PICK k \in K : \A j \in K : k <= j
  <2>1. K \subseteq Nat /\ K # {}
    BY <1>3
  <2> HIDE DEF K
  <2>2. QED
    BY <2>1, LeastNatural
<1>5. k \in 0 .. n /\ n <= 2^k
  BY <1>3, <1>4
<1>6. \A j \in 0 .. k-1 : 2^j < n
  <2> SUFFICES ASSUME NEW j \in 0 .. k-1 PROVE 2^j < n
    OBVIOUS
  <2>1. j \in Nat /\ j \notin K
    BY <1>4
  <2>2. 2^j \in Nat /\ ~ (n <= 2^j)
    BY <1>1, <2>1
  <2>3. QED
    BY <2>2
<1>7. /\ CeilLog2(n) \in 0 .. n /\ n <= 2^CeilLog2(n)
      /\ \A j \in 0 .. CeilLog2(n) - 1 : 2^j < n
  BY <1>2, <1>5, <1>6, Zenon
<1>8. QED
  BY <1>7

(* The larger and the smaller of two integers.                             *)
LEMMA LargerSmaller ==
  ASSUME NEW a \in Int, NEW b \in Int
  PROVE  /\ Larger(a, b) = IF a >= b THEN a ELSE b
         /\ Smaller(a, b) = IF a <= b THEN a ELSE b
<1>1. \E x \in {a, b} : \A y \in {a, b} : x >= y
  OBVIOUS
<1>2. \E x \in {a, b} : \A y \in {a, b} : x <= y
  OBVIOUS
<1>3. Max({a, b}) \in {a, b} /\ \A y \in {a, b} : Max({a, b}) >= y
  BY <1>1 DEF Max
<1>4. Min({a, b}) \in {a, b} /\ \A y \in {a, b} : Min({a, b}) <= y
  BY <1>2 DEF Min
<1>5. Max({a, b}) = IF a >= b THEN a ELSE b
  BY <1>3
<1>6. Min({a, b}) = IF a <= b THEN a ELSE b
  BY <1>4
<1>7. QED
  BY <1>5, <1>6 DEF Larger, Smaller

(* The largest width of a list.                                            *)
LEMMA MaxBitsIs ==
  ASSUME NEW b, DOMAIN b = 1 .. Len(b), Len(b) \in Nat \ {0},
         \A k \in DOMAIN b : b[k] \in Nat
  PROVE  MaxBits(b) \in Nat /\ \A k \in DOMAIN b : b[k] <= MaxBits(b)
<1> DEFINE S == {b[k] : k \in DOMAIN b}
<1>1. S \subseteq Int /\ b[1] \in S /\ S \subseteq Nat
  OBVIOUS
<1>2. IsFiniteSet(S)
  <2>1. IsFiniteSet(1 .. Len(b))
    <3>1. Len(b) \in Int /\ 1 \in Int
      OBVIOUS
    <3>2. QED
      BY <3>1, FS_Interval, Zenon
  <2> DEFINE f == [k \in 1 .. Len(b) |-> b[k]]
  <2>2. f \in Surjection(1 .. Len(b), S)
    BY DEF Surjection
  <2> HIDE DEF f, S
  <2>3. QED
    BY <2>1, <2>2, FS_Surjection, Zenon
<1>3. MaxBits(b) = Max(S)
  BY DEF MaxBits
<1> HIDE DEF S
<1>4. Max(S) \in S /\ \A y \in S : y <= Max(S)
  BY <1>1, <1>2, LargestInteger
<1>5. QED
  BY <1>1, <1>3, <1>4 DEF S

(* The entries of a bounded tensor.                                        *)
LEMMA BelowEntry ==
  ASSUME NEW x, NEW k, Below(x, k), NEW i \in 1 .. Len(x)
  PROVE  x[i] \in Int /\ Magnitude(x[i]) < 2^k
  BY DEF Below

(* A bound on magnitudes may be raised.                                    *)
LEMMA BelowMore ==
  ASSUME NEW x, NEW b \in Nat, NEW c \in Nat, b <= c, Below(x, b)
  PROVE  Below(x, c)
<1>1. x \in Seq(Int) /\ \A i \in DOMAIN x : Magnitude(x[i]) < 2^b
  BY DEF Below
<1>2. 2^b \in Nat /\ 2^c \in Nat /\ 2^b <= 2^c
  BY PowerStep, PowerBounds
<1>3. \A i \in DOMAIN x : Magnitude(x[i]) < 2^c
  <2> SUFFICES ASSUME NEW i \in DOMAIN x PROVE Magnitude(x[i]) < 2^c
    OBVIOUS
  <2>1. x[i] \in Int /\ Magnitude(x[i]) < 2^b
    BY <1>1
  <2>2. Magnitude(x[i]) \in Nat
    BY <2>1, MagnitudeIs
  <2>3. QED
    BY <1>2, <2>1, <2>2
<1>4. QED
  BY <1>1, <1>3 DEF Below

(* A composed table keeps to the width its node declares.                  *)
LEMMA FusedDeclared ==
  ASSUME NEW a, IsTable(a), Declared(a), NEW b, IsTable(b), Declared(b), Composable(a, b),
         a.type = "Requant" => FitsTable(Composed(a, b), a.outBits)
  PROVE  Declared(FusedOp(a, b))
<1> DEFINE lut == Composed(a, b)
           f == FusedOp(a, b)
<1>1. /\ a.outBits \in Nat /\ a.lut \in Seq(Nat)
      /\ b.outBits \in Nat /\ b.lut \in Seq(Nat) /\ Below(b.lut, b.outBits)
  BY DEF Declared, IsTable
<1>2. /\ DOMAIN a.lut = 1 .. Len(a.lut) /\ Len(a.lut) \in Nat
      /\ \A j \in DOMAIN a.lut : Index(a, b, a.lut[j]) \in DOMAIN b.lut
  BY <1>1 DEF Composable
<1>3. lut = [j \in DOMAIN a.lut |-> b.lut[Index(a, b, a.lut[j])]]
  BY DEF Composed
<1>4. /\ lut \in Seq(Nat) /\ DOMAIN lut = DOMAIN a.lut
      /\ \A j \in DOMAIN lut : Magnitude(lut[j]) < 2^b.outBits
  <2>1. \A j \in DOMAIN a.lut : /\ b.lut[Index(a, b, a.lut[j])] \in Nat
                                /\ Magnitude(b.lut[Index(a, b, a.lut[j])]) < 2^b.outBits
    BY <1>1, <1>2 DEF Below
  <2> HIDE DEF lut
  <2>2. QED
    BY <1>2, <1>3, <2>1
<1> HIDE DEF lut
<1>5. lut \in Seq(Int)
  BY <1>4
<1>6. CASE a.type = "Requant"
  <2>1. FitsTable(lut, a.outBits)
    BY <1>6 DEF lut
  <2> DEFINE V == {lut[j] : j \in DOMAIN lut}
             S == {0} \cup V
             M == Max(S)
  <2>2. MagnitudeBits(M) <= a.outBits
    BY <2>1 DEF FitsTable
  <2>3. IsFiniteSet(S)
    <3>1. DOMAIN lut = 1 .. Len(lut) /\ Len(lut) \in Int /\ 1 \in Int
      BY <1>4
    <3>2. IsFiniteSet(DOMAIN lut)
      BY <3>1, FS_Interval, Zenon
    <3> DEFINE h == [j \in DOMAIN lut |-> lut[j]]
    <3>3. h \in Surjection(DOMAIN lut, V)
      BY DEF Surjection
    <3> HIDE DEF h, V
    <3>4. IsFiniteSet(V)
      BY <3>2, <3>3, FS_Surjection, Zenon
    <3>5. IsFiniteSet({0})
      BY FS_Singleton, Zenon
    <3>6. QED
      BY <3>4, <3>5, FS_Union, Zenon
  <2>4. S \subseteq Nat /\ S \subseteq Int /\ 0 \in S /\ \A j \in DOMAIN lut : lut[j] \in S
    BY <1>4
  <2> HIDE DEF S
  <2>5. M \in Nat /\ \A y \in S : y <= M
    BY <2>3, <2>4, LargestInteger
  <2> HIDE DEF M
  <2>6. M < 2^a.outBits /\ 2^a.outBits \in Nat
    <3> DEFINE k == MagnitudeBits(M)
    <3>1. k \in Nat /\ Magnitude(M) < 2^k
      BY <2>5, MagnitudeBitsHold
    <3>2. Magnitude(M) = M
      BY <2>5 DEF Magnitude
    <3>3. k <= a.outBits
      BY <2>2
    <3> HIDE DEF k
    <3>4. 2^k \in Nat /\ 2^a.outBits \in Nat /\ 2^k <= 2^a.outBits
      BY <1>1, <3>1, <3>3, PowerStep, PowerBounds
    <3>5. QED
      BY <2>5, <3>1, <3>2, <3>4
  <2>7. \A j \in DOMAIN lut : Magnitude(lut[j]) < 2^a.outBits
    <3> SUFFICES ASSUME NEW j \in DOMAIN lut PROVE Magnitude(lut[j]) < 2^a.outBits
      OBVIOUS
    <3>1. lut[j] \in Nat /\ lut[j] <= M
      BY <1>4, <2>4, <2>5
    <3>2. Magnitude(lut[j]) = lut[j]
      BY <3>1 DEF Magnitude
    <3>3. QED
      BY <2>5, <2>6, <3>1, <3>2
  <2>8. Below(lut, a.outBits)
    BY <1>5, <2>7 DEF Below
  <2>9. f = [a EXCEPT !.lut = lut]
    BY <1>6 DEF FusedOp, lut
  <2> HIDE DEF f
  <2>10. /\ f.type = "Requant" /\ f.lut = lut /\ f.outBits = a.outBits
         /\ f.channel = a.channel /\ f.channelSize = a.channelSize
         /\ f.clampLo = a.clampLo /\ f.zeroPoint = a.zeroPoint
    BY <1>6, <2>9 DEF IsTable
  <2>11. Declared(f)
    BY <1>1, <1>4, <1>6, <2>8, <2>10 DEF Declared, OpTypes
  <2>12. QED
    BY <2>11 DEF f
<1>7. CASE a.type = "Activation"
  <2>1. Below(lut, b.outBits)
    BY <1>4, <1>5 DEF Below
  <2>2. f = [b EXCEPT !.lut = lut] /\ b.type = "Activation"
    BY <1>7 DEF FusedOp, Composable, lut
  <2> HIDE DEF f
  <2>3. f.type = "Activation" /\ f.lut = lut /\ f.outBits = b.outBits
    BY <2>2 DEF IsTable
  <2>4. Declared(f)
    BY <1>1, <1>4, <2>1, <2>3 DEF Declared, OpTypes
  <2>5. QED
    BY <2>4 DEF f
<1>8. QED
  BY <1>6, <1>7 DEF IsTable

(* A product of two bounded integers.                                      *)
LEMMA ProductBound ==
  ASSUME NEW a \in Int, NEW c \in Int, NEW P \in Nat, NEW Q \in Nat,
         -P <= a, a <= P, -Q <= c, c <= Q
  PROVE  -(P * Q) <= a * c /\ a * c <= P * Q
<1>1. \A k, l, m, n \in Nat : k <= m /\ l <= n => k * l <= m * n /\ k * l \in Nat
  <2> SUFFICES ASSUME NEW k \in Nat, NEW l \in Nat, NEW m \in Nat, NEW n \in Nat, k <= m, l <= n
               PROVE  k * l <= m * n /\ k * l \in Nat
    OBVIOUS
  <2>1. PICK d \in Nat : m = k + d
    OBVIOUS
  <2>2. PICK e \in Nat : n = l + e
    OBVIOUS
  <2>3. m * n = k * l + k * e + d * l + d * e
    BY <2>1, <2>2
  <2>4. k * l \in Nat /\ k * e \in Nat /\ d * l \in Nat /\ d * e \in Nat
    OBVIOUS
  <2>5. QED
    BY <2>3, <2>4
<1>2. CASE a >= 0 /\ c >= 0
  <2>1. a * c <= P * Q /\ a * c \in Nat /\ P * Q \in Nat
    BY <1>1, <1>2
  <2>2. QED
    BY <2>1
<1>3. CASE a < 0 /\ c < 0
  <2>1. (-a) * (-c) <= P * Q /\ (-a) * (-c) \in Nat /\ P * Q \in Nat
    BY <1>1, <1>3
  <2>2. (-a) * (-c) = a * c
    OBVIOUS
  <2>3. QED
    BY <2>1, <2>2
<1>4. CASE a >= 0 /\ c < 0
  <2>1. a * (-c) <= P * Q /\ a * (-c) \in Nat /\ P * Q \in Nat
    BY <1>1, <1>4
  <2>2. a * (-c) = -(a * c) /\ a * c \in Int
    OBVIOUS
  <2>3. QED
    BY <2>1, <2>2
<1>5. CASE a < 0 /\ c >= 0
  <2>1. (-a) * c <= P * Q /\ (-a) * c \in Nat /\ P * Q \in Nat
    BY <1>1, <1>5
  <2>2. (-a) * c = -(a * c) /\ a * c \in Int
    OBVIOUS
  <2>3. QED
    BY <2>1, <2>2
<1>6. QED
  BY <1>2, <1>3, <1>4, <1>5

(* A sum of at most n terms of a magnitude up to 2^p.                      *)
LEMMA SumFits ==
  ASSUME NEW S, IsFiniteSet(S), NEW f, NEW p \in Nat, NEW n \in Nat, Cardinality(S) <= n,
         \A i \in S : f[i] \in Int /\ -(2^p) <= f[i] /\ f[i] <= 2^p
  PROVE  /\ SumFunctionOnSet(f, S) \in Int
         /\ -(2^(p + CeilLog2(n))) <= SumFunctionOnSet(f, S)
         /\ SumFunctionOnSet(f, S) <= 2^(p + CeilLog2(n))
<1> DEFINE P == 2^p
           L == 2^CeilLog2(n)
           C == Cardinality(S)
           sum == SumFunctionOnSet(f, S)
<1>1. P \in Nat /\ L \in Nat /\ n <= L
  BY CeilLog2Holds, PowerStep
<1>2. 2^(p + CeilLog2(n)) = P * L
  BY CeilLog2Holds, PowerOfSum
<1>3. C \in Nat /\ C <= L
  <2>1. C \in Nat
    BY FS_CardinalityType, Zenon
  <2>2. QED
    BY <1>1, <2>1
<1>4. \A i \in S : f[i] \in Int /\ -P <= f[i] /\ f[i] <= P
  OBVIOUS
<1> HIDE DEF P
<1>5. sum \in Int /\ -(C * P) <= sum /\ sum <= C * P
  BY <1>1, <1>4, SumBound
<1> HIDE DEF L, C, sum
<1>6. PICK d \in Nat : L = C + d
  BY <1>1, <1>3
<1>7. P * L = C * P + P * d /\ P * d \in Nat /\ C * P \in Nat
  BY <1>1, <1>3, <1>6
<1>8. -(P * L) <= sum /\ sum <= P * L
  BY <1>5, <1>7
<1>9. QED
  BY <1>2, <1>5, <1>8 DEF sum

(* The widest of a weighted sum and of its biases.                         *)
SumWidth(op, A) == Max({A} \cup {MagnitudeBits(op.bias[i]) : i \in DOMAIN op.bias})

(* It is no less than any of them.                                          *)
LEMMA SumWidthIs ==
  ASSUME NEW op, op.bias \in Seq(Int), NEW A \in Nat
  PROVE  /\ SumWidth(op, A) \in Nat /\ A <= SumWidth(op, A)
         /\ \A i \in DOMAIN op.bias : MagnitudeBits(op.bias[i]) <= SumWidth(op, A)
<1> DEFINE B == {MagnitudeBits(op.bias[i]) : i \in DOMAIN op.bias}
           S == {A} \cup B
<1>1. \A i \in DOMAIN op.bias : MagnitudeBits(op.bias[i]) \in Nat
  BY MagnitudeBitsHold
<1>2. IsFiniteSet(B)
  <2>1. DOMAIN op.bias = 1 .. Len(op.bias) /\ Len(op.bias) \in Int /\ 1 \in Int
    OBVIOUS
  <2>2. IsFiniteSet(DOMAIN op.bias)
    BY <2>1, FS_Interval, Zenon
  <2> DEFINE f == [i \in DOMAIN op.bias |-> MagnitudeBits(op.bias[i])]
  <2>3. f \in Surjection(DOMAIN op.bias, B)
    BY DEF Surjection
  <2> HIDE DEF f, B
  <2>4. QED
    BY <2>2, <2>3, FS_Surjection, Zenon
<1>3. IsFiniteSet(S)
  <2>1. IsFiniteSet({A})
    BY FS_Singleton, Zenon
  <2> HIDE DEF B
  <2>2. QED
    BY <1>2, <2>1, FS_Union, Zenon
<1>4. S \subseteq Int /\ S \subseteq Nat /\ A \in S
  BY <1>1
<1>5. SumWidth(op, A) = Max(S)
  BY DEF SumWidth
<1> HIDE DEF S
<1>6. Max(S) \in S /\ \A y \in S : y <= Max(S)
  BY <1>3, <1>4, LargestInteger
<1>7. \A i \in DOMAIN op.bias : MagnitudeBits(op.bias[i]) \in S
  BY DEF S
<1>8. QED
  BY <1>4, <1>5, <1>6, <1>7

(* A sum and a bias.                                                       *)
LEMMA BiasedSumFits ==
  ASSUME NEW op, op.bias \in Seq(Int), NEW A \in Nat, NEW sum \in Int,
         -(2^A) <= sum, sum <= 2^A, NEW i \in DOMAIN op.bias
  PROVE  /\ sum + op.bias[i] \in Int
         /\ Magnitude(sum + op.bias[i]) < 2^(SumWidth(op, A) + 1)
<1> DEFINE M == SumWidth(op, A)
           beta == op.bias[i]
           k == MagnitudeBits(beta)
<1>1. M \in Nat /\ A <= M /\ k <= M
  BY SumWidthIs
<1>2. beta \in Int
  OBVIOUS
<1>3. k \in Nat /\ Magnitude(beta) < 2^k
  BY <1>2, MagnitudeBitsHold
<1> HIDE DEF M, beta, k
<1>4. 2^A \in Nat /\ 2^k \in Nat /\ 2^M \in Nat /\ 2^A <= 2^M /\ 2^k <= 2^M /\ 1 <= 2^M
  BY <1>1, <1>3, PowerStep, PowerBounds
<1>5. 2^(M + 1) = 2 * 2^M
  BY <1>1, PowerStep
<1>6. -(2^k) < beta /\ beta < 2^k
  BY <1>2, <1>3, <1>4, MagnitudeIs
<1>7. -(2 * 2^M) < sum + beta /\ sum + beta < 2 * 2^M /\ sum + beta \in Int
  BY <1>2, <1>4, <1>6
<1>8. 2 * 2^M \in Nat
  BY <1>4
<1>9. Magnitude(sum + beta) < 2 * 2^M
  BY <1>7, <1>8, MagnitudeIs
<1>10. QED
  BY <1>5, <1>7, <1>9 DEF M, beta

-----------------------------------------------------------------------------
(* What one op makes of operands whose magnitudes are below 2^b[k].        *)
Bounded(in, b) ==
  /\ in \in Seq(Seq(Int)) /\ b \in Seq(Nat) /\ Len(b) = Len(in)
  /\ \A k \in DOMAIN in : Below(in[k], b[k])

(* Its outputs fit the width derived for it.                                *)
Fits(op, in, b) ==
  /\ OutputBits(op, b) \in Nat
  /\ \A j \in 1 .. OutArity(op) : Below(RefEval(op, in)[j], OutputBits(op, b))

(* The width of a weighted sum counts its sign as well.                    *)
SparesBit(op, in, b) ==
  OutputBits(op, b) \in Nat \ {0} /\ Below(RefEval(op, in)[1], OutputBits(op, b) - 1)

(* So the largest sums leave one bit unused.                               *)
LEMMA SpareBit ==
  ASSUME NEW op, NEW in, NEW b, NEW out, RefEval(op, in) = <<out>>, OutArity(op) = 1,
         NEW W \in Nat, OutputBits(op, b) = W + 2, Below(out, W + 1)
  PROVE  Fits(op, in, b) /\ SparesBit(op, in, b)
<1>1. W + 1 \in Nat /\ W + 2 \in Nat \ {0} /\ W + 1 <= W + 2 /\ (W + 2) - 1 = W + 1
  OBVIOUS
<1>2. Below(out, W + 2)
  BY <1>1, BelowMore
<1>3. RefEval(op, in)[1] = out
  OBVIOUS
<1>4. QED
  BY <1>1, <1>2, <1>3 DEF Fits, SparesBit

(* The operands and their widths, one by one.                              *)
LEMMA OperandsAre ==
  ASSUME NEW in, NEW b, Bounded(in, b)
  PROVE  /\ in \in Seq(Seq(Int)) /\ b \in Seq(Nat) /\ DOMAIN b = DOMAIN in
         /\ DOMAIN in = 1 .. Len(in) /\ Len(in) \in Nat /\ Len(b) = Len(in)
         /\ \A k \in DOMAIN in : /\ in[k] \in Seq(Int) /\ b[k] \in Nat /\ Below(in[k], b[k])
                                /\ Len(in[k]) \in Nat /\ DOMAIN in[k] = 1 .. Len(in[k])
  BY DEF Bounded

(* Terms of a weighted sum: a weight and a value.                          *)
LEMMA TermFits ==
  ASSUME NEW w \in Nat, NEW b \in Nat, NEW u \in Int, NEW v \in Int,
         Magnitude(u) < 2^w, Magnitude(v) < 2^b
  PROVE  /\ u * v \in Int /\ -(2^(b + w)) <= u * v /\ u * v <= 2^(b + w)
<1>1. 2^w \in Nat /\ 2^b \in Nat /\ 2^(b + w) = 2^b * 2^w
  BY PowerStep, PowerOfSum
<1>2. -(2^w) < u /\ u < 2^w /\ -(2^b) < v /\ v < 2^b
  BY <1>1, MagnitudeIs
<1>3. -(2^b * 2^w) <= v * u /\ v * u <= 2^b * 2^w
  BY <1>1, <1>2, ProductBound
<1>4. v * u = u * v /\ u * v \in Int
  OBVIOUS
<1>5. QED
  BY <1>1, <1>3, <1>4

(* Linear: every row's sum has as many terms as the row.                   *)
LEMMA LinearFits ==
  ASSUME NEW op, op.type = "Linear", Valid(op), Declared(op),
         NEW in, NEW b, Bounded(in, b), RefDefined(op, in)
  PROVE  Fits(op, in, b) /\ SparesBit(op, in, b)
<1> DEFINE x == in[1]
           n == Len(op.weights[1])
           A == (b[1] + op.weightBits) + CeilLog2(n)
           out == [r \in DOMAIN op.weights |-> Dot(op.weights[r], x) + op.bias[r]]
<1>1. /\ op.weightBits \in Nat /\ op.bias \in Seq(Int)
      /\ op.weights \in Seq(Seq(Int))
      /\ \A r \in DOMAIN op.weights : Below(op.weights[r], op.weightBits)
  BY DEF Declared
<1>2. /\ op.weights # <<>> /\ Len(op.weights) = Len(op.bias)
      /\ \A r \in DOMAIN op.weights : Len(op.weights[r]) = n
  BY DEF Valid, ValidMac
<1>3. Len(in) = 1 /\ Len(op.weights[1]) = Len(in[1])
  BY DEF RefDefined, ShapeOK, Arity
<1>4. x \in Seq(Int) /\ b[1] \in Nat /\ Below(x, b[1]) /\ n = Len(x) /\ n \in Nat
  <2>1. 1 \in DOMAIN in
    BY <1>3, OperandsAre
  <2>2. QED
    BY <1>3, <2>1, OperandsAre
<1>5. RefEval(op, in) = <<out>> /\ OutArity(op) = 1
  BY DEF RefEval, OutArity
<1>6. OutputBits(op, b) = SumWidth(op, A) + 2
  <2>1. b[1] + op.weightBits + CeilLog2(n) = A
    OBVIOUS
  <2>2. QED
    BY <2>1 DEF OutputBits, SumWidth
<1> HIDE DEF x, n
<1>7. CeilLog2(n) \in Nat /\ A \in Nat
  <2>1. CeilLog2(n) \in Nat
    BY <1>4, CeilLog2Holds
  <2>2. QED
    BY <1>1, <1>4, <2>1
<1>8. ASSUME NEW r \in DOMAIN op.weights
      PROVE  /\ Dot(op.weights[r], x) + op.bias[r] \in Int
             /\ Magnitude(Dot(op.weights[r], x) + op.bias[r]) < 2^(SumWidth(op, A) + 1)
  <2> DEFINE row == op.weights[r]
             p == b[1] + op.weightBits
             f == [i \in DOMAIN row |-> row[i] * x[i]]
  <2>1. row \in Seq(Int) /\ Below(row, op.weightBits) /\ Len(row) = n /\ r \in DOMAIN op.bias
    BY <1>1, <1>2
  <2>2. Dot(row, x) = SumFunctionOnSet(f, DOMAIN row)
    BY DEF Dot, SumFunction
  <2> HIDE DEF row
  <2>3. DOMAIN row = 1 .. n /\ DOMAIN x = 1 .. n
    BY <1>4, <2>1
  <2>4. \A i \in DOMAIN row : f[i] \in Int /\ -(2^p) <= f[i] /\ f[i] <= 2^p
    <3> SUFFICES ASSUME NEW i \in DOMAIN row
                 PROVE  f[i] \in Int /\ -(2^p) <= f[i] /\ f[i] <= 2^p
      OBVIOUS
    <3>1. row[i] \in Int /\ x[i] \in Int
      BY <1>4, <2>1, <2>3
    <3>2. Magnitude(row[i]) < 2^op.weightBits /\ Magnitude(x[i]) < 2^b[1]
      BY <1>4, <2>1, <2>3 DEF Below
    <3>3. f[i] = row[i] * x[i]
      OBVIOUS
    <3>4. /\ row[i] * x[i] \in Int
          /\ -(2^(b[1] + op.weightBits)) <= row[i] * x[i]
          /\ row[i] * x[i] <= 2^(b[1] + op.weightBits)
      BY <1>1, <1>4, <3>1, <3>2, TermFits
    <3> HIDE DEF f
    <3>5. QED
      BY <3>3, <3>4
  <2>5. IsFiniteSet(DOMAIN row) /\ Cardinality(DOMAIN row) <= n
    <3>1. n \in Int /\ 1 \in Int
      BY <1>4
    <3>2. IsFiniteSet(1 .. n) /\ Cardinality(1 .. n) = IF 1 > n THEN 0 ELSE n - 1 + 1
      BY <3>1, FS_Interval, Zenon
    <3>3. QED
      BY <1>4, <2>3, <3>2
  <2>6. p \in Nat /\ A = p + CeilLog2(n)
    BY <1>1, <1>4
  <2> HIDE DEF f, p
  <2>7. /\ SumFunctionOnSet(f, DOMAIN row) \in Int
        /\ -(2^A) <= SumFunctionOnSet(f, DOMAIN row)
        /\ SumFunctionOnSet(f, DOMAIN row) <= 2^A
    BY <1>4, <2>4, <2>5, <2>6, SumFits
  <2> HIDE DEF A
  <2>8. QED
    BY <1>1, <1>7, <2>1, <2>2, <2>7, BiasedSumFits DEF row
<1> HIDE DEF A
<1>9. Below(out, SumWidth(op, A) + 1)
  <2>1. DOMAIN op.weights = 1 .. Len(op.weights) /\ Len(op.weights) \in Nat
    BY <1>1
  <2>2. out \in Seq(Int)
    BY <1>8, <2>1
  <2>3. QED
    BY <1>8, <2>2 DEF Below
<1>10. SumWidth(op, A) \in Nat
  BY <1>1, <1>7, SumWidthIs
<1> HIDE DEF out
<1>11. QED
  BY <1>5, <1>6, <1>9, <1>10, SpareBit

-----------------------------------------------------------------------------
(* Kernels and windows.                                                    *)

(* A place in a grid, flattened.                                           *)
LEMMA FlatIndex ==
  ASSUME NEW A \in Nat, NEW B \in Nat, NEW a \in 0 .. A-1, NEW c \in 0 .. B-1
  PROVE  a * B + c \in 0 .. A * B - 1
<1>1. PICK d \in Nat : A = (a + 1) + d
  BY a + 1 <= A
<1>2. A * B = a * B + B + d * B
  BY <1>1
<1>3. d * B \in Nat /\ a * B \in Nat
  BY <1>1
<1>4. QED
  BY <1>2, <1>3

(* A quotient, times its divisor.                                          *)
LEMMA Quotient ==
  ASSUME NEW a \in Nat, NEW s \in Nat \ {0}
  PROVE  a \div s \in Nat /\ (a \div s) * s <= a
  OBVIOUS

(* The side of an output map.                                              *)
LEMMA OutDimIs ==
  ASSUME NEW n \in Nat, NEW k \in Nat, NEW s \in Nat \ {0}, NEW pad \in Nat, k <= n + 2 * pad
  PROVE  /\ OutDim(n, k, s, pad) \in Nat
         /\ \A y \in 0 .. OutDim(n, k, s, pad) - 1 : y * s \in Nat /\ y * s <= n + 2 * pad - k
<1> DEFINE a == n + 2 * pad - k
           q == a \div s
<1>1. a \in Nat
  OBVIOUS
<1>2. q \in Nat /\ q * s <= a
  BY <1>1, Quotient
<1>3. OutDim(n, k, s, pad) = q + 1
  BY DEF OutDim
<1> HIDE DEF q
<1>4. ASSUME NEW y \in 0 .. q
      PROVE  y * s \in Nat /\ y * s <= a
  <2>1. PICK d \in Nat : q = y + d
    BY <1>2
  <2>2. q * s = y * s + d * s /\ d * s \in Nat /\ y * s \in Nat
    BY <2>1
  <2> HIDE DEF a
  <2>3. QED
    BY <1>1, <1>2, <2>2
<1>5. QED
  BY <1>2, <1>3, <1>4

(* The geometries of windows: shape, kernel, stride and padding.            *)
Geometries == [chans : Nat, inH : Nat, inW : Nat, kH : Nat, kW : Nat, stride : Nat, pad : Nat]

(* The output map of a geometry: its places, and the steps to them.        *)
LEMMA OutMap ==
  ASSUME NEW g \in Geometries, ValidShape(g)
  PROVE  /\ OutH(g) \in Nat /\ OutW(g) \in Nat
         /\ \A y \in 0 .. OutH(g) - 1 : y * g.stride \in Nat /\ y * g.stride <= g.inH + 2 * g.pad - g.kH
         /\ \A x \in 0 .. OutW(g) - 1 : x * g.stride \in Nat /\ x * g.stride <= g.inW + 2 * g.pad - g.kW
<1>1. /\ g.inH \in Nat /\ g.inW \in Nat /\ g.kH \in Nat /\ g.kW \in Nat /\ g.pad \in Nat
      /\ g.stride \in Nat \ {0} /\ g.kH <= g.inH + 2 * g.pad /\ g.kW <= g.inW + 2 * g.pad
  BY DEF Geometries, ValidShape
<1>2. QED
  BY <1>1, OutDimIs DEF OutH, OutW

(* The positions of the output map.                                        *)
LEMMA PositionsType ==
  ASSUME NEW channels \in Nat, NEW g \in Geometries, ValidShape(g)
  PROVE  Positions(channels, g) \in
           Seq((0 .. channels - 1) \X (0 .. OutH(g) - 1) \X (0 .. OutW(g) - 1))
<1> DEFINE S == (0 .. channels - 1) \X (0 .. OutH(g) - 1) \X (0 .. OutW(g) - 1)
           Line(c, y) == [x \in 1 .. OutW(g) |-> <<c - 1, y - 1, x - 1>>]
           Map(c) == [y \in 1 .. OutH(g) |-> Line(c, y)]
           Maps == [c \in 1 .. channels |-> FlattenSeq(Map(c))]
<1>1. OutH(g) \in Nat /\ OutW(g) \in Nat
  BY OutMap
<1>2. \A c \in 1 .. channels : \A y \in 1 .. OutH(g) : Line(c, y) \in Seq(S)
  <2> SUFFICES ASSUME NEW c \in 1 .. channels, NEW y \in 1 .. OutH(g)
               PROVE  Line(c, y) \in Seq(S)
    OBVIOUS
  <2>1. ASSUME NEW x \in 1 .. OutW(g) PROVE <<c - 1, y - 1, x - 1>> \in S
    BY <1>1
  <2> HIDE DEF S
  <2>2. QED
    BY <1>1, <2>1
<1> HIDE DEF S, Line
<1>3. \A c \in 1 .. channels : FlattenSeq(Map(c)) \in Seq(S)
  <2> SUFFICES ASSUME NEW c \in 1 .. channels PROVE FlattenSeq(Map(c)) \in Seq(S)
    OBVIOUS
  <2>1. Map(c) \in Seq(Seq(S))
    BY <1>1, <1>2
  <2> HIDE DEF Map
  <2>2. QED
    BY <2>1, FlattenSeqType, Zenon
<1>4. Maps \in Seq(Seq(S))
  <2> HIDE DEF Map
  <2>1. QED
    BY <1>3
<1>5. FlattenSeq(Maps) \in Seq(S)
  <2> HIDE DEF Maps
  <2>1. QED
    BY <1>4, FlattenSeqType, Zenon
<1>6. Positions(channels, g) = FlattenSeq(Maps)
  BY DEF Positions, Line
<1>7. QED
  BY <1>5, <1>6 DEF S

(* What an offset reaches is an entry of the operand.                      *)
LEMMA ReachedInput ==
  ASSUME NEW g \in Geometries, NEW c \in 0 .. g.chans - 1, NEW oy \in Nat, NEW ox \in Nat,
         NEW k \in Reached(g, oy, ox)
  PROVE  InputAt(g, c, oy, ox, k) \in 1 .. InputLen(g)
<1> DEFINE y == oy * g.stride + k[1] - g.pad
           x == ox * g.stride + k[2] - g.pad
<1>1. g.chans \in Nat /\ g.inH \in Nat /\ g.inW \in Nat
  BY DEF Geometries
<1>2. /\ k[1] \in Int /\ k[2] \in Int /\ g.pad \in Int
      /\ oy * g.stride \in Int /\ ox * g.stride \in Int
  BY DEF Reached, Geometries
<1>3. y \in 0 .. g.inH - 1 /\ x \in 0 .. g.inW - 1
  BY DEF Reached
<1>4. InputAt(g, c, oy, ox, k) = (c * g.inH + y) * g.inW + x + 1
  <2>1. c * g.inH \in Int
    BY <1>1
  <2>2. c * g.inH + oy * g.stride + k[1] - g.pad = c * g.inH + y
    BY <1>2, <2>1
  <2>3. (c * g.inH + y) * g.inW \in Int
    BY <1>1, <1>3, <2>1
  <2>4. InputAt(g, c, oy, ox, k) =
          (c * g.inH + y) * g.inW + ox * g.stride + k[2] - g.pad + 1
    BY <2>2 DEF InputAt
  <2>5. QED
    BY <1>2, <2>3, <2>4
<1> HIDE DEF x, y
<1>5. c * g.inH + y \in 0 .. g.chans * g.inH - 1
  BY <1>1, <1>3, FlatIndex
<1>6. (c * g.inH + y) * g.inW + x \in 0 .. (g.chans * g.inH) * g.inW - 1
  <2>1. g.chans * g.inH \in Nat
    BY <1>1
  <2>2. QED
    BY <1>1, <1>3, <1>5, <2>1, FlatIndex
<1>7. InputLen(g) = (g.chans * g.inH) * g.inW /\ InputLen(g) \in Nat
  BY <1>1 DEF InputLen
<1>8. QED
  BY <1>4, <1>6, <1>7

(* An offset of a channel has a weight.                                    *)
LEMMA WeightOfOffset ==
  ASSUME NEW g \in Geometries, NEW c \in 0 .. g.chans - 1,
         NEW k \in (0 .. g.kH - 1) \X (0 .. g.kW - 1)
  PROVE  WeightAt(g, c, k) \in 1 .. g.chans * g.kH * g.kW
<1>1. g.chans \in Nat /\ g.kH \in Nat /\ g.kW \in Nat /\ k[1] \in 0 .. g.kH - 1 /\ k[2] \in 0 .. g.kW - 1
  BY DEF Geometries
<1>2. c * g.kH + k[1] \in 0 .. g.chans * g.kH - 1
  BY <1>1, FlatIndex
<1>3. (c * g.kH + k[1]) * g.kW + k[2] \in 0 .. (g.chans * g.kH) * g.kW - 1
  <2>1. g.chans * g.kH \in Nat
    BY <1>1
  <2>2. QED
    BY <1>1, <1>2, <2>1, FlatIndex
<1>4. WeightAt(g, c, k) = (c * g.kH + k[1]) * g.kW + k[2] + 1
  BY DEF WeightAt
<1>5. QED
  BY <1>1, <1>3, <1>4

(* A kernel's offsets, counted.                                            *)
LEMMA CountTo ==
  ASSUME NEW n \in Nat
  PROVE  IsFiniteSet(0 .. n-1) /\ Cardinality(0 .. n-1) = n
<1>1. 0 \in Int /\ n-1 \in Int
  OBVIOUS
<1>2. IsFiniteSet(0 .. n-1) /\ Cardinality(0 .. n-1) = IF 0 > n-1 THEN 0 ELSE (n-1) - 0 + 1
  BY <1>1, FS_Interval, Zenon
<1>3. QED
  BY <1>2

(* A window of the kernel reaches no more entries than the kernel has.      *)
LEMMA OffsetsCount ==
  ASSUME NEW g \in Geometries, NEW oy, NEW ox
  PROVE  /\ IsFiniteSet(Reached(g, oy, ox))
         /\ Cardinality(Reached(g, oy, ox)) <= g.kH * g.kW
         /\ IsFiniteSet((0 .. g.chans - 1) \X Reached(g, oy, ox))
         /\ Cardinality((0 .. g.chans - 1) \X Reached(g, oy, ox)) <= g.chans * g.kH * g.kW
<1> DEFINE K == (0 .. g.kH - 1) \X (0 .. g.kW - 1)
           R == Reached(g, oy, ox)
           C == 0 .. g.chans - 1
<1>1. g.chans \in Nat /\ g.kH \in Nat /\ g.kW \in Nat
  BY DEF Geometries
<1>2. IsFiniteSet(K) /\ Cardinality(K) = g.kH * g.kW
  <2>1. /\ IsFiniteSet(0 .. g.kH - 1) /\ Cardinality(0 .. g.kH - 1) = g.kH
        /\ IsFiniteSet(0 .. g.kW - 1) /\ Cardinality(0 .. g.kW - 1) = g.kW
    BY <1>1, CountTo
  <2> DEFINE Y == 0 .. g.kH - 1
             X == 0 .. g.kW - 1
  <2> HIDE DEF Y, X
  <2>2. IsFiniteSet(Y \X X) /\ Cardinality(Y \X X) = Cardinality(Y) * Cardinality(X)
    BY <2>1, FS_Product, Zenon DEF Y, X
  <2>3. QED
    BY <2>1, <2>2 DEF Y, X
<1>3. R \in SUBSET K
  BY DEF Reached
<1>4. IsFiniteSet(C) /\ Cardinality(C) = g.chans
  BY <1>1, CountTo
<1> HIDE DEF K, R, C
<1>5. IsFiniteSet(R) /\ Cardinality(R) <= Cardinality(K)
  BY <1>2, <1>3, FS_Subset, Zenon
<1>6. IsFiniteSet(C \X K) /\ Cardinality(C \X K) = g.chans * (g.kH * g.kW)
  <2>1. IsFiniteSet(C \X K) /\ Cardinality(C \X K) = Cardinality(C) * Cardinality(K)
    BY <1>2, <1>4, FS_Product, Zenon
  <2>2. QED
    BY <1>2, <1>4, <2>1
<1>7. C \X R \in SUBSET (C \X K)
  BY <1>3
<1>8. IsFiniteSet(C \X R) /\ Cardinality(C \X R) <= Cardinality(C \X K)
  BY <1>6, <1>7, FS_Subset, Zenon
<1>9. g.chans * (g.kH * g.kW) = g.chans * g.kH * g.kW
  BY <1>1
<1>10. QED
  BY <1>2, <1>5, <1>6, <1>8, <1>9 DEF R, C

(* Conv2d: a kernel has as many weights as offsets, and padding adds none. *)
LEMMA ConvFits ==
  ASSUME NEW op, op.type = "Conv2d", Valid(op), Declared(op),
         NEW in, NEW b, Bounded(in, b), RefDefined(op, in)
  PROVE  Fits(op, in, b) /\ SparesBit(op, in, b)
<1> DEFINE x == in[1]
           g == op.geom
           n == Len(op.weights[1])
           at == Positions(Len(op.weights), g)
           A == (b[1] + op.weightBits) + CeilLog2(n)
           S(p) == (0 .. g.chans - 1) \X Reached(g, p[2], p[3])
           f(p) == [ck \in S(p) |-> op.weights[p[1] + 1][WeightAt(g, ck[1], ck[2])]
                                      * x[InputAt(g, ck[1], p[2], p[3], ck[2])]]
           out == [r \in DOMAIN at |-> SumFunction(f(at[r])) + op.bias[at[r][1] + 1]]
<1>1. /\ op.weightBits \in Nat /\ op.bias \in Seq(Int)
      /\ op.weights \in Seq(Seq(Int))
      /\ \A r \in DOMAIN op.weights : Below(op.weights[r], op.weightBits)
      /\ g \in Geometries
  BY DEF Declared, Geometries
<1>2. /\ op.weights # <<>> /\ Len(op.weights) = Len(op.bias)
      /\ \A r \in DOMAIN op.weights : Len(op.weights[r]) = n
      /\ ValidShape(g) /\ n = g.chans * g.kH * g.kW
  BY DEF Valid, ValidConv, ValidMac
<1>3. Len(in) = 1 /\ Len(in[1]) = InputLen(g)
  BY DEF RefDefined, ShapeOK, Arity
<1>4. x \in Seq(Int) /\ b[1] \in Nat /\ Below(x, b[1]) /\ Len(x) = InputLen(g)
  <2>1. 1 \in DOMAIN in
    BY <1>3, OperandsAre
  <2>2. QED
    BY <1>3, <2>1, OperandsAre
<1>5. RefEval(op, in) = <<out>> /\ OutArity(op) = 1
  BY DEF RefEval, RefConv, OutArity
<1>6. OutputBits(op, b) = SumWidth(op, A) + 2
  <2>1. b[1] + op.weightBits + CeilLog2(n) = A
    OBVIOUS
  <2>2. QED
    BY <2>1 DEF OutputBits, SumWidth
<1>7. n \in Nat /\ at \in Seq((0 .. Len(op.weights) - 1) \X (0 .. OutH(g) - 1) \X (0 .. OutW(g) - 1))
  <2>1. Len(op.weights) \in Nat /\ op.weights[1] \in Seq(Int)
    BY <1>1, <1>2
  <2>2. n \in Nat
    BY <2>1
  <2>3. QED
    BY <1>1, <1>2, <2>1, <2>2, PositionsType
<1>8. OutH(g) \in Nat /\ OutW(g) \in Nat
  BY <1>1, <1>2, OutMap
<1> HIDE DEF x, g, n, at
<1>9. CeilLog2(n) \in Nat /\ A \in Nat
  <2>1. CeilLog2(n) \in Nat
    BY <1>7, CeilLog2Holds
  <2>2. QED
    BY <1>1, <1>4, <2>1
<1>10. ASSUME NEW p \in (0 .. Len(op.weights) - 1) \X (0 .. OutH(g) - 1) \X (0 .. OutW(g) - 1)
       PROVE  /\ SumFunction(f(p)) + op.bias[p[1] + 1] \in Int
              /\ Magnitude(SumFunction(f(p)) + op.bias[p[1] + 1]) < 2^(SumWidth(op, A) + 1)
  <2> DEFINE row == op.weights[p[1] + 1]
             q == b[1] + op.weightBits
  <2>1. p[1] + 1 \in DOMAIN op.weights /\ p[1] + 1 \in DOMAIN op.bias /\ p[2] \in Nat /\ p[3] \in Nat
    <3>1. p[1] \in 0 .. Len(op.weights) - 1 /\ p[2] \in 0 .. OutH(g) - 1 /\ p[3] \in 0 .. OutW(g) - 1
      OBVIOUS
    <3>2. /\ DOMAIN op.weights = 1 .. Len(op.weights) /\ DOMAIN op.bias = 1 .. Len(op.bias)
          /\ Len(op.weights) \in Nat
      BY <1>1
    <3>3. DOMAIN op.bias = 1 .. Len(op.weights)
      BY <1>2, <3>2
    <3> DEFINE H == OutH(g)
               W == OutW(g)
               rows == Len(op.weights)
    <3>4. H \in Nat /\ W \in Nat /\ rows \in Nat
      BY <1>8, <3>2
    <3>5. /\ p[1] \in 0 .. rows - 1 /\ p[2] \in 0 .. H - 1 /\ p[3] \in 0 .. W - 1
          /\ DOMAIN op.weights = 1 .. rows /\ DOMAIN op.bias = 1 .. rows
      BY <3>1, <3>2, <3>3
    <3> HIDE DEF H, W, rows
    <3>6. QED
      BY <3>4, <3>5
  <2>2. row \in Seq(Int) /\ Below(row, op.weightBits) /\ Len(row) = n
    <3>1. op.weights \in Seq(Seq(Int)) /\ p[1] + 1 \in DOMAIN op.weights
      BY <1>1, <2>1
    <3>2. row \in Seq(Int)
      BY <3>1
    <3>3. Below(row, op.weightBits)
      BY <1>1, <2>1
    <3>4. Len(row) = n
      BY <1>2, <2>1
    <3> HIDE DEF row, n
    <3>5. QED
      BY <3>2, <3>3, <3>4
  <2>3. SumFunction(f(p)) = SumFunctionOnSet(f(p), S(p))
    BY DEF SumFunction
  <2> HIDE DEF row
  <2>4. \A ck \in S(p) : f(p)[ck] \in Int /\ -(2^q) <= f(p)[ck] /\ f(p)[ck] <= 2^q
    <3> SUFFICES ASSUME NEW ck \in S(p)
                 PROVE  f(p)[ck] \in Int /\ -(2^q) <= f(p)[ck] /\ f(p)[ck] <= 2^q
      OBVIOUS
    <3> DEFINE i == WeightAt(g, ck[1], ck[2])
               j == InputAt(g, ck[1], p[2], p[3], ck[2])
    <3>1. /\ ck[1] \in 0 .. g.chans - 1 /\ ck[2] \in Reached(g, p[2], p[3])
          /\ ck[2] \in (0 .. g.kH - 1) \X (0 .. g.kW - 1)
      BY DEF Reached
    <3>2. i \in 1 .. n
      BY <1>1, <1>2, <3>1, WeightOfOffset
    <3>3. j \in 1 .. Len(x)
      BY <1>1, <1>4, <2>1, <3>1, ReachedInput
    <3>4. f(p)[ck] = row[i] * x[j]
      BY DEF row
    <3> HIDE DEF i, j
    <3>5. row[i] \in Int /\ x[j] \in Int
      BY <1>4, <2>2, <3>2, <3>3
    <3>6. Magnitude(row[i]) < 2^op.weightBits /\ Magnitude(x[j]) < 2^b[1]
      BY <1>4, <2>2, <3>2, <3>3, BelowEntry
    <3>7. /\ row[i] * x[j] \in Int
          /\ -(2^(b[1] + op.weightBits)) <= row[i] * x[j]
          /\ row[i] * x[j] <= 2^(b[1] + op.weightBits)
      BY <1>1, <1>4, <3>5, <3>6, TermFits
    <3> HIDE DEF f
    <3>8. QED
      BY <3>4, <3>7
  <2>5. IsFiniteSet(S(p)) /\ Cardinality(S(p)) <= n
    BY <1>1, <1>2, OffsetsCount
  <2>6. q \in Nat /\ A = q + CeilLog2(n)
    BY <1>1, <1>4
  <2> HIDE DEF f, q, S
  <2>7. /\ SumFunctionOnSet(f(p), S(p)) \in Int
        /\ -(2^A) <= SumFunctionOnSet(f(p), S(p))
        /\ SumFunctionOnSet(f(p), S(p)) <= 2^A
    BY <1>7, <2>4, <2>5, <2>6, SumFits
  <2> HIDE DEF A
  <2>8. QED
    BY <1>1, <1>9, <2>1, <2>3, <2>7, BiasedSumFits
<1> HIDE DEF A, f
<1>11. Below(out, SumWidth(op, A) + 1)
  <2>1. DOMAIN at = 1 .. Len(at) /\ Len(at) \in Nat
        /\ \A r \in DOMAIN at :
             at[r] \in (0 .. Len(op.weights) - 1) \X (0 .. OutH(g) - 1) \X (0 .. OutW(g) - 1)
    BY <1>7
  <2>2. \A r \in DOMAIN at : /\ out[r] \in Int
                             /\ Magnitude(out[r]) < 2^(SumWidth(op, A) + 1)
    BY <1>10, <2>1
  <2>3. DOMAIN out = DOMAIN at /\ out = [r \in DOMAIN at |-> out[r]]
    OBVIOUS
  <2> HIDE DEF out
  <2>4. out \in Seq(Int)
    BY <2>1, <2>2, <2>3
  <2>5. QED
    BY <2>2, <2>3, <2>4 DEF Below
<1>12. SumWidth(op, A) \in Nat
  BY <1>1, <1>9, SumWidthIs
<1> HIDE DEF out
<1>13. QED
  BY <1>5, <1>6, <1>11, <1>12, SpareBit

-----------------------------------------------------------------------------
(* The other ops.                                                          *)

(* A sum of at most n values below 2^p, n > 0, is below what CeilLog2(n)   *)
(* bits more can hold.                                                     *)
LEMMA SumOfBelow ==
  ASSUME NEW S, IsFiniteSet(S), NEW f, NEW p \in Nat, NEW n \in Nat \ {0}, Cardinality(S) <= n,
         \A i \in S : f[i] \in Int /\ Magnitude(f[i]) < 2^p
  PROVE  /\ SumFunctionOnSet(f, S) \in Int
         /\ Magnitude(SumFunctionOnSet(f, S)) < 2^(p + CeilLog2(n))
<1> DEFINE P == 2^p
           L == 2^CeilLog2(n)
           C == Cardinality(S)
           M == P - 1
           sum == SumFunctionOnSet(f, S)
<1>1. P \in Nat \ {0} /\ L \in Nat \ {0} /\ n <= L
  <2>1. CeilLog2(n) \in Nat /\ n <= 2^CeilLog2(n)
    BY CeilLog2Holds
  <2>2. P \in Nat /\ L \in Nat /\ 1 <= P /\ 1 <= L
    BY <2>1, PowerStep, PowerBounds
  <2>3. QED
    BY <2>1, <2>2
<1>2. 2^(p + CeilLog2(n)) = P * L
  BY CeilLog2Holds, PowerOfSum
<1>3. C \in Nat /\ C <= L
  <2>1. C \in Nat
    BY FS_CardinalityType, Zenon
  <2>2. QED
    BY <1>1, <2>1
<1>4. \A i \in S : f[i] \in Int /\ -M <= f[i] /\ f[i] <= M
  <2> SUFFICES ASSUME NEW i \in S PROVE f[i] \in Int /\ -M <= f[i] /\ f[i] <= M
    OBVIOUS
  <2>1. f[i] \in Int /\ Magnitude(f[i]) < P
    OBVIOUS
  <2> HIDE DEF P
  <2>2. -P < f[i] /\ f[i] < P
    BY <1>1, <2>1, MagnitudeIs
  <2>3. QED
    BY <1>1, <2>1, <2>2
<1> HIDE DEF P
<1>5. M \in Nat
  BY <1>1
<1> HIDE DEF M
<1>6. sum \in Int /\ -(C * M) <= sum /\ sum <= C * M
  BY <1>4, <1>5, SumBound
<1> HIDE DEF L, C, sum
<1>7. C * M < P * L
  <2>1. PICK d \in Nat : L = C + d
    BY <1>1, <1>3
  <2>2. P = M + 1
    BY <1>1 DEF M
  <2>3. P * L = C * M + d * M + L
    BY <1>3, <1>5, <2>1, <2>2
  <2>4. d * M \in Nat /\ C * M \in Nat
    BY <1>3, <1>5
  <2>5. QED
    BY <1>1, <2>3, <2>4
<1>8. C * M \in Nat /\ P * L \in Nat
  BY <1>1, <1>3, <1>5
<1>9. -(P * L) < sum /\ sum < P * L
  BY <1>6, <1>7, <1>8
<1>10. Magnitude(sum) < P * L
  BY <1>6, <1>8, <1>9, MagnitudeIs
<1>11. QED
  BY <1>2, <1>6, <1>10 DEF sum

(* A window that starts in the padding ends on the map.                    *)
LEMMA WindowReaches ==
  ASSUME NEW g \in Geometries, ValidShape(g), g.pad < g.kH, g.pad < g.kW,
         NEW oy \in 0 .. OutH(g) - 1, NEW ox \in 0 .. OutW(g) - 1
  PROVE  Reached(g, oy, ox) # {}
<1> DEFINE Y == oy * g.stride
           X == ox * g.stride
           ky == IF Y < g.pad THEN g.pad - Y ELSE 0
           kx == IF X < g.pad THEN g.pad - X ELSE 0
<1>1. /\ g.inH \in Nat \ {0} /\ g.inW \in Nat \ {0} /\ g.kH \in Nat \ {0} /\ g.kW \in Nat \ {0}
      /\ g.pad \in Nat
  BY DEF Geometries, ValidShape
<1>2. /\ Y \in Nat /\ Y <= g.inH + 2 * g.pad - g.kH
      /\ X \in Nat /\ X <= g.inW + 2 * g.pad - g.kW
  BY OutMap
<1> HIDE DEF Y, X
<1>3. /\ ky \in 0 .. g.kH - 1 /\ Y + ky - g.pad \in 0 .. g.inH - 1
      /\ kx \in 0 .. g.kW - 1 /\ X + kx - g.pad \in 0 .. g.inW - 1
  BY <1>1, <1>2
<1> HIDE DEF ky, kx
<1>4. <<ky, kx>> \in Reached(g, oy, ox)
  BY <1>3 DEF Reached, Y, X
<1>5. QED
  BY <1>4

(* The entries a pooling window covers.                                    *)
Covered(g, p) == {InputAt(g, p[1], p[2], p[3], k) : k \in Reached(g, p[2], p[3])}

(* They are at most the window, entries of the operand, and some if the     *)
(* window reaches any.                                                      *)
LEMMA CoveredCount ==
  ASSUME NEW g \in Geometries, NEW p, p[1] \in 0 .. g.chans - 1, p[2] \in Nat, p[3] \in Nat
  PROVE  /\ IsFiniteSet(Covered(g, p)) /\ Cardinality(Covered(g, p)) <= g.kH * g.kW
         /\ Covered(g, p) \subseteq 1 .. InputLen(g)
         /\ Reached(g, p[2], p[3]) # {} => Covered(g, p) # {}
<1> DEFINE R == Reached(g, p[2], p[3])
           T == Covered(g, p)
           f == [k \in R |-> InputAt(g, p[1], p[2], p[3], k)]
<1>1. IsFiniteSet(R) /\ Cardinality(R) <= g.kH * g.kW
  BY OffsetsCount
<1>2. f \in Surjection(R, T)
  BY DEF Surjection, Covered
<1>3. T \subseteq 1 .. InputLen(g) /\ (R # {} => T # {})
  BY ReachedInput DEF Covered
<1> HIDE DEF f, R, T
<1>4. IsFiniteSet(T) /\ Cardinality(T) <= Cardinality(R)
  BY <1>1, <1>2, FS_Surjection, Zenon
<1>5. Cardinality(T) \in Nat /\ Cardinality(R) \in Nat
  BY <1>1, <1>4, FS_CardinalityType, Zenon
<1>6. g.kH * g.kW \in Nat
  <2>1. g.kH \in Nat /\ g.kW \in Nat
    BY DEF Geometries
  <2>2. QED
    BY <2>1
<1>7. QED
  BY <1>1, <1>3, <1>4, <1>5, <1>6 DEF T, R

(* Pool: a window's sum, or one of the values it covers.                   *)
LEMMA PoolFits ==
  ASSUME NEW op, op.type = "Pool", Valid(op), Declared(op),
         NEW in, NEW b, Bounded(in, b), RefDefined(op, in)
  PROVE  Fits(op, in, b)
<1> DEFINE x == in[1]
           g == op.geom
           n == g.kH * g.kW
           at == Positions(g.chans, g)
           B == b[1] + (IF op.mode = "avg" THEN CeilLog2(n) ELSE 0)
           E(p) == IF op.mode = "avg" THEN SumFunctionOnSet(x, Covered(g, p))
                                      ELSE Max({x[i] : i \in Covered(g, p)})
           out == [r \in DOMAIN at |-> E(at[r])]
<1>1. g \in Geometries
  BY DEF Declared, Geometries
<1>2. ValidShape(g) /\ g.pad < g.kH /\ g.pad < g.kW
  BY DEF Valid, ValidPool
<1>3. Len(in) = 1 /\ Len(in[1]) = InputLen(g)
  BY DEF RefDefined, ShapeOK, Arity
<1>4. x \in Seq(Int) /\ b[1] \in Nat /\ Below(x, b[1]) /\ Len(x) = InputLen(g)
  <2>1. 1 \in DOMAIN in
    BY <1>3, OperandsAre
  <2>2. QED
    BY <1>3, <2>1, OperandsAre
<1>5. RefEval(op, in) = <<out>> /\ OutArity(op) = 1
  BY DEF RefEval, RefPool, OutArity, Covered
<1>6. OutputBits(op, b) = B
  BY DEF OutputBits
<1>7. OutH(g) \in Nat /\ OutW(g) \in Nat /\ g.chans \in Nat /\ n \in Nat \ {0}
  <2>1. g.chans \in Nat /\ g.kH \in Nat \ {0} /\ g.kW \in Nat \ {0}
    BY <1>1, <1>2 DEF Geometries, ValidShape
  <2>2. QED
    BY <1>1, <1>2, <2>1, OutMap
<1>8. at \in Seq((0 .. g.chans - 1) \X (0 .. OutH(g) - 1) \X (0 .. OutW(g) - 1))
  BY <1>1, <1>2, <1>7, PositionsType
<1> HIDE DEF x, g, at
<1>9. CeilLog2(n) \in Nat /\ B \in Nat /\ b[1] <= B
  <2>1. CeilLog2(n) \in Nat
    BY <1>7, CeilLog2Holds
  <2> HIDE DEF n
  <2>2. QED
    BY <1>4, <2>1
<1>10. ASSUME NEW p \in (0 .. g.chans - 1) \X (0 .. OutH(g) - 1) \X (0 .. OutW(g) - 1)
       PROVE  E(p) \in Int /\ Magnitude(E(p)) < 2^B
  <2> DEFINE T == Covered(g, p)
  <2>1. p[1] \in 0 .. g.chans - 1 /\ p[2] \in 0 .. OutH(g) - 1 /\ p[3] \in 0 .. OutW(g) - 1
    OBVIOUS
  <2>2. p[2] \in Nat /\ p[3] \in Nat
    BY <1>7, <2>1
  <2>3. Reached(g, p[2], p[3]) # {}
    BY <1>1, <1>2, <2>1, WindowReaches
  <2>4. IsFiniteSet(T) /\ Cardinality(T) <= n /\ T \subseteq 1 .. Len(x) /\ T # {}
    BY <1>1, <1>4, <2>1, <2>2, <2>3, CoveredCount
  <2>5. \A i \in T : x[i] \in Int /\ Magnitude(x[i]) < 2^b[1]
    BY <1>4, <2>4, BelowEntry
  <2> HIDE DEF T, n
  <2>6. CASE op.mode = "avg"
    <3>1. E(p) = SumFunctionOnSet(x, T)
      BY <2>6 DEF T
    <3>2. SumFunctionOnSet(x, T) \in Int /\ Magnitude(SumFunctionOnSet(x, T)) < 2^(b[1] + CeilLog2(n))
      BY <1>4, <1>7, <2>4, <2>5, SumOfBelow
    <3>3. B = b[1] + CeilLog2(n)
      BY <2>6
    <3> HIDE DEF E, B
    <3>4. QED
      BY <3>1, <3>2, <3>3
  <2>7. CASE op.mode # "avg"
    <3> DEFINE V == {x[i] : i \in T}
               h == [i \in T |-> x[i]]
    <3>1. E(p) = Max(V)
      BY <2>7 DEF T
    <3>2. V \subseteq Int /\ V # {}
      BY <2>4, <2>5
    <3>3. h \in Surjection(T, V)
      BY DEF Surjection
    <3> HIDE DEF h, V
    <3>4. IsFiniteSet(V)
      BY <2>4, <3>3, FS_Surjection, Zenon
    <3>5. Max(V) \in V
      BY <3>2, <3>4, LargestInteger
    <3>6. B = b[1]
      BY <1>4, <2>7
    <3>7. \A v \in V : v \in Int /\ Magnitude(v) < 2^b[1]
      BY <2>5 DEF V
    <3> HIDE DEF E, B
    <3>8. QED
      BY <3>1, <3>5, <3>6, <3>7
  <2>8. QED
    BY <2>6, <2>7
<1> HIDE DEF B, E
<1>11. Below(out, B)
  <2>1. DOMAIN at = 1 .. Len(at) /\ Len(at) \in Nat
        /\ \A r \in DOMAIN at : at[r] \in (0 .. g.chans - 1) \X (0 .. OutH(g) - 1) \X (0 .. OutW(g) - 1)
    BY <1>8
  <2>2. \A r \in DOMAIN at : out[r] \in Int /\ Magnitude(out[r]) < 2^B
    BY <1>10, <2>1
  <2>3. DOMAIN out = DOMAIN at /\ out = [r \in DOMAIN at |-> out[r]]
    OBVIOUS
  <2> HIDE DEF out
  <2>4. out \in Seq(Int)
    BY <2>1, <2>2, <2>3
  <2>5. QED
    BY <2>2, <2>3, <2>4 DEF Below
<1> HIDE DEF out
<1>12. QED
  BY <1>5, <1>6, <1>9, <1>11 DEF Fits

(* The channel of an entry.                                                *)
LEMMA ChannelIs ==
  ASSUME NEW op, op.type = "Requant", Valid(op), Declared(op),
         NEW in, in[1] \in Seq(Int), RefDefined(op, in), NEW i \in DOMAIN in[1]
  PROVE  /\ Channel(op, i) \in [mult : Nat, shift : Nat, roundBias : Nat]
         /\ \E k \in DOMAIN op.channel : Channel(op, i) = op.channel[k]
<1> DEFINE Ch == [mult : Nat, shift : Nat, roundBias : Nat]
           cs == op.channelSize
           N == Len(op.channel)
           j == IF cs = 0 THEN 1 ELSE (i - 1) \div cs + 1
<1>1. op.channel \in Seq(Ch) /\ cs \in Nat
  BY DEF Declared
<1>2. op.channel # <<>>
  BY DEF Valid, ValidRequant
<1>3. Len(in) = 1 /\ (cs # 0 => Len(in[1]) = cs * N)
  BY DEF RefDefined, ShapeOK, Arity
<1>4. Len(in[1]) \in Nat /\ i \in 1 .. Len(in[1])
  OBVIOUS
<1>5. Channel(op, i) = op.channel[j]
  BY DEF Channel
<1> HIDE DEF Ch
<1>6. N \in Nat \ {0} /\ DOMAIN op.channel = 1 .. N
  BY <1>1, <1>2
<1> HIDE DEF cs, N
<1>7. j \in 1 .. N
  <2>1. CASE cs = 0
    BY <1>6, <2>1
  <2>2. CASE cs # 0
    <3> DEFINE q == (i - 1) \div cs
    <3>1. q \in Nat /\ q * cs <= i - 1
      BY <1>1, <1>4, <2>2, Quotient
    <3> HIDE DEF q
    <3>2. q < N
      <4>1. SUFFICES ASSUME N <= q PROVE FALSE
        BY <1>6, <3>1
      <4> DEFINE d == q - N
      <4>2. d \in Nat /\ q = N + d
        <5>1. N \in Nat
          BY <1>6
        <5>2. q \in Nat
          BY <3>1
        <5>3. QED
          BY <4>1, <5>1, <5>2
      <4> HIDE DEF d
      <4>3. q * cs = cs * N + d * cs /\ d * cs \in Nat /\ cs * N \in Nat
        BY <1>1, <1>6, <4>2
      <4>4. QED
        BY <1>3, <1>4, <2>2, <3>1, <4>3
    <3>3. j = q + 1
      BY <2>2 DEF q
    <3>4. QED
      BY <1>6, <3>1, <3>2, <3>3
  <2>3. QED
    BY <2>1, <2>2
<1> HIDE DEF j
<1>8. op.channel[j] \in Ch
  BY <1>1, <1>6, <1>7
<1>9. j \in DOMAIN op.channel
  BY <1>6, <1>7
<1>10. QED
  BY <1>5, <1>8, <1>9 DEF Ch

(* A block holds the values 0 .. 3.                                        *)
LEMMA MessageIs == Message = 0 .. 3 /\ Cardinality(Message) = 4
<1>1. 2^2 = 4
  <2>1. 0 + 1 = 1 /\ 1 + 1 = 2 /\ 0 \in Nat /\ 1 \in Nat
    OBVIOUS
  <2>2. 2^(0 + 1) = 2 * 2^0 /\ 2^(1 + 1) = 2 * 2^1 /\ 2^0 = 1
    BY <2>1, PowerStep
  <2>3. QED
    BY <2>1, <2>2
<1>2. Message = 0 .. 4 - 1
  BY <1>1 DEF Message, MessageBits
<1>3. Cardinality(0 .. 4 - 1) = 4
  BY CountTo, 4 \in Nat, Zenon
<1>4. QED
  BY <1>2, <1>3

(* The ramp ends inside the table.                                         *)
LEMMA RampInTable ==
  ASSUME NEW op, op.type = "Requant", Valid(op), Declared(op),
         NEW in, in[1] \in Seq(Int), RefDefined(op, in), NEW i \in DOMAIN in[1]
  PROVE  Ramp(op, i, in[1][i]) + 1 \in DOMAIN op.lut
<1> DEFINE v == in[1][i]
           ch == Channel(op, i)
           cap == 2^op.outBits - 1
           t == Transient(op, i, v)
           q == (t \div 2^ch.shift) + op.zeroPoint
<1>1. ch.mult \in Nat /\ ch.shift \in Nat /\ ch.roundBias \in Nat
  <2>1. Channel(op, i) \in [mult : Nat, shift : Nat, roundBias : Nat]
    BY ChannelIs
  <2>2. QED
    BY <2>1
<1>2. /\ op.outBits \in Nat /\ op.lut \in Seq(Nat) /\ op.clampLo \in Int /\ op.zeroPoint \in Nat
  BY DEF Declared
<1>3. op.outBits <= MessageBits /\ Len(op.lut) = Cardinality(Message)
  BY DEF Valid, ValidRequant
<1>4. v \in Int
  OBVIOUS
<1>5. cap \in 0 .. 3
  <2>1. op.outBits <= 2 /\ 2 \in Nat
    BY <1>3 DEF MessageBits
  <2>2. 2^op.outBits \in Nat /\ 1 <= 2^op.outBits /\ 2^op.outBits <= 2^2
    BY <1>2, <2>1, PowerStep, PowerBounds
  <2>3. 2^2 = 4
    <3>1. 0 + 1 = 1 /\ 1 + 1 = 2 /\ 0 \in Nat /\ 1 \in Nat
      OBVIOUS
    <3>2. 2^(0 + 1) = 2 * 2^0 /\ 2^(1 + 1) = 2 * 2^1 /\ 2^0 = 1
      BY <3>1, PowerStep
    <3>3. QED
      BY <3>1, <3>2
  <2> DEFINE full == 2^op.outBits
  <2>4. full \in Nat /\ 1 <= full /\ full <= 4 /\ cap = full - 1
    BY <2>2, <2>3
  <2> HIDE DEF full, cap
  <2>5. QED
    BY <2>4
<1>6. q \in Int
  <2>1. 2^ch.shift \in Nat \ {0}
    BY <1>1, PowerStep, PowerBounds
  <2>2. Larger(v, op.clampLo) \in Int
    BY <1>2, <1>4, LargerSmaller
  <2>3. t = Larger(v, op.clampLo) * ch.mult + ch.roundBias
    BY DEF Transient
  <2> HIDE DEF t, ch
  <2>4. t \in Int
    BY <1>1, <2>2, <2>3
  <2> DEFINE d == 2^ch.shift
  <2> HIDE DEF d
  <2>5. t \div d \in Int
    BY <2>1, <2>4 DEF d
  <2>6. QED
    BY <1>2, <2>5 DEF d
<1>7. Ramp(op, i, v) = Larger(0, Smaller(cap, q))
  BY DEF Ramp
<1> HIDE DEF q, cap
<1>8. Ramp(op, i, v) \in 0 .. cap
  <2>1. Smaller(cap, q) = IF cap <= q THEN cap ELSE q
    BY <1>5, <1>6, LargerSmaller
  <2>2. Smaller(cap, q) \in Int
    BY <1>5, <1>6, <2>1
  <2>3. Larger(0, Smaller(cap, q)) = IF 0 >= Smaller(cap, q) THEN 0 ELSE Smaller(cap, q)
    BY <2>2, LargerSmaller
  <2>4. QED
    BY <1>5, <1>6, <1>7, <2>1, <2>3
<1>9. DOMAIN op.lut = 1 .. 4
  BY <1>2, <1>3, MessageIs
<1>10. QED
  BY <1>5, <1>8, <1>9

(* Activation and Requant: an entry of a table within the declared width.  *)
LEMMA TableFits ==
  ASSUME NEW op, op.type \in {"Activation", "Requant"}, Valid(op), Declared(op),
         NEW in, NEW b, Bounded(in, b), RefDefined(op, in)
  PROVE  Fits(op, in, b)
<1> DEFINE x == in[1]
           e(i) == IF op.type = "Activation" THEN x[i] + 1 ELSE Ramp(op, i, x[i]) + 1
           out == [i \in DOMAIN x |-> op.lut[e(i)]]
<1>1. op.outBits \in Nat /\ op.lut \in Seq(Nat) /\ Below(op.lut, op.outBits)
  BY DEF Declared
<1>2. Len(in) = 1
  BY DEF RefDefined, ShapeOK, Arity
<1>3. DOMAIN x = 1 .. Len(x) /\ Len(x) \in Nat
  <2>1. 1 \in DOMAIN in
    BY <1>2, OperandsAre
  <2>2. QED
    BY <2>1, OperandsAre
<1>4. RefEval(op, in) = <<out>> /\ OutArity(op) = 1 /\ OutputBits(op, b) = op.outBits
  <2>1. CASE op.type = "Activation"
    BY <2>1 DEF RefEval, OutArity, OutputBits
  <2>2. CASE op.type = "Requant"
    BY <2>2 DEF RefEval, OutArity, OutputBits
  <2>3. QED
    BY <2>1, <2>2
<1>5. \A i \in DOMAIN x : e(i) \in DOMAIN op.lut
  <2>1. CASE op.type = "Activation"
    BY <2>1 DEF RefDefined
  <2>2. CASE op.type = "Requant"
    <3>1. in[1] \in Seq(Int)
      <4>1. 1 \in DOMAIN in
        BY <1>2, OperandsAre
      <4>2. QED
        BY <4>1, OperandsAre
    <3>2. QED
      BY <2>2, <3>1, RampInTable
  <2>3. QED
    BY <2>1, <2>2
<1> HIDE DEF e, x
<1>6. \A i \in DOMAIN x : out[i] \in Int /\ Magnitude(out[i]) < 2^op.outBits
  <2> SUFFICES ASSUME NEW i \in DOMAIN x
               PROVE  out[i] \in Int /\ Magnitude(out[i]) < 2^op.outBits
    OBVIOUS
  <2>1. out[i] = op.lut[e(i)] /\ e(i) \in 1 .. Len(op.lut)
    BY <1>1, <1>5
  <2> HIDE DEF out
  <2>2. QED
    BY <1>1, <2>1, BelowEntry
<1>7. Below(out, op.outBits)
  <2>1. DOMAIN out = DOMAIN x /\ out = [i \in DOMAIN x |-> out[i]]
    OBVIOUS
  <2> HIDE DEF out
  <2>2. out \in Seq(Int)
    BY <1>3, <1>6, <2>1
  <2>3. QED
    BY <1>6, <2>1, <2>2 DEF Below
<1> HIDE DEF out
<1>8. QED
  BY <1>1, <1>4, <1>7 DEF Fits

(* Add: one bit more than the wider operand.                               *)
LEMMA AddFits ==
  ASSUME NEW op, op.type = "Add",
         NEW in, NEW b, Bounded(in, b), RefDefined(op, in)
  PROVE  Fits(op, in, b)
<1> DEFINE x == in[1]
           y == in[2]
           M == MaxBits(b)
           out == [i \in DOMAIN x |-> x[i] + y[i]]
<1>1. Len(in) = 2 /\ Len(in[1]) = Len(in[2])
  BY DEF RefDefined, ShapeOK, Arity
<1>2. 1 \in DOMAIN in /\ 2 \in DOMAIN in /\ Len(b) = 2 /\ DOMAIN b = 1 .. 2
  BY <1>1, OperandsAre
<1>3. /\ x \in Seq(Int) /\ Below(x, b[1]) /\ b[1] \in Nat /\ Len(x) \in Nat /\ DOMAIN x = 1 .. Len(x)
      /\ y \in Seq(Int) /\ Below(y, b[2]) /\ b[2] \in Nat
  BY <1>2, OperandsAre
<1>4. M \in Nat /\ b[1] <= M /\ b[2] <= M
  <2>1. DOMAIN b = 1 .. Len(b) /\ Len(b) \in Nat \ {0} /\ \A k \in DOMAIN b : b[k] \in Nat
    BY <1>2, <1>3
  <2>2. M \in Nat /\ \A k \in DOMAIN b : b[k] <= M
    BY <2>1, MaxBitsIs
  <2> HIDE DEF M
  <2>3. QED
    BY <1>2, <2>2
<1>5. RefEval(op, in) = <<out>> /\ OutArity(op) = 1
  BY DEF RefEval, OutArity
<1>6. OutputBits(op, b) = M + 1
  BY DEF OutputBits, SumBits
<1> HIDE DEF M, x, y
<1>7. Below(x, M) /\ Below(y, M)
  BY <1>3, <1>4, BelowMore
<1>8. \A i \in DOMAIN x : out[i] \in Int /\ Magnitude(out[i]) < 2^(M + 1)
  <2> SUFFICES ASSUME NEW i \in DOMAIN x
               PROVE  out[i] \in Int /\ Magnitude(out[i]) < 2^(M + 1)
    OBVIOUS
  <2>1. i \in 1 .. Len(x) /\ i \in 1 .. Len(y)
    BY <1>1, <1>3 DEF x, y
  <2>2. /\ x[i] \in Int /\ Magnitude(x[i]) < 2^M
        /\ y[i] \in Int /\ Magnitude(y[i]) < 2^M
    BY <1>7, <2>1, BelowEntry
  <2>3. 2^M \in Nat /\ 2^(M + 1) = 2 * 2^M
    BY <1>4, PowerStep
  <2>4. -(2^M) < x[i] /\ x[i] < 2^M /\ -(2^M) < y[i] /\ y[i] < 2^M
    BY <2>2, <2>3, MagnitudeIs
  <2> DEFINE s == x[i] + y[i]
             P == 2^M
  <2>5. s \in Int /\ -(2 * P) < s /\ s < 2 * P /\ 2 * P \in Nat
    BY <2>2, <2>3, <2>4
  <2>6. out[i] = s
    OBVIOUS
  <2> HIDE DEF s, P, out
  <2>7. Magnitude(s) < 2 * P
    BY <2>5, MagnitudeIs
  <2>8. QED
    BY <2>3, <2>5, <2>6, <2>7 DEF P
<1>9. Below(out, M + 1)
  <2>1. DOMAIN out = DOMAIN x /\ out = [i \in DOMAIN x |-> out[i]]
    OBVIOUS
  <2> HIDE DEF out
  <2>2. out \in Seq(Int)
    BY <1>3, <1>8, <2>1
  <2>3. QED
    BY <1>8, <2>1, <2>2 DEF Below
<1>10. M + 1 \in Nat
  BY <1>4
<1> HIDE DEF out
<1>11. QED
  BY <1>5, <1>6, <1>9, <1>10 DEF Fits

(* Argmax and Compare: one bit.                                            *)
LEMMA CompareFits ==
  ASSUME NEW op, op.type \in {"Argmax", "Compare"}, Declared(op),
         NEW in, NEW b
  PROVE  Fits(op, in, b)
<1>1. Magnitude(0) < 2^1 /\ Magnitude(1) < 2^1
  <2>1. 2^(0 + 1) = 2 * 2^0 /\ 2^0 = 1 /\ 0 + 1 = 1
    BY PowerStep, 0 \in Nat
  <2>2. QED
    BY <2>1 DEF Magnitude
<1>2. OutArity(op) = 1 /\ OutputBits(op, b) = 1
  <2>1. CASE op.type = "Argmax"
    BY <2>1 DEF OutArity, OutputBits
  <2>2. CASE op.type = "Compare"
    BY <2>2 DEF OutArity, OutputBits
  <2>3. QED
    BY <2>1, <2>2
<1>3. CASE op.type = "Argmax"
  <2> DEFINE c == IF in[1][1] >= op.threshold THEN 1 ELSE 0
  <2>1. RefEval(op, in) = << <<c>> >>
    BY <1>3 DEF RefEval
  <2>2. c \in {0, 1}
    OBVIOUS
  <2> HIDE DEF c
  <2>3. Below(<<c>>, 1)
    BY <1>1, <2>2 DEF Below
  <2>4. QED
    BY <1>2, <2>1, <2>3 DEF Fits
<1>4. CASE op.type = "Compare"
  <2> DEFINE c(i) == IF in[1][op.indices[i]] >= op.thresholds[i] THEN 1 ELSE 0
             out == [i \in DOMAIN op.indices |-> c(i)]
  <2>1. RefEval(op, in) = <<out>>
    BY <1>4 DEF RefEval
  <2>2. \A i : c(i) \in {0, 1}
    OBVIOUS
  <2>3. op.indices \in Seq(Nat)
    BY <1>4 DEF Declared
  <2>4. DOMAIN op.indices = 1 .. Len(op.indices) /\ Len(op.indices) \in Nat
    BY <2>3
  <2>5. DOMAIN out = 1 .. Len(op.indices) /\ \A i \in 1 .. Len(op.indices) : out[i] = c(i)
    BY <2>4
  <2> HIDE DEF c
  <2>6. out = [i \in 1 .. Len(op.indices) |-> out[i]]
    BY <2>4
  <2>7. \A i \in 1 .. Len(op.indices) : out[i] \in Int /\ Magnitude(out[i]) < 2^1
    BY <1>1, <2>2, <2>5
  <2> HIDE DEF out
  <2>8. out \in Seq(Int)
    BY <2>4, <2>6, <2>7
  <2>9. Below(out, 1)
    BY <2>5, <2>7, <2>8 DEF Below
  <2>10. QED
    BY <1>2, <2>1, <2>9 DEF Fits
<1>5. QED
  BY <1>3, <1>4

(* Concat: as wide as the widest part.                                     *)
LEMMA ConcatFits ==
  ASSUME NEW op, op.type = "Concat", Valid(op), Declared(op),
         NEW in, NEW b, Bounded(in, b), RefDefined(op, in)
  PROVE  Fits(op, in, b)
<1> DEFINE M == MaxBits(b)
           T == {v \in Int : Magnitude(v) < 2^M}
<1>1. Len(in) = Len(op.sizes) /\ Len(op.sizes) >= 2
  BY DEF RefDefined, ShapeOK, Arity, Valid
<1>2. /\ DOMAIN b = DOMAIN in /\ DOMAIN in = 1 .. Len(in) /\ Len(in) \in Nat /\ Len(b) = Len(in)
      /\ \A k \in DOMAIN in : /\ in[k] \in Seq(Int) /\ b[k] \in Nat /\ Below(in[k], b[k])
  BY OperandsAre
<1>3. Len(b) \in Nat \ {0}
  BY <1>1, <1>2
<1>4. M \in Nat /\ \A k \in DOMAIN b : b[k] <= M
  BY <1>2, <1>3, MaxBitsIs
<1>5. RefEval(op, in) = <<FlattenSeq(in)>> /\ OutArity(op) = 1 /\ OutputBits(op, b) = M
  BY DEF RefEval, OutArity, OutputBits
<1> HIDE DEF M
<1>6. \A k \in DOMAIN in : in[k] \in Seq(T)
  <2> SUFFICES ASSUME NEW k \in DOMAIN in PROVE in[k] \in Seq(T)
    OBVIOUS
  <2>1. Below(in[k], M)
    BY <1>2, <1>4, BelowMore
  <2>2. in[k] \in Seq(Int) /\ \A i \in DOMAIN in[k] : Magnitude(in[k][i]) < 2^M
    BY <2>1 DEF Below
  <2>3. QED
    BY <2>2
<1>7. in \in Seq(Seq(T))
  <2>1. in \in Seq(Seq(Int))
    BY OperandsAre
  <2> DEFINE ST == Seq(T)
  <2>2. in = [k \in 1 .. Len(in) |-> in[k]] /\ Len(in) \in Nat
    BY <2>1
  <2>3. \A k \in 1 .. Len(in) : in[k] \in ST
    BY <1>2, <1>6
  <2> HIDE DEF ST
  <2>4. in \in Seq(ST)
    BY <2>2, <2>3
  <2>5. QED
    BY <2>4 DEF ST
<1>8. FlattenSeq(in) \in Seq(T)
  BY <1>7, FlattenSeqType, Zenon
<1> DEFINE out == FlattenSeq(in)
<1> HIDE DEF out
<1>9. Below(out, M)
  BY <1>8 DEF Below, out
<1>10. QED
  BY <1>4, <1>5, <1>9 DEF Fits, out

(* Split: each part lies inside the operand.                               *)
LEMMA PartsInside ==
  ASSUME NEW sizes \in Seq(Nat), NEW s \in DOMAIN sizes
  PROVE  Start(sizes, s) \in Nat /\ Start(sizes, s) + sizes[s] <= SumFunction(sizes)
<1>1. s \in Nat \ {0} /\ DOMAIN sizes = 1 .. Len(sizes) /\ Len(sizes) \in Nat
      /\ \A i \in DOMAIN sizes : sizes[i] \in Nat
  OBVIOUS
<1>2. IsFiniteSet(DOMAIN sizes) /\ IsFiniteSet(1 .. s)
  <2>1. 1 \in Int /\ Len(sizes) \in Int /\ s \in Int
    BY <1>1
  <2>2. QED
    BY <1>1, <2>1, FS_Interval, Zenon
<1>3. 1 .. s \in SUBSET (DOMAIN sizes) /\ 1 .. s-1 = (1 .. s) \ {s} /\ s \in 1 .. s
      /\ 1 .. s-1 \in SUBSET (DOMAIN sizes)
  BY <1>1
<1>4. \A i \in 1 .. s : sizes[i] \in Int
  BY <1>1
<1>5. SumFunctionOnSet(sizes, 1 .. s) = sizes[s] + SumFunctionOnSet(sizes, (1 .. s) \ {s})
  BY <1>2, <1>3, <1>4, SumRemove, Zenon
<1>6. /\ SumFunctionOnSet(sizes, 1 .. s) \in Nat
      /\ SumFunctionOnSet(sizes, 1 .. s) <= SumFunctionOnSet(sizes, DOMAIN sizes)
      /\ SumFunctionOnSet(sizes, 1 .. s-1) \in Nat
  BY <1>1, <1>2, <1>3, SumOfPart, Zenon
<1> DEFINE a == SumFunctionOnSet(sizes, 1 .. s)
           c == SumFunctionOnSet(sizes, 1 .. s-1)
           d == SumFunctionOnSet(sizes, DOMAIN sizes)
<1>7. a = sizes[s] + c
  BY <1>3, <1>5
<1>8. Start(sizes, s) = c /\ SumFunction(sizes) = d
  BY DEF Start, SumFunction
<1>9. a \in Nat /\ a <= d /\ c \in Nat /\ sizes[s] \in Nat
  BY <1>1, <1>6
<1> HIDE DEF a, c, d
<1>10. QED
  BY <1>7, <1>8, <1>9

(* Split: each part is a part of a tensor below the width.                  *)
LEMMA SplitFits ==
  ASSUME NEW op, op.type = "Split", Declared(op),
         NEW in, NEW b, Bounded(in, b), RefDefined(op, in)
  PROVE  Fits(op, in, b)
<1> DEFINE x == in[1]
           M == MaxBits(b)
<1>1. Len(in) = 1 /\ Len(in[1]) = SumFunction(op.sizes)
  BY DEF RefDefined, ShapeOK, Arity
<1>2. op.sizes \in Seq(Nat)
  BY DEF Declared
<1>3. /\ x \in Seq(Int) /\ Below(x, b[1]) /\ b[1] \in Nat /\ Len(x) \in Nat
      /\ Len(b) = 1 /\ DOMAIN b = 1 .. 1
  <2>1. 1 \in DOMAIN in /\ DOMAIN b = DOMAIN in /\ DOMAIN in = 1 .. Len(in) /\ Len(b) = Len(in)
    BY <1>1, OperandsAre
  <2>2. QED
    BY <1>1, <2>1, OperandsAre
<1>4. M \in Nat /\ b[1] <= M
  <2>1. DOMAIN b = 1 .. Len(b) /\ Len(b) \in Nat \ {0} /\ \A k \in DOMAIN b : b[k] \in Nat
    BY <1>3
  <2>2. M \in Nat /\ \A k \in DOMAIN b : b[k] <= M
    BY <2>1, MaxBitsIs
  <2> HIDE DEF M
  <2>3. QED
    BY <1>3, <2>2
<1>5. RefEval(op, in) = Segments(x, op.sizes) /\ OutArity(op) = Len(op.sizes) /\ OutputBits(op, b) = M
  BY DEF RefEval, OutArity, OutputBits
<1> HIDE DEF M
<1>6. Below(x, M)
  BY <1>3, <1>4, BelowMore
<1>7. ASSUME NEW s \in 1 .. Len(op.sizes)
      PROVE  Below(RefEval(op, in)[s], M)
  <2> DEFINE a == Start(op.sizes, s)
             n == op.sizes[s]
  <2>1. s \in DOMAIN op.sizes /\ n \in Nat
    BY <1>2
  <2>2. a \in Nat /\ a + n <= Len(x)
    BY <1>1, <1>2, <2>1, PartsInside
  <2>3. RefEval(op, in)[s] = SubSeq(x, a + 1, a + n)
    BY <1>5, <2>1 DEF Segments, Segment
  <2> HIDE DEF a, n, x
  <2> DEFINE part == SubSeq(x, a + 1, a + n)
  <2>4. part \in Seq(Int) /\ Len(part) = n /\ \A i \in 1 .. n : part[i] = x[a + i]
    BY <1>3, <2>1, <2>2
  <2> HIDE DEF part
  <2>5. \A i \in DOMAIN part : Magnitude(part[i]) < 2^M
    <3> SUFFICES ASSUME NEW i \in DOMAIN part PROVE Magnitude(part[i]) < 2^M
      OBVIOUS
    <3>1. i \in 1 .. n
      BY <2>4
    <3>2. part[i] = x[a + i]
      BY <2>4, <3>1
    <3>3. Len(x) \in Nat
      BY <1>3
    <3>4. a + i \in 1 .. Len(x)
      BY <2>1, <2>2, <3>1, <3>3
    <3>5. QED
      BY <1>6, <3>2, <3>4, BelowEntry
  <2>6. Below(part, M)
    BY <2>4, <2>5 DEF Below
  <2>7. QED
    BY <2>3, <2>6 DEF part
<1>8. QED
  BY <1>4, <1>5, <1>7 DEF Fits

(* No op outgrows the width its growth rule gives it.                      *)
LEMMA OpFits ==
  ASSUME NEW op, Valid(op), Declared(op),
         NEW in, NEW b, Bounded(in, b), RefDefined(op, in)
  PROVE  Fits(op, in, b)
<1>1. CASE op.type = "Linear"
  BY <1>1, LinearFits
<1>2. CASE op.type = "Conv2d"
  BY <1>2, ConvFits
<1>3. CASE op.type \in {"Activation", "Requant"}
  BY <1>3, TableFits
<1>4. CASE op.type = "Pool"
  BY <1>4, PoolFits
<1>5. CASE op.type = "Add"
  BY <1>5, AddFits
<1>6. CASE op.type \in {"Argmax", "Compare"}
  BY <1>6, CompareFits
<1>7. CASE op.type = "Concat"
  BY <1>7, ConcatFits
<1>8. CASE op.type = "Split"
  BY <1>8, SplitFits
<1>9. op.type \in OpTypes
  BY DEF Declared
<1>10. QED
  BY <1>1, <1>2, <1>3, <1>4, <1>5, <1>6, <1>7, <1>8, <1>9 DEF OpTypes

(* Every tensor has a width.                                               *)
LEMMA SomeWidth ==
  ASSUME NEW x \in Seq(Int)
  PROVE  \E n \in Nat : Below(x, n)
<1> DEFINE r == [bias |-> x]
           n == SumWidth(r, 0)
<1>1. r.bias = x
  OBVIOUS
<1> HIDE DEF r
<1>2. n \in Nat /\ \A i \in DOMAIN x : MagnitudeBits(x[i]) <= n
  BY <1>1, SumWidthIs
<1> HIDE DEF n
<1>3. \A i \in DOMAIN x : Magnitude(x[i]) < 2^n
  <2> SUFFICES ASSUME NEW i \in DOMAIN x PROVE Magnitude(x[i]) < 2^n
    OBVIOUS
  <2>1. x[i] \in Int
    OBVIOUS
  <2> DEFINE k == MagnitudeBits(x[i])
  <2>2. k \in Nat /\ Magnitude(x[i]) < 2^k
    BY <2>1, MagnitudeBitsHold
  <2>3. k <= n
    BY <1>2
  <2> HIDE DEF k
  <2>4. 2^k \in Nat /\ 2^n \in Nat /\ 2^k <= 2^n
    BY <1>2, <2>2, <2>3, PowerStep, PowerBounds
  <2>5. Magnitude(x[i]) \in Nat
    BY <2>1, MagnitudeIs
  <2>6. QED
    BY <2>2, <2>4, <2>5
<1>4. QED
  BY <1>2, <1>3 DEF Below

(* What an op computes is a tensor of integers.                            *)
LEMMA OpTyped ==
  ASSUME NEW op, Valid(op), Declared(op), NEW in \in Seq(Seq(Int)), RefDefined(op, in)
  PROVE  \A j \in 1 .. OutArity(op) : RefEval(op, in)[j] \in Seq(Int)
<1> DEFINE W(x) == CHOOSE n \in Nat : Below(x, n)
           b == [k \in DOMAIN in |-> W(in[k])]
<1>1. \A k \in DOMAIN in : in[k] \in Seq(Int)
  OBVIOUS
<1>2. \A k \in DOMAIN in : W(in[k]) \in Nat /\ Below(in[k], W(in[k]))
  BY <1>1, SomeWidth
<1> HIDE DEF W
<1>3. b \in Seq(Nat) /\ Len(b) = Len(in) /\ \A k \in DOMAIN in : b[k] = W(in[k])
  <2>1. DOMAIN in = 1 .. Len(in) /\ Len(in) \in Nat
    OBVIOUS
  <2>2. QED
    BY <1>2, <2>1
<1> HIDE DEF b
<1>4. Bounded(in, b)
  BY <1>2, <1>3 DEF Bounded
<1>5. Fits(op, in, b)
  BY <1>4, OpFits
<1>6. QED
  BY <1>5 DEF Fits, Below

-----------------------------------------------------------------------------
(* The names a binding adds.                                               *)
LEMMA BindDomain ==
  \A e, names, values : DOMAIN Bind(e, names, values) = DOMAIN e \cup ToSet(names)
  BY DEF Bind

(* A binding: the new names have the new values, the others keep theirs.   *)
Binds(f, e, names, values) ==
  /\ DOMAIN f = DOMAIN e \cup ToSet(names)
  /\ \A k \in DOMAIN names : names[k] \in DOMAIN f /\ f[names[k]] = values[k]
  /\ \A t \in DOMAIN e \ ToSet(names) : f[t] = e[t]

(* Binding distinct names does that.                                        *)
LEMMA BindValues ==
  ASSUME NEW e, NEW names, IsInjective(names), NEW values
  PROVE  Binds(Bind(e, names, values), e, names, values)
<1> DEFINE f == Bind(e, names, values)
           T == DOMAIN e \cup ToSet(names)
<1>1. f = [t \in T |-> IF t \in ToSet(names) THEN values[PlaceOf(names, t)] ELSE e[t]]
  BY DEF Bind
<1>2. \A k \in DOMAIN names : names[k] \in ToSet(names)
  BY DEF ToSet
<1>3. ASSUME NEW k \in DOMAIN names PROVE PlaceOf(names, names[k]) = k
  <2>1. PlaceOf(names, names[k]) \in DOMAIN names /\ names[PlaceOf(names, names[k])] = names[k]
    BY DEF PlaceOf
  <2>2. \A a, b \in DOMAIN names : names[a] = names[b] => a = b
    BY DEF IsInjective
  <2>3. QED
    BY <2>1, <2>2
<1> HIDE DEF f
<1>4. \A k \in DOMAIN names : names[k] \in DOMAIN f /\ f[names[k]] = values[k]
  BY <1>1, <1>2, <1>3
<1>5. DOMAIN f = T /\ \A t \in DOMAIN e \ ToSet(names) : f[t] = e[t]
  BY <1>1
<1>6. QED
  BY <1>4, <1>5 DEF f, Binds

(* In order, a node reads inputs and what earlier nodes write, and no node *)
(* writes what it or an earlier node reads.                                *)
InOrder(ns, inputs, o) ==
  /\ Len(o) \in Nat /\ \A k \in 1 .. Len(o) : o[k] \in DOMAIN ns
  /\ \A i \in DOMAIN ns : \E k \in 1 .. Len(o) : o[k] = i
  /\ \A k \in 1 .. Len(o) : \A j \in 1 .. k : ToSet(ns[o[j]].ins) \cap ToSet(ns[o[k]].outs) = {}
  /\ \A k \in 1 .. Len(o) :
       ToSet(ns[o[k]].ins) \subseteq inputs \cup UNION {ToSet(ns[o[l]].outs) : l \in 1 .. k-1}

(* The stable order of a list that can be sorted is such an order.         *)
LEMMA SortedInOrder ==
  ASSUME NEW ns, ns \in Seq(ToSet(ns)), NEW inputs, Sortable(ns, inputs)
  PROVE  InOrder(ns, inputs, StableOrder(ns))
<1> DEFINE o == StableOrder(ns)
<1>1. ns \in Seq(ToSet(ns))
  OBVIOUS
<1>2. ProducersFirst(ns, o) /\ ToSet(o) = DOMAIN ns
  <2>1. Len(o) = Len(ns)
    BY DEF Sortable
  <2>2. QED
    BY <1>1, <2>1, OrderIsSound
<1> HIDE DEF o
<1>3. /\ Len(o) \in Nat /\ DOMAIN o = 1 .. Len(o) /\ \A k \in 1 .. Len(o) : o[k] \in DOMAIN ns
      /\ \A j, k \in 1 .. Len(o) : o[j] = o[k] => j = k
      /\ \A k \in 1 .. Len(o) : \A p \in Producers(ns, o[k]) : \E j \in 1 .. k-1 : o[j] = p
  <2>1. o \in Seq(DOMAIN ns)
    BY <1>2 DEF ProducersFirst
  <2>2. Len(o) \in Nat /\ DOMAIN o = 1 .. Len(o) /\ \A k \in 1 .. Len(o) : o[k] \in DOMAIN ns
    BY <2>1
  <2>3. /\ \A j, k \in 1 .. Len(o) : o[j] = o[k] => j = k
        /\ \A k \in 1 .. Len(o) : \A p \in Producers(ns, o[k]) : \E j \in 1 .. k-1 : o[j] = p
    BY <1>2, Zenon DEF ProducersFirst
  <2>4. QED
    BY <2>2, <2>3
<1>4. \A i \in DOMAIN ns : \E k \in 1 .. Len(o) : o[k] = i
  BY <1>2, <1>3 DEF ToSet
<1>5. ASSUME NEW k \in 1 .. Len(o), NEW j \in 1 .. k
      PROVE  ToSet(ns[o[j]].ins) \cap ToSet(ns[o[k]].outs) = {}
  <2> SUFFICES ASSUME ToSet(ns[o[k]].outs) \cap ToSet(ns[o[j]].ins) # {} PROVE FALSE
    OBVIOUS
  <2>1. j \in 1 .. Len(o)
    BY <1>3
  <2>2. o[k] \in Producers(ns, o[j])
    BY <1>3, <2>1 DEF Producers
  <2>3. PICK l \in 1 .. j-1 : o[l] = o[k]
    BY <1>3, <2>1, <2>2
  <2>4. l \in 1 .. Len(o) /\ l # k
    BY <1>3
  <2>5. QED
    BY <1>3, <2>3, <2>4
<1>6. ASSUME NEW k \in 1 .. Len(o), NEW t \in ToSet(ns[o[k]].ins), t \notin inputs
      PROVE  \E l \in 1 .. k-1 : t \in ToSet(ns[o[l]].outs)
  <2>1. PICK p \in DOMAIN ns : t \in ToSet(ns[p].outs)
    BY <1>3, <1>6 DEF Sortable, Written
  <2>2. p \in Producers(ns, o[k])
    BY <2>1 DEF Producers
  <2>3. PICK l \in 1 .. k-1 : o[l] = p
    BY <1>3, <2>2
  <2>4. QED
    BY <2>1, <2>3
<1>7. \A k \in 1 .. Len(o) :
        ToSet(ns[o[k]].ins) \subseteq inputs \cup UNION {ToSet(ns[o[l]].outs) : l \in 1 .. k-1}
  BY <1>6
<1>8. QED
  BY <1>3, <1>4, <1>5, <1>7 DEF InOrder, o

(* The widths are what widening one node after the other gives.            *)
Widened(n, w) == Bind(w, n.outs, OutWidths(n, w))

(* The widths after every turn.                                            *)
WidthsUnfolded(ws, ns, m) ==
  /\ ws[0] = InputWidths(m)
  /\ \A k \in 1 .. Len(StableOrder(ns)) : ws[k] = Widened(ns[StableOrder(ns)[k]], ws[k-1])
  /\ Widths(ns, m) = ws[Len(StableOrder(ns))]

(* They have one entry for every turn of the loop over the order           *)
(* (propagate_bit_widths).                                                 *)
LEMMA WidthsUnfold ==
  ASSUME NEW ns, NEW m, Len(StableOrder(ns)) \in Nat
  PROVE  \E ws : WidthsUnfolded(ws, ns, m)
<1> DEFINE order == StableOrder(ns)
           Entry(f, k) == IF k = 0 THEN InputWidths(m)
                          ELSE Bind(f[k-1], ns[order[k]].outs, OutWidths(ns[order[k]], f[k-1]))
           Upto(n) == \E f : f = [k \in 0 .. n |-> Entry(f, k)]
           N == {n \in Nat : Upto(n)}
           F == CHOOSE f : f = [k \in 0 .. Len(order) |-> Entry(f, k)]
<1>0. \A j \in Nat : j \in N <=> Upto(j)
  BY Zenon
<1>a. Widths(ns, m) = F[Len(order)]
  BY DEF Widths
<1> HIDE DEF order
<1>1. 0 \in N
  <2> DEFINE f == [k \in 0 .. 0 |-> InputWidths(m)]
  <2>1. \A k \in 0 .. 0 : Entry(f, k) = InputWidths(m)
    BY DEF Entry
  <2>2. f = [k \in 0 .. 0 |-> Entry(f, k)]
    BY <2>1
  <2>3. Upto(0)
    BY <2>2, Zenon
  <2>4. QED
    BY <1>0, <2>3
<1>2. ASSUME NEW n \in Nat, n \in N PROVE n + 1 \in N
  <2>0. Upto(n)
    BY <1>0, <1>2
  <2>1. PICK f : f = [k \in 0 .. n |-> Entry(f, k)]
    BY <2>0, Zenon
  <2> DEFINE h == [k \in 0 .. n + 1 |-> IF k = n + 1 THEN Entry(f, k) ELSE f[k]]
  <2>2. \A k \in 0 .. n : f[k] = Entry(f, k)
    BY <2>1, Zenon
  <2>3. \A k \in 0 .. n + 1 : h[k] = Entry(f, k)
    <3>1. \A k \in 0 .. n + 1 : k = n + 1 \/ k \in 0 .. n
      OBVIOUS
    <3> HIDE DEF Entry
    <3>2. QED
      BY <2>2, <3>1
  <2>4. \A k \in 0 .. n + 1 : k # 0 => h[k-1] = f[k-1]
    <3> HIDE DEF Entry
    <3>1. QED
      OBVIOUS
  <2>5. ASSUME NEW k \in 0 .. n + 1 PROVE Entry(h, k) = Entry(f, k)
    <3>1. CASE k = 0
      BY <3>1
    <3>2. CASE k # 0
      <4>1. h[k-1] = f[k-1]
        BY <2>4, <3>2
      <4> HIDE DEF h
      <4>2. QED
        BY <3>2, <4>1
    <3>3. QED
      BY <3>1, <3>2
  <2> HIDE DEF Entry
  <2>6. h = [k \in 0 .. n + 1 |-> Entry(h, k)]
    BY <2>3, <2>5
  <2> HIDE DEF h
  <2>7. Upto(n + 1)
    BY <2>6, Zenon
  <2>8. n + 1 \in Nat
    OBVIOUS
  <2> HIDE DEF N, Upto
  <2>9. QED
    BY <1>0, <2>7, <2>8
<1>3. Upto(Len(order))
  <2> HIDE DEF N, Upto
  <2>1. \A n \in Nat : n \in N
    BY <1>1, <1>2, SetInduction
  <2>2. QED
    BY <1>0, <2>1 DEF order
<1>4. F = [k \in 0 .. Len(order) |-> Entry(F, k)]
  BY <1>3, Zenon
<1> HIDE DEF F
<1>6. \A k \in 0 .. Len(order) : F[k] = Entry(F, k)
  BY <1>4, Zenon
<1>7. Len(order) \in Nat
  BY DEF order
<1>8. F[0] = InputWidths(m)
  BY <1>6, <1>7
<1>9. ASSUME NEW k \in 1 .. Len(order) PROVE F[k] = Widened(ns[order[k]], F[k-1])
  <2>1. k \in 0 .. Len(order) /\ k # 0
    BY <1>7
  <2>2. F[k] = Entry(F, k)
    BY <1>6, <2>1
  <2>3. QED
    BY <2>1, <2>2 DEF Widened
<1>10. WidthsUnfolded(F, ns, m)
  BY <1>a, <1>8, <1>9, Zenon DEF order, WidthsUnfolded
<1>11. QED
  BY <1>10, Zenon

(* A node whose outputs have the width of its op.                          *)
Sized(n, w) ==
  /\ ToSet(n.ins) \subseteq DOMAIN w
  /\ \A k \in DOMAIN n.outs :
       n.outs[k] \in DOMAIN w /\ w[n.outs[k]] = OutputBits(n.op, Operands(n, w))

(* It depends on its operands and outputs alone.                           *)
LEMMA SizedMore ==
  ASSUME NEW n, NEW w, Sized(n, w), NEW v, DOMAIN w \subseteq DOMAIN v,
         \A t \in DOMAIN w : v[t] = w[t]
  PROVE  Sized(n, v)
<1>1. ToSet(n.ins) \subseteq DOMAIN w
  BY DEF Sized
<1>2. \A k \in DOMAIN n.ins : n.ins[k] \in DOMAIN w
  BY <1>1 DEF ToSet
<1>3. Operands(n, v) = Operands(n, w)
  BY <1>2 DEF Operands
<1>4. QED
  BY <1>1, <1>3 DEF Sized

(* Widening a node whose operands have a width, its outputs none.          *)
LEMMA WidenedIs ==
  ASSUME NEW n, IsInjective(n.outs), NEW w, ToSet(n.ins) \subseteq DOMAIN w,
         ToSet(n.outs) \cap DOMAIN w = {}
  PROVE  LET v == Widened(n, w)
         IN  /\ DOMAIN v = DOMAIN w \cup ToSet(n.outs) /\ \A t \in DOMAIN w : v[t] = w[t]
             /\ Sized(n, v)
<1> DEFINE v == Widened(n, w)
           ob == OutWidths(n, w)
<1>1. v = Bind(w, n.outs, ob)
  BY DEF Widened
<1>2. \A k \in DOMAIN n.outs : ob[k] = OutputBits(n.op, Operands(n, w))
  BY DEF OutWidths
<1> HIDE DEF v, ob
<1>3. /\ DOMAIN v = DOMAIN w \cup ToSet(n.outs)
      /\ \A k \in DOMAIN n.outs : n.outs[k] \in DOMAIN v /\ v[n.outs[k]] = ob[k]
      /\ \A t \in DOMAIN w \ ToSet(n.outs) : v[t] = w[t]
  <2>1. Binds(Bind(w, n.outs, ob), w, n.outs, ob)
    BY BindValues
  <2>2. QED
    BY <1>1, <2>1 DEF Binds
<1>4. \A t \in DOMAIN w : v[t] = w[t]
  BY <1>3
<1>5. \A k \in DOMAIN n.ins : n.ins[k] \in DOMAIN w
  BY DEF ToSet
<1>6. Operands(n, v) = Operands(n, w)
  BY <1>4, <1>5 DEF Operands
<1>7. Sized(n, v)
  BY <1>2, <1>3, <1>6 DEF Sized
<1>8. QED
  BY <1>3, <1>4, <1>7 DEF v

(* The widths of a list that can be sorted: the inputs have the model's,   *)
(* and every node's outputs what its op makes of its operands' widths.     *)
LEMMA WidthsHold ==
  ASSUME NEW ns, ns \in Seq(ToSet(ns)), NEW m, Sortable(ns, m.inputs)
  PROVE  LET w == Widths(ns, m)
         IN  /\ DOMAIN w = m.inputs \cup Written(ns)
             /\ \A t \in m.inputs : w[t] = m.inputBits
             /\ \A i \in DOMAIN ns : Sized(ns[i], w)
<1> DEFINE order == StableOrder(ns)
           outs(i) == ToSet(ns[i].outs)
           Known(k) == m.inputs \cup UNION {outs(order[j]) : j \in 1 .. k}
<1>1. /\ Len(order) \in Nat /\ \A k \in 1 .. Len(order) : order[k] \in DOMAIN ns
      /\ \A i \in DOMAIN ns : \E k \in 1 .. Len(order) : order[k] = i
      /\ \A k \in 1 .. Len(order) : ToSet(ns[order[k]].ins) \subseteq Known(k-1)
  BY SortedInOrder DEF InOrder
<1>2. \A j, k \in 1 .. Len(order) : order[j] = order[k] => j = k
  <2>1. ns \in Seq(ToSet(ns))
    OBVIOUS
  <2>2. ProducersFirst(ns, order)
    BY <2>1, OrderIsSound
  <2>3. QED
    BY <2>2, Zenon DEF ProducersFirst
<1>3. \A i \in DOMAIN ns :
        /\ IsInjective(ns[i].outs) /\ outs(i) \cap m.inputs = {}
        /\ \A j \in DOMAIN ns \ {i} : outs(i) \cap outs(j) = {}
  BY DEF Sortable
<1> HIDE DEF order
<1>4. PICK ws : /\ ws[0] = InputWidths(m)
                /\ \A k \in 1 .. Len(order) : ws[k] = Widened(ns[order[k]], ws[k-1])
                /\ Widths(ns, m) = ws[Len(order)]
  <2>1. PICK e : WidthsUnfolded(e, ns, m)
    BY <1>1, WidthsUnfold DEF order
  <2>2. QED
    BY <2>1, Zenon DEF WidthsUnfolded, order
<1> DEFINE P(k) == /\ DOMAIN ws[k] = Known(k)
                   /\ \A t \in m.inputs : ws[k][t] = m.inputBits
                   /\ \A j \in 1 .. k : Sized(ns[order[j]], ws[k])
           N == {k \in Nat : k <= Len(order) => P(k)}
<1>5. 0 \in N
  <2>1. DOMAIN ws[0] = m.inputs /\ \A t \in m.inputs : ws[0][t] = m.inputBits
    BY <1>4 DEF InputWidths
  <2>2. 1 .. 0 = {}
    OBVIOUS
  <2>3. Known(0) = m.inputs
    BY <2>2
  <2> HIDE DEF Known
  <2>4. P(0)
    BY <2>1, <2>2, <2>3
  <2>5. QED
    BY <2>4
<1>6. ASSUME NEW k \in Nat, k \in N PROVE k + 1 \in N
  <2> SUFFICES ASSUME k + 1 <= Len(order) PROVE P(k + 1)
    OBVIOUS
  <2> DEFINE n == ns[order[k+1]]
             e == ws[k]
             f == ws[k+1]
  <2>1. k <= Len(order) /\ k + 1 \in 1 .. Len(order) /\ (k + 1) - 1 = k
    <3> DEFINE len == Len(order)
    <3>1. len \in Nat /\ k + 1 <= len /\ k \in Nat
      BY <1>1, Zenon
    <3> HIDE DEF len
    <3>2. k <= len /\ k + 1 \in 1 .. len /\ (k + 1) - 1 = k
      BY ONLY <3>1
    <3>3. QED
      BY <3>2 DEF len
  <2>2. P(k)
    BY <1>6, <2>1
  <2>3. f = Widened(n, e)
    BY <1>4, <2>1
  <2>4. order[k+1] \in DOMAIN ns
    BY <1>1, <2>1
  <2>5. IsInjective(n.outs) /\ ToSet(n.outs) = outs(order[k+1])
    BY <1>3, <2>4
  <2>6. ToSet(n.ins) \subseteq Known(k)
    BY <1>1, <2>1
  <2>7. \A j \in 1 .. k : outs(order[j]) \cap outs(order[k+1]) = {}
    <3> SUFFICES ASSUME NEW j \in 1 .. k PROVE outs(order[j]) \cap outs(order[k+1]) = {}
      OBVIOUS
    <3>1. j \in 1 .. Len(order) /\ j # k + 1
      BY <1>1, <2>1
    <3>2. order[j] \in DOMAIN ns /\ order[j] # order[k+1]
      BY <1>1, <1>2, <2>1, <3>1
    <3>3. QED
      BY <1>3, <2>4, <3>2
  <2>8. Known(k) \cap outs(order[k+1]) = {}
    BY <1>3, <2>4, <2>7
  <2>9. Known(k + 1) = Known(k) \cup outs(order[k+1])
    <3>1. 1 .. k + 1 = (1 .. k) \cup {k + 1}
      OBVIOUS
    <3>2. QED
      BY <3>1
  <2>10. /\ DOMAIN e = Known(k) /\ \A t \in m.inputs : e[t] = m.inputBits
         /\ \A j \in 1 .. k : Sized(ns[order[j]], e)
    BY <2>2
  <2> HIDE DEF n, e, f, Known, outs, P
  <2>11. /\ DOMAIN f = DOMAIN e \cup ToSet(n.outs) /\ \A t \in DOMAIN e : f[t] = e[t]
         /\ Sized(n, f)
    <3>1. IsInjective(n.outs) /\ ToSet(n.ins) \subseteq DOMAIN e /\ ToSet(n.outs) \cap DOMAIN e = {}
      BY <2>5, <2>6, <2>8, <2>10
    <3>2. QED
      BY ONLY <2>3, <3>1, WidenedIs
  <2>12. DOMAIN f = Known(k + 1)
    BY <2>5, <2>9, <2>10, <2>11
  <2>13. \A t \in m.inputs : f[t] = m.inputBits
    <3>1. m.inputs \subseteq DOMAIN e
      BY <2>10 DEF Known
    <3>2. QED
      BY <2>10, <2>11, <3>1
  <2>14. \A j \in 1 .. k + 1 : Sized(ns[order[j]], f)
    <3> SUFFICES ASSUME NEW j \in 1 .. k + 1 PROVE Sized(ns[order[j]], f)
      OBVIOUS
    <3>1. CASE j = k + 1
      BY <2>11, <3>1 DEF n
    <3>2. CASE j \in 1 .. k
      <4>1. DOMAIN e \subseteq DOMAIN f
        BY <2>11
      <4>2. Sized(ns[order[j]], e)
        BY <2>10, <3>2
      <4>3. QED
        BY <2>11, <4>1, <4>2, SizedMore
    <3>3. QED
      BY <3>1, <3>2
  <2>15. QED
    BY <2>12, <2>13, <2>14 DEF f, P
<1>7. P(Len(order))
  <2> HIDE DEF P
  <2>1. \A k \in Nat : k \in N
    <3> HIDE DEF N
    <3>1. QED
      BY <1>5, <1>6, SetInduction
  <2>2. QED
    BY <1>1, <2>1
<1> DEFINE w == ws[Len(order)]
<1>8. /\ DOMAIN w = Known(Len(order)) /\ \A t \in m.inputs : w[t] = m.inputBits
      /\ \A j \in 1 .. Len(order) : Sized(ns[order[j]], w)
  BY <1>7
<1>9. Widths(ns, m) = w
  BY <1>4
<1>10. Known(Len(order)) = m.inputs \cup Written(ns)
  BY <1>1 DEF Written
<1> HIDE DEF w, P, Known, outs
<1>11. \A i \in DOMAIN ns : Sized(ns[i], w)
  BY <1>1, <1>8
<1>12. QED
  BY <1>8, <1>9, <1>10, <1>11

-----------------------------------------------------------------------------
(* The oracle's walk: an environment in which every node that has values   *)
(* at its outputs computes them from those at its inputs.                  *)
Held(n, e) ==
  ToSet(n.outs) \cap DOMAIN e # {} =>
    /\ RefKnown(n, e)
    /\ \A k \in DOMAIN n.outs :
         n.outs[k] \in DOMAIN e /\ e[n.outs[k]] = RefEval(n.op, Operands(n, e))[k]

(* Every node of a list does.                                               *)
Holds(ns, e) == \A i \in DOMAIN ns : Held(ns[i], e)

(* The values are lists of integers.                                        *)
Typed(e) == \A t \in DOMAIN e : e[t] \in Seq(Int)

(* The environment is what binding one node after the other gives.         *)
Unfolded(envs, ns, m, x) ==
  /\ envs[0] = [t \in m.inputs |-> x]
  /\ \A k \in 1 .. Len(StableOrder(ns)) : envs[k] = RefBind(ns[StableOrder(ns)[k]], envs[k-1])
  /\ RefEnv(ns, m, x) = envs[Len(StableOrder(ns))]

(* The forward pass is such an environment: it has one entry for every      *)
(* turn of the loop over the order (evaluate_graph_int).                      *)
LEMMA RefUnfolds ==
  ASSUME NEW ns, NEW m, NEW x, Len(StableOrder(ns)) \in Nat
  PROVE  \E envs : Unfolded(envs, ns, m, x)
<1> DEFINE order == StableOrder(ns)
           Entry(f, k) == IF k = 0 THEN [t \in m.inputs |-> x]
                          ELSE RefBind(ns[order[k]], f[k-1])
           Upto(n) == \E f : f = [k \in 0 .. n |-> Entry(f, k)]
           N == {n \in Nat : Upto(n)}
           F == CHOOSE f : f = [k \in 0 .. Len(order) |-> Entry(f, k)]
<1>0. \A j \in Nat : j \in N <=> Upto(j)
  BY Zenon
<1>a. RefEnv(ns, m, x) = F[Len(order)]
  BY DEF RefEnv
<1> HIDE DEF order
<1>1. 0 \in N
  <2> DEFINE f == [k \in 0 .. 0 |-> [t \in m.inputs |-> x]]
  <2>1. \A k \in 0 .. 0 : Entry(f, k) = [t \in m.inputs |-> x]
    BY DEF Entry
  <2>2. f = [k \in 0 .. 0 |-> Entry(f, k)]
    BY <2>1
  <2>3. Upto(0)
    BY <2>2, Zenon
  <2>4. QED
    BY <1>0, <2>3
<1>2. ASSUME NEW n \in Nat, n \in N PROVE n + 1 \in N
  <2>0. Upto(n)
    BY <1>0, <1>2
  <2>1. PICK f : f = [k \in 0 .. n |-> Entry(f, k)]
    BY <2>0, Zenon
  <2> DEFINE h == [k \in 0 .. n + 1 |-> IF k = n + 1 THEN Entry(f, k) ELSE f[k]]
  <2>2. \A k \in 0 .. n : f[k] = Entry(f, k)
    BY <2>1, Zenon
  <2>3. \A k \in 0 .. n + 1 : h[k] = Entry(f, k)
    <3>1. \A k \in 0 .. n + 1 : k = n + 1 \/ k \in 0 .. n
      OBVIOUS
    <3> HIDE DEF Entry
    <3>2. QED
      BY <2>2, <3>1
  <2>4. \A k \in 0 .. n + 1 : k # 0 => h[k-1] = f[k-1]
    <3> HIDE DEF Entry
    <3>1. QED
      OBVIOUS
  <2>5. ASSUME NEW k \in 0 .. n + 1 PROVE Entry(h, k) = Entry(f, k)
    <3>1. CASE k = 0
      BY <3>1
    <3>2. CASE k # 0
      <4>1. h[k-1] = f[k-1]
        BY <2>4, <3>2
      <4> HIDE DEF h
      <4>2. QED
        BY <3>2, <4>1
    <3>3. QED
      BY <3>1, <3>2
  <2> HIDE DEF Entry
  <2>6. h = [k \in 0 .. n + 1 |-> Entry(h, k)]
    BY <2>3, <2>5
  <2> HIDE DEF h
  <2>7. Upto(n + 1)
    BY <2>6, Zenon
  <2>8. n + 1 \in Nat
    OBVIOUS
  <2> HIDE DEF N, Upto
  <2>9. QED
    BY <1>0, <2>7, <2>8
<1>3. Upto(Len(order))
  <2> HIDE DEF N, Upto
  <2>1. \A n \in Nat : n \in N
    BY <1>1, <1>2, SetInduction
  <2>2. QED
    BY <1>0, <2>1 DEF order
<1>4. F = [k \in 0 .. Len(order) |-> Entry(F, k)]
  BY <1>3, Zenon
<1> HIDE DEF F
<1>6. \A k \in 0 .. Len(order) : F[k] = Entry(F, k)
  BY <1>4, Zenon
<1>7. Len(order) \in Nat
  BY DEF order
<1>8. F[0] = [t \in m.inputs |-> x]
  BY <1>6, <1>7
<1>9. ASSUME NEW k \in 1 .. Len(order) PROVE F[k] = RefBind(ns[order[k]], F[k-1])
  <2>1. k \in 0 .. Len(order) /\ k # 0
    BY <1>7
  <2>2. F[k] = Entry(F, k)
    BY <1>6, <2>1
  <2>3. QED
    BY <2>1, <2>2
<1>10. Unfolded(F, ns, m, x)
  BY <1>a, <1>8, <1>9, Zenon DEF order, Unfolded
<1>11. QED
  BY <1>10, Zenon

(* A node's values depend on its operands alone.                           *)
LEMMA HeldMore ==
  ASSUME NEW n, HasLists(n), NEW e, NEW f,
         DOMAIN e \subseteq DOMAIN f, \A t \in DOMAIN e : f[t] = e[t],
         Held(n, e), ToSet(n.outs) \cap DOMAIN f \subseteq DOMAIN e
  PROVE  Held(n, f)
<1> SUFFICES ASSUME ToSet(n.outs) \cap DOMAIN f # {}
             PROVE  /\ RefKnown(n, f)
                    /\ \A k \in DOMAIN n.outs :
                         n.outs[k] \in DOMAIN f /\ f[n.outs[k]] = RefEval(n.op, Operands(n, f))[k]
  BY DEF Held
<1>1. ToSet(n.outs) \cap DOMAIN e # {}
  OBVIOUS
<1>2. /\ RefKnown(n, e)
      /\ \A k \in DOMAIN n.outs :
           n.outs[k] \in DOMAIN e /\ e[n.outs[k]] = RefEval(n.op, Operands(n, e))[k]
  BY <1>1 DEF Held
<1>3. ToSet(n.ins) \subseteq DOMAIN e /\ RefDefined(n.op, Operands(n, e))
  BY <1>2 DEF RefKnown
<1>4. Operands(n, f) = Operands(n, e)
  <2>1. \A k \in DOMAIN n.ins : n.ins[k] \in DOMAIN e
    BY <1>3 DEF ToSet
  <2>2. QED
    BY <2>1 DEF Operands
<1>5. QED
  BY <1>2, <1>3, <1>4 DEF RefKnown

(* The operands of a node, in an environment of tensors.                   *)
LEMMA OperandsTyped ==
  ASSUME NEW n, HasLists(n), NEW e, Typed(e), ToSet(n.ins) \subseteq DOMAIN e
  PROVE  /\ Operands(n, e) \in Seq(Seq(Int)) /\ Len(Operands(n, e)) = Len(n.ins)
         /\ DOMAIN Operands(n, e) = DOMAIN n.ins
         /\ \A k \in DOMAIN n.ins : n.ins[k] \in DOMAIN e /\ Operands(n, e)[k] = e[n.ins[k]]
<1> DEFINE T == Seq(Int)
<1>1. \A k \in DOMAIN n.ins : n.ins[k] \in DOMAIN e
  BY DEF ToSet
<1>2. \A k \in DOMAIN n.ins : e[n.ins[k]] \in T
  BY <1>1 DEF Typed
<1>3. DOMAIN n.ins = 1 .. Len(n.ins) /\ Len(n.ins) \in Nat
  BY DEF HasLists
<1>4. Operands(n, e) = [k \in DOMAIN n.ins |-> e[n.ins[k]]]
  BY DEF Operands
<1> HIDE DEF T
<1>5. Operands(n, e) \in Seq(T)
  BY <1>2, <1>3, <1>4
<1>6. Len(Operands(n, e)) = Len(n.ins)
  BY <1>3, <1>4
<1>7. QED
  BY <1>1, <1>4, <1>5, <1>6 DEF T

(* One node of the oracle's walk.                                          *)
LEMMA HeldBind ==
  ASSUME NEW n, HasLists(n), IsInjective(n.outs), Valid(n.op), Declared(n.op), Matched(n),
         NEW e, Typed(e), ToSet(n.outs) \cap DOMAIN e = {}
  PROVE  LET f == RefBind(n, e)
         IN  /\ DOMAIN e \subseteq DOMAIN f /\ DOMAIN f \subseteq DOMAIN e \cup ToSet(n.outs)
             /\ \A t \in DOMAIN e : f[t] = e[t]
             /\ Typed(f) /\ Held(n, f)
<1> DEFINE f == RefBind(n, e)
<1>1. CASE ~ RefKnown(n, e)
  <2>1. f = e
    BY <1>1 DEF RefBind
  <2> HIDE DEF f
  <2>2. Held(n, e)
    BY DEF Held
  <2>3. QED
    BY <2>1, <2>2 DEF f
<1>2. CASE RefKnown(n, e)
  <2> DEFINE in == Operands(n, e)
             v == RefEval(n.op, in)
  <2>1. f = Bind(e, n.outs, v)
    BY <1>2 DEF RefBind
  <2>2. ToSet(n.ins) \subseteq DOMAIN e /\ RefDefined(n.op, in)
    BY <1>2 DEF RefKnown
  <2>3. n.outs \in Seq(ToSet(n.outs)) /\ DOMAIN n.outs = 1 .. OutArity(n.op)
    BY DEF HasLists, Matched
  <2>4. in \in Seq(Seq(Int))
    BY <2>2, OperandsTyped
  <2> HIDE DEF in
  <2>5. \A k \in DOMAIN n.outs : v[k] \in Seq(Int)
    BY <2>2, <2>3, <2>4, OpTyped
  <2> HIDE DEF f, v
  <2>6. /\ DOMAIN f = DOMAIN e \cup ToSet(n.outs)
        /\ \A k \in DOMAIN n.outs : n.outs[k] \in DOMAIN f /\ f[n.outs[k]] = v[k]
        /\ \A t \in DOMAIN e \ ToSet(n.outs) : f[t] = e[t]
    <3>1. Binds(Bind(e, n.outs, v), e, n.outs, v)
      BY BindValues
    <3>2. QED
      BY <2>1, <3>1 DEF Binds
  <2>7. \A t \in DOMAIN e : f[t] = e[t]
    BY <2>6
  <2>8. Typed(f)
    <3> SUFFICES ASSUME NEW t \in DOMAIN f PROVE f[t] \in Seq(Int)
      BY DEF Typed
    <3>1. CASE t \in DOMAIN e
      BY <2>7, <3>1 DEF Typed
    <3>2. CASE t \in ToSet(n.outs)
      <4>1. PICK k \in DOMAIN n.outs : t = n.outs[k]
        BY <3>2 DEF ToSet
      <4>2. QED
        BY <2>5, <2>6, <4>1
    <3>3. QED
      BY <2>6, <3>1, <3>2
  <2>9. Operands(n, f) = in
    <3>1. \A k \in DOMAIN n.ins : n.ins[k] \in DOMAIN e
      BY <2>2 DEF ToSet
    <3>2. QED
      BY <2>7, <3>1 DEF Operands, in
  <2>10. Held(n, f)
    <3>1. RefKnown(n, f)
      BY <2>2, <2>6, <2>9 DEF RefKnown
    <3>2. \A k \in DOMAIN n.outs :
            n.outs[k] \in DOMAIN f /\ f[n.outs[k]] = RefEval(n.op, Operands(n, f))[k]
      BY <2>6, <2>9 DEF v
    <3>3. QED
      BY <3>1, <3>2 DEF Held
  <2>11. QED
    BY <2>6, <2>7, <2>8, <2>10 DEF f
<1>3. QED
  BY <1>1, <1>2

(* A list of nodes, whatever their ops.                                    *)
Listed(ns) == ns \in Seq(ToSet(ns)) /\ \A i \in DOMAIN ns : HasLists(ns[i])

(* The lists a model declares are such.                                    *)
LEMMA NodesListed ==
  ASSUME NEW ns, IsNodeList(ns)
  PROVE  Listed(ns)
  BY DEF IsNodeList, IsNode, Listed

(* The oracle's walk of a list that can be sorted.                         *)
LEMMA RefHolds ==
  ASSUME NEW ns, Listed(ns), NEW m, Sortable(ns, m.inputs),
         \A i \in DOMAIN ns : Valid(ns[i].op) /\ Declared(ns[i].op) /\ Matched(ns[i]),
         NEW x \in Seq(Int)
  PROVE  LET e == RefEnv(ns, m, x)
         IN  Holds(ns, e) /\ Typed(e) /\ \A t \in m.inputs : t \in DOMAIN e /\ e[t] = x
<1> DEFINE order == StableOrder(ns)
           outs(i) == ToSet(ns[i].outs)
<1>1. ns \in Seq(ToSet(ns)) /\ \A i \in DOMAIN ns : HasLists(ns[i])
  BY DEF Listed
<1>2. /\ order \in Seq(DOMAIN ns)
      /\ \A j, k \in 1 .. Len(order) : order[j] = order[k] => j = k
      /\ ToSet(order) = DOMAIN ns
  <2>1. ProducersFirst(ns, order) /\ (Len(order) = Len(ns) => ToSet(order) = DOMAIN ns)
    BY <1>1, OrderIsSound
  <2>2. Len(order) = Len(ns)
    BY DEF Sortable
  <2>3. QED
    BY <2>1, <2>2 DEF ProducersFirst
<1>3. \A i \in DOMAIN ns :
        /\ IsInjective(ns[i].outs) /\ outs(i) \cap m.inputs = {}
        /\ \A j \in DOMAIN ns \ {i} : outs(i) \cap outs(j) = {}
  BY DEF Sortable
<1> HIDE DEF order, outs
<1>4. Len(order) \in Nat /\ \A k \in 1 .. Len(order) : order[k] \in DOMAIN ns
  BY <1>2
<1>5. PICK envs :
        /\ envs[0] = [t \in m.inputs |-> x]
        /\ \A k \in 1 .. Len(order) : envs[k] = RefBind(ns[order[k]], envs[k-1])
        /\ RefEnv(ns, m, x) = envs[Len(order)]
  <2>1. PICK e : Unfolded(e, ns, m, x)
    BY <1>4, RefUnfolds DEF order
  <2>2. QED
    BY <2>1, Zenon DEF Unfolded, order
<1> DEFINE Known(k) == m.inputs \cup UNION {outs(order[j]) : j \in 1 .. k}
           P(k) == /\ Typed(envs[k])
                   /\ DOMAIN envs[k] \subseteq Known(k)
                   /\ \A t \in m.inputs : t \in DOMAIN envs[k] /\ envs[k][t] = x
                   /\ \A j \in 1 .. k : Held(ns[order[j]], envs[k])
           N == {k \in Nat : k <= Len(order) => P(k)}
<1>6. 0 \in N
  <2>1. Typed(envs[0])
    BY <1>5 DEF Typed
  <2>2. DOMAIN envs[0] = m.inputs /\ \A t \in m.inputs : envs[0][t] = x
    BY <1>5
  <2>3. 1 .. 0 = {}
    OBVIOUS
  <2>4. \A j \in 1 .. 0 : Held(ns[order[j]], envs[0])
    BY <2>3
  <2> HIDE DEF Known
  <2>5. m.inputs \subseteq Known(0)
    BY DEF Known
  <2>6. P(0)
    BY <2>1, <2>2, <2>4, <2>5
  <2>7. QED
    BY <2>6
<1>7. ASSUME NEW k \in Nat, k \in N PROVE k + 1 \in N
  <2> SUFFICES ASSUME k + 1 <= Len(order) PROVE P(k + 1)
    OBVIOUS
  <2> DEFINE n == ns[order[k+1]]
             e == envs[k]
             f == envs[k+1]
  <2>1. k <= Len(order) /\ k + 1 \in 1 .. Len(order) /\ (k + 1) - 1 = k
    BY <1>4
  <2>2. P(k)
    BY <1>7, <2>1
  <2>3. f = RefBind(n, e)
    BY <1>5, <2>1
  <2>4. order[k+1] \in DOMAIN ns
    BY <1>4, <2>1
  <2>5. /\ HasLists(n) /\ IsInjective(n.outs) /\ Valid(n.op) /\ Declared(n.op) /\ Matched(n)
        /\ ToSet(n.outs) = outs(order[k+1])
    BY <1>1, <1>3, <2>4 DEF outs
  <2>6. \A j \in 1 .. k : /\ order[j] \in DOMAIN ns
                          /\ order[j] # order[k+1]
                          /\ outs(order[j]) \cap outs(order[k+1]) = {}
    <3> SUFFICES ASSUME NEW j \in 1 .. k
                 PROVE  /\ order[j] \in DOMAIN ns
                        /\ order[j] # order[k+1]
                        /\ outs(order[j]) \cap outs(order[k+1]) = {}
      OBVIOUS
    <3>1. j \in 1 .. Len(order) /\ j # k + 1
      BY <1>4, <2>1
    <3>2. order[j] \in DOMAIN ns /\ order[j] # order[k+1]
      BY <1>2, <1>4, <2>1, <3>1
    <3>3. QED
      BY <1>3, <2>4, <3>2
  <2>7. Known(k) \cap outs(order[k+1]) = {}
    BY <1>3, <2>4, <2>6
  <2>8. ToSet(n.outs) \cap DOMAIN e = {}
    BY <2>2, <2>5, <2>7
  <2> HIDE DEF n
  <2>9. /\ DOMAIN e \subseteq DOMAIN f /\ DOMAIN f \subseteq DOMAIN e \cup ToSet(n.outs)
        /\ \A t \in DOMAIN e : f[t] = e[t]
        /\ Typed(f) /\ Held(n, f)
    BY <2>2, <2>3, <2>5, <2>8, HeldBind
  <2>10. \A j \in 1 .. k : Held(ns[order[j]], f)
    <3> SUFFICES ASSUME NEW j \in 1 .. k PROVE Held(ns[order[j]], f)
      OBVIOUS
    <3> DEFINE a == ns[order[j]]
    <3>1. HasLists(a) /\ ToSet(a.outs) = outs(order[j])
      BY <1>1, <2>6 DEF outs
    <3>2. Held(a, e)
      BY <2>2
    <3> HIDE DEF a, e, f
    <3>3. ToSet(a.outs) \cap DOMAIN f \subseteq DOMAIN e
      BY <2>5, <2>6, <2>9, <3>1
    <3>4. Held(a, f)
      BY <2>9, <3>1, <3>2, <3>3, HeldMore
    <3>5. QED
      BY <3>4 DEF a, f
  <2>11. DOMAIN f \subseteq Known(k + 1)
    <3>1. \A j \in 1 .. k : j \in 1 .. k + 1
      OBVIOUS
    <3>2. k + 1 \in 1 .. k + 1
      OBVIOUS
    <3>3. Known(k) \subseteq Known(k + 1) /\ outs(order[k+1]) \subseteq Known(k + 1)
      BY <3>1, <3>2
    <3> HIDE DEF Known
    <3>4. QED
      BY <2>2, <2>5, <2>9, <3>3
  <2>12. \A t \in m.inputs : t \in DOMAIN f /\ f[t] = x
    BY <2>2, <2>9
  <2>13. \A j \in 1 .. k + 1 : Held(ns[order[j]], f)
    <3>1. \A j \in 1 .. k + 1 : j \in 1 .. k \/ j = k + 1
      OBVIOUS
    <3> HIDE DEF f
    <3>2. QED
      BY <2>9, <2>10, <3>1 DEF n
  <2> HIDE DEF Known
  <2>14. QED
    BY <2>9, <2>11, <2>12, <2>13
<1>8. P(Len(order))
  <2> HIDE DEF P
  <2>1. \A k \in Nat : k \in N
    <3> HIDE DEF N
    <3>1. QED
      BY <1>6, <1>7, SetInduction
  <2>2. QED
    BY <1>4, <2>1
<1>9. Holds(ns, RefEnv(ns, m, x))
  <2> DEFINE e == envs[Len(order)]
  <2>1. \A j \in 1 .. Len(order) : Held(ns[order[j]], e)
    BY <1>8
  <2>2. RefEnv(ns, m, x) = e
    BY <1>5
  <2> HIDE DEF e, P
  <2>3. ASSUME NEW i \in DOMAIN ns PROVE Held(ns[i], e)
    <3>1. PICK j \in 1 .. Len(order) : order[j] = i
      BY <1>2, <1>4 DEF ToSet
    <3>2. QED
      BY <2>1, <3>1
  <2>4. Holds(ns, e)
    BY <2>3 DEF Holds
  <2>5. QED
    BY <2>2, <2>4
<1>10. QED
  BY <1>5, <1>8, <1>9

(* The widths of the tensors at hand, where the oracle has a value.        *)
Wide(w, e) == \A t \in DOMAIN w \cap DOMAIN e : w[t] \in Nat /\ Below(e[t], w[t])

(* One node: the widths it derives hold the values it computes.            *)
LEMMA EvalWide ==
  ASSUME NEW n, HasLists(n), Valid(n.op), Declared(n.op), Matched(n),
         NEW e, Typed(e), Held(n, e),
         NEW w, Wide(w, e), ToSet(n.ins) \subseteq DOMAIN w
  PROVE  Wide(Bind(w, n.outs, OutWidths(n, w)), e)
<1> DEFINE f == Bind(w, n.outs, OutWidths(n, w))
           in == Operands(n, e)
           b == Operands(n, w)
<1>1. f = [t \in DOMAIN w \cup ToSet(n.outs) |->
             IF t \in ToSet(n.outs) THEN OutWidths(n, w)[PlaceOf(n.outs, t)] ELSE w[t]]
  BY DEF Bind
<1>2. \A k \in DOMAIN n.outs : OutWidths(n, w)[k] = OutputBits(n.op, b)
  BY DEF OutWidths
<1>3. DOMAIN n.outs = 1 .. OutArity(n.op) /\ DOMAIN n.ins = 1 .. Len(n.ins) /\ Len(n.ins) \in Nat
  BY DEF HasLists, Matched
<1> HIDE DEF f
<1>4. ASSUME ToSet(n.outs) \cap DOMAIN e # {}
      PROVE  Fits(n.op, in, b)
  <2>1. ToSet(n.ins) \subseteq DOMAIN e /\ RefDefined(n.op, in)
    BY <1>4 DEF Held, RefKnown
  <2>2. /\ in \in Seq(Seq(Int)) /\ Len(in) = Len(n.ins) /\ DOMAIN in = DOMAIN n.ins
        /\ \A k \in DOMAIN n.ins : n.ins[k] \in DOMAIN e /\ in[k] = e[n.ins[k]]
    BY <2>1, OperandsTyped
  <2>3. \A k \in DOMAIN n.ins : n.ins[k] \in DOMAIN w
    BY DEF ToSet
  <2>4. \A k \in DOMAIN n.ins : w[n.ins[k]] \in Nat /\ Below(in[k], w[n.ins[k]])
    BY <2>2, <2>3 DEF Wide
  <2>5. b = [k \in 1 .. Len(n.ins) |-> w[n.ins[k]]]
    BY <1>3 DEF Operands
  <2> HIDE DEF b
  <2>6. b \in Seq(Nat) /\ Len(b) = Len(in) /\ \A k \in DOMAIN in : Below(in[k], b[k])
    <3>1. \A k \in 1 .. Len(n.ins) : w[n.ins[k]] \in Nat /\ Below(in[k], w[n.ins[k]])
      BY <1>3, <2>4
    <3>2. Len(in) = Len(n.ins) /\ DOMAIN in = 1 .. Len(n.ins)
      BY <1>3, <2>2
    <3> HIDE DEF in
    <3>3. b \in Seq(Nat) /\ Len(b) = Len(n.ins)
      BY <1>3, <2>5, <3>1
    <3>4. \A k \in 1 .. Len(n.ins) : Below(in[k], b[k])
      BY <2>5, <3>1
    <3>5. QED
      BY <3>2, <3>3, <3>4
  <2> HIDE DEF in
  <2>7. Bounded(in, b)
    BY <2>2, <2>6 DEF Bounded
  <2>8. QED
    BY <2>1, <2>7, OpFits
<1> HIDE DEF in, b
<1>5. ASSUME NEW t \in DOMAIN f \cap DOMAIN e
      PROVE  f[t] \in Nat /\ Below(e[t], f[t])
  <2>1. CASE t \in ToSet(n.outs)
    <3> DEFINE k == PlaceOf(n.outs, t)
    <3>1. k \in DOMAIN n.outs /\ n.outs[k] = t
      BY <2>1 DEF ToSet, PlaceOf
    <3>2. f[t] = OutWidths(n, w)[k]
      BY <1>1, <2>1
    <3> HIDE DEF k
    <3>3. f[t] = OutputBits(n.op, b)
      BY <1>2, <3>1, <3>2
    <3>4. e[t] = RefEval(n.op, in)[k]
      BY <2>1, <3>1 DEF Held, in
    <3>5. Fits(n.op, in, b)
      BY <1>4, <2>1
    <3>6. k \in 1 .. OutArity(n.op)
      BY <1>3, <3>1
    <3>7. QED
      BY <3>3, <3>4, <3>5, <3>6 DEF Fits
  <2>2. CASE t \notin ToSet(n.outs)
    <3>1. t \in DOMAIN w /\ f[t] = w[t]
      BY <1>1, <2>2
    <3>2. QED
      BY <3>1 DEF Wide
  <2>3. QED
    BY <2>1, <2>2
<1>6. QED
  BY <1>5 DEF Wide, f


(* The widths of the whole list hold the values of the forward pass.       *)
LEMMA WidthsAreWide ==
  ASSUME NEW ns, Listed(ns), NEW m, Sortable(ns, m.inputs), m.inputBits \in Nat,
         \A i \in DOMAIN ns : Valid(ns[i].op) /\ Declared(ns[i].op) /\ Matched(ns[i]),
         NEW e, Typed(e), Holds(ns, e), \A t \in m.inputs \cap DOMAIN e : Below(e[t], m.inputBits)
  PROVE  Wide(Widths(ns, m), e)
<1> DEFINE order == StableOrder(ns)
<1>1. /\ Len(order) \in Nat /\ \A k \in 1 .. Len(order) : order[k] \in DOMAIN ns
      /\ \A k \in 1 .. Len(order) :
           ToSet(ns[order[k]].ins) \subseteq m.inputs \cup UNION {ToSet(ns[order[l]].outs) : l \in 1 .. k-1}
  BY SortedInOrder DEF InOrder, Listed
<1>2. \A i \in DOMAIN ns : HasLists(ns[i]) /\ Held(ns[i], e)
  BY DEF Listed, Holds
<1> HIDE DEF order
<1>3. PICK ws : /\ ws[0] = InputWidths(m)
                /\ \A k \in 1 .. Len(order) : ws[k] = Widened(ns[order[k]], ws[k-1])
                /\ Widths(ns, m) = ws[Len(order)]
  <2>1. PICK f : WidthsUnfolded(f, ns, m)
    BY <1>1, WidthsUnfold DEF order
  <2>2. QED
    BY <2>1, Zenon DEF WidthsUnfolded, order
<1> DEFINE Known(k) == m.inputs \cup UNION {ToSet(ns[order[l]].outs) : l \in 1 .. k}
           P(k) == DOMAIN ws[k] = Known(k) /\ Wide(ws[k], e)
           N == {k \in Nat : k <= Len(order) => P(k)}
<1>4. 0 \in N
  <2>1. DOMAIN ws[0] = m.inputs /\ \A t \in m.inputs : ws[0][t] = m.inputBits
    BY <1>3 DEF InputWidths
  <2>2. Known(0) = m.inputs
    <3>1. 1 .. 0 = {}
      OBVIOUS
    <3>2. QED
      BY <3>1
  <2>3. Wide(ws[0], e)
    BY <2>1 DEF Wide
  <2>4. QED
    BY <2>1, <2>2, <2>3
<1>5. ASSUME NEW k \in Nat, k \in N PROVE k + 1 \in N
  <2> SUFFICES ASSUME k + 1 <= Len(order) PROVE P(k + 1)
    OBVIOUS
  <2> DEFINE n == ns[order[k+1]]
             w == ws[k]
  <2>1. k <= Len(order) /\ k + 1 \in 1 .. Len(order) /\ (k + 1) - 1 = k
    BY <1>1
  <2>2. DOMAIN w = Known(k) /\ Wide(w, e)
    BY <1>5, <2>1
  <2>3. ws[k+1] = Widened(n, w)
    BY <1>3, <2>1
  <2>4. order[k+1] \in DOMAIN ns
    BY <1>1, <2>1
  <2>5. HasLists(n) /\ Held(n, e) /\ Valid(n.op) /\ Declared(n.op) /\ Matched(n)
    BY <1>2, <2>4
  <2>6. ToSet(n.ins) \subseteq DOMAIN w
    BY <1>1, <2>1, <2>2
  <2>7. Known(k + 1) = Known(k) \cup ToSet(n.outs)
    <3>1. 1 .. k + 1 = (1 .. k) \cup {k + 1}
      OBVIOUS
    <3>2. QED
      BY <3>1
  <2> HIDE DEF n, w, Known
  <2>8. Wide(Bind(w, n.outs, OutWidths(n, w)), e)
    BY <2>2, <2>5, <2>6, EvalWide
  <2>9. DOMAIN Bind(w, n.outs, OutWidths(n, w)) = DOMAIN w \cup ToSet(n.outs)
    BY BindDomain, Zenon
  <2>10. QED
    BY <2>2, <2>3, <2>7, <2>8, <2>9 DEF Widened
<1>6. P(Len(order))
  <2> HIDE DEF P
  <2>1. \A k \in Nat : k \in N
    <3> HIDE DEF N
    <3>1. QED
      BY <1>4, <1>5, SetInduction
  <2>2. QED
    BY <1>1, <2>1
<1>7. QED
  BY <1>3, <1>6

(* A list in which every node reads inputs and outputs of earlier nodes,   *)
(* no two write the same tensor, and w gives every tensor its width.       *)
Consistent(ns, inputs, b, w) ==
  /\ \A i \in DOMAIN ns : IsInjective(ns[i].outs) /\ ToSet(ns[i].outs) \cap inputs = {}
  /\ \A i \in DOMAIN ns : \A j \in DOMAIN ns \ {i} : ToSet(ns[i].outs) \cap ToSet(ns[j].outs) = {}
  /\ \A i \in DOMAIN ns : \A t \in ToSet(ns[i].ins) :
       t \in inputs \/ \E j \in 1 .. i-1 : t \in ToSet(ns[j].outs)
  /\ DOMAIN w = inputs \cup Written(ns)
  /\ \A t \in inputs : w[t] = b
  /\ \A i \in DOMAIN ns : Sized(ns[i], w)

(* One more node, writing names of its own, widened behind the others.     *)
LEMMA ConsistentMore ==
  ASSUME NEW ns, NEW k \in Nat, DOMAIN ns = 1 .. k, NEW inputs, NEW b, NEW w,
         Consistent(ns, inputs, b, w),
         NEW n, IsInjective(n.outs), ToSet(n.outs) \cap (inputs \cup Written(ns)) = {},
         ToSet(n.ins) \subseteq inputs \cup Written(ns),
         NEW ms, DOMAIN ms = 1 .. k + 1, \A i \in 1 .. k : ms[i] = ns[i], ms[k + 1] = n
  PROVE  Consistent(ms, inputs, b, Widened(n, w)) /\ Written(ms) = Written(ns) \cup ToSet(n.outs)
<1> DEFINE v == Widened(n, w)
           I == DOMAIN ms
<1>1. /\ \A i \in 1 .. k : IsInjective(ns[i].outs) /\ ToSet(ns[i].outs) \cap inputs = {}
      /\ \A i \in 1 .. k : \A j \in (1 .. k) \ {i} : ToSet(ns[i].outs) \cap ToSet(ns[j].outs) = {}
      /\ \A i \in 1 .. k : \A t \in ToSet(ns[i].ins) :
           t \in inputs \/ \E j \in 1 .. i-1 : t \in ToSet(ns[j].outs)
      /\ DOMAIN w = inputs \cup Written(ns)
      /\ \A t \in inputs : w[t] = b
      /\ \A i \in 1 .. k : Sized(ns[i], w)
  BY DEF Consistent
<1>2. \A i \in I : i \in 1 .. k \/ i = k + 1
  OBVIOUS
<1>3. \A i \in 1 .. k : i \in I /\ ToSet(ns[i].outs) \subseteq Written(ns) /\ ms[i] = ns[i]
  BY DEF Written
<1>4. k + 1 \in I /\ ms[k + 1] = n /\ k + 1 \notin 1 .. k
  OBVIOUS
<1>5. Written(ms) = Written(ns) \cup ToSet(n.outs)
  <2>1. ASSUME NEW t \in Written(ms) PROVE t \in Written(ns) \cup ToSet(n.outs)
    <3>1. PICK i \in I : t \in ToSet(ms[i].outs)
      BY <2>1 DEF Written
    <3>2. QED
      BY <1>2, <1>3, <1>4, <3>1
  <2>2. ASSUME NEW t \in Written(ns) PROVE t \in Written(ms)
    <3>1. PICK i \in 1 .. k : t \in ToSet(ns[i].outs)
      BY <2>2 DEF Written
    <3>2. i \in I /\ t \in ToSet(ms[i].outs)
      BY <1>3, <3>1
    <3>3. QED
      BY <3>2 DEF Written
  <2>3. ToSet(n.outs) \subseteq Written(ms)
    BY <1>4 DEF Written
  <2>4. QED
    BY <2>1, <2>2, <2>3
<1>6. /\ DOMAIN v = DOMAIN w \cup ToSet(n.outs) /\ \A t \in DOMAIN w : v[t] = w[t]
      /\ Sized(n, v)
  <2>1. IsInjective(n.outs) /\ ToSet(n.ins) \subseteq DOMAIN w /\ ToSet(n.outs) \cap DOMAIN w = {}
    BY <1>1
  <2>2. QED
    BY ONLY <2>1, WidenedIs
<1> HIDE DEF v, I
<1>7. \A i \in I : IsInjective(ms[i].outs) /\ ToSet(ms[i].outs) \cap inputs = {}
  BY <1>1, <1>2, <1>3, <1>4
<1>8. \A i \in I : \A j \in I \ {i} : ToSet(ms[i].outs) \cap ToSet(ms[j].outs) = {}
  <2> SUFFICES ASSUME NEW i \in I, NEW j \in I \ {i}
               PROVE  ToSet(ms[i].outs) \cap ToSet(ms[j].outs) = {}
    OBVIOUS
  <2>1. CASE i \in 1 .. k /\ j \in 1 .. k
    BY <1>1, <1>3, <2>1
  <2>2. CASE i = k + 1 /\ j \in 1 .. k
    BY <1>3, <1>4, <2>2
  <2>3. CASE j = k + 1 /\ i \in 1 .. k
    BY <1>3, <1>4, <2>3
  <2>4. QED
    BY <1>2, <2>1, <2>2, <2>3
<1>9. ASSUME NEW i \in I, NEW t \in ToSet(ms[i].ins), t \notin inputs
      PROVE  \E j \in 1 .. i-1 : t \in ToSet(ms[j].outs)
  <2>1. CASE i \in 1 .. k
    <3>1. PICK j \in 1 .. i-1 : t \in ToSet(ns[j].outs)
      BY <1>1, <1>3, <1>9, <2>1
    <3>2. j \in 1 .. k
      BY <2>1
    <3>3. QED
      BY <1>3, <3>1, <3>2
  <2>2. CASE i = k + 1
    <3>1. t \in Written(ns)
      BY <1>4, <1>9, <2>2
    <3>2. PICK j \in 1 .. k : t \in ToSet(ns[j].outs)
      BY <3>1 DEF Written
    <3>3. j \in 1 .. i-1
      BY <2>2
    <3>4. QED
      BY <1>3, <3>2, <3>3
  <2>3. QED
    BY <1>2, <2>1, <2>2
<1>10. \A i \in I : Sized(ms[i], v)
  <2> SUFFICES ASSUME NEW i \in I PROVE Sized(ms[i], v)
    OBVIOUS
  <2>1. CASE i \in 1 .. k
    <3>1. Sized(ns[i], w) /\ DOMAIN w \subseteq DOMAIN v /\ \A t \in DOMAIN w : v[t] = w[t]
      BY <1>1, <1>6, <2>1
    <3>2. Sized(ns[i], v)
      BY ONLY <3>1, SizedMore
    <3>3. QED
      BY <1>3, <2>1, <3>2
  <2>2. QED
    BY <1>2, <1>4, <1>6, <2>1
<1>11. DOMAIN v = inputs \cup Written(ms) /\ \A t \in inputs : v[t] = b
  BY <1>1, <1>5, <1>6
<1>12. \A i \in I : \A t \in ToSet(ms[i].ins) :
         t \in inputs \/ \E j \in 1 .. i-1 : t \in ToSet(ms[j].outs)
  BY <1>9
<1>13. QED
  BY <1>5, <1>7, <1>8, <1>10, <1>11, <1>12 DEF Consistent, I, v

(* Such a list can be sorted.                                              *)
LEMMA ConsistentSorts ==
  ASSUME NEW ns, ns \in Seq(ToSet(ns)), NEW inputs, NEW b, NEW w, Consistent(ns, inputs, b, w)
  PROVE  Sortable(ns, inputs)
<1>1. DOMAIN ns = 1 .. Len(ns) /\ Len(ns) \in Nat
  OBVIOUS
<1>2. \A i \in DOMAIN ns : IsInjective(ns[i].outs) /\ ToSet(ns[i].outs) \cap inputs = {}
  BY DEF Consistent
<1>3. \A i \in DOMAIN ns : \A j \in DOMAIN ns \ {i} : ToSet(ns[i].outs) \cap ToSet(ns[j].outs) = {}
  BY DEF Consistent
<1>4. \A i \in DOMAIN ns : \A t \in ToSet(ns[i].ins) :
        t \in inputs \/ \E j \in 1 .. i-1 : t \in ToSet(ns[j].outs)
  BY DEF Consistent
<1>5. ASSUME NEW i \in DOMAIN ns, NEW p \in Producers(ns, i) PROVE p < i
  <2>1. PICK t : p \in DOMAIN ns /\ t \in ToSet(ns[p].outs) /\ t \in ToSet(ns[i].ins)
    BY <1>5 DEF Producers
  <2>2. t \notin inputs
    BY <1>2, <2>1
  <2>3. PICK j \in 1 .. i-1 : t \in ToSet(ns[j].outs)
    BY <1>4, <2>1, <2>2
  <2>4. j \in DOMAIN ns
    BY <1>1
  <2>5. j = p
    BY <1>3, <2>1, <2>3, <2>4
  <2>6. QED
    BY <1>1, <2>3, <2>5
<1>6. StableOrder(ns) = [k \in 1 .. Len(ns) |-> k]
  BY <1>5, ListedOrder
<1>7. Len(StableOrder(ns)) = Len(ns)
  BY <1>1, <1>6
<1>8. \A i \in DOMAIN ns : ToSet(ns[i].ins) \subseteq inputs \cup Written(ns)
  <2> SUFFICES ASSUME NEW i \in DOMAIN ns, NEW t \in ToSet(ns[i].ins), t \notin inputs
               PROVE  t \in Written(ns)
    OBVIOUS
  <2>1. PICK j \in 1 .. i-1 : t \in ToSet(ns[j].outs)
    BY <1>4
  <2>2. j \in DOMAIN ns
    BY <1>1
  <2>3. QED
    BY <2>1, <2>2 DEF Written
<1>9. QED
  BY <1>2, <1>3, <1>7, <1>8 DEF Sortable

(* And its widths are those.                                               *)
LEMMA ConsistentWidths ==
  ASSUME NEW ns, ns \in Seq(ToSet(ns)), NEW m, NEW w, Consistent(ns, m.inputs, m.inputBits, w)
  PROVE  LET v == Widths(ns, m) IN DOMAIN v = DOMAIN w /\ \A t \in DOMAIN v : v[t] = w[t]
<1> DEFINE v == Widths(ns, m)
           inputs == m.inputs
<1>1. DOMAIN ns = 1 .. Len(ns) /\ Len(ns) \in Nat
  OBVIOUS
<1>2. /\ \A i \in DOMAIN ns : \A t \in ToSet(ns[i].ins) :
           t \in inputs \/ \E j \in 1 .. i-1 : t \in ToSet(ns[j].outs)
      /\ DOMAIN w = inputs \cup Written(ns)
      /\ \A t \in inputs : w[t] = m.inputBits
      /\ \A i \in DOMAIN ns : Sized(ns[i], w)
  BY DEF Consistent
<1>3. /\ DOMAIN v = inputs \cup Written(ns)
      /\ \A t \in inputs : v[t] = m.inputBits
      /\ \A i \in DOMAIN ns : Sized(ns[i], v)
  BY ConsistentSorts, WidthsHold
<1> HIDE DEF v, inputs
<1> DEFINE Same(i) == \A t \in ToSet(ns[i].outs) : v[t] = w[t]
           N == {n \in Nat : \A i \in 1 .. n : i \in DOMAIN ns => Same(i)}
<1>4. 0 \in N
  OBVIOUS
<1>5. ASSUME NEW n \in Nat, n \in N PROVE n + 1 \in N
  <2>1. ASSUME n + 1 \in DOMAIN ns PROVE Same(n + 1)
    <3> DEFINE a == ns[n + 1]
    <3>1. Sized(a, v) /\ Sized(a, w)
      BY <1>2, <1>3, <2>1
    <3>2. ASSUME NEW t \in ToSet(a.ins) PROVE v[t] = w[t]
      <4>1. CASE t \in inputs
        BY <1>2, <1>3, <4>1
      <4>2. CASE t \notin inputs
        <5>1. PICK j \in 1 .. (n + 1) - 1 : t \in ToSet(ns[j].outs)
          BY <1>2, <2>1, <3>2, <4>2
        <5>2. j \in 1 .. n /\ j \in DOMAIN ns
          BY <1>1, <2>1
        <5>3. QED
          BY <1>5, <5>1, <5>2
      <4>3. QED
        BY <4>1, <4>2
    <3> HIDE DEF a
    <3>3. \A k \in DOMAIN a.ins : v[a.ins[k]] = w[a.ins[k]]
      BY <3>2 DEF ToSet
    <3>4. Operands(a, v) = Operands(a, w)
      BY <3>3 DEF Operands
    <3>5. \A k \in DOMAIN a.outs : v[a.outs[k]] = w[a.outs[k]]
      BY <3>1, <3>4 DEF Sized
    <3>6. QED
      BY <3>5 DEF a, ToSet
  <2> HIDE DEF Same
  <2>2. \A i \in 1 .. n + 1 : i \in 1 .. n \/ i = n + 1
    OBVIOUS
  <2>3. QED
    BY <1>5, <2>1, <2>2
<1>6. \A n \in Nat : n \in N
  <2> HIDE DEF N
  <2>1. QED
    BY <1>4, <1>5, SetInduction
<1>7. \A i \in DOMAIN ns : Same(i)
  BY <1>1, <1>6
<1>8. \A t \in Written(ns) : v[t] = w[t]
  BY <1>7 DEF Written
<1>9. QED
  BY <1>2, <1>3, <1>8 DEF v

-----------------------------------------------------------------------------
(* Narrow tensors are not negative.                                        *)

(* The width of an op's outputs, from widths alone.                        *)
LEMMA OutputBitsType ==
  ASSUME NEW op, Valid(op), Declared(op), NEW b \in Seq(Nat), Len(b) = Arity(op)
  PROVE  OutputBits(op, b) \in Nat
<1>1. op.type # "Concat" => 1 \in DOMAIN b /\ b[1] \in Nat
  <2> SUFFICES ASSUME op.type # "Concat" PROVE 1 \in DOMAIN b /\ b[1] \in Nat
    OBVIOUS
  <2>1. Len(b) \in {1, 2}
    BY DEF Arity
  <2>2. QED
    BY <2>1
<1>2. CASE op.type \in {"Linear", "Conv2d"}
  <2> DEFINE n == Len(op.weights[1])
             A == b[1] + op.weightBits + CeilLog2(n)
  <2>1. op.weightBits \in Nat /\ op.bias \in Seq(Int) /\ op.weights \in Seq(Seq(Int))
    BY <1>2 DEF Declared
  <2>2. op.weights # <<>>
    BY <1>2 DEF Valid, ValidConv, ValidMac
  <2>3. n \in Nat
    BY <2>1, <2>2
  <2>4. CeilLog2(n) \in Nat
    BY <2>3, CeilLog2Holds
  <2>5. OutputBits(op, b) = SumWidth(op, A) + 2
    BY <1>2 DEF OutputBits, SumWidth
  <2> HIDE DEF n
  <2>6. A \in Nat
    BY <1>1, <1>2, <2>1, <2>4
  <2> HIDE DEF A
  <2>7. SumWidth(op, A) \in Nat
    BY <2>1, <2>6, SumWidthIs
  <2>8. QED
    BY <2>5, <2>7
<1>3. CASE op.type \in {"Activation", "Requant"}
  BY <1>3 DEF Declared, OutputBits
<1>4. CASE op.type = "Pool"
  <2>1. op.geom \in Geometries
    BY <1>4 DEF Declared, Geometries
  <2> DEFINE n == op.geom.kH * op.geom.kW
  <2>2. n \in Nat
    <3>1. op.geom.kH \in Nat /\ op.geom.kW \in Nat
      BY <2>1 DEF Geometries
    <3>2. QED
      BY <3>1
  <2>3. CeilLog2(n) \in Nat
    BY <2>2, CeilLog2Holds
  <2>4. OutputBits(op, b) = b[1] + (IF op.mode = "avg" THEN CeilLog2(n) ELSE 0)
    BY <1>4 DEF OutputBits
  <2> HIDE DEF n
  <2>5. QED
    BY <1>1, <1>4, <2>3, <2>4
<1>5. CASE op.type \in {"Add", "Concat", "Split"}
  <2>1. Len(b) # 0
    <3>1. op.type = "Concat" => Len(op.sizes) >= 2
      BY DEF Valid
    <3>2. QED
      BY <1>1, <1>5, <3>1 DEF Arity
  <2>2. DOMAIN b = 1 .. Len(b) /\ Len(b) \in Nat \ {0} /\ \A k \in DOMAIN b : b[k] \in Nat
    BY <2>1
  <2>3. MaxBits(b) \in Nat
    BY <2>2, MaxBitsIs
  <2>4. QED
    BY <1>5, <2>3 DEF OutputBits, SumBits
<1>6. CASE op.type \in {"Argmax", "Compare"}
  BY <1>6 DEF OutputBits
<1>7. QED
  BY <1>2, <1>3, <1>4, <1>5, <1>6 DEF Declared, OpTypes

(* No entry is negative, if the width is one a table can read.             *)
Unsigned(x, b) == b <= MessageBits => \A i \in DOMAIN x : x[i] >= 0

(* The same of all operands.                                               *)
AllUnsigned(in, b) == \A k \in DOMAIN in : Unsigned(in[k], b[k])

(* The same of all an op computes.                                         *)
KeepsUnsigned(op, in, b) ==
  \A j \in 1 .. OutArity(op) : Unsigned(RefEval(op, in)[j], OutputBits(op, b))

(* A tensor of no bits is all zeros.                                       *)
LEMMA NoBits ==
  ASSUME NEW x, Below(x, 0), NEW i \in DOMAIN x
  PROVE  x[i] = 0
<1>1. x[i] \in Int /\ Magnitude(x[i]) < 2^0 /\ 2^0 = 1
  BY PowerStep DEF Below
<1>2. QED
  BY <1>1 DEF Magnitude

(* A sum of zeros.                                                         *)
LEMMA SumOfZeros ==
  ASSUME NEW S, IsFiniteSet(S), NEW f, \A i \in S : f[i] = 0
  PROVE  SumFunctionOnSet(f, S) = 0
<1> DEFINE s == SumFunctionOnSet(f, S)
           C == Cardinality(S)
<1>1. \A i \in S : f[i] \in Int /\ -0 <= f[i] /\ f[i] <= 0
  OBVIOUS
<1>2. s \in Int /\ -(C * 0) <= s /\ s <= C * 0
  BY <1>1, SumBound, 0 \in Nat
<1>3. C \in Nat
  BY FS_CardinalityType, Zenon
<1> HIDE DEF s, C
<1>4. s = 0
  BY <1>2, <1>3
<1>5. QED
  BY <1>4 DEF s

(* A sum and a bias that may have but two bits, the two spare ones, have   *)
(* nothing to add.                                                         *)
LEMMA NothingToAdd ==
  ASSUME NEW op, op.bias \in Seq(Int), NEW A \in Nat, SumWidth(op, A) + 2 <= MessageBits
  PROVE  A = 0 /\ \A i \in DOMAIN op.bias : op.bias[i] = 0
<1>1. SumWidth(op, A) \in Nat /\ A <= SumWidth(op, A)
      /\ \A i \in DOMAIN op.bias : MagnitudeBits(op.bias[i]) <= SumWidth(op, A)
  BY SumWidthIs
<1>2. SumWidth(op, A) = 0
  BY <1>1 DEF MessageBits
<1>3. ASSUME NEW i \in DOMAIN op.bias PROVE op.bias[i] = 0
  <2> DEFINE v == op.bias[i]
             k == MagnitudeBits(v)
  <2>1. v \in Int
    OBVIOUS
  <2>2. k \in Nat /\ Magnitude(v) < 2^k
    BY <2>1, MagnitudeBitsHold
  <2>3. k <= 0
    BY <1>1, <1>2
  <2> HIDE DEF k, v
  <2>4. k = 0 /\ 2^0 = 1
    BY <2>2, <2>3, PowerStep
  <2>5. v = 0
    BY <2>1, <2>2, <2>4 DEF Magnitude
  <2>6. QED
    BY <2>5 DEF v
<1>4. QED
  BY <1>1, <1>2, <1>3

(* Linear: so narrow only when there is nothing to add.                    *)
LEMMA LinearUnsigned ==
  ASSUME NEW op, op.type = "Linear", Valid(op), Declared(op),
         NEW in, NEW b, Bounded(in, b), RefDefined(op, in)
  PROVE  KeepsUnsigned(op, in, b)
<1> DEFINE x == in[1]
           n == Len(op.weights[1])
           A == (b[1] + op.weightBits) + CeilLog2(n)
           out == [r \in DOMAIN op.weights |-> Dot(op.weights[r], x) + op.bias[r]]
<1>1. /\ op.weightBits \in Nat /\ op.bias \in Seq(Int)
      /\ op.weights \in Seq(Seq(Int))
  BY DEF Declared
<1>2. /\ op.weights # <<>> /\ Len(op.weights) = Len(op.bias)
      /\ \A r \in DOMAIN op.weights : Len(op.weights[r]) = n
  BY DEF Valid, ValidMac
<1>3. Len(in) = 1 /\ Len(op.weights[1]) = Len(in[1])
  BY DEF RefDefined, ShapeOK, Arity
<1>4. x \in Seq(Int) /\ b[1] \in Nat /\ Below(x, b[1]) /\ n = Len(x) /\ n \in Nat
  <2>1. 1 \in DOMAIN in
    BY <1>3, OperandsAre
  <2>2. QED
    BY <1>3, <2>1, OperandsAre
<1>5. RefEval(op, in) = <<out>> /\ OutArity(op) = 1
  BY DEF RefEval, OutArity
<1>6. OutputBits(op, b) = SumWidth(op, A) + 2
  <2>1. b[1] + op.weightBits + CeilLog2(n) = A
    OBVIOUS
  <2>2. QED
    BY <2>1 DEF OutputBits, SumWidth
<1> HIDE DEF x, n
<1>7. CeilLog2(n) \in Nat /\ A \in Nat
  <2>1. CeilLog2(n) \in Nat
    BY <1>4, CeilLog2Holds
  <2>2. QED
    BY <1>1, <1>4, <2>1
<1> SUFFICES ASSUME SumWidth(op, A) + 2 <= MessageBits, NEW r \in DOMAIN op.weights
             PROVE  out[r] >= 0
  <2> HIDE DEF out, A
  <2>1. Unsigned(out, SumWidth(op, A) + 2)
    BY DEF Unsigned, out
  <2>2. RefEval(op, in)[1] = out
    BY <1>5
  <2>3. QED
    BY <1>5, <1>6, <2>1, <2>2 DEF KeepsUnsigned
<1>8. A = 0 /\ \A i \in DOMAIN op.bias : op.bias[i] = 0
  <2> HIDE DEF A
  <2>1. QED
    BY <1>1, <1>7, NothingToAdd
<1>9. b[1] = 0
  BY <1>1, <1>4, <1>7, <1>8
<1>10. \A i \in 1 .. n : x[i] = 0
  BY <1>4, <1>9, NoBits
<1> DEFINE row == op.weights[r]
           f == [i \in DOMAIN row |-> row[i] * x[i]]
<1>11. row \in Seq(Int) /\ Len(row) = n /\ r \in DOMAIN op.bias
  BY <1>1, <1>2
<1>12. Dot(row, x) = SumFunctionOnSet(f, DOMAIN row)
  BY DEF Dot, SumFunction
<1>13. out[r] = Dot(row, x) + op.bias[r]
  OBVIOUS
<1> HIDE DEF row, out
<1>14. DOMAIN row = 1 .. n /\ \A i \in DOMAIN row : f[i] = 0
  BY <1>10, <1>11
<1>15. IsFiniteSet(DOMAIN row)
  <2>1. n \in Int /\ 1 \in Int
    BY <1>4
  <2>2. IsFiniteSet(1 .. n)
    BY <2>1, FS_Interval, Zenon
  <2>3. QED
    BY <1>14, <2>2
<1> HIDE DEF f
<1>16. SumFunctionOnSet(f, DOMAIN row) = 0
  BY <1>14, <1>15, SumOfZeros
<1>17. QED
  BY <1>8, <1>11, <1>12, <1>13, <1>16

(* Conv2d: the same.                                                       *)
LEMMA ConvUnsigned ==
  ASSUME NEW op, op.type = "Conv2d", Valid(op), Declared(op),
         NEW in, NEW b, Bounded(in, b), RefDefined(op, in)
  PROVE  KeepsUnsigned(op, in, b)
<1> DEFINE x == in[1]
           g == op.geom
           n == Len(op.weights[1])
           at == Positions(Len(op.weights), g)
           A == (b[1] + op.weightBits) + CeilLog2(n)
           S(p) == (0 .. g.chans - 1) \X Reached(g, p[2], p[3])
           f(p) == [ck \in S(p) |-> op.weights[p[1] + 1][WeightAt(g, ck[1], ck[2])]
                                      * x[InputAt(g, ck[1], p[2], p[3], ck[2])]]
           out == [r \in DOMAIN at |-> SumFunction(f(at[r])) + op.bias[at[r][1] + 1]]
<1>1. /\ op.weightBits \in Nat /\ op.bias \in Seq(Int)
      /\ op.weights \in Seq(Seq(Int))
      /\ g \in Geometries
  BY DEF Declared, Geometries
<1>2. /\ op.weights # <<>> /\ Len(op.weights) = Len(op.bias)
      /\ \A r \in DOMAIN op.weights : Len(op.weights[r]) = n
      /\ ValidShape(g) /\ n = g.chans * g.kH * g.kW
  BY DEF Valid, ValidConv, ValidMac
<1>3. Len(in) = 1 /\ Len(in[1]) = InputLen(g)
  BY DEF RefDefined, ShapeOK, Arity
<1>4. x \in Seq(Int) /\ b[1] \in Nat /\ Below(x, b[1]) /\ Len(x) = InputLen(g)
  <2>1. 1 \in DOMAIN in
    BY <1>3, OperandsAre
  <2>2. QED
    BY <1>3, <2>1, OperandsAre
<1>5. RefEval(op, in) = <<out>> /\ OutArity(op) = 1
  BY DEF RefEval, RefConv, OutArity
<1>6. OutputBits(op, b) = SumWidth(op, A) + 2
  <2>1. b[1] + op.weightBits + CeilLog2(n) = A
    OBVIOUS
  <2>2. QED
    BY <2>1 DEF OutputBits, SumWidth
<1>7. n \in Nat /\ at \in Seq((0 .. Len(op.weights) - 1) \X (0 .. OutH(g) - 1) \X (0 .. OutW(g) - 1))
  <2>1. Len(op.weights) \in Nat /\ op.weights[1] \in Seq(Int)
    BY <1>1, <1>2
  <2>2. n \in Nat
    BY <2>1
  <2>3. QED
    BY <1>1, <1>2, <2>1, <2>2, PositionsType
<1>8. OutH(g) \in Nat /\ OutW(g) \in Nat
  BY <1>1, <1>2, OutMap
<1> HIDE DEF x, g, n, at
<1>9. CeilLog2(n) \in Nat /\ A \in Nat
  <2>1. CeilLog2(n) \in Nat
    BY <1>7, CeilLog2Holds
  <2>2. QED
    BY <1>1, <1>4, <2>1
<1> SUFFICES ASSUME SumWidth(op, A) + 2 <= MessageBits, NEW r \in DOMAIN at
             PROVE  out[r] >= 0
  <2> HIDE DEF out, A
  <2>1. DOMAIN out = DOMAIN at
    BY DEF out
  <2>2. Unsigned(out, SumWidth(op, A) + 2)
    BY <2>1 DEF Unsigned
  <2>3. RefEval(op, in)[1] = out
    BY <1>5
  <2>4. QED
    BY <1>5, <1>6, <2>2, <2>3 DEF KeepsUnsigned
<1>10. A = 0 /\ \A i \in DOMAIN op.bias : op.bias[i] = 0
  <2> HIDE DEF A
  <2>1. QED
    BY <1>1, <1>9, NothingToAdd
<1>11. b[1] = 0
  BY <1>1, <1>4, <1>9, <1>10
<1>12. \A i \in DOMAIN x : x[i] = 0
  BY <1>4, <1>11, NoBits
<1> DEFINE p == at[r]
<1>13. p \in (0 .. Len(op.weights) - 1) \X (0 .. OutH(g) - 1) \X (0 .. OutW(g) - 1)
  BY <1>7
<1>14. out[r] = SumFunction(f(p)) + op.bias[p[1] + 1]
  OBVIOUS
<1> HIDE DEF p, out, A
<1>15. p[1] \in 0 .. Len(op.weights) - 1 /\ p[2] \in 0 .. OutH(g) - 1 /\ p[3] \in 0 .. OutW(g) - 1
  BY <1>13
<1>16. p[1] + 1 \in DOMAIN op.weights /\ p[1] + 1 \in DOMAIN op.bias /\ p[2] \in Nat /\ p[3] \in Nat
  <2> DEFINE rows == Len(op.weights)
             H == OutH(g)
             W == OutW(g)
  <2>1. /\ DOMAIN op.weights = 1 .. rows /\ DOMAIN op.bias = 1 .. rows /\ rows \in Nat
    BY <1>1, <1>2
  <2>2. p[1] \in 0 .. rows - 1 /\ p[2] \in 0 .. H - 1 /\ p[3] \in 0 .. W - 1 /\ H \in Nat /\ W \in Nat
    BY <1>8, <1>15
  <2> HIDE DEF rows, H, W
  <2>3. QED
    BY <2>1, <2>2
<1> DEFINE row == op.weights[p[1] + 1]
<1>17. row \in Seq(Int) /\ Len(row) = n
  BY <1>1, <1>2, <1>16
<1>18. \A ck \in S(p) : f(p)[ck] = 0
  <2> SUFFICES ASSUME NEW ck \in S(p) PROVE f(p)[ck] = 0
    OBVIOUS
  <2> DEFINE i == WeightAt(g, ck[1], ck[2])
             j == InputAt(g, ck[1], p[2], p[3], ck[2])
  <2>1. /\ ck[1] \in 0 .. g.chans - 1 /\ ck[2] \in Reached(g, p[2], p[3])
        /\ ck[2] \in (0 .. g.kH - 1) \X (0 .. g.kW - 1)
    BY DEF Reached
  <2>2. i \in 1 .. n
    BY <1>1, <1>2, <2>1, WeightOfOffset
  <2>3. j \in 1 .. Len(x)
    BY <1>1, <1>4, <1>16, <2>1, ReachedInput
  <2>4. f(p)[ck] = row[i] * x[j]
    OBVIOUS
  <2> HIDE DEF i, j, row, f
  <2>5. row[i] \in Int
    BY <1>17, <2>2
  <2>6. x[j] = 0
    <3>1. DOMAIN x = 1 .. Len(x)
      BY <1>4
    <3>2. j \in DOMAIN x
      BY <2>3, <3>1
    <3>3. QED
      BY <1>12, <3>2
  <2>7. QED
    BY <2>4, <2>5, <2>6
<1>19. IsFiniteSet(S(p))
  BY <1>1, <1>2, OffsetsCount
<1>20. SumFunction(f(p)) = SumFunctionOnSet(f(p), S(p))
  BY DEF SumFunction
<1> HIDE DEF f, S, row
<1>21. SumFunctionOnSet(f(p), S(p)) = 0
  BY <1>18, <1>19, SumOfZeros
<1>22. QED
  BY <1>10, <1>14, <1>16, <1>20, <1>21

(* Pool: no operand is wider than the result.                              *)
LEMMA PoolUnsigned ==
  ASSUME NEW op, op.type = "Pool", Valid(op), Declared(op),
         NEW in, NEW b, Bounded(in, b), RefDefined(op, in), AllUnsigned(in, b)
  PROVE  KeepsUnsigned(op, in, b)
<1> DEFINE x == in[1]
           g == op.geom
           n == g.kH * g.kW
           at == Positions(g.chans, g)
           B == b[1] + (IF op.mode = "avg" THEN CeilLog2(n) ELSE 0)
           E(p) == IF op.mode = "avg" THEN SumFunctionOnSet(x, Covered(g, p))
                                      ELSE Max({x[i] : i \in Covered(g, p)})
           out == [r \in DOMAIN at |-> E(at[r])]
<1>1. g \in Geometries
  BY DEF Declared, Geometries
<1>2. ValidShape(g) /\ g.pad < g.kH /\ g.pad < g.kW
  BY DEF Valid, ValidPool
<1>3. Len(in) = 1 /\ Len(in[1]) = InputLen(g)
  BY DEF RefDefined, ShapeOK, Arity
<1>4. x \in Seq(Int) /\ b[1] \in Nat /\ Len(x) = InputLen(g) /\ Unsigned(x, b[1])
  <2>1. 1 \in DOMAIN in
    BY <1>3, OperandsAre
  <2>2. QED
    BY <1>3, <2>1, OperandsAre DEF AllUnsigned
<1>5. RefEval(op, in) = <<out>> /\ OutArity(op) = 1
  BY DEF RefEval, RefPool, OutArity, Covered
<1>6. OutputBits(op, b) = B
  BY DEF OutputBits
<1>7. OutH(g) \in Nat /\ OutW(g) \in Nat /\ g.chans \in Nat /\ n \in Nat \ {0}
  <2>1. g.chans \in Nat /\ g.kH \in Nat \ {0} /\ g.kW \in Nat \ {0}
    BY <1>1, <1>2 DEF Geometries, ValidShape
  <2>2. QED
    BY <1>1, <1>2, <2>1, OutMap
<1>8. at \in Seq((0 .. g.chans - 1) \X (0 .. OutH(g) - 1) \X (0 .. OutW(g) - 1))
  BY <1>1, <1>2, <1>7, PositionsType
<1> HIDE DEF x, g, at
<1>9. b[1] <= B
  <2>1. CeilLog2(n) \in Nat
    BY <1>7, CeilLog2Holds
  <2> HIDE DEF n
  <2>2. QED
    BY <1>4, <2>1
<1>10. B \in Nat
  <2>1. CeilLog2(n) \in Nat
    BY <1>7, CeilLog2Holds
  <2> HIDE DEF n
  <2>2. QED
    BY <1>4, <2>1
<1> SUFFICES ASSUME B <= MessageBits, NEW r \in DOMAIN at
             PROVE  out[r] >= 0
  <2> HIDE DEF E, B
  <2>1. DOMAIN out = DOMAIN at
    OBVIOUS
  <2> HIDE DEF out
  <2>2. Unsigned(out, B)
    BY <2>1 DEF Unsigned
  <2>3. RefEval(op, in)[1] = out
    BY <1>5
  <2>4. QED
    BY <1>5, <1>6, <2>2, <2>3 DEF KeepsUnsigned
<1>11. \A i \in DOMAIN x : x[i] \in Nat
  <2>1. b[1] <= MessageBits
    <3> HIDE DEF B
    <3>1. QED
      BY <1>4, <1>9, <1>10 DEF MessageBits
  <2>2. \A i \in DOMAIN x : x[i] \in Int /\ x[i] >= 0
    BY <1>4, <2>1 DEF Unsigned
  <2>3. QED
    BY <2>2
<1> DEFINE p == at[r]
           T == Covered(g, p)
<1>12. p \in (0 .. g.chans - 1) \X (0 .. OutH(g) - 1) \X (0 .. OutW(g) - 1)
  BY <1>8
<1>13. out[r] = E(p)
  OBVIOUS
<1> HIDE DEF p
<1>14. p[1] \in 0 .. g.chans - 1 /\ p[2] \in 0 .. OutH(g) - 1 /\ p[3] \in 0 .. OutW(g) - 1
  BY <1>12
<1>15. p[2] \in Nat /\ p[3] \in Nat
  BY <1>7, <1>14
<1>16. Reached(g, p[2], p[3]) # {}
  BY <1>1, <1>2, <1>14, WindowReaches
<1>17. IsFiniteSet(T) /\ T \subseteq 1 .. Len(x) /\ T # {}
  BY <1>1, <1>4, <1>14, <1>15, <1>16, CoveredCount
<1>18. \A i \in T : x[i] \in Nat
  <2>1. DOMAIN x = 1 .. Len(x)
    BY <1>4
  <2>2. QED
    BY <1>11, <1>17, <2>1
<1> HIDE DEF out
<1>19. CASE op.mode = "avg"
  <2>1. E(p) = SumFunctionOnSet(x, T)
    BY <1>19
  <2> HIDE DEF T, E
  <2>2. T \in SUBSET T
    OBVIOUS
  <2>3. SumFunctionOnSet(x, T) \in Nat
    BY <1>17, <1>18, <2>2, SumOfPart
  <2>4. QED
    BY <1>13, <2>1, <2>3
<1>20. CASE op.mode # "avg"
  <2> DEFINE V == {x[i] : i \in T}
             h == [i \in T |-> x[i]]
  <2>1. E(p) = Max(V)
    BY <1>20
  <2> HIDE DEF T, E
  <2>2. V \subseteq Nat /\ V # {}
    BY <1>17, <1>18
  <2>3. h \in Surjection(T, V)
    BY DEF Surjection
  <2> HIDE DEF h, V
  <2>4. IsFiniteSet(V)
    BY <1>17, <2>3, FS_Surjection, Zenon
  <2>5. V \subseteq Int
    BY <2>2
  <2>6. Max(V) \in V
    BY <2>2, <2>4, <2>5, LargestInteger
  <2>7. Max(V) \in Nat
    BY <2>2, <2>6
  <2>8. QED
    BY <1>13, <2>1, <2>7
<1>21. QED
  BY <1>19, <1>20

(* Activation and Requant: a table holds no negative value.                *)
LEMMA TableUnsigned ==
  ASSUME NEW op, op.type \in {"Activation", "Requant"}, Valid(op), Declared(op),
         NEW in, NEW b, Bounded(in, b), RefDefined(op, in)
  PROVE  KeepsUnsigned(op, in, b)
<1> DEFINE x == in[1]
           e(i) == IF op.type = "Activation" THEN x[i] + 1 ELSE Ramp(op, i, x[i]) + 1
           out == [i \in DOMAIN x |-> op.lut[e(i)]]
<1>1. op.lut \in Seq(Nat)
  BY DEF Declared
<1>2. Len(in) = 1
  BY DEF RefDefined, ShapeOK, Arity
<1>3. RefEval(op, in) = <<out>> /\ OutArity(op) = 1
  <2>1. CASE op.type = "Activation"
    BY <2>1 DEF RefEval, OutArity
  <2>2. CASE op.type = "Requant"
    BY <2>2 DEF RefEval, OutArity
  <2>3. QED
    BY <2>1, <2>2
<1>4. \A i \in DOMAIN x : e(i) \in DOMAIN op.lut
  <2>1. CASE op.type = "Activation"
    BY <2>1 DEF RefDefined
  <2>2. CASE op.type = "Requant"
    <3>1. in[1] \in Seq(Int)
      <4>1. 1 \in DOMAIN in
        BY <1>2, OperandsAre
      <4>2. QED
        BY <4>1, OperandsAre
    <3>2. QED
      BY <2>2, <3>1, RampInTable
  <2>3. QED
    BY <2>1, <2>2
<1> HIDE DEF e, x
<1>5. \A i \in DOMAIN out : out[i] >= 0
  <2> SUFFICES ASSUME NEW i \in DOMAIN x PROVE out[i] >= 0
    OBVIOUS
  <2>1. op.lut[e(i)] \in Nat
    BY <1>1, <1>4
  <2>2. out[i] = op.lut[e(i)]
    OBVIOUS
  <2> HIDE DEF out
  <2>3. QED
    BY <2>1, <2>2
<1> HIDE DEF out
<1>6. QED
  BY <1>3, <1>5 DEF KeepsUnsigned, Unsigned

(* Add: both operands are narrower than the sum.                           *)
LEMMA AddUnsigned ==
  ASSUME NEW op, op.type = "Add",
         NEW in, NEW b, Bounded(in, b), RefDefined(op, in), AllUnsigned(in, b)
  PROVE  KeepsUnsigned(op, in, b)
<1> DEFINE x == in[1]
           y == in[2]
           M == MaxBits(b)
           out == [i \in DOMAIN x |-> x[i] + y[i]]
<1>1. Len(in) = 2 /\ Len(in[1]) = Len(in[2])
  BY DEF RefDefined, ShapeOK, Arity
<1>2. 1 \in DOMAIN in /\ 2 \in DOMAIN in /\ Len(b) = 2 /\ DOMAIN b = 1 .. 2
  BY <1>1, OperandsAre
<1>3. /\ x \in Seq(Int) /\ b[1] \in Nat /\ DOMAIN x = 1 .. Len(x) /\ Unsigned(x, b[1])
      /\ y \in Seq(Int) /\ b[2] \in Nat /\ DOMAIN y = 1 .. Len(y) /\ Unsigned(y, b[2])
  BY <1>2, OperandsAre DEF AllUnsigned
<1>4. M \in Nat /\ b[1] <= M /\ b[2] <= M
  <2>1. DOMAIN b = 1 .. Len(b) /\ Len(b) \in Nat \ {0} /\ \A k \in DOMAIN b : b[k] \in Nat
    BY <1>2, <1>3
  <2>2. M \in Nat /\ \A k \in DOMAIN b : b[k] <= M
    BY <2>1, MaxBitsIs
  <2> HIDE DEF M
  <2>3. QED
    BY <1>2, <2>2
<1>5. RefEval(op, in) = <<out>> /\ OutArity(op) = 1
  BY DEF RefEval, OutArity
<1>6. OutputBits(op, b) = M + 1
  BY DEF OutputBits, SumBits
<1>7. DOMAIN x = DOMAIN y
  BY <1>1, <1>3
<1> HIDE DEF M, x, y
<1>8. ASSUME M + 1 <= MessageBits, NEW i \in DOMAIN x
      PROVE  out[i] >= 0
  <2>1. b[1] <= MessageBits /\ b[2] <= MessageBits
    BY <1>3, <1>4, <1>8 DEF MessageBits
  <2>2. x[i] \in Int /\ y[i] \in Int /\ x[i] >= 0 /\ y[i] >= 0
    BY <1>3, <1>7, <2>1 DEF Unsigned
  <2>3. out[i] = x[i] + y[i]
    OBVIOUS
  <2> HIDE DEF out
  <2>4. QED
    BY <2>2, <2>3
<1>9. DOMAIN out = DOMAIN x
  OBVIOUS
<1> HIDE DEF out
<1>10. QED
  BY <1>5, <1>6, <1>8, <1>9 DEF KeepsUnsigned, Unsigned

(* Argmax and Compare: zero or one.                                        *)
LEMMA CompareUnsigned ==
  ASSUME NEW op, op.type \in {"Argmax", "Compare"}, NEW in, NEW b
  PROVE  KeepsUnsigned(op, in, b)
<1>1. CASE op.type = "Argmax"
  <2> DEFINE c == IF in[1][1] >= op.threshold THEN 1 ELSE 0
  <2>1. RefEval(op, in) = << <<c>> >> /\ OutArity(op) = 1
    BY <1>1 DEF RefEval, OutArity
  <2>2. c >= 0
    OBVIOUS
  <2> HIDE DEF c
  <2>3. \A i \in DOMAIN <<c>> : <<c>>[i] >= 0
    BY <2>2
  <2>4. QED
    BY <2>1, <2>3 DEF KeepsUnsigned, Unsigned
<1>2. CASE op.type = "Compare"
  <2> DEFINE out == [i \in DOMAIN op.indices |-> IF in[1][op.indices[i]] >= op.thresholds[i] THEN 1 ELSE 0]
  <2>1. RefEval(op, in) = <<out>> /\ OutArity(op) = 1
    BY <1>2 DEF RefEval, OutArity
  <2>2. \A i \in DOMAIN out : out[i] >= 0
    OBVIOUS
  <2> HIDE DEF out
  <2>3. QED
    BY <2>1, <2>2 DEF KeepsUnsigned, Unsigned
<1>3. QED
  BY <1>1, <1>2

(* Concat: no part is wider than the whole.                                *)
LEMMA ConcatUnsigned ==
  ASSUME NEW op, op.type = "Concat", Valid(op), Declared(op),
         NEW in, NEW b, Bounded(in, b), RefDefined(op, in), AllUnsigned(in, b)
  PROVE  KeepsUnsigned(op, in, b)
<1> DEFINE M == MaxBits(b)
           out == FlattenSeq(in)
<1>1. Len(in) = Len(op.sizes) /\ Len(op.sizes) >= 2
  BY DEF RefDefined, ShapeOK, Arity, Valid
<1>2. /\ DOMAIN b = DOMAIN in /\ DOMAIN in = 1 .. Len(in) /\ Len(in) \in Nat /\ Len(b) = Len(in)
      /\ \A k \in DOMAIN in : /\ in[k] \in Seq(Int) /\ b[k] \in Nat
  BY OperandsAre
<1>3. Len(b) \in Nat \ {0}
  BY <1>1, <1>2
<1>4. M \in Nat /\ \A k \in DOMAIN b : b[k] <= M
  BY <1>2, <1>3, MaxBitsIs
<1>5. RefEval(op, in) = <<out>> /\ OutArity(op) = 1 /\ OutputBits(op, b) = M
  BY DEF RefEval, OutArity, OutputBits
<1> HIDE DEF M
<1>6. ASSUME M <= MessageBits
      PROVE  \A i \in DOMAIN out : out[i] >= 0
  <2> DEFINE ST == Seq(Nat)
  <2>1. \A k \in DOMAIN in : in[k] \in ST
    <3> SUFFICES ASSUME NEW k \in DOMAIN in PROVE in[k] \in Seq(Nat)
      OBVIOUS
    <3>1. b[k] <= MessageBits
      BY <1>2, <1>4, <1>6 DEF MessageBits
    <3>2. in[k] \in Seq(Int) /\ \A i \in DOMAIN in[k] : in[k][i] >= 0
      BY <1>2, <3>1 DEF AllUnsigned, Unsigned
    <3>3. QED
      BY <3>2
  <2>2. in = [k \in 1 .. Len(in) |-> in[k]] /\ Len(in) \in Nat
    <3>1. in \in Seq(Seq(Int))
      BY OperandsAre
    <3>2. QED
      BY <3>1
  <2>3. \A k \in 1 .. Len(in) : in[k] \in ST
    BY <1>2, <2>1
  <2> HIDE DEF ST
  <2>4. in \in Seq(ST)
    BY <2>2, <2>3
  <2>5. in \in Seq(Seq(Nat))
    BY <2>4 DEF ST
  <2>6. out \in Seq(Nat)
    BY <2>5, FlattenSeqType, Zenon
  <2> HIDE DEF out
  <2>7. QED
    BY <2>6
<1> HIDE DEF out
<1>7. QED
  BY <1>5, <1>6 DEF KeepsUnsigned, Unsigned

(* Split: a part's entries are the operand's.                              *)
LEMMA SplitUnsigned ==
  ASSUME NEW op, op.type = "Split", Declared(op),
         NEW in, NEW b, Bounded(in, b), RefDefined(op, in), AllUnsigned(in, b)
  PROVE  KeepsUnsigned(op, in, b)
<1> DEFINE x == in[1]
           M == MaxBits(b)
<1>1. Len(in) = 1 /\ Len(in[1]) = SumFunction(op.sizes)
  BY DEF RefDefined, ShapeOK, Arity
<1>2. op.sizes \in Seq(Nat)
  BY DEF Declared
<1>3. /\ x \in Seq(Int) /\ Unsigned(x, b[1]) /\ b[1] \in Nat /\ Len(x) \in Nat
      /\ Len(b) = 1 /\ DOMAIN b = 1 .. 1
  <2>1. 1 \in DOMAIN in /\ DOMAIN b = DOMAIN in /\ DOMAIN in = 1 .. Len(in) /\ Len(b) = Len(in)
    BY <1>1, OperandsAre
  <2>2. QED
    BY <1>1, <2>1, OperandsAre DEF AllUnsigned
<1>4. M \in Nat /\ b[1] <= M
  <2>1. DOMAIN b = 1 .. Len(b) /\ Len(b) \in Nat \ {0} /\ \A k \in DOMAIN b : b[k] \in Nat
    BY <1>3
  <2>2. M \in Nat /\ \A k \in DOMAIN b : b[k] <= M
    BY <2>1, MaxBitsIs
  <2> HIDE DEF M
  <2>3. QED
    BY <1>3, <2>2
<1>5. RefEval(op, in) = Segments(x, op.sizes) /\ OutArity(op) = Len(op.sizes) /\ OutputBits(op, b) = M
  BY DEF RefEval, OutArity, OutputBits
<1> HIDE DEF M
<1>6. ASSUME M <= MessageBits, NEW s \in 1 .. Len(op.sizes)
      PROVE  \A i \in DOMAIN RefEval(op, in)[s] : RefEval(op, in)[s][i] >= 0
  <2> DEFINE a == Start(op.sizes, s)
             n == op.sizes[s]
  <2>1. s \in DOMAIN op.sizes /\ n \in Nat
    BY <1>2
  <2>2. a \in Nat /\ a + n <= Len(x)
    BY <1>1, <1>2, <2>1, PartsInside
  <2>3. RefEval(op, in)[s] = SubSeq(x, a + 1, a + n)
    BY <1>5, <2>1 DEF Segments, Segment
  <2>4. \A i \in DOMAIN x : x[i] >= 0
    <3>1. b[1] <= MessageBits
      BY <1>3, <1>4, <1>6 DEF MessageBits
    <3>2. QED
      BY <1>3, <3>1 DEF Unsigned
  <2> HIDE DEF a, n, x
  <2> DEFINE part == SubSeq(x, a + 1, a + n)
  <2>5. part \in Seq(Int) /\ Len(part) = n /\ \A i \in 1 .. n : part[i] = x[a + i]
    BY <1>3, <2>1, <2>2
  <2> HIDE DEF part
  <2>6. \A i \in DOMAIN part : part[i] >= 0
    <3> SUFFICES ASSUME NEW i \in DOMAIN part PROVE part[i] >= 0
      OBVIOUS
    <3>1. i \in 1 .. n
      BY <2>5
    <3>2. part[i] = x[a + i]
      BY <2>5, <3>1
    <3>3. DOMAIN x = 1 .. Len(x) /\ Len(x) \in Nat
      BY <1>3
    <3>4. a + i \in 1 .. Len(x)
      BY <2>1, <2>2, <3>1, <3>3
    <3>5. QED
      BY <2>4, <3>2, <3>3, <3>4
  <2>7. QED
    BY <2>3, <2>6 DEF part
<1>7. QED
  BY <1>5, <1>6 DEF KeepsUnsigned, Unsigned

(* No op computes a negative value that a table could read.                *)
LEMMA OpUnsigned ==
  ASSUME NEW op, Valid(op), Declared(op),
         NEW in, NEW b, Bounded(in, b), RefDefined(op, in), AllUnsigned(in, b)
  PROVE  KeepsUnsigned(op, in, b)
<1>1. CASE op.type = "Linear"
  BY <1>1, LinearUnsigned
<1>2. CASE op.type = "Conv2d"
  BY <1>2, ConvUnsigned
<1>3. CASE op.type \in {"Activation", "Requant"}
  BY <1>3, TableUnsigned
<1>4. CASE op.type = "Pool"
  BY <1>4, PoolUnsigned
<1>5. CASE op.type = "Add"
  BY <1>5, AddUnsigned
<1>6. CASE op.type \in {"Argmax", "Compare"}
  BY <1>6, CompareUnsigned
<1>7. CASE op.type = "Concat"
  BY <1>7, ConcatUnsigned
<1>8. CASE op.type = "Split"
  BY <1>8, SplitUnsigned
<1>9. op.type \in OpTypes
  BY DEF Declared
<1>10. QED
  BY <1>1, <1>2, <1>3, <1>4, <1>5, <1>6, <1>7, <1>8, <1>9 DEF OpTypes

(* The narrow tensors at hand are not negative.                            *)
NarrowUnsigned(w, e) == \A t \in DOMAIN w \cap DOMAIN e : Unsigned(e[t], w[t])

(* One node: what it computes narrow is not negative.                      *)
LEMMA EvalUnsigned ==
  ASSUME NEW n, HasLists(n), Valid(n.op), Declared(n.op), Matched(n),
         NEW e, Typed(e), Held(n, e),
         NEW w, Wide(w, e), NarrowUnsigned(w, e), ToSet(n.ins) \subseteq DOMAIN w
  PROVE  NarrowUnsigned(Bind(w, n.outs, OutWidths(n, w)), e)
<1> DEFINE f == Bind(w, n.outs, OutWidths(n, w))
           in == Operands(n, e)
           b == Operands(n, w)
<1>1. f = [t \in DOMAIN w \cup ToSet(n.outs) |->
             IF t \in ToSet(n.outs) THEN OutWidths(n, w)[PlaceOf(n.outs, t)] ELSE w[t]]
  BY DEF Bind
<1>2. \A k \in DOMAIN n.outs : OutWidths(n, w)[k] = OutputBits(n.op, b)
  BY DEF OutWidths
<1>3. DOMAIN n.outs = 1 .. OutArity(n.op) /\ DOMAIN n.ins = 1 .. Len(n.ins) /\ Len(n.ins) \in Nat
  BY DEF HasLists, Matched
<1> HIDE DEF f
<1>4. ASSUME ToSet(n.outs) \cap DOMAIN e # {}
      PROVE  KeepsUnsigned(n.op, in, b)
  <2>1. ToSet(n.ins) \subseteq DOMAIN e /\ RefDefined(n.op, in)
    BY <1>4 DEF Held, RefKnown
  <2>2. /\ in \in Seq(Seq(Int)) /\ Len(in) = Len(n.ins) /\ DOMAIN in = DOMAIN n.ins
        /\ \A k \in DOMAIN n.ins : n.ins[k] \in DOMAIN e /\ in[k] = e[n.ins[k]]
    BY <2>1, OperandsTyped
  <2>3. \A k \in DOMAIN n.ins : n.ins[k] \in DOMAIN w
    BY DEF ToSet
  <2>4. \A k \in DOMAIN n.ins : /\ w[n.ins[k]] \in Nat /\ Below(in[k], w[n.ins[k]])
                                /\ Unsigned(in[k], w[n.ins[k]])
    BY <2>2, <2>3 DEF Wide, NarrowUnsigned
  <2>5. b = [k \in 1 .. Len(n.ins) |-> w[n.ins[k]]]
    BY <1>3 DEF Operands
  <2> HIDE DEF b
  <2>6. b \in Seq(Nat) /\ Len(b) = Len(in) /\ \A k \in DOMAIN in : Below(in[k], b[k]) /\ Unsigned(in[k], b[k])
    <3>1. \A k \in 1 .. Len(n.ins) : /\ w[n.ins[k]] \in Nat /\ Below(in[k], w[n.ins[k]])
                                     /\ Unsigned(in[k], w[n.ins[k]])
      BY <1>3, <2>4
    <3>2. Len(in) = Len(n.ins) /\ DOMAIN in = 1 .. Len(n.ins)
      BY <1>3, <2>2
    <3> HIDE DEF in
    <3>3. b \in Seq(Nat) /\ Len(b) = Len(n.ins)
      BY <1>3, <2>5, <3>1
    <3>4. \A k \in 1 .. Len(n.ins) : Below(in[k], b[k]) /\ Unsigned(in[k], b[k])
      BY <2>5, <3>1
    <3>5. QED
      BY <3>2, <3>3, <3>4
  <2> HIDE DEF in
  <2>7. Bounded(in, b) /\ AllUnsigned(in, b)
    BY <2>2, <2>6 DEF Bounded, AllUnsigned
  <2>8. QED
    BY <2>1, <2>7, OpUnsigned
<1> HIDE DEF in, b
<1>5. ASSUME NEW t \in DOMAIN f \cap DOMAIN e
      PROVE  Unsigned(e[t], f[t])
  <2>1. CASE t \in ToSet(n.outs)
    <3> DEFINE k == PlaceOf(n.outs, t)
    <3>1. k \in DOMAIN n.outs /\ n.outs[k] = t
      BY <2>1 DEF ToSet, PlaceOf
    <3>2. f[t] = OutWidths(n, w)[k]
      BY <1>1, <2>1
    <3> HIDE DEF k
    <3>3. f[t] = OutputBits(n.op, b)
      BY <1>2, <3>1, <3>2
    <3>4. e[t] = RefEval(n.op, in)[k]
      BY <2>1, <3>1 DEF Held, in
    <3>5. KeepsUnsigned(n.op, in, b)
      BY <1>4, <2>1
    <3>6. k \in 1 .. OutArity(n.op)
      BY <1>3, <3>1
    <3>7. QED
      BY <3>3, <3>4, <3>5, <3>6 DEF KeepsUnsigned
  <2>2. CASE t \notin ToSet(n.outs)
    <3>1. t \in DOMAIN w /\ f[t] = w[t]
      BY <1>1, <2>2
    <3>2. QED
      BY <3>1 DEF NarrowUnsigned
  <2>3. QED
    BY <2>1, <2>2
<1>6. QED
  BY <1>5 DEF NarrowUnsigned, f

(* What the forward pass computes narrow is not negative, if its input is  *)
(* not.                                                                    *)
LEMMA NarrowHolds ==
  ASSUME NEW ns, Listed(ns), NEW m, Sortable(ns, m.inputs), m.inputBits \in Nat,
         \A i \in DOMAIN ns : Valid(ns[i].op) /\ Declared(ns[i].op) /\ Matched(ns[i]),
         NEW e, Typed(e), Holds(ns, e),
         \A t \in m.inputs \cap DOMAIN e : Below(e[t], m.inputBits) /\ Unsigned(e[t], m.inputBits)
  PROVE  NarrowUnsigned(Widths(ns, m), e)
<1> DEFINE order == StableOrder(ns)
<1>1. /\ Len(order) \in Nat /\ \A k \in 1 .. Len(order) : order[k] \in DOMAIN ns
      /\ \A k \in 1 .. Len(order) :
           ToSet(ns[order[k]].ins) \subseteq m.inputs \cup UNION {ToSet(ns[order[l]].outs) : l \in 1 .. k-1}
  BY SortedInOrder DEF InOrder, Listed
<1>2. \A i \in DOMAIN ns : HasLists(ns[i]) /\ Held(ns[i], e)
  BY DEF Listed, Holds
<1> HIDE DEF order
<1>3. PICK ws : /\ ws[0] = InputWidths(m)
                /\ \A k \in 1 .. Len(order) : ws[k] = Widened(ns[order[k]], ws[k-1])
                /\ Widths(ns, m) = ws[Len(order)]
  <2>1. PICK f : WidthsUnfolded(f, ns, m)
    BY <1>1, WidthsUnfold DEF order
  <2>2. QED
    BY <2>1, Zenon DEF WidthsUnfolded, order
<1> DEFINE Known(k) == m.inputs \cup UNION {ToSet(ns[order[l]].outs) : l \in 1 .. k}
           P(k) == DOMAIN ws[k] = Known(k) /\ Wide(ws[k], e) /\ NarrowUnsigned(ws[k], e)
           N == {k \in Nat : k <= Len(order) => P(k)}
<1>4. 0 \in N
  <2>1. DOMAIN ws[0] = m.inputs /\ \A t \in m.inputs : ws[0][t] = m.inputBits
    BY <1>3 DEF InputWidths
  <2>2. Known(0) = m.inputs
    <3>1. 1 .. 0 = {}
      OBVIOUS
    <3>2. QED
      BY <3>1
  <2>3. Wide(ws[0], e) /\ NarrowUnsigned(ws[0], e)
    BY <2>1 DEF Wide, NarrowUnsigned
  <2>4. QED
    BY <2>1, <2>2, <2>3
<1>5. ASSUME NEW k \in Nat, k \in N PROVE k + 1 \in N
  <2> SUFFICES ASSUME k + 1 <= Len(order) PROVE P(k + 1)
    OBVIOUS
  <2> DEFINE n == ns[order[k+1]]
             w == ws[k]
  <2>1. k <= Len(order) /\ k + 1 \in 1 .. Len(order) /\ (k + 1) - 1 = k
    BY <1>1
  <2>2. DOMAIN w = Known(k) /\ Wide(w, e) /\ NarrowUnsigned(w, e)
    BY <1>5, <2>1
  <2>3. ws[k+1] = Widened(n, w)
    BY <1>3, <2>1
  <2>4. order[k+1] \in DOMAIN ns
    BY <1>1, <2>1
  <2>5. HasLists(n) /\ Held(n, e) /\ Valid(n.op) /\ Declared(n.op) /\ Matched(n)
    BY <1>2, <2>4
  <2>6. ToSet(n.ins) \subseteq DOMAIN w
    BY <1>1, <2>1, <2>2
  <2>7. Known(k + 1) = Known(k) \cup ToSet(n.outs)
    <3>1. 1 .. k + 1 = (1 .. k) \cup {k + 1}
      OBVIOUS
    <3>2. QED
      BY <3>1
  <2> HIDE DEF n, w, Known
  <2>8. Wide(Bind(w, n.outs, OutWidths(n, w)), e) /\ NarrowUnsigned(Bind(w, n.outs, OutWidths(n, w)), e)
    BY <2>2, <2>5, <2>6, EvalWide, EvalUnsigned
  <2>9. DOMAIN Bind(w, n.outs, OutWidths(n, w)) = DOMAIN w \cup ToSet(n.outs)
    BY BindDomain, Zenon
  <2>10. QED
    BY <2>2, <2>3, <2>7, <2>8, <2>9 DEF Widened
<1>6. P(Len(order))
  <2> HIDE DEF P
  <2>1. \A k \in Nat : k \in N
    <3> HIDE DEF N
    <3>1. QED
      BY <1>4, <1>5, SetInduction
  <2>2. QED
    BY <1>1, <2>1
<1>7. QED
  BY <1>3, <1>6


-----------------------------------------------------------------------------
(* How wide the transient of a Requant is.                                 *)

(* The least member of a finite set of integers.                           *)
LEMMA LeastInteger ==
  ASSUME NEW S, S \subseteq Int, IsFiniteSet(S), S # {}
  PROVE  Min(S) \in S /\ \A y \in S : Min(S) <= y
<1> DEFINE h == [y \in S |-> -y]
           N == {h[y] : y \in S}
<1>1. N \subseteq Int /\ N # {}
  <2>1. \A y \in S : h[y] \in Int
    OBVIOUS
  <2> HIDE DEF h
  <2>2. QED
    BY <2>1
<1>2. IsFiniteSet(N)
  <2>1. h \in Surjection(S, N)
    BY DEF Surjection
  <2> HIDE DEF h, N
  <2>2. QED
    BY <2>1, FS_Surjection, Zenon
<1>3. Max(N) \in N /\ \A z \in N : z <= Max(N)
  <2> HIDE DEF N
  <2>1. QED
    BY <1>1, <1>2, LargestInteger
<1>4. PICK x \in S : Max(N) = h[x]
  BY <1>3
<1>5. \A y \in S : x <= y
  <2> SUFFICES ASSUME NEW y \in S PROVE x <= y
    OBVIOUS
  <2>1. h[y] <= h[x] /\ h[y] = -y /\ h[x] = -x
    BY <1>3, <1>4
  <2>2. QED
    BY <2>1
<1>6. QED
  BY <1>5 DEF Min

(* Scaling keeps an order.                                                 *)
LEMMA ScaleBound ==
  ASSUME NEW a \in Int, NEW c \in Int, NEW m \in Nat, a <= c
  PROVE  a * m <= c * m /\ a * m \in Int /\ c * m \in Int
<1>1. PICK d \in Nat : c = a + d
  <2>1. c - a \in Nat /\ c = a + (c - a)
    OBVIOUS
  <2>2. QED
    BY <2>1
<1>2. c * m = a * m + d * m /\ d * m \in Nat /\ a * m \in Int
  BY <1>1
<1>3. QED
  BY <1>2

(* One channel's transient.                                                *)
Channels == [mult : Nat, shift : Nat, roundBias : Nat]

(* Finitely many integers.                                                 *)
LEMMA SmallSet ==
  ASSUME NEW n \in Nat \ {0}, NEW f, \A k \in 1 .. n : f[k] \in Int
  PROVE  LET S == {f[k] : k \in 1 .. n} IN S \subseteq Int /\ IsFiniteSet(S) /\ S # {}
<1> DEFINE S == {f[k] : k \in 1 .. n}
           g == [k \in 1 .. n |-> f[k]]
<1>1. S \subseteq Int /\ S # {}
  OBVIOUS
<1>2. IsFiniteSet(1 .. n)
  <2>1. 1 \in Int /\ n \in Int
    OBVIOUS
  <2>2. QED
    BY <2>1, FS_Interval, Zenon
<1>3. g \in Surjection(1 .. n, S)
  BY DEF Surjection
<1> HIDE DEF g, S
<1>4. IsFiniteSet(S)
  BY <1>2, <1>3, FS_Surjection, Zenon
<1>5. QED
  BY <1>1, <1>4 DEF S

(* The channels of a Requant.                                              *)
LEMMA ChannelsAre ==
  ASSUME NEW op, op.type = "Requant", Valid(op), Declared(op)
  PROVE  /\ Len(op.channel) \in Nat \ {0} /\ DOMAIN op.channel = 1 .. Len(op.channel)
         /\ \A k \in 1 .. Len(op.channel) :
              op.channel[k] \in Channels /\ 2^op.channel[k].shift \in Nat \ {0}
         /\ op.clampLo \in Int /\ op.clampLo <= 0 /\ op.zeroPoint \in Nat
         /\ op.zeroPoint + FloorImage(op) >= 0
<1>1. op.channel \in Seq(Channels) /\ op.clampLo \in Int /\ op.zeroPoint \in Nat
  BY DEF Declared, Channels
<1>2. op.channel # <<>> /\ op.clampLo <= 0 /\ op.zeroPoint + FloorImage(op) >= 0
  BY DEF Valid, ValidRequant
<1>3. Len(op.channel) \in Nat \ {0} /\ DOMAIN op.channel = 1 .. Len(op.channel)
  BY <1>1, <1>2
<1>4. ASSUME NEW k \in 1 .. Len(op.channel)
      PROVE  op.channel[k] \in Channels /\ 2^op.channel[k].shift \in Nat \ {0}
  <2>1. op.channel[k] \in Channels
    BY <1>1, <1>3
  <2>2. op.channel[k].shift \in Nat
    BY <2>1 DEF Channels
  <2>3. 2^op.channel[k].shift \in Nat /\ 1 <= 2^op.channel[k].shift
    BY <2>2, PowerStep, PowerBounds
  <2>4. QED
    BY <2>1, <2>3
<1>5. QED
  BY <1>1, <1>2, <1>3, <1>4

(* One channel's transient has a width, whatever the operand's.            *)
LEMMA InternalBitsType ==
  ASSUME NEW B \in Nat, NEW ch \in Channels, NEW lo \in Int
  PROVE  RequantInternalBits(B, ch, lo) \in Nat
<1> DEFINE F == IF B >= 1 THEN 2^(B - 1) ELSE 0
           P == IF B >= 1 THEN F - 1 ELSE 0
           N == Smaller(Magnitude(lo), F)
           peak == Larger(P * ch.mult + ch.roundBias, N * ch.mult)
<1>1. RequantInternalBits(B, ch, lo) = Larger(MagnitudeBits(peak) + 1, B)
  BY DEF RequantInternalBits, Larger, Smaller
<1>2. ch.mult \in Nat /\ ch.roundBias \in Nat
  BY DEF Channels
<1>3. F \in Nat /\ P \in Nat
  <2>1. CASE B >= 1
    <3>1. B - 1 \in Nat
      BY <2>1
    <3>2. 2^(B - 1) \in Nat /\ 1 <= 2^(B - 1)
      BY <3>1, PowerStep, PowerBounds
    <3>3. QED
      BY <2>1, <3>2
  <2>2. QED
    BY <2>1
<1> HIDE DEF F, P
<1>4. N \in Nat
  <2>1. Magnitude(lo) \in Nat
    BY MagnitudeIs
  <2>2. QED
    BY <1>3, <2>1, LargerSmaller
<1> HIDE DEF N
<1>5. P * ch.mult \in Nat /\ N * ch.mult \in Nat
  BY <1>2, <1>3, <1>4
<1>6. peak \in Nat
  <2> DEFINE a == P * ch.mult + ch.roundBias
             c == N * ch.mult
  <2>1. a \in Nat /\ c \in Nat
    BY <1>2, <1>5
  <2> HIDE DEF a, c
  <2>2. Larger(a, c) \in Nat
    BY <2>1, LargerSmaller
  <2>3. QED
    BY <2>2 DEF a, c
<1> HIDE DEF peak
<1>7. MagnitudeBits(peak) \in Nat
  BY <1>6, MagnitudeBitsHold
<1> DEFINE k == MagnitudeBits(peak) + 1
<1>8. k \in Nat
  BY <1>7
<1> HIDE DEF k
<1>9. Larger(k, B) \in Nat
  BY <1>8, LargerSmaller
<1>10. QED
  BY <1>1, <1>9 DEF k

(* So has that of all channels, and it is some channel's.                  *)
LEMMA PeakBitsType ==
  ASSUME NEW op, op.type = "Requant", Valid(op), Declared(op), NEW B \in Nat
  PROVE  /\ RequantPeakBits(op, B) \in Nat
         /\ \E k \in 1 .. Len(op.channel) :
              RequantPeakBits(op, B) = RequantInternalBits(B, op.channel[k], op.clampLo)
<1> DEFINE n == Len(op.channel)
           f == [k \in 1 .. n |-> RequantInternalBits(B, op.channel[k], op.clampLo)]
           S == {f[k] : k \in 1 .. n}
<1>1. n \in Nat \ {0} /\ DOMAIN op.channel = 1 .. n /\ op.clampLo \in Int
      /\ \A k \in 1 .. n : op.channel[k] \in Channels
  BY ChannelsAre
<1>2. \A k \in 1 .. n : f[k] \in Nat
  BY <1>1, InternalBitsType
<1>3. RequantPeakBits(op, B) = Max(S)
  BY <1>1 DEF RequantPeakBits
<1> HIDE DEF n, f
<1>4. S \subseteq Int /\ IsFiniteSet(S) /\ S # {}
  <2>1. n \in Nat \ {0} /\ \A k \in 1 .. n : f[k] \in Int
    BY <1>1, <1>2
  <2>2. QED
    BY ONLY <2>1, SmallSet
<1>5. Max(S) \in S
  <2> HIDE DEF S
  <2>1. QED
    BY <1>4, LargestInteger
<1>6. \E k \in 1 .. n : Max(S) = f[k]
  BY <1>5
<1>7. QED
  BY <1>2, <1>3, <1>6 DEF f, n

(* What an op holds on its way to its outputs has a width.                 *)
LEMMA InternalType ==
  ASSUME NEW op, Valid(op), Declared(op), NEW b \in Seq(Nat), Len(b) = Arity(op)
  PROVE  InternalBits(op, b) \in Nat
<1>1. CASE op.type = "Requant"
  <2>1. Len(b) = 1
    BY <1>1 DEF Arity
  <2>2. b[1] \in Nat
    BY <2>1
  <2>3. RequantPeakBits(op, b[1]) \in Nat
    BY <1>1, <2>2, PeakBitsType
  <2>4. QED
    BY <1>1, <2>3 DEF InternalBits
<1>2. QED
  BY <1>1, OutputBitsType DEF InternalBits

-----------------------------------------------------------------------------
(* Widths grow with the widths they come from.                             *)

(* MagnitudeBits is the least number of bits that hold a magnitude.        *)
LEMMA MagnitudeBitsLeast ==
  ASSUME NEW v \in Int, NEW j \in Nat, Magnitude(v) < 2^j
  PROVE  MagnitudeBits(v) <= j
<1> DEFINE M == Magnitude(v)
           K == {k \in Nat : M < 2^k}
<1>1. M \in Nat /\ \A k \in Nat : 2^k \in Nat
  BY MagnitudeIs, PowerStep
<1>2. MagnitudeBits(v) = CHOOSE k \in 0 .. M : M < 2^k /\ \A i \in 0 .. k-1 : 2^i <= M
  BY DEF MagnitudeBits
<1>3. j \in K
  OBVIOUS
<1> HIDE DEF M
<1>4. PICK k \in K : \A i \in K : k <= i
  <2>1. K \subseteq Nat /\ K # {}
    BY <1>3
  <2> HIDE DEF K
  <2>2. QED
    BY <2>1, LeastNatural
<1>5. k \in 0 .. M /\ M < 2^k
  <2>1. M \in K
    BY <1>1, PowerBounds
  <2>2. QED
    BY <1>1, <1>4, <2>1
<1>6. \A i \in 0 .. k-1 : 2^i <= M
  <2> SUFFICES ASSUME NEW i \in 0 .. k-1 PROVE 2^i <= M
    OBVIOUS
  <2>1. i \in Nat /\ i \notin K
    BY <1>4
  <2>2. 2^i \in Nat /\ ~ (M < 2^i)
    BY <1>1, <2>1
  <2>3. QED
    BY <1>1, <2>2
<1>7. MagnitudeBits(v) \in 0 .. M /\ \A i \in 0 .. MagnitudeBits(v) - 1 : 2^i <= M
  BY <1>2, <1>5, <1>6, Zenon
<1>8. SUFFICES ASSUME j < MagnitudeBits(v) PROVE FALSE
  BY <1>7
<1>9. j \in 0 .. MagnitudeBits(v) - 1
  BY <1>7, <1>8
<1>10. 2^j <= M /\ 2^j \in Nat /\ M < 2^j
  BY <1>1, <1>3, <1>7, <1>9
<1>11. QED
  BY <1>1, <1>10

(* A larger number has no fewer bits.                                      *)
LEMMA MagnitudeBitsMonotone ==
  ASSUME NEW p \in Nat, NEW q \in Nat, p <= q
  PROVE  MagnitudeBits(p) <= MagnitudeBits(q)
<1>1. MagnitudeBits(q) \in Nat /\ Magnitude(q) < 2^MagnitudeBits(q)
  BY MagnitudeBitsHold
<1>2. Magnitude(p) = p /\ Magnitude(q) = q
  BY DEF Magnitude
<1>3. 2^MagnitudeBits(q) \in Nat
  BY <1>1, PowerStep
<1>4. Magnitude(p) < 2^MagnitudeBits(q)
  BY <1>1, <1>2, <1>3
<1>5. QED
  BY <1>1, <1>4, MagnitudeBitsLeast

(* One list of widths is nowhere above another.                            *)
NoWider(a, b) ==
  /\ a \in Seq(Nat) /\ b \in Seq(Nat) /\ Len(a) = Len(b)
  /\ \A k \in 1 .. Len(a) : a[k] <= b[k]

(* Nor is its largest width.                                               *)
LEMMA MaxBitsMonotone ==
  ASSUME NEW a, NEW b, NoWider(a, b), Len(a) # 0
  PROVE  MaxBits(a) <= MaxBits(b) /\ MaxBits(a) \in Nat /\ MaxBits(b) \in Nat
<1>1. /\ DOMAIN a = 1 .. Len(a) /\ DOMAIN b = 1 .. Len(a) /\ Len(a) \in Nat \ {0}
      /\ \A k \in 1 .. Len(a) : a[k] \in Nat /\ b[k] \in Nat /\ a[k] <= b[k]
      /\ Len(b) = Len(a)
  BY DEF NoWider
<1>2. MaxBits(b) \in Nat /\ \A k \in DOMAIN b : b[k] <= MaxBits(b)
  BY <1>1, MaxBitsIs
<1> DEFINE n == Len(a)
           f == [k \in 1 .. n |-> a[k]]
           S == {f[k] : k \in 1 .. n}
<1>3. MaxBits(a) = Max(S)
  BY <1>1 DEF MaxBits
<1> HIDE DEF n
<1>4. S \subseteq Int /\ IsFiniteSet(S) /\ S # {}
  <2>1. n \in Nat \ {0} /\ \A k \in 1 .. n : f[k] \in Int
    BY <1>1 DEF n
  <2> HIDE DEF f
  <2>2. QED
    BY <2>1, SmallSet
<1>5. Max(S) \in S
  <2> HIDE DEF S
  <2>1. QED
    BY <1>4, LargestInteger
<1>6. PICK k \in 1 .. n : Max(S) = a[k]
  BY <1>5
<1>7. QED
  BY <1>1, <1>2, <1>3, <1>6 DEF n

(* An accumulator is as wide as its sum or as one of its biases.           *)
LEMMA SumWidthIn ==
  ASSUME NEW op, op.bias \in Seq(Int), NEW A \in Nat
  PROVE  /\ SumWidth(op, A) \in {A} \cup {MagnitudeBits(op.bias[i]) : i \in DOMAIN op.bias}
         /\ SumWidth(op, A) \in Nat
<1> DEFINE B == {MagnitudeBits(op.bias[i]) : i \in DOMAIN op.bias}
           S == {A} \cup B
<1>1. \A i \in DOMAIN op.bias : MagnitudeBits(op.bias[i]) \in Nat
  <2> SUFFICES ASSUME NEW i \in DOMAIN op.bias PROVE MagnitudeBits(op.bias[i]) \in Nat
    OBVIOUS
  <2>1. op.bias[i] \in Int
    OBVIOUS
  <2>2. QED
    BY <2>1, MagnitudeBitsHold
<1>2. IsFiniteSet(B)
  <2>1. DOMAIN op.bias = 1 .. Len(op.bias) /\ Len(op.bias) \in Int /\ 1 \in Int
    OBVIOUS
  <2>2. IsFiniteSet(DOMAIN op.bias)
    BY <2>1, FS_Interval, Zenon
  <2> DEFINE f == [i \in DOMAIN op.bias |-> MagnitudeBits(op.bias[i])]
  <2>3. f \in Surjection(DOMAIN op.bias, B)
    BY DEF Surjection
  <2> HIDE DEF f, B
  <2>4. QED
    BY <2>2, <2>3, FS_Surjection, Zenon
<1>3. IsFiniteSet(S)
  <2>1. IsFiniteSet({A})
    BY FS_Singleton, Zenon
  <2> HIDE DEF B
  <2>2. QED
    BY <1>2, <2>1, FS_Union, Zenon
<1>4. S \subseteq Int /\ S \subseteq Nat /\ A \in S
  BY <1>1
<1>5. SumWidth(op, A) = Max(S)
  BY DEF SumWidth
<1> HIDE DEF S
<1>6. Max(S) \in S /\ \A y \in S : y <= Max(S)
  BY <1>3, <1>4, LargestInteger
<1>7. QED
  BY <1>4, <1>5, <1>6 DEF S

(* Narrower operands give no wider outputs.                                *)
LEMMA OutputBitsMonotone ==
  ASSUME NEW op, Valid(op), Declared(op), NEW a, NEW b, NoWider(a, b), Len(b) = Arity(op)
  PROVE  OutputBits(op, a) <= OutputBits(op, b)
<1>1. a \in Seq(Nat) /\ b \in Seq(Nat) /\ Len(a) = Len(b)
  BY DEF NoWider
<1>2. op.type # "Concat" => a[1] \in Nat /\ b[1] \in Nat /\ a[1] <= b[1] /\ Len(a) # 0
  <2> SUFFICES ASSUME op.type # "Concat"
               PROVE  a[1] \in Nat /\ b[1] \in Nat /\ a[1] <= b[1] /\ Len(a) # 0
    OBVIOUS
  <2>1. Len(b) \in {1, 2}
    BY DEF Arity
  <2>2. 1 \in 1 .. Len(a)
    BY <1>1, <2>1
  <2>3. QED
    BY <1>1, <2>1, <2>2 DEF NoWider
<1>3. CASE op.type \in {"Linear", "Conv2d"}
  <2> DEFINE n == Len(op.weights[1])
             c == op.weightBits + CeilLog2(n)
             A == a[1] + c
             B == b[1] + c
  <2>1. op.weightBits \in Nat /\ op.bias \in Seq(Int) /\ op.weights \in Seq(Seq(Int))
    BY <1>3 DEF Declared
  <2>2. op.weights # <<>>
    BY <1>3 DEF Valid, ValidConv, ValidMac
  <2>3. n \in Nat
    BY <2>1, <2>2
  <2>4. CeilLog2(n) \in Nat
    BY <2>3, CeilLog2Holds
  <2>5. a[1] + op.weightBits + CeilLog2(n) = A /\ b[1] + op.weightBits + CeilLog2(n) = B
        /\ A \in Nat /\ B \in Nat /\ A <= B
    <3> DEFINE p == a[1]
               q == b[1]
               u == op.weightBits
               v == CeilLog2(n)
    <3>1. p \in Nat /\ q \in Nat /\ p <= q /\ u \in Nat /\ v \in Nat
      BY <1>2, <1>3, <2>1, <2>4
    <3> HIDE DEF p, q, u, v
    <3>2. /\ p + u + v = p + (u + v) /\ q + u + v = q + (u + v)
          /\ p + (u + v) \in Nat /\ q + (u + v) \in Nat /\ p + (u + v) <= q + (u + v)
      BY <3>1
    <3>3. QED
      BY <3>2 DEF p, q, u, v
  <2>6. OutputBits(op, a) = SumWidth(op, A) + 2 /\ OutputBits(op, b) = SumWidth(op, B) + 2
    <3>1. /\ OutputBits(op, a) = SumWidth(op, a[1] + op.weightBits + CeilLog2(n)) + 2
          /\ OutputBits(op, b) = SumWidth(op, b[1] + op.weightBits + CeilLog2(n)) + 2
      BY <1>3 DEF OutputBits, SumWidth
    <3> HIDE DEF A, B, n
    <3>2. QED
      BY <2>5, <3>1
  <2> HIDE DEF A, B
  <2>7. SumWidth(op, A) \in {A} \cup {MagnitudeBits(op.bias[i]) : i \in DOMAIN op.bias}
        /\ SumWidth(op, A) \in Nat
    BY <2>1, <2>5, SumWidthIn
  <2>8. /\ SumWidth(op, B) \in Nat /\ B <= SumWidth(op, B)
        /\ \A i \in DOMAIN op.bias : MagnitudeBits(op.bias[i]) <= SumWidth(op, B)
    BY <2>1, <2>5, SumWidthIs
  <2>9. SumWidth(op, A) <= SumWidth(op, B)
    BY <2>5, <2>7, <2>8
  <2>10. QED
    BY <2>6, <2>7, <2>8, <2>9
<1>4. CASE op.type \in {"Activation", "Requant"}
  BY <1>4 DEF Declared, OutputBits
<1>5. CASE op.type = "Pool"
  <2>1. op.geom \in Geometries
    BY <1>5 DEF Declared, Geometries
  <2> DEFINE n == op.geom.kH * op.geom.kW
             c == IF op.mode = "avg" THEN CeilLog2(n) ELSE 0
  <2>2. n \in Nat
    <3>1. op.geom.kH \in Nat /\ op.geom.kW \in Nat
      BY <2>1 DEF Geometries
    <3>2. QED
      BY <3>1
  <2>3. c \in Nat
    BY <2>2, CeilLog2Holds
  <2>4. OutputBits(op, a) = a[1] + c /\ OutputBits(op, b) = b[1] + c
    BY <1>5 DEF OutputBits
  <2> HIDE DEF c
  <2>5. QED
    BY <1>2, <1>5, <2>3, <2>4
<1>6. CASE op.type \in {"Add", "Concat", "Split"}
  <2>1. Len(a) # 0
    <3>1. op.type = "Concat" => Len(op.sizes) >= 2
      BY DEF Valid
    <3>2. QED
      BY <1>1, <1>2, <1>6, <3>1 DEF Arity
  <2>2. MaxBits(a) <= MaxBits(b) /\ MaxBits(a) \in Nat /\ MaxBits(b) \in Nat
    BY <2>1, MaxBitsMonotone
  <2>3. QED
    BY <1>6, <2>2 DEF OutputBits, SumBits
<1>7. CASE op.type \in {"Argmax", "Compare"}
  BY <1>7 DEF OutputBits
<1>8. QED
  BY <1>3, <1>4, <1>5, <1>6, <1>7 DEF Declared, OpTypes

(* Nor does a narrower operand give a wider transient.                     *)
LEMMA InternalBitsMonotone ==
  ASSUME NEW A \in Nat, NEW B \in Nat, A <= B, NEW ch \in Channels, NEW lo \in Int
  PROVE  RequantInternalBits(A, ch, lo) <= RequantInternalBits(B, ch, lo)
<1> DEFINE F(d) == IF d >= 1 THEN 2^(d - 1) ELSE 0
           P(d) == IF d >= 1 THEN F(d) - 1 ELSE 0
           N(d) == Smaller(Magnitude(lo), F(d))
           peak(d) == Larger(P(d) * ch.mult + ch.roundBias, N(d) * ch.mult)
           bits(d) == Larger(MagnitudeBits(peak(d)) + 1, d)
<1>1. \A d \in {A, B} : RequantInternalBits(d, ch, lo) = bits(d)
  BY DEF RequantInternalBits, Larger, Smaller
<1>2. ch.mult \in Nat /\ ch.roundBias \in Nat
  BY DEF Channels
<1>3. \A d \in {A, B} : F(d) \in Nat /\ P(d) \in Nat
  <2> SUFFICES ASSUME NEW d \in Nat PROVE F(d) \in Nat /\ P(d) \in Nat
    OBVIOUS
  <2>1. CASE d >= 1
    <3>1. d - 1 \in Nat
      BY <2>1
    <3>2. 2^(d - 1) \in Nat /\ 1 <= 2^(d - 1)
      BY <3>1, PowerStep, PowerBounds
    <3>3. QED
      BY <2>1, <3>2
  <2>2. QED
    BY <2>1
<1>4. F(A) <= F(B) /\ P(A) <= P(B)
  <2>1. CASE A >= 1
    <3>1. A - 1 \in Nat /\ B - 1 \in Nat /\ A - 1 <= B - 1 /\ B >= 1
      BY <2>1
    <3>2. 2^(A - 1) <= 2^(B - 1) /\ 2^(A - 1) \in Nat /\ 2^(B - 1) \in Nat
      BY <3>1, PowerStep, PowerBounds
    <3>3. QED
      BY <2>1, <3>1, <3>2
  <2>2. CASE ~ (A >= 1)
    <3>1. F(A) = 0 /\ P(A) = 0
      BY <2>2
    <3> HIDE DEF F, P
    <3>2. QED
      BY <1>3, <3>1
  <2>3. QED
    BY <2>1, <2>2
<1> HIDE DEF F, P
<1>5. Magnitude(lo) \in Nat
  BY MagnitudeIs
<1>6. /\ N(A) = (IF Magnitude(lo) <= F(A) THEN Magnitude(lo) ELSE F(A))
      /\ N(B) = (IF Magnitude(lo) <= F(B) THEN Magnitude(lo) ELSE F(B))
  BY <1>3, <1>5, LargerSmaller
<1>7. N(A) \in Nat /\ N(B) \in Nat /\ N(A) <= N(B)
  BY <1>3, <1>4, <1>5, <1>6
<1> HIDE DEF N
<1>8. /\ P(A) * ch.mult <= P(B) * ch.mult /\ N(A) * ch.mult <= N(B) * ch.mult
      /\ P(A) * ch.mult \in Nat /\ P(B) * ch.mult \in Nat
      /\ N(A) * ch.mult \in Nat /\ N(B) * ch.mult \in Nat
  <2>1. /\ P(A) * ch.mult <= P(B) * ch.mult /\ N(A) * ch.mult <= N(B) * ch.mult
    BY <1>2, <1>3, <1>4, <1>7, ScaleBound
  <2>2. \A x \in Nat : x * ch.mult \in Nat
    BY <1>2
  <2>3. QED
    BY <1>3, <1>7, <2>1, <2>2
<1>9. peak(A) \in Nat /\ peak(B) \in Nat /\ peak(A) <= peak(B)
  <2> DEFINE p == P(A) * ch.mult + ch.roundBias
             q == P(B) * ch.mult + ch.roundBias
             u == N(A) * ch.mult
             v == N(B) * ch.mult
  <2>1. p \in Nat /\ q \in Nat /\ p <= q /\ u \in Nat /\ v \in Nat /\ u <= v
    <3> DEFINE x == P(A) * ch.mult
               y == P(B) * ch.mult
               z == ch.roundBias
    <3>1. x \in Nat /\ y \in Nat /\ z \in Nat /\ x <= y
      BY <1>2, <1>8
    <3> HIDE DEF x, y, z
    <3>2. x + z \in Nat /\ y + z \in Nat /\ x + z <= y + z
      BY <3>1
    <3>3. QED
      BY <1>8, <3>2 DEF x, y, z
  <2>2. peak(A) = Larger(p, u) /\ peak(B) = Larger(q, v)
    OBVIOUS
  <2> HIDE DEF p, q, u, v, peak
  <2>3. Larger(p, u) = (IF p >= u THEN p ELSE u) /\ Larger(q, v) = (IF q >= v THEN q ELSE v)
    BY <2>1, LargerSmaller
  <2>4. QED
    BY <2>1, <2>2, <2>3
<1> HIDE DEF peak
<1>10. /\ MagnitudeBits(peak(A)) <= MagnitudeBits(peak(B))
       /\ MagnitudeBits(peak(A)) \in Nat /\ MagnitudeBits(peak(B)) \in Nat
  BY <1>9, MagnitudeBitsMonotone, MagnitudeBitsHold
<1>11. bits(A) <= bits(B)
  <2> DEFINE p == MagnitudeBits(peak(A)) + 1
             q == MagnitudeBits(peak(B)) + 1
  <2>1. p \in Nat /\ q \in Nat /\ p <= q
    BY <1>10
  <2>2. bits(A) = Larger(p, A) /\ bits(B) = Larger(q, B)
    OBVIOUS
  <2> HIDE DEF p, q, bits
  <2>3. Larger(p, A) = (IF p >= A THEN p ELSE A) /\ Larger(q, B) = (IF q >= B THEN q ELSE B)
    BY <2>1, LargerSmaller
  <2>4. QED
    BY <2>1, <2>2, <2>3
<1> HIDE DEF bits
<1>12. QED
  BY <1>1, <1>11

(* Nor, then, does an op with narrower operands.                           *)
LEMMA InternalMonotone ==
  ASSUME NEW op, Valid(op), Declared(op), NEW a, NEW b, NoWider(a, b), Len(b) = Arity(op)
  PROVE  InternalBits(op, a) <= InternalBits(op, b)
<1>1. CASE op.type = "Requant"
  <2>1. a[1] \in Nat /\ b[1] \in Nat /\ a[1] <= b[1]
    <3>1. Len(b) = 1
      BY <1>1 DEF Arity
    <3>2. 1 \in 1 .. Len(a) /\ a \in Seq(Nat) /\ b \in Seq(Nat)
      BY <3>1 DEF NoWider
    <3>3. QED
      BY <3>1, <3>2 DEF NoWider
  <2> DEFINE A == a[1]
             B == b[1]
             n == Len(op.channel)
             f == [k \in 1 .. n |-> RequantInternalBits(B, op.channel[k], op.clampLo)]
             S == {f[k] : k \in 1 .. n}
  <2>2. n \in Nat \ {0} /\ DOMAIN op.channel = 1 .. n /\ op.clampLo \in Int
        /\ \A k \in 1 .. n : op.channel[k] \in Channels
    BY <1>1, ChannelsAre
  <2>3. A \in Nat /\ B \in Nat /\ A <= B
    BY <2>1
  <2> HIDE DEF A, B
  <2>4. PICK k \in 1 .. n :
          RequantPeakBits(op, A) = RequantInternalBits(A, op.channel[k], op.clampLo)
    BY <1>1, <2>3, PeakBitsType
  <2>5. RequantPeakBits(op, B) = Max(S)
    BY <2>2 DEF RequantPeakBits
  <2> HIDE DEF n
  <2>6. \A i \in 1 .. n : f[i] \in Int
    <3> SUFFICES ASSUME NEW i \in 1 .. n PROVE f[i] \in Int
      OBVIOUS
    <3>1. RequantInternalBits(B, op.channel[i], op.clampLo) \in Nat
      BY <2>2, <2>3, InternalBitsType
    <3>2. QED
      BY <3>1
  <2>7. f[k] = RequantInternalBits(B, op.channel[k], op.clampLo)
    OBVIOUS
  <2> HIDE DEF f
  <2>8. S \subseteq Int /\ IsFiniteSet(S) /\ S # {} /\ f[k] \in S
    BY <2>2, <2>6, SmallSet
  <2>9. f[k] <= Max(S) /\ Max(S) \in Int
    <3> HIDE DEF S
    <3>1. QED
      BY <2>8, LargestInteger
  <2>10. RequantInternalBits(A, op.channel[k], op.clampLo) <= f[k]
    BY <2>2, <2>3, <2>7, InternalBitsMonotone
  <2>11. RequantPeakBits(op, A) \in Nat
    BY <1>1, <2>3, PeakBitsType
  <2>12. RequantPeakBits(op, A) <= RequantPeakBits(op, B)
    BY <2>4, <2>5, <2>6, <2>9, <2>10, <2>11
  <2>13. QED
    BY <1>1, <2>12 DEF InternalBits, A, B
<1>2. QED
  BY <1>1, OutputBitsMonotone DEF InternalBits
=============================================================================
