----------------------------- MODULE CkksProofs -----------------------------
(***************************************************************************)
(* Proofs about the CKKS backend, for every model and every layout of the  *)
(* slots: the rotations have keys, and the levels an admitted model is     *)
(* charged are enough for the walk, with the three exceptions that         *)
(* LevelsSuffice names.  For the second, the depths of the budget check    *)
(* are an account: every node has paid its charge between what it reads    *)
(* and what it writes (Paid), a fusion keeps it so (FusePays), and an      *)
(* operation spends no more than its node has paid (OpSpends).             *)
(***************************************************************************)
EXTENDS CkksEval, WalkProofs

-----------------------------------------------------------------------------
(* Rotations.                                                              *)

(* A rotation is cut into a baby step and a giant step, and there is a key *)
(* for each that is not zero: the giant step divides the slots.            *)
LEMMA StepsHaveKeys ==
  ASSUME NEW d \in 0 .. LtSlots - 1
  PROVE  /\ d % GiantStep # 0 => d % GiantStep \in ScheduleRotations
         /\ d - (d % GiantStep) # 0 => d - (d % GiantStep) \in ScheduleRotations
<1>1. /\ LtSlots \in Nat \ {0} /\ GiantStep \in Nat \ {0} /\ LtSlots % GiantStep = 0
      /\ d \in Nat /\ d < LtSlots
  BY SlotAssumption
<1> DEFINE q == d \div GiantStep
           n == LtSlots \div GiantStep
<1>2. /\ q \in Nat /\ n \in Nat
      /\ d - (d % GiantStep) = q * GiantStep
      /\ LtSlots = n * GiantStep
      /\ d % GiantStep \in 0 .. GiantStep - 1
  BY <1>1
<1>3. q <= n - 1
  <2>1. d < n * GiantStep
    BY <1>1, <1>2
  <2>2. q * GiantStep <= d
    BY <1>1, <1>2
  <2> HIDE DEF q, n
  <2>3. q * GiantStep < n * GiantStep
    BY <1>1, <1>2, <2>1, <2>2
  <2>4. QED
    BY <1>1, <1>2, <2>3
<1>4. d % GiantStep # 0 => d % GiantStep \in ScheduleRotations
  BY <1>1, <1>2 DEF ScheduleRotations
<1>5. ASSUME q # 0 PROVE q * GiantStep \in ScheduleRotations
  <2>1. q \in 1 .. n - 1
    BY <1>2, <1>3, <1>5
  <2>2. QED
    BY <2>1 DEF ScheduleRotations
<1>6. d - (d % GiantStep) # 0 => q # 0
  BY <1>1, <1>2
<1>7. QED
  BY <1>2, <1>4, <1>5, <1>6

(* Whatever a matrix holds, the rotations its product makes have keys.     *)
LEMMA EveryMatrixHasKeys == \A m : Rotations(m) \subseteq ScheduleRotations
<1> SUFFICES ASSUME NEW m, NEW r \in Rotations(m)
             PROVE  r \in ScheduleRotations
  OBVIOUS
<1>1. PICK d \in Diagonals(m) : r # 0 /\ (r = d % GiantStep \/ r = d - (d % GiantStep))
  BY DEF Rotations
<1>2. d \in 0 .. LtSlots - 1
  BY DEF Diagonals
<1>3. QED
  BY <1>1, <1>2, StepsHaveKeys

(* Every rotation an admitted model's maps make has a key, though keygen   *)
(* has not seen the model (keys.rs:90).                                    *)
THEOREM KeysSuffice == Spec => []RotationsHaveKeys
<1>1. RotationsHaveKeys
  BY EveryMatrixHasKeys DEF RotationsHaveKeys
<1>2. QED
  BY <1>1, PTL

-----------------------------------------------------------------------------
(* Depths.                                                                 *)

(* A Charge is a number of levels.                                         *)
LEMMA ChargeIs ==
  ASSUME NEW op, Declared(op)
  PROVE  Charge(op) \in Nat
<1>1. \A n \in Nat : BsgsDepth(n) \in Nat
  <2> SUFFICES ASSUME NEW n \in Nat PROVE BsgsDepth(n) \in Nat
    OBVIOUS
  <2>1. n + 1 \in Nat
    OBVIOUS
  <2>2. CeilLog2(n + 1) \in Nat
    BY <2>1, CeilLog2Holds
  <2>3. QED
    BY <2>2 DEF BsgsDepth
<1>2. BsgsDepth(MaxPolyDegree) \in Nat /\ BsgsDepth(7) \in Nat
  BY <1>1, FitAssumption
<1>3. op.type \in {"Activation", "Requant"} => op.lut \in Seq(Nat)
  BY DEF Declared
<1>4. op.type \in {"Activation", "Requant"} => BsgsDepth(Len(op.lut) - 1) \in Nat
  <2> SUFFICES ASSUME op.lut \in Seq(Nat) PROVE BsgsDepth(Len(op.lut) - 1) \in Nat
    BY <1>3
  <2>1. Len(op.lut) \in Nat /\ (Len(op.lut) - 1) + 1 = Len(op.lut)
    OBVIOUS
  <2>2. CeilLog2(Len(op.lut)) \in Nat
    BY <2>1, CeilLog2Holds
  <2>3. QED
    BY <2>1, <2>2 DEF BsgsDepth
<1>5. op.type \in OpTypes
  BY DEF Declared
<1>6. QED
  BY <1>2, <1>4, <1>5 DEF Charge, OpTypes

(* A depth is a natural number, and no less than any operand's.            *)
LEMMA DeepestIs ==
  ASSUME NEW n, HasLists(n), NEW d, ToSet(n.ins) \subseteq DOMAIN d,
         \A t \in DOMAIN d : d[t] \in Nat
  PROVE  Deepest(n, d) \in Nat /\ \A t \in ToSet(n.ins) : d[t] <= Deepest(n, d)
<1> DEFINE S == {0} \cup {d[t] : t \in ToSet(n.ins)}
           In == ToSet(n.ins)
<1>1. S \subseteq Nat /\ S \subseteq Int /\ 0 \in S
  OBVIOUS
<1>2. IsFiniteSet(In)
  <2>1. n.ins \in Seq(In)
    BY DEF HasLists
  <2>2. n.ins \in Surjection(1 .. Len(n.ins), In)
    <3>1. DOMAIN n.ins = 1 .. Len(n.ins)
      BY <2>1
    <3>2. n.ins \in [1 .. Len(n.ins) -> In]
      BY <2>1
    <3>3. \A x \in In : \E k \in 1 .. Len(n.ins) : n.ins[k] = x
      BY <3>1 DEF ToSet
    <3> HIDE DEF In
    <3>4. QED
      BY <3>2, <3>3 DEF Surjection
  <2>3. IsFiniteSet(1 .. Len(n.ins))
    <3>1. Len(n.ins) \in Int /\ 1 \in Int
      BY <2>1
    <3>2. QED
      BY <3>1, FS_Interval, Zenon
  <2> HIDE DEF In
  <2>4. QED
    BY <2>2, <2>3, FS_Surjection, Zenon
<1>3. IsFiniteSet(S)
  <2> DEFINE f == [t \in In |-> d[t]]
             R == {d[t] : t \in In}
  <2>1. f \in Surjection(In, R)
    BY DEF Surjection
  <2>2. IsFiniteSet(R)
    <3> HIDE DEF f, R, In
    <3>1. QED
      BY <1>2, <2>1, FS_Surjection, Zenon
  <2>3. S = R \cup {0}
    OBVIOUS
  <2> HIDE DEF R, S
  <2>4. QED
    BY <2>2, <2>3, FS_AddElement
<1>4. Deepest(n, d) = Max(S)
  BY DEF Deepest
<1>5. \A t \in In : d[t] \in S
  OBVIOUS
<1> HIDE DEF S
<1>6. Max(S) \in S /\ \A y \in S : y <= Max(S)
  BY <1>1, <1>3, LargestInteger
<1>7. QED
  BY <1>1, <1>4, <1>5, <1>6

(* The depths are what charging one node after the other gives.            *)
Deepened(n, d) == Bind(d, n.outs, Charged(n, d))

(* The depths after every turn.                                            *)
DepthsUnfolded(ds, m) ==
  /\ ds[0] = [t \in m.inputs |-> 0]
  /\ \A k \in 1 .. Len(StableOrder(m.nodes)) :
       ds[k] = Deepened(m.nodes[StableOrder(m.nodes)[k]], ds[k-1])
  /\ Depths(m) = ds[Len(StableOrder(m.nodes))]

(* They have one entry for every node the budget check charges.            *)
LEMMA DepthsUnfold ==
  ASSUME NEW m, Len(StableOrder(m.nodes)) \in Nat
  PROVE  \E ds : DepthsUnfolded(ds, m)
<1> DEFINE order == StableOrder(m.nodes)
           Entry(f, k) == IF k = 0 THEN [t \in m.inputs |-> 0]
                          ELSE Bind(f[k-1], m.nodes[order[k]].outs, Charged(m.nodes[order[k]], f[k-1]))
           Upto(n) == \E f : f = [k \in 0 .. n |-> Entry(f, k)]
           N == {n \in Nat : Upto(n)}
           F == CHOOSE f : f = [k \in 0 .. Len(order) |-> Entry(f, k)]
<1>0. \A j \in Nat : j \in N <=> Upto(j)
  BY Zenon
<1>a. Depths(m) = F[Len(order)]
  BY DEF Depths
<1> HIDE DEF order
<1>1. 0 \in N
  <2> DEFINE f == [k \in 0 .. 0 |-> [t \in m.inputs |-> 0]]
  <2>1. \A k \in 0 .. 0 : Entry(f, k) = [t \in m.inputs |-> 0]
    BY DEF Entry
  <2>2. f = [k \in 0 .. 0 |-> Entry(f, k)]
    BY <2>1
  <2>3. Upto(0)
    BY <2>2, Zenon
  <2>4. QED
    BY <1>0, <2>3
<1>2. ASSUME NEW n \in Nat, n \in N PROVE n + 1 \in N
  <2>0. Upto(n)
    BY <1>0, <1>2
  <2>1. PICK f : f = [k \in 0 .. n |-> Entry(f, k)]
    BY <2>0, Zenon
  <2> DEFINE h == [k \in 0 .. n + 1 |-> IF k = n + 1 THEN Entry(f, k) ELSE f[k]]
  <2>2. \A k \in 0 .. n : f[k] = Entry(f, k)
    BY <2>1, Zenon
  <2>3. \A k \in 0 .. n + 1 : h[k] = Entry(f, k)
    <3>1. \A k \in 0 .. n + 1 : k = n + 1 \/ k \in 0 .. n
      OBVIOUS
    <3> HIDE DEF Entry
    <3>2. QED
      BY <2>2, <3>1
  <2>4. \A k \in 0 .. n + 1 : k # 0 => h[k-1] = f[k-1]
    <3> HIDE DEF Entry
    <3>1. QED
      OBVIOUS
  <2>5. ASSUME NEW k \in 0 .. n + 1 PROVE Entry(h, k) = Entry(f, k)
    <3>1. CASE k = 0
      BY <3>1
    <3>2. CASE k # 0
      <4>1. h[k-1] = f[k-1]
        BY <2>4, <3>2
      <4> HIDE DEF h
      <4>2. QED
        BY <3>2, <4>1
    <3>3. QED
      BY <3>1, <3>2
  <2> HIDE DEF Entry
  <2>6. h = [k \in 0 .. n + 1 |-> Entry(h, k)]
    BY <2>3, <2>5
  <2> HIDE DEF h
  <2>7. Upto(n + 1)
    BY <2>6, Zenon
  <2>8. n + 1 \in Nat
    OBVIOUS
  <2> HIDE DEF N, Upto
  <2>9. QED
    BY <1>0, <2>7, <2>8
<1>3. Upto(Len(order))
  <2> HIDE DEF N, Upto
  <2>1. \A n \in Nat : n \in N
    BY <1>1, <1>2, SetInduction
  <2>2. QED
    BY <1>0, <2>1 DEF order
<1>4. F = [k \in 0 .. Len(order) |-> Entry(F, k)]
  BY <1>3, Zenon
<1> HIDE DEF F
<1>6. \A k \in 0 .. Len(order) : F[k] = Entry(F, k)
  BY <1>4, Zenon
<1>7. Len(order) \in Nat
  BY DEF order
<1>8. F[0] = [t \in m.inputs |-> 0]
  BY <1>6, <1>7
<1>9. ASSUME NEW k \in 1 .. Len(order) PROVE F[k] = Deepened(m.nodes[order[k]], F[k-1])
  <2>1. k \in 0 .. Len(order) /\ k # 0
    BY <1>7
  <2>2. F[k] = Entry(F, k)
    BY <1>6, <2>1
  <2>3. QED
    BY <2>1, <2>2 DEF Deepened
<1>10. DepthsUnfolded(F, m)
  BY <1>a, <1>8, <1>9, Zenon DEF order, DepthsUnfolded
<1>11. QED
  BY <1>10, Zenon

(* The levels of a tensor.                                                 *)
Levelled(d) == \A t \in DOMAIN d : d[t] \in Nat

(* A node whose outputs are deeper than its operands by what it is charged. *)
Paid(n, d) ==
  /\ ToSet(n.ins) \subseteq DOMAIN d /\ ToSet(n.outs) \subseteq DOMAIN d
  /\ \A u \in ToSet(n.ins), t \in ToSet(n.outs) : d[u] + Charge(n.op) <= d[t]

(* It depends on its operands and outputs alone.                           *)
LEMMA PaidMore ==
  ASSUME NEW n, NEW d, Paid(n, d), NEW e, DOMAIN d \subseteq DOMAIN e,
         \A t \in DOMAIN d : e[t] = d[t]
  PROVE  Paid(n, e)
<1>1. /\ ToSet(n.ins) \subseteq DOMAIN d /\ ToSet(n.outs) \subseteq DOMAIN d
      /\ \A u \in ToSet(n.ins), t \in ToSet(n.outs) : d[u] + Charge(n.op) <= d[t]
  BY DEF Paid
<1>2. \A t \in ToSet(n.ins) \cup ToSet(n.outs) : e[t] = d[t]
  BY <1>1
<1>3. QED
  BY <1>1, <1>2 DEF Paid

(* Charging a node whose operands have a depth, its outputs none.          *)
LEMMA DeepenedIs ==
  ASSUME NEW n, HasLists(n), IsInjective(n.outs), Charge(n.op) \in Nat,
         NEW d, Levelled(d), ToSet(n.ins) \subseteq DOMAIN d, ToSet(n.outs) \cap DOMAIN d = {}
  PROVE  LET e == Deepened(n, d)
         IN  /\ DOMAIN e = DOMAIN d \cup ToSet(n.outs) /\ \A t \in DOMAIN d : e[t] = d[t]
             /\ Levelled(e) /\ Paid(n, e)
<1> DEFINE e == Deepened(n, d)
           deep == Deepest(n, d)
           c == Charge(n.op)
<1>1. deep \in Nat /\ c \in Nat /\ \A t \in ToSet(n.ins) : d[t] <= deep
  BY DeepestIs DEF Levelled
<1>2. /\ DOMAIN e = DOMAIN d \cup ToSet(n.outs)
      /\ \A k \in DOMAIN n.outs : e[n.outs[k]] = Charged(n, d)[k]
      /\ \A t \in DOMAIN d \ ToSet(n.outs) : e[t] = d[t]
  <2>1. Binds(e, d, n.outs, Charged(n, d))
    BY BindValues DEF Deepened
  <2>2. QED
    BY <2>1 DEF Binds
<1>3. \A k \in DOMAIN n.outs : Charged(n, d)[k] = deep + c
  BY DEF Charged
<1> HIDE DEF e, deep, c
<1>4. \A t \in ToSet(n.outs) : e[t] = deep + c
  BY <1>2, <1>3 DEF ToSet
<1>5. \A t \in DOMAIN d : e[t] = d[t]
  BY <1>2
<1>6. Levelled(e)
  BY <1>1, <1>2, <1>4, <1>5 DEF Levelled
<1>7. Paid(n, e)
  <2>1. \A u \in ToSet(n.ins) : e[u] = d[u] /\ d[u] \in Nat
    BY <1>5 DEF Levelled
  <2>2. \A u \in ToSet(n.ins), t \in ToSet(n.outs) : e[u] + c <= e[t]
    BY <1>1, <1>4, <2>1
  <2>3. QED
    BY <1>2, <2>2 DEF Paid, c
<1>8. QED
  BY <1>2, <1>5, <1>6, <1>7 DEF e

(* The depths of a list that can be sorted: none at the inputs, and every  *)
(* node has paid for its outputs.                                          *)
LEMMA DepthsHold ==
  ASSUME NEW m, m.nodes \in Seq(ToSet(m.nodes)), Sortable(m.nodes, m.inputs),
         \A i \in DOMAIN m.nodes : HasLists(m.nodes[i]) /\ Declared(m.nodes[i].op)
  PROVE  LET d == Depths(m)
         IN  /\ DOMAIN d = m.inputs \cup Written(m.nodes)
             /\ Levelled(d) /\ \A t \in m.inputs : d[t] = 0
             /\ \A i \in DOMAIN m.nodes : Paid(m.nodes[i], d)
<1> DEFINE order == StableOrder(m.nodes)
           outs(i) == ToSet(m.nodes[i].outs)
           Known(k) == m.inputs \cup UNION {outs(order[j]) : j \in 1 .. k}
<1>0. \A i \in DOMAIN m.nodes : HasLists(m.nodes[i]) /\ Charge(m.nodes[i].op) \in Nat
  BY ChargeIs
<1>1. /\ Len(order) \in Nat /\ \A k \in 1 .. Len(order) : order[k] \in DOMAIN m.nodes
      /\ \A i \in DOMAIN m.nodes : \E k \in 1 .. Len(order) : order[k] = i
      /\ \A k \in 1 .. Len(order) : ToSet(m.nodes[order[k]].ins) \subseteq Known(k-1)
  BY SortedInOrder DEF InOrder
<1>2. \A j, k \in 1 .. Len(order) : order[j] = order[k] => j = k
  <2>1. m.nodes \in Seq(ToSet(m.nodes))
    OBVIOUS
  <2>2. ProducersFirst(m.nodes, order)
    BY <2>1, OrderIsSound
  <2>3. QED
    BY <2>2, Zenon DEF ProducersFirst
<1>3. \A i \in DOMAIN m.nodes :
        /\ IsInjective(m.nodes[i].outs) /\ outs(i) \cap m.inputs = {}
        /\ \A j \in DOMAIN m.nodes \ {i} : outs(i) \cap outs(j) = {}
  BY DEF Sortable
<1> HIDE DEF order
<1>4. PICK ds : /\ ds[0] = [t \in m.inputs |-> 0]
                /\ \A k \in 1 .. Len(order) : ds[k] = Deepened(m.nodes[order[k]], ds[k-1])
                /\ Depths(m) = ds[Len(order)]
  <2>1. PICK e : DepthsUnfolded(e, m)
    BY <1>1, DepthsUnfold DEF order
  <2>2. QED
    BY <2>1, Zenon DEF DepthsUnfolded, order
<1> DEFINE P(k) == /\ DOMAIN ds[k] = Known(k)
                   /\ Levelled(ds[k]) /\ \A t \in m.inputs : ds[k][t] = 0
                   /\ \A j \in 1 .. k : Paid(m.nodes[order[j]], ds[k])
           N == {k \in Nat : k <= Len(order) => P(k)}
<1>5. 0 \in N
  <2>1. DOMAIN ds[0] = m.inputs /\ Levelled(ds[0]) /\ \A t \in m.inputs : ds[0][t] = 0
    BY <1>4 DEF Levelled
  <2>2. 1 .. 0 = {}
    OBVIOUS
  <2>3. Known(0) = m.inputs
    BY <2>2
  <2> HIDE DEF Known
  <2>4. P(0)
    BY <2>1, <2>2, <2>3
  <2>5. QED
    BY <2>4
<1>6. ASSUME NEW k \in Nat, k \in N PROVE k + 1 \in N
  <2> SUFFICES ASSUME k + 1 <= Len(order) PROVE P(k + 1)
    OBVIOUS
  <2> DEFINE n == m.nodes[order[k+1]]
             e == ds[k]
             f == ds[k+1]
  <2>1. k <= Len(order) /\ k + 1 \in 1 .. Len(order) /\ (k + 1) - 1 = k
    <3> DEFINE len == Len(order)
    <3>1. len \in Nat /\ k + 1 <= len /\ k \in Nat
      BY <1>1, Zenon
    <3> HIDE DEF len
    <3>2. k <= len /\ k + 1 \in 1 .. len /\ (k + 1) - 1 = k
      BY ONLY <3>1
    <3>3. QED
      BY <3>2 DEF len
  <2>2. P(k)
    BY <1>6, <2>1
  <2>3. f = Deepened(n, e)
    BY <1>4, <2>1
  <2>4. order[k+1] \in DOMAIN m.nodes
    BY <1>1, <2>1
  <2>5. IsInjective(n.outs) /\ ToSet(n.outs) = outs(order[k+1])
    BY <1>3, <2>4
  <2>6. ToSet(n.ins) \subseteq Known(k)
    BY <1>1, <2>1
  <2>7. \A j \in 1 .. k : outs(order[j]) \cap outs(order[k+1]) = {}
    <3> SUFFICES ASSUME NEW j \in 1 .. k PROVE outs(order[j]) \cap outs(order[k+1]) = {}
      OBVIOUS
    <3>1. j \in 1 .. Len(order) /\ j # k + 1
      BY <1>1, <2>1
    <3>2. order[j] \in DOMAIN m.nodes /\ order[j] # order[k+1]
      BY <1>1, <1>2, <2>1, <3>1
    <3>3. QED
      BY <1>3, <2>4, <3>2
  <2>8. Known(k) \cap outs(order[k+1]) = {}
    BY <1>3, <2>4, <2>7
  <2>9. Known(k + 1) = Known(k) \cup outs(order[k+1])
    <3>1. 1 .. k + 1 = (1 .. k) \cup {k + 1}
      OBVIOUS
    <3>2. QED
      BY <3>1
  <2>10. /\ DOMAIN e = Known(k) /\ Levelled(e) /\ \A t \in m.inputs : e[t] = 0
         /\ \A j \in 1 .. k : Paid(m.nodes[order[j]], e)
    BY <2>2
  <2> HIDE DEF n, e, f, Known, outs, P
  <2>a. HasLists(n) /\ Charge(n.op) \in Nat
    BY <1>0, <2>4 DEF n
  <2>11. /\ DOMAIN f = DOMAIN e \cup ToSet(n.outs) /\ \A t \in DOMAIN e : f[t] = e[t]
         /\ Levelled(f) /\ Paid(n, f)
    <3>1. /\ IsInjective(n.outs) /\ ToSet(n.ins) \subseteq DOMAIN e /\ ToSet(n.outs) \cap DOMAIN e = {}
          /\ HasLists(n) /\ Charge(n.op) \in Nat /\ Levelled(e)
      BY <2>a, <2>5, <2>6, <2>8, <2>10
    <3>2. QED
      BY ONLY <2>3, <3>1, DeepenedIs
  <2>12. DOMAIN f = Known(k + 1)
    BY <2>5, <2>9, <2>10, <2>11
  <2>13. \A t \in m.inputs : f[t] = 0
    <3>1. m.inputs \subseteq DOMAIN e
      BY <2>10 DEF Known
    <3>2. QED
      BY <2>10, <2>11, <3>1
  <2>14. \A j \in 1 .. k + 1 : Paid(m.nodes[order[j]], f)
    <3> SUFFICES ASSUME NEW j \in 1 .. k + 1 PROVE Paid(m.nodes[order[j]], f)
      OBVIOUS
    <3>1. CASE j = k + 1
      BY <2>11, <3>1 DEF n
    <3>2. CASE j \in 1 .. k
      <4>1. DOMAIN e \subseteq DOMAIN f
        BY <2>11
      <4>2. Paid(m.nodes[order[j]], e)
        BY <2>10, <3>2
      <4>3. QED
        BY <2>11, <4>1, <4>2, PaidMore
    <3>3. QED
      BY <3>1, <3>2
  <2>15. QED
    BY <2>11, <2>12, <2>13, <2>14 DEF f, P
<1>7. P(Len(order))
  <2> HIDE DEF P
  <2>1. \A k \in Nat : k \in N
    <3> HIDE DEF N
    <3>1. QED
      BY <1>5, <1>6, SetInduction
  <2>2. QED
    BY <1>1, <2>1
<1> DEFINE w == ds[Len(order)]
<1>8. /\ DOMAIN w = Known(Len(order)) /\ Levelled(w) /\ \A t \in m.inputs : w[t] = 0
      /\ \A j \in 1 .. Len(order) : Paid(m.nodes[order[j]], w)
  BY <1>7
<1>9. Depths(m) = w
  BY <1>4
<1>10. Known(Len(order)) = m.inputs \cup Written(m.nodes)
  <2> DEFINE len == Len(order)
  <2> HIDE DEF len
  <2>1. /\ \A k \in 1 .. len : order[k] \in DOMAIN m.nodes
        /\ \A i \in DOMAIN m.nodes : \E k \in 1 .. len : order[k] = i
    BY <1>1 DEF len
  <2>2. UNION {outs(order[j]) : j \in 1 .. len} = UNION {outs(i) : i \in DOMAIN m.nodes}
    <3> HIDE DEF outs
    <3>1. QED
      BY <2>1
  <2>3. QED
    BY <2>2 DEF Written, len
<1> HIDE DEF w, P, Known, outs
<1>11. \A i \in DOMAIN m.nodes : Paid(m.nodes[i], w)
  BY <1>1, <1>8
<1>12. QED
  BY <1>8, <1>9, <1>10, <1>11

-----------------------------------------------------------------------------
(* Fusion, charged.                                                        *)

(* No table is shorter than a block has values.                            *)
FullTable(op) == op.type = "Activation" => Cardinality(Message) <= Len(op.lut)

(* More bits count further.                                                *)
LEMMA CeilLog2Monotone ==
  ASSUME NEW a \in Nat, NEW b \in Nat, a <= b
  PROVE  CeilLog2(a) <= CeilLog2(b)
<1> DEFINE k == CeilLog2(a)
           l == CeilLog2(b)
<1>1. k \in Nat /\ l \in Nat /\ b <= 2^l /\ \A j \in 0 .. k-1 : 2^j < a
  BY CeilLog2Holds
<1> HIDE DEF k, l
<1>2. l \notin 0 .. k-1
  <2> SUFFICES ASSUME l \in 0 .. k-1 PROVE FALSE
    OBVIOUS
  <2>1. 2^l < a /\ 2^l \in Nat
    BY <1>1, PowerStep
  <2>2. QED
    BY <1>1, <2>1
<1>3. QED
  BY <1>1, <1>2 DEF k, l

(* Four entries count two bits; three already do.                          *)
LEMMA FourEntries ==
  /\ CeilLog2(4) = 2
  /\ \A n \in Nat : 3 <= n => 2 <= CeilLog2(n)
<1>1. 2^0 = 1 /\ 2^1 = 2 /\ 2^2 = 4
  <2>1. 2^0 = 1 /\ 2^(0 + 1) = 2 * 2^0 /\ 2^(1 + 1) = 2 * 2^1
    BY PowerStep
  <2>2. 0 + 1 = 1 /\ 1 + 1 = 2
    OBVIOUS
  <2>3. QED
    BY <2>1, <2>2
<1>2. CeilLog2(4) <= 2
  <2> DEFINE k == CeilLog2(4)
  <2>1. k \in Nat /\ \A j \in 0 .. k-1 : 2^j < 4
    BY CeilLog2Holds
  <2> HIDE DEF k
  <2>2. ~ (2^2 < 4)
    BY <1>1
  <2>3. 2 \notin 0 .. k-1
    BY <2>1, <2>2
  <2>4. k <= 2
    BY ONLY <2>1, <2>3
  <2>5. QED
    BY <2>4 DEF k
<1>3. ASSUME NEW n \in Nat, 3 <= n PROVE 2 <= CeilLog2(n)
  <2> DEFINE k == CeilLog2(n)
  <2>1. k \in Nat /\ n <= 2^k
    BY CeilLog2Holds
  <2> HIDE DEF k
  <2>2. ~ (n <= 2^0) /\ ~ (n <= 2^1)
    BY <1>1, <1>3
  <2>3. k # 0 /\ k # 1
    BY <2>1, <2>2
  <2>4. 2 <= k
    BY ONLY <2>1, <2>3
  <2>5. QED
    BY <2>4 DEF k
<1>4. CeilLog2(4) \in Nat
  BY CeilLog2Holds
<1>5. QED
  BY <1>2, <1>3, <1>4

(* A fused node is charged no more than the two it replaces.               *)
LEMMA FuseCharges ==
  ASSUME NEW a, IsTable(a), Valid(a), Declared(a), FullTable(a),
         NEW b, IsTable(b), Valid(b), Declared(b), FullTable(b), Composable(a, b),
         MaxPolyDegree >= 2
  PROVE  /\ Charge(FusedOp(a, b)) <= Charge(a) + Charge(b)
         /\ FullTable(FusedOp(a, b))
<1> DEFINE lut == Composed(a, b)
           f == FusedOp(a, b)
           bound == BsgsDepth(MaxPolyDegree)
<1>1. a.lut \in Seq(Nat) /\ b.lut \in Seq(Nat)
  BY DEF Declared, IsTable
<1>2. lut = [j \in 1 .. Len(a.lut) |-> b.lut[Index(a, b, a.lut[j])]] /\ Len(lut) = Len(a.lut)
  <2>1. DOMAIN a.lut = 1 .. Len(a.lut) /\ Len(a.lut) \in Nat
    BY <1>1
  <2>2. lut = [j \in 1 .. Len(a.lut) |-> b.lut[Index(a, b, a.lut[j])]]
    BY <2>1 DEF Composed
  <2> HIDE DEF lut
  <2>3. QED
    BY <2>1, <2>2
<1>3. Charge(a) \in Nat /\ Charge(b) \in Nat
  BY ChargeIs
<1>4. bound \in Nat /\ 2 <= bound
  <2>1. MaxPolyDegree + 1 \in Nat /\ 3 <= MaxPolyDegree + 1
    BY FitAssumption
  <2>2. QED
    BY <2>1, FourEntries, CeilLog2Holds DEF BsgsDepth
<1>5. \A n \in Nat : BsgsDepth(n - 1) = CeilLog2(n)
  <2> SUFFICES ASSUME NEW n \in Nat PROVE BsgsDepth(n - 1) = CeilLog2(n)
    OBVIOUS
  <2>1. (n - 1) + 1 = n
    OBVIOUS
  <2>2. QED
    BY <2>1 DEF BsgsDepth
<1> HIDE DEF lut, bound
<1>6. CASE a.type = "Requant"
  <2> DEFINE mask == IF a.channelSize = 0 THEN 0 ELSE 1
  <2>1. f.type = "Requant" /\ f.lut = lut /\ f.channelSize = a.channelSize
    BY <1>6 DEF FusedOp, lut
  <2>2. Len(a.lut) = 4
    BY <1>6, MessageIs DEF Valid, ValidRequant
  <2>3. Len(f.lut) = 4
    BY <1>2, <2>1, <2>2
  <2> HIDE DEF f
  <2>4. mask \in Nat
    OBVIOUS
  <2> HIDE DEF mask
  <2>5. BsgsDepth(4 - 1) = 2
    BY <1>5, FourEntries
  <2>6. Charge(f) = bound + mask + (IF IdentityClamp(f) THEN 0 ELSE 2)
    BY <2>1, <2>3, <2>5 DEF Charge, bound, mask
  <2>7. Charge(a) = bound + mask + (IF IdentityClamp(a) THEN 0 ELSE 2)
    BY <1>6, <2>2, <2>5 DEF Charge, bound, mask
  <2>8. 2 <= Charge(b)
    <3>1. CASE b.type = "Activation"
      <4>1. 4 <= Len(b.lut) /\ Len(b.lut) \in Nat
        BY <1>1, <3>1, MessageIs DEF FullTable
      <4>2. Charge(b) = CeilLog2(Len(b.lut))
        BY <1>5, <3>1, <4>1 DEF Charge
      <4>3. QED
        BY <4>1, <4>2, FourEntries
    <3>2. CASE b.type = "Requant"
      <4>1. Len(b.lut) = 4
        BY <3>2, MessageIs DEF Valid, ValidRequant
      <4>2. Charge(b) = bound + (IF b.channelSize = 0 THEN 0 ELSE 1) + (IF IdentityClamp(b) THEN 0 ELSE 2)
        BY <3>2, <4>1, <2>5 DEF Charge, bound
      <4>3. QED
        BY <1>4, <4>2
    <3>3. QED
      BY <3>1, <3>2 DEF IsTable
  <2>9. Charge(f) <= Charge(a) + Charge(b)
    BY <1>3, <1>4, <2>4, <2>6, <2>7, <2>8
  <2>10. FullTable(f)
    BY <2>1 DEF FullTable
  <2>11. QED
    BY <2>9, <2>10 DEF f
<1>7. CASE a.type = "Activation"
  <2>1. f.type = "Activation" /\ f.lut = lut
    BY <1>7 DEF FusedOp, Composable, lut
  <2> HIDE DEF f
  <2>2. Len(f.lut) = Len(a.lut)
    BY <1>2, <2>1
  <2>3. Charge(f) = Charge(a)
    BY <1>7, <2>1, <2>2 DEF Charge
  <2>4. FullTable(f)
    BY <1>7, <2>1, <2>2 DEF FullTable
  <2>5. QED
    BY <1>3, <2>3, <2>4 DEF f
<1>8. QED
  BY <1>6, <1>7 DEF IsTable

(* An Argmax that is charged for any degree its fit may have.              *)
ChargedFor(op) == op.type = "Argmax" => MaxPolyDegree <= 7

(* A list whose nodes have paid, in a form a fusion keeps.                 *)
Affordable(ns, d) ==
  /\ IsNodeList(ns)
  /\ \A i \in DOMAIN ns :
       /\ Valid(ns[i].op) /\ Matched(ns[i]) /\ Declared(ns[i].op)
       /\ FullTable(ns[i].op) /\ ChargedFor(ns[i].op) /\ Paid(ns[i], d)

(* The fused node has paid between what the first read and the second      *)
(* wrote.                                                                  *)
LEMMA FusePays ==
  ASSUME NEW d, Levelled(d), NEW ns, Affordable(ns, d), NEW outputs, MaxPolyDegree >= 2,
         NEW p \in DOMAIN ns, NEW c \in DOMAIN ns, Fusable(ns, outputs, p, c)
  PROVE  Affordable(Fuse(ns, p, c), d)
<1> DEFINE fs == Fuse(ns, p, c)
           S == ToSet(ns)
           new == FusedNode(ns[p], ns[c])
           a == ns[p].op
           b == ns[c].op
<1>1. ns \in Seq(S) /\ IsNodeList(ns) /\ DOMAIN ns = 1 .. Len(ns)
  BY DEF IsNodeList, Affordable
<1> HIDE DEF S
<1>2. /\ Adjacent(ns, outputs, p, c) /\ Composable(a, b)
      /\ a.type = "Requant" => FitsTable(Composed(a, b), a.outBits)
  BY DEF Fusable
<1>3. p < c
  BY <1>1, <1>2 DEF Adjacent
<1>4. Layout(S, ns, p, c, fs)
  BY <1>1, <1>3, FuseLayout
<1>5. \A i \in DOMAIN ns : /\ IsNode(ns[i]) /\ Valid(ns[i].op) /\ Matched(ns[i])
                          /\ Declared(ns[i].op) /\ FullTable(ns[i].op)
                          /\ ChargedFor(ns[i].op) /\ Paid(ns[i], d)
  BY DEF Affordable, IsNodeList
<1>6. IsTable(a) /\ IsTable(b)
  <2>1. a.type \in {"Activation", "Requant"} /\ b.type \in {"Activation", "Requant"}
    BY <1>2 DEF Composable
  <2>2. IsNode(ns[p]) /\ IsNode(ns[c])
    BY <1>5
  <2>3. QED
    BY <2>1, <2>2 DEF IsNode, IsTable
<1>7. new.op = FusedOp(a, b) /\ new.ins = ns[p].ins /\ new.outs = ns[c].outs
  BY DEF FusedNode
<1>8. /\ Charge(new.op) <= Charge(a) + Charge(b) /\ FullTable(new.op) /\ Declared(new.op)
      /\ Charge(a) \in Nat /\ Charge(b) \in Nat /\ Charge(new.op) \in Nat
  <2>1. /\ Valid(a) /\ Declared(a) /\ FullTable(a) /\ Valid(b) /\ Declared(b) /\ FullTable(b)
    BY <1>5
  <2> HIDE DEF a, b, new
  <2>2. Declared(new.op)
    BY <1>2, <1>6, <1>7, <2>1, FusedDeclared
  <2>3. QED
    BY <1>2, <1>6, <1>7, <2>1, <2>2, FuseCharges, ChargeIs
<1>9. PICK x : x \in ToSet(ns[p].outs) /\ x \in ToSet(ns[c].ins)
  <2>1. ToSet(ns[p].outs) = {ns[p].outs[1]} /\ ns[p].outs[1] \in ToSet(ns[c].ins)
    BY <1>1, <1>2, OnlyReader
  <2>2. QED
    BY <2>1
<1>10. Paid(new, d)
  <2>1. /\ ToSet(ns[p].ins) \subseteq DOMAIN d /\ ToSet(ns[c].outs) \subseteq DOMAIN d
        /\ x \in DOMAIN d
        /\ \A u \in ToSet(ns[p].ins) : d[u] + Charge(a) <= d[x]
        /\ \A t \in ToSet(ns[c].outs) : d[x] + Charge(b) <= d[t]
    <3>1. Paid(ns[p], d) /\ Paid(ns[c], d)
      BY <1>5
    <3> HIDE DEF new
    <3>2. QED
      BY <1>9, <3>1 DEF Paid
  <2> HIDE DEF a, b, new
  <2>2. ASSUME NEW u \in ToSet(ns[p].ins), NEW t \in ToSet(ns[c].outs)
        PROVE  d[u] + Charge(new.op) <= d[t]
    <3>1. d[u] \in Nat /\ d[x] \in Nat /\ d[t] \in Nat
      BY <2>1 DEF Levelled
    <3>2. d[u] + Charge(a) <= d[x] /\ d[x] + Charge(b) <= d[t]
      BY <2>1
    <3>3. QED
      BY <1>8, <3>1, <3>2
  <2>3. QED
    BY <1>7, <2>1, <2>2 DEF Paid
<1>11. IsNodeList(fs) /\ \A k \in DOMAIN fs : Valid(fs[k].op) /\ Matched(fs[k])
  BY <1>1, <1>5, FuseKeepsNodes
<1>12. DOMAIN fs = 1 .. Len(fs)
  BY <1>11 DEF IsNodeList
<1>a. ChargedFor(new.op)
  <2>1. new.op.type \in {"Activation", "Requant"}
    BY <1>6, <1>7 DEF FusedOp, IsTable
  <2> HIDE DEF new
  <2>2. QED
    BY <2>1 DEF ChargedFor
<1>13. \A k \in DOMAIN fs : fs[k] = new \/ \E i \in DOMAIN ns : fs[k] = ns[i]
  BY <1>1, <1>4, <1>12 DEF Layout
<1> HIDE DEF new, fs
<1>14. \A k \in DOMAIN fs : /\ Declared(fs[k].op) /\ FullTable(fs[k].op)
                           /\ ChargedFor(fs[k].op) /\ Paid(fs[k], d)
  BY <1>5, <1>8, <1>a, <1>10, <1>13
<1>15. QED
  BY <1>11, <1>14 DEF Affordable, fs

(* So has every node after all the rewriting.                              *)
LEMMA FuseOncePays ==
  ASSUME NEW d, Levelled(d), NEW ns, Affordable(ns, d), NEW outputs, MaxPolyDegree >= 2
  PROVE  Affordable(FuseOnce(ns, outputs), d)
<1>1. CASE FusablePairs(ns, outputs) = {}
  BY <1>1 DEF FuseOnce
<1>2. CASE FusablePairs(ns, outputs) # {}
  <2> DEFINE pc == FirstPair(ns, outputs)
  <2>1. IsNodeList(ns)
    BY DEF Affordable
  <2>2. pc[1] \in DOMAIN ns /\ pc[2] \in DOMAIN ns /\ Fusable(ns, outputs, pc[1], pc[2])
    BY <1>2, <2>1, FirstPairIsFusable
  <2>3. FuseOnce(ns, outputs) = Fuse(ns, pc[1], pc[2])
    BY <1>2 DEF FuseOnce
  <2> HIDE DEF pc
  <2>4. QED
    BY <2>2, <2>3, FusePays
<1>3. QED
  BY <1>1, <1>2

(* The lists the rewriting goes through.                                   *)
TurnsUnfolded(ts, m) ==
  /\ ts[0] = m.nodes
  /\ \A k \in 1 .. Len(m.nodes) : ts[k] = FuseOnce(ts[k-1], m.outputs)
  /\ Optimized(m) = ts[Len(m.nodes)]

(* There is one for every turn.                                            *)
LEMMA TurnsUnfold ==
  ASSUME NEW m, Len(m.nodes) \in Nat
  PROVE  \E ts : TurnsUnfolded(ts, m)
<1> DEFINE len == Len(m.nodes)
           Entry(f, k) == IF k = 0 THEN m.nodes ELSE FuseOnce(f[k-1], m.outputs)
           Upto(n) == \E f : f = [k \in 0 .. n |-> Entry(f, k)]
           N == {n \in Nat : Upto(n)}
           F == CHOOSE f : f = [k \in 0 .. len |-> Entry(f, k)]
<1>0. \A j \in Nat : j \in N <=> Upto(j)
  BY Zenon
<1>a. Optimized(m) = F[len]
  BY DEF Optimized
<1>b. len \in Nat
  OBVIOUS
<1> HIDE DEF len
<1>1. 0 \in N
  <2> DEFINE f == [k \in 0 .. 0 |-> m.nodes]
  <2>1. \A k \in 0 .. 0 : Entry(f, k) = m.nodes
    BY DEF Entry
  <2>2. f = [k \in 0 .. 0 |-> Entry(f, k)]
    BY <2>1
  <2>3. Upto(0)
    BY <2>2, Zenon
  <2>4. QED
    BY <1>0, <2>3
<1>2. ASSUME NEW n \in Nat, n \in N PROVE n + 1 \in N
  <2>0. Upto(n)
    BY <1>0, <1>2
  <2>1. PICK f : f = [k \in 0 .. n |-> Entry(f, k)]
    BY <2>0, Zenon
  <2> DEFINE h == [k \in 0 .. n + 1 |-> IF k = n + 1 THEN Entry(f, k) ELSE f[k]]
  <2>2. \A k \in 0 .. n : f[k] = Entry(f, k)
    BY <2>1, Zenon
  <2>3. \A k \in 0 .. n + 1 : h[k] = Entry(f, k)
    <3>1. \A k \in 0 .. n + 1 : k = n + 1 \/ k \in 0 .. n
      OBVIOUS
    <3> HIDE DEF Entry
    <3>2. QED
      BY <2>2, <3>1
  <2>4. \A k \in 0 .. n + 1 : k # 0 => h[k-1] = f[k-1]
    <3> HIDE DEF Entry
    <3>1. QED
      OBVIOUS
  <2>5. ASSUME NEW k \in 0 .. n + 1 PROVE Entry(h, k) = Entry(f, k)
    <3>1. CASE k = 0
      BY <3>1
    <3>2. CASE k # 0
      <4>1. h[k-1] = f[k-1]
        BY <2>4, <3>2
      <4> HIDE DEF h
      <4>2. QED
        BY <3>2, <4>1
    <3>3. QED
      BY <3>1, <3>2
  <2> HIDE DEF Entry
  <2>6. h = [k \in 0 .. n + 1 |-> Entry(h, k)]
    BY <2>3, <2>5
  <2> HIDE DEF h
  <2>7. Upto(n + 1)
    BY <2>6, Zenon
  <2>8. n + 1 \in Nat
    OBVIOUS
  <2> HIDE DEF N, Upto
  <2>9. QED
    BY <1>0, <2>7, <2>8
<1>3. Upto(len)
  <2> HIDE DEF N, Upto
  <2>1. \A n \in Nat : n \in N
    BY <1>1, <1>2, SetInduction
  <2>2. QED
    BY <1>0, <1>b, <2>1
<1>4. F = [k \in 0 .. len |-> Entry(F, k)]
  BY <1>3, Zenon
<1> HIDE DEF F
<1>5. \A k \in 0 .. len : F[k] = Entry(F, k)
  BY <1>4, Zenon
<1>6. F[0] = m.nodes
  BY <1>5, <1>b
<1>7. ASSUME NEW k \in 1 .. len PROVE F[k] = FuseOnce(F[k-1], m.outputs)
  <2>1. k \in 0 .. len /\ k # 0
    BY <1>b
  <2>2. F[k] = Entry(F, k)
    BY <1>5, <2>1
  <2>3. QED
    BY <2>1, <2>2
<1>8. TurnsUnfolded(F, m)
  BY <1>a, <1>6, <1>7, Zenon DEF len, TurnsUnfolded
<1>9. QED
  BY <1>8, Zenon

(* What is paid for before the rewriting is paid for after it.             *)
LEMMA OptimizedPays ==
  ASSUME NEW d, Levelled(d), NEW m, Affordable(m.nodes, d), MaxPolyDegree >= 2
  PROVE  Affordable(Optimized(m), d)
<1> DEFINE len == Len(m.nodes)
<1>1. len \in Nat
  BY DEF Affordable, IsNodeList
<1>2. PICK ts : TurnsUnfolded(ts, m)
  BY <1>1, TurnsUnfold
<1>3. /\ ts[0] = m.nodes /\ Optimized(m) = ts[len]
      /\ \A k \in 1 .. len : ts[k] = FuseOnce(ts[k-1], m.outputs)
  BY <1>2 DEF TurnsUnfolded
<1> HIDE DEF len
<1> DEFINE N == {k \in Nat : k <= len => Affordable(ts[k], d)}
<1>4. 0 \in N
  BY <1>3
<1>5. ASSUME NEW k \in Nat, k \in N PROVE k + 1 \in N
  <2> SUFFICES ASSUME k + 1 <= len PROVE Affordable(ts[k+1], d)
    OBVIOUS
  <2>1. k <= len /\ k + 1 \in 1 .. len /\ (k + 1) - 1 = k
    BY <1>1
  <2>2. Affordable(ts[k], d) /\ ts[k+1] = FuseOnce(ts[k], m.outputs)
    BY <1>3, <1>5, <2>1
  <2>3. QED
    BY <2>2, FuseOncePays
<1>6. \A k \in Nat : k \in N
  <2> HIDE DEF N
  <2>1. QED
    BY <1>4, <1>5, SetInduction
<1>7. QED
  BY <1>1, <1>3, <1>6

-----------------------------------------------------------------------------
(* What an operation spends.                                               *)

(* Ciphertexts that have spent no more than some levels.                   *)
Spent(ct, most) == ct.spent \in Nat /\ ct.spent <= most

(* A matrix product spends one level, a sum none.                          *)
LEMMA ProductSpends ==
  ASSUME NEW m, NEW x, NEW D \in Nat, Spent(x, D)
  PROVE  Spent(MatVec(m, x), D + 1)
<1>1. MatVec(m, x).spent = x.spent + 1
  BY DEF MatVec, Packed
<1>2. QED
  BY <1>1 DEF Spent

(* A sum is as deep as its deeper operand.                                 *)
LEMMA SumSpends ==
  ASSUME NEW a, NEW b, NEW D \in Nat, Spent(a, D), Spent(b, D)
  PROVE  Spent(CkksAdd(a, b), D)
<1>1. CkksAdd(a, b).spent = Larger(a.spent, b.spent)
  BY DEF CkksAdd, Packed
<1>2. a.spent \in Int /\ b.spent \in Int
  BY DEF Spent
<1> DEFINE u == a.spent
           v == b.spent
<1>3. Larger(u, v) = IF u >= v THEN u ELSE v
  BY <1>2, LargerSmaller
<1>4. QED
  BY <1>1, <1>3 DEF Spent

(* A polynomial spends its depth.                                          *)
LEMMA PolynomialSpends ==
  ASSUME NEW fit, NEW x, NEW e, NEW depth \in Nat, NEW D \in Nat, Spent(x, D)
  PROVE  Spent(PolyMap(fit, x, e, depth), D + depth)
<1>1. PolyMap(fit, x, e, depth).spent = x.spent + depth
  BY DEF PolyMap, Packed
<1>2. QED
  BY <1>1 DEF Spent

(* The depth of a fit is that of a degree the backend may settle on.       *)
LEMMA FitDepthIs ==
  ASSUME NEW depth \in FitDepths
  PROVE  /\ depth \in Nat /\ depth <= BsgsDepth(MaxPolyDegree)
         /\ MaxPolyDegree <= 7 => depth <= BsgsDepth(7)
<1>1. PICK g \in Degrees : depth = BsgsDepth(g)
  BY DEF FitDepths
<1>2. g \in Nat /\ g <= MaxPolyDegree /\ MaxPolyDegree \in Nat
  BY FitAssumption
<1>3. /\ g + 1 \in Nat /\ MaxPolyDegree + 1 \in Nat /\ 7 + 1 \in Nat /\ g + 1 <= MaxPolyDegree + 1
      /\ MaxPolyDegree <= 7 => g + 1 <= 7 + 1
  BY <1>2
<1> DEFINE a == g + 1
           b == MaxPolyDegree + 1
           c == 7 + 1
<1>4. a \in Nat /\ b \in Nat /\ c \in Nat /\ a <= b /\ (MaxPolyDegree <= 7 => a <= c)
  BY <1>3
<1>5. BsgsDepth(g) = CeilLog2(a) /\ BsgsDepth(MaxPolyDegree) = CeilLog2(b) /\ BsgsDepth(7) = CeilLog2(c)
  BY DEF BsgsDepth
<1> HIDE DEF a, b, c
<1>6. QED
  BY <1>1, <1>4, <1>5, CeilLog2Monotone, CeilLog2Holds

(* A Requant spends its fit, its mask and its table.                       *)
LEMMA RequantSpends ==
  ASSUME NEW op, op.type = "Requant", Declared(op), NEW x, NEW e, NEW depth \in FitDepths,
         NEW D \in Nat, Spent(x, D)
  PROVE  Spent(CkksRequant(op, x, e, depth), D + Charge(op))
<1> DEFINE bound == BsgsDepth(MaxPolyDegree)
           mask == IF op.channelSize = 0 THEN 0 ELSE 1
           table == BsgsDepth(Len(op.lut) - 1)
           y == IF op.channelSize = 0 THEN PolyMap(RequantFit(op, op.channel[1]), x, e, depth)
                                      ELSE PerChannel(op, x, e, depth)
<1>1. depth \in Nat /\ depth <= bound
  BY FitDepthIs
<1>2. mask \in Nat
  OBVIOUS
<1>3. bound \in Nat
  <2>1. MaxPolyDegree + 1 \in Nat
    BY FitAssumption
  <2>2. QED
    BY <2>1, CeilLog2Holds DEF BsgsDepth
<1>4. table \in Nat
  <2>1. op.lut \in Seq(Nat)
    BY DEF Declared
  <2>2. Len(op.lut) \in Nat /\ (Len(op.lut) - 1) + 1 = Len(op.lut)
    BY <2>1
  <2>3. QED
    BY <2>2, CeilLog2Holds DEF BsgsDepth
<1>5. Spent(y, D + depth + mask)
  <2>1. CASE op.channelSize = 0
    <3>1. y = PolyMap(RequantFit(op, op.channel[1]), x, e, depth) /\ mask = 0
      BY <2>1
    <3>2. Spent(PolyMap(RequantFit(op, op.channel[1]), x, e, depth), D + depth)
      BY <1>1, PolynomialSpends
    <3> HIDE DEF y, mask
    <3>3. QED
      BY <1>1, <3>1, <3>2
  <2>2. CASE op.channelSize # 0
    <3>1. y = PerChannel(op, x, e, depth) /\ mask = 1
      BY <2>2
    <3>2. PerChannel(op, x, e, depth).spent = x.spent + depth + 1
      BY DEF PerChannel, Packed
    <3> HIDE DEF y, mask
    <3>3. QED
      BY <1>1, <3>1, <3>2 DEF Spent
  <2>3. QED
    BY <2>1, <2>2
<1>6. CkksRequant(op, x, e, depth) = AfterRequant(op, y)
  BY DEF CkksRequant
<1>7. Charge(op) = bound + mask + (IF IdentityClamp(op) THEN 0 ELSE table)
  BY DEF Charge
<1> HIDE DEF y, mask, bound, table
<1>8. CASE IdentityClamp(op)
  <2>1. AfterRequant(op, y) = y
    BY <1>8 DEF AfterRequant
  <2>2. Charge(op) = bound + mask + 0
    BY <1>7, <1>8
  <2>3. QED
    BY <1>1, <1>2, <1>3, <1>5, <1>6, <2>1, <2>2 DEF Spent
<1>9. CASE ~ IdentityClamp(op)
  <2>1. AfterRequant(op, y) = PolyMap(TableFit(op.lut), y, <<>>, table)
    BY <1>9 DEF AfterRequant, table
  <2>2. Charge(op) = bound + mask + table
    BY <1>7, <1>9
  <2>3. D + depth + mask \in Nat
    BY <1>1, <1>2
  <2>4. Spent(PolyMap(TableFit(op.lut), y, <<>>, table), D + depth + mask + table)
    BY <1>4, <1>5, <2>3, PolynomialSpends
  <2>5. QED
    BY <1>1, <1>2, <1>3, <1>4, <1>6, <2>1, <2>2, <2>4 DEF Spent
<1>10. QED
  BY <1>8, <1>9

(* A part of a Concat, in its place.                                       *)
Joined(op, in, s) == MatVec(SelectionMatrix(op.sizes, s), in[s])

(* The sums a Concat goes through.                                         *)
SumsUnfolded(as, op, in) ==
  /\ as[1] = Joined(op, in, 1)
  /\ \A s \in 2 .. Len(in) : as[s] = CkksAdd(as[s-1], Joined(op, in, s))
  /\ CkksConcat(op, in) = as[Len(in)]

(* There is one for every operand.                                         *)
LEMMA SumsUnfold ==
  ASSUME NEW op, NEW in, Len(in) \in Nat \ {0}
  PROVE  \E as : SumsUnfolded(as, op, in)
<1> DEFINE len == Len(in)
           Entry(f, s) == IF s = 1 THEN Joined(op, in, s) ELSE CkksAdd(f[s-1], Joined(op, in, s))
           Upto(n) == \E f : f = [s \in 1 .. n + 1 |-> Entry(f, s)]
           N == {n \in Nat : Upto(n)}
           F == CHOOSE f : f = [s \in 1 .. len |-> Entry(f, s)]
<1>0. \A j \in Nat : j \in N <=> Upto(j)
  BY Zenon
<1>a. CkksConcat(op, in) = F[len]
  BY DEF CkksConcat, Joined
<1>b. len \in Nat \ {0}
  OBVIOUS
<1> HIDE DEF len
<1>1. 0 \in N
  <2> DEFINE f == [s \in 1 .. 0 + 1 |-> Joined(op, in, s)]
  <2>1. \A s \in 1 .. 0 + 1 : s = 1
    OBVIOUS
  <2>2. \A s \in 1 .. 0 + 1 : Entry(f, s) = Joined(op, in, s)
    BY <2>1, Zenon DEF Entry
  <2>3. f = [s \in 1 .. 0 + 1 |-> Entry(f, s)]
    <3> HIDE DEF Entry
    <3>1. QED
      BY <2>2
  <2> HIDE DEF f
  <2>4. Upto(0)
    BY <2>3, Zenon
  <2>5. QED
    BY <1>0, <2>4
<1>2. ASSUME NEW n \in Nat, n \in N PROVE n + 1 \in N
  <2>0. Upto(n)
    BY <1>0, <1>2
  <2>1. PICK f : f = [s \in 1 .. n + 1 |-> Entry(f, s)]
    BY <2>0, Zenon
  <2> DEFINE h == [s \in 1 .. (n + 1) + 1 |-> IF s = (n + 1) + 1 THEN Entry(f, s) ELSE f[s]]
  <2>2. \A s \in 1 .. n + 1 : f[s] = Entry(f, s)
    BY <2>1, Zenon
  <2>3. \A s \in 1 .. (n + 1) + 1 : h[s] = Entry(f, s)
    <3>1. \A s \in 1 .. (n + 1) + 1 : s = (n + 1) + 1 \/ s \in 1 .. n + 1
      OBVIOUS
    <3> HIDE DEF Entry
    <3>2. QED
      BY <2>2, <3>1
  <2>4. \A s \in 1 .. (n + 1) + 1 : s # 1 => h[s-1] = f[s-1]
    <3> HIDE DEF Entry
    <3>1. QED
      OBVIOUS
  <2>5. ASSUME NEW s \in 1 .. (n + 1) + 1 PROVE Entry(h, s) = Entry(f, s)
    <3>1. CASE s = 1
      BY <3>1
    <3>2. CASE s # 1
      <4>1. h[s-1] = f[s-1]
        BY <2>4, <3>2
      <4> HIDE DEF h
      <4>2. QED
        BY <3>2, <4>1
    <3>3. QED
      BY <3>1, <3>2
  <2> HIDE DEF Entry
  <2>6. h = [s \in 1 .. (n + 1) + 1 |-> Entry(h, s)]
    BY <2>3, <2>5
  <2> HIDE DEF h
  <2>7. Upto(n + 1)
    BY <2>6, Zenon
  <2>8. n + 1 \in Nat
    OBVIOUS
  <2> HIDE DEF N, Upto
  <2>9. QED
    BY <1>0, <2>7, <2>8
<1>3. Upto(len - 1)
  <2> HIDE DEF N, Upto
  <2>1. \A n \in Nat : n \in N
    BY <1>1, <1>2, SetInduction
  <2>2. QED
    BY <1>0, <1>b, <2>1
<1>4. F = [s \in 1 .. len |-> Entry(F, s)]
  <2>1. (len - 1) + 1 = len
    BY <1>b
  <2>2. \E f : f = [s \in 1 .. len |-> Entry(f, s)]
    <3> HIDE DEF Entry
    <3>1. QED
      BY <1>3, <2>1, Zenon
  <2>3. QED
    BY <2>2, Zenon
<1> HIDE DEF F
<1>5. \A s \in 1 .. len : F[s] = Entry(F, s)
  BY <1>4, Zenon
<1>6. F[1] = Joined(op, in, 1)
  BY <1>5, <1>b
<1>7. ASSUME NEW s \in 2 .. len PROVE F[s] = CkksAdd(F[s-1], Joined(op, in, s))
  <2>1. s \in 1 .. len /\ s # 1
    BY <1>b
  <2>2. F[s] = Entry(F, s)
    BY <1>5, <2>1
  <2>3. QED
    BY <2>1, <2>2
<1>8. SumsUnfolded(F, op, in)
  BY <1>a, <1>6, <1>7, Zenon DEF len, SumsUnfolded
<1>9. QED
  BY <1>8, Zenon

(* A Concat spends one level.                                              *)
LEMMA ConcatSpends ==
  ASSUME NEW op, NEW in, Len(in) \in Nat \ {0}, NEW D \in Nat,
         \A s \in 1 .. Len(in) : Spent(in[s], D)
  PROVE  Spent(CkksConcat(op, in), D + 1)
<1> DEFINE len == Len(in)
<1>1. PICK as : SumsUnfolded(as, op, in)
  BY SumsUnfold
<1>2. /\ as[1] = Joined(op, in, 1) /\ CkksConcat(op, in) = as[len]
      /\ \A s \in 2 .. len : as[s] = CkksAdd(as[s-1], Joined(op, in, s))
  BY <1>1 DEF SumsUnfolded
<1>3. len \in Nat \ {0}
  OBVIOUS
<1>4. \A s \in 1 .. len : Spent(Joined(op, in, s), D + 1)
  BY ProductSpends DEF Joined
<1> HIDE DEF len
<1> DEFINE P(n) == n + 1 <= len => Spent(as[n+1], D + 1)
           N == {n \in Nat : P(n)}
<1>5. 0 \in N
  <2>1. 0 + 1 = 1 /\ 1 \in 1 .. len
    BY <1>3
  <2>2. QED
    BY <1>2, <1>4, <2>1
<1>6. ASSUME NEW n \in Nat, n \in N PROVE n + 1 \in N
  <2> DEFINE s == (n + 1) + 1
  <2>1. ASSUME s <= len PROVE Spent(as[s], D + 1)
    <3>1. n + 1 <= len /\ s \in 2 .. len /\ s \in 1 .. len /\ s - 1 = n + 1
      BY <1>3, <2>1
    <3>2. Spent(as[n+1], D + 1)
      BY <1>6, <3>1
    <3> HIDE DEF s
    <3>3. as[s] = CkksAdd(as[n+1], Joined(op, in, s)) /\ Spent(Joined(op, in, s), D + 1)
      BY <1>2, <1>4, <3>1
    <3>4. D + 1 \in Nat
      OBVIOUS
    <3>5. QED
      BY <3>2, <3>3, <3>4, SumSpends
  <2>2. P(n + 1)
    BY <2>1
  <2> HIDE DEF P
  <2>3. QED
    BY <2>2
<1>7. \A n \in Nat : n \in N
  <2> HIDE DEF N
  <2>1. QED
    BY <1>5, <1>6, SetInduction
<1>8. len - 1 \in Nat /\ (len - 1) + 1 = len /\ len <= len
  BY <1>3
<1>9. Spent(as[(len-1)+1], D + 1)
  BY <1>7, <1>8
<1>10. QED
  BY <1>2, <1>8, <1>9

(* An operation spends no more than its node is charged; an Argmax may,    *)
(* when its fit may be of a degree above seven.                            *)
LEMMA OpSpends ==
  ASSUME NEW op, Valid(op), Declared(op), ChargedFor(op),
         NEW in, Len(in) = Arity(op), NEW D \in Nat, \A k \in 1 .. Len(in) : Spent(in[k], D),
         NEW e, NEW depth \in Depth(op)
  PROVE  \A k \in 1 .. OutArity(op) : Spent(CkksOp(op, in, e, depth)[k], D + Charge(op))
<1> DEFINE r == CkksOp(op, in, e, depth)
<1>1. op.type \in OpTypes
  BY DEF Declared
<1>2. CASE op.type \in {"Linear", "Conv2d", "Pool"}
  <2>1. r = <<MatVec(LinearMap(op), in[1])>> /\ OutArity(op) = 1 /\ Charge(op) = 1 /\ Len(in) = 1
    BY <1>2 DEF CkksOp, OutArity, Charge, Arity
  <2>2. Spent(in[1], D)
    BY <2>1
  <2> HIDE DEF r
  <2>3. r[1] = MatVec(LinearMap(op), in[1])
    BY <2>1
  <2>4. Spent(r[1], D + 1)
    BY <2>2, <2>3, ProductSpends
  <2>5. QED
    BY <2>1, <2>4 DEF r
<1>3. CASE op.type = "Add"
  <2>1. r = <<CkksAdd(in[1], in[2])>> /\ OutArity(op) = 1 /\ Charge(op) = 0 /\ Len(in) = 2
    BY <1>3 DEF CkksOp, OutArity, Charge, Arity
  <2>2. Spent(in[1], D) /\ Spent(in[2], D)
    BY <2>1
  <2> HIDE DEF r
  <2>3. r[1] = CkksAdd(in[1], in[2]) /\ D + 0 = D
    BY <2>1
  <2>4. Spent(r[1], D)
    BY <2>2, <2>3, SumSpends
  <2>5. QED
    BY <2>1, <2>3, <2>4 DEF r
<1>4. CASE op.type = "Concat"
  <2>1. r = <<CkksConcat(op, in)>> /\ OutArity(op) = 1 /\ Charge(op) = 1 /\ Len(in) = Len(op.sizes)
    BY <1>4 DEF CkksOp, OutArity, Charge, Arity
  <2>2. Len(in) \in Nat \ {0}
    <3>1. op.sizes \in Seq(Nat) /\ Len(op.sizes) >= 2
      BY <1>4 DEF Declared, Valid
    <3>2. QED
      BY <2>1, <3>1
  <2> HIDE DEF r
  <2>3. r[1] = CkksConcat(op, in)
    BY <2>1
  <2>4. Spent(r[1], D + 1)
    BY <2>2, <2>3, ConcatSpends
  <2>5. QED
    BY <2>1, <2>4 DEF r
<1>5. CASE op.type = "Split"
  <2>1. /\ r = [s \in DOMAIN op.sizes |-> MatVec(WindowMatrix(op.sizes, s), in[1])]
        /\ OutArity(op) = Len(op.sizes) /\ Charge(op) = 1 /\ Len(in) = 1
    BY <1>5 DEF CkksOp, CkksSplit, OutArity, Charge, Arity
  <2>2. Spent(in[1], D)
    BY <2>1
  <2>3. DOMAIN op.sizes = 1 .. Len(op.sizes)
    <3>1. op.sizes \in Seq(Nat)
      BY <1>5 DEF Declared
    <3>2. QED
      BY <3>1
  <2> HIDE DEF r
  <2>4. \A s \in 1 .. Len(op.sizes) : r[s] = MatVec(WindowMatrix(op.sizes, s), in[1])
    BY <2>1, <2>3
  <2>5. \A s \in 1 .. Len(op.sizes) : Spent(r[s], D + 1)
    BY <2>2, <2>4, ProductSpends
  <2>6. QED
    BY <2>1, <2>5 DEF r
<1>6. CASE op.type \in {"Requant", "Activation", "Argmax", "Compare"}
  <2> DEFINE p == PolynomialOp(op, in[1], e, depth)
  <2>1. r = <<p>> /\ OutArity(op) = 1 /\ Len(in) = 1
    BY <1>6 DEF CkksOp, OutArity, Arity
  <2>2. Spent(in[1], D)
    BY <2>1
  <2>3. op.type # "Activation" => depth \in FitDepths
    BY <1>6 DEF Depth, Fitted
  <2>4. Spent(p, D + Charge(op))
    <3>1. CASE op.type = "Requant"
      <4>1. p = CkksRequant(op, in[1], e, depth)
        BY <3>1 DEF PolynomialOp
      <4> HIDE DEF p
      <4>2. QED
        BY <2>2, <2>3, <3>1, <4>1, RequantSpends
    <3>2. CASE op.type = "Activation"
      <4>1. /\ p = PolyMap(TableFit(op.lut), in[1], e, BsgsDepth(Len(op.lut) - 1))
            /\ Charge(op) = BsgsDepth(Len(op.lut) - 1)
        BY <3>2 DEF PolynomialOp, Charge
      <4>2. Charge(op) \in Nat
        BY ChargeIs
      <4> HIDE DEF p
      <4>3. QED
        BY <2>2, <4>1, <4>2, PolynomialSpends
    <3>3. CASE op.type = "Argmax"
      <4>1. p = PolyMap(ArgmaxFit(op), in[1], e, depth) /\ Charge(op) = BsgsDepth(7)
        BY <3>3 DEF PolynomialOp, Charge
      <4>2. depth \in Nat /\ depth <= Charge(op) /\ Charge(op) \in Nat
        BY <2>3, <3>3, <4>1, FitDepthIs, ChargeIs DEF ChargedFor
      <4> HIDE DEF p
      <4>3. Spent(p, D + depth)
        BY <2>2, <4>1, <4>2, PolynomialSpends
      <4>4. QED
        BY <4>2, <4>3 DEF Spent
    <3>4. CASE op.type = "Compare"
      <4> DEFINE y == MatVec(CompareMatrix(op), in[1])
      <4>1. p = PolyMap(CompareFit(op), y, e, depth) /\ Charge(op) = 1 + BsgsDepth(MaxPolyDegree)
        BY <3>4 DEF PolynomialOp, CkksCompare, Charge
      <4>2. depth \in Nat /\ depth <= BsgsDepth(MaxPolyDegree) /\ Charge(op) \in Nat
        BY <2>3, <3>4, FitDepthIs, ChargeIs
      <4>a. BsgsDepth(MaxPolyDegree) \in Nat
        <5>1. MaxPolyDegree + 1 \in Nat
          BY FitAssumption
        <5>2. QED
          BY <5>1, CeilLog2Holds DEF BsgsDepth
      <4>3. Spent(y, D + 1) /\ D + 1 \in Nat
        BY <2>2, ProductSpends
      <4> HIDE DEF p, y
      <4>4. Spent(p, D + 1 + depth)
        BY <4>1, <4>2, <4>3, PolynomialSpends
      <4>5. QED
        BY <4>a, <4>1, <4>2, <4>4 DEF Spent
    <3>5. QED
      BY <1>6, <3>1, <3>2, <3>3, <3>4
  <2> HIDE DEF r, p
  <2>5. r[1] = p
    BY <2>1
  <2>6. QED
    BY <2>1, <2>4, <2>5 DEF r
<1>7. QED
  BY <1>1, <1>2, <1>3, <1>4, <1>5, <1>6 DEF OpTypes

(* An operation has the results its op declares.                           *)
LEMMA ResultsAre ==
  ASSUME NEW op, Declared(op), NEW in, NEW e, NEW depth
  PROVE  DOMAIN CkksOp(op, in, e, depth) = 1 .. OutArity(op)
<1>1. CASE op.type = "Split"
  <2>1. op.sizes \in Seq(Nat)
    BY <1>1 DEF Declared
  <2>2. DOMAIN CkksOp(op, in, e, depth) = DOMAIN op.sizes /\ OutArity(op) = Len(op.sizes)
    BY <1>1 DEF CkksOp, CkksSplit, OutArity
  <2>3. QED
    BY <2>1, <2>2
<1>2. CASE op.type # "Split"
  <2>1. \E x : CkksOp(op, in, e, depth) = <<x>>
    BY <1>2 DEF CkksOp
  <2>2. OutArity(op) = 1
    BY <1>2 DEF OutArity
  <2>3. QED
    BY <2>1, <2>2
<1>3. QED
  BY <1>1, <1>2

-----------------------------------------------------------------------------
(* The walk.                                                               *)

(* Ciphertexts that have spent no more than the depth of their tensor.     *)
AllSpent(e, d) == \A t \in DOMAIN e : t \in DOMAIN d /\ Spent(e[t], d[t])

(* Evaluating a node that has paid keeps to the depths.                    *)
LEMMA EvalSpends ==
  ASSUME NEW d, Levelled(d), NEW n, HasLists(n), Valid(n.op), Declared(n.op), Matched(n),
         ChargedFor(n.op), Paid(n, d), IsInjective(n.outs),
         NEW v, AllSpent(v, d), ToSet(n.ins) \subseteq DOMAIN v,
         NEW e, NEW depth \in Depth(n.op)
  PROVE  LET r == CkksOp(n.op, Operands(n, v), e, depth)
         IN  /\ \A k \in DOMAIN r : n.outs[k] \in DOMAIN d /\ Spent(r[k], d[n.outs[k]])
             /\ AllSpent(Bind(v, n.outs, r), d)
<1> DEFINE r == CkksOp(n.op, Operands(n, v), e, depth)
           in == Operands(n, v)
           c == Charge(n.op)
<1>1. DOMAIN r = DOMAIN n.outs /\ DOMAIN n.outs = 1 .. OutArity(n.op)
  <2>1. DOMAIN r = 1 .. OutArity(n.op)
    BY ResultsAre
  <2>2. DOMAIN n.outs = 1 .. OutArity(n.op)
    BY DEF HasLists, Matched
  <2>3. QED
    BY <2>1, <2>2
<1>2. /\ DOMAIN n.ins = 1 .. Arity(n.op) /\ Arity(n.op) \in Nat \ {0} /\ Len(in) = Arity(n.op)
      /\ \A k \in 1 .. Arity(n.op) : in[k] = v[n.ins[k]] /\ n.ins[k] \in ToSet(n.ins)
  <2>1. DOMAIN n.ins = 1 .. Arity(n.op) /\ Len(n.ins) = Arity(n.op) /\ Len(n.ins) \in Nat
    BY DEF HasLists, Matched
  <2>2. Arity(n.op) # 0
    <3>1. n.op.type = "Concat" => Len(n.op.sizes) >= 2 /\ n.op.sizes \in Seq(Nat)
      BY DEF Valid, Declared
    <3>2. n.op.type = "Concat" => Arity(n.op) = Len(n.op.sizes)
      BY DEF Arity
    <3>3. n.op.type # "Concat" => Arity(n.op) \in {1, 2}
      BY DEF Arity
    <3>4. QED
      BY <3>1, <3>2, <3>3
  <2>3. in = [k \in 1 .. Arity(n.op) |-> v[n.ins[k]]]
    BY <2>1 DEF Operands
  <2>4. \A k \in DOMAIN n.ins : n.ins[k] \in ToSet(n.ins)
    BY DEF ToSet
  <2> HIDE DEF in
  <2>5. QED
    BY <2>1, <2>2, <2>3, <2>4
<1>3. c \in Nat
  BY ChargeIs
<1>4. \A k \in DOMAIN n.outs : n.outs[k] \in ToSet(n.outs)
  BY DEF ToSet
<1>5. ASSUME NEW k \in DOMAIN r PROVE n.outs[k] \in DOMAIN d /\ Spent(r[k], d[n.outs[k]])
  <2> DEFINE t == n.outs[k]
             D == d[t] - c
  <2>1. t \in ToSet(n.outs) /\ k \in 1 .. OutArity(n.op)
    BY <1>1, <1>4
  <2>2. /\ t \in DOMAIN d /\ d[t] \in Nat
        /\ \A u \in ToSet(n.ins) : u \in DOMAIN d /\ d[u] \in Nat /\ d[u] + c <= d[t]
    BY <2>1 DEF Paid, Levelled
  <2> HIDE DEF r, c, in, t
  <2>3. \A j \in 1 .. Arity(n.op) : Spent(in[j], D)
    <3> SUFFICES ASSUME NEW j \in 1 .. Arity(n.op) PROVE Spent(in[j], D)
      OBVIOUS
    <3>1. in[j] = v[n.ins[j]] /\ n.ins[j] \in ToSet(n.ins)
      BY <1>2
    <3>2. Spent(in[j], d[n.ins[j]])
      BY <3>1 DEF AllSpent
    <3>3. d[n.ins[j]] \in Nat /\ d[n.ins[j]] + c <= d[t]
      BY <2>2, <3>1
    <3>4. QED
      BY <1>3, <2>2, <3>2, <3>3 DEF Spent
  <2>4. D \in Nat
    <3>1. 1 \in 1 .. Arity(n.op)
      BY <1>2
    <3>2. n.ins[1] \in ToSet(n.ins)
      BY <1>2, <3>1
    <3>3. d[n.ins[1]] \in Nat /\ d[n.ins[1]] + c <= d[t]
      BY <2>2, <3>2
    <3>4. QED
      BY <1>3, <2>2, <3>3
  <2>5. Spent(r[k], D + c)
    <3> HIDE DEF D
    <3>1. QED
      BY <1>2, <2>1, <2>3, <2>4, OpSpends DEF r, c, in
  <2>6. D + c = d[t]
    BY <1>3, <2>2
  <2>7. QED
    BY <2>2, <2>5, <2>6 DEF t
<1>6. AllSpent(Bind(v, n.outs, r), d)
  <2> DEFINE w == Bind(v, n.outs, r)
  <2>1. Binds(w, v, n.outs, r)
    BY BindValues
  <2> HIDE DEF w, r, in, c
  <2>2. /\ DOMAIN w = DOMAIN v \cup ToSet(n.outs)
        /\ \A k \in DOMAIN n.outs : w[n.outs[k]] = r[k]
        /\ \A t \in DOMAIN v \ ToSet(n.outs) : w[t] = v[t]
    BY <2>1 DEF Binds
  <2>3. \A t \in ToSet(n.outs) : \E k \in DOMAIN n.outs : t = n.outs[k]
    BY DEF ToSet
  <2>4. \A t \in ToSet(n.outs) : t \in DOMAIN d /\ Spent(w[t], d[t])
    BY <1>1, <1>5, <2>2, <2>3
  <2>5. \A t \in DOMAIN v \ ToSet(n.outs) : t \in DOMAIN d /\ Spent(w[t], d[t])
    BY <2>2 DEF AllSpent
  <2>6. QED
    BY <2>2, <2>4, <2>5 DEF AllSpent, w
<1>7. QED
  BY <1>5, <1>6

(* What is left of an order, when some tensors have been computed: every   *)
(* node reads one of those or what a node before it writes.                *)
Rest(ns, td, known) ==
  /\ td \in Seq(DOMAIN ns)
  /\ \A k \in 1 .. Len(td) :
       ToSet(ns[td[k]].ins) \subseteq known \cup UNION {ToSet(ns[td[l]].outs) : l \in 1 .. k-1}

(* At first it is the order of the sort, and the inputs.                   *)
LEMMA RestIsOrder ==
  ASSUME NEW ns, ns \in Seq(ToSet(ns)), NEW inputs, Sortable(ns, inputs)
  PROVE  Rest(ns, StableOrder(ns), inputs)
<1>1. StableOrder(ns) \in Seq(DOMAIN ns)
  <2>1. ProducersFirst(ns, StableOrder(ns))
    BY OrderIsSound
  <2>2. QED
    BY <2>1, Zenon DEF ProducersFirst
<1>2. \A k \in 1 .. Len(StableOrder(ns)) :
        ToSet(ns[StableOrder(ns)[k]].ins)
          \subseteq inputs \cup UNION {ToSet(ns[StableOrder(ns)[l]].outs) : l \in 1 .. k-1}
  BY SortedInOrder, Zenon DEF InOrder
<1>3. QED
  BY <1>1, <1>2, Zenon DEF Rest

(* Its first node reads what there is, and adds what it writes.            *)
LEMMA RestAdvances ==
  ASSUME NEW ns, NEW td, NEW known, Rest(ns, td, known), td # <<>>
  PROVE  /\ Head(td) \in DOMAIN ns /\ ToSet(ns[Head(td)].ins) \subseteq known
         /\ Rest(ns, Tail(td), known \cup ToSet(ns[Head(td)].outs))
<1> DEFINE outs(i) == ToSet(ns[i].outs)
           ins(i) == ToSet(ns[i].ins)
           more == known \cup outs(Head(td))
<1>1. /\ td \in Seq(DOMAIN ns)
      /\ \A k \in 1 .. Len(td) : ins(td[k]) \subseteq known \cup UNION {outs(td[l]) : l \in 1 .. k-1}
  BY DEF Rest
<1>2. /\ Len(td) \in Nat \ {0} /\ Head(td) = td[1] /\ Head(td) \in DOMAIN ns
      /\ Tail(td) \in Seq(DOMAIN ns) /\ Len(Tail(td)) = Len(td) - 1
      /\ \A k \in 1 .. Len(td) - 1 : Tail(td)[k] = td[k+1]
  BY <1>1
<1> HIDE DEF outs, ins
<1>3. ins(Head(td)) \subseteq known
  <2>1. 1 \in 1 .. Len(td) /\ 1 .. 1-1 = {}
    BY <1>2
  <2>2. QED
    BY <1>1, <1>2, <2>1
<1>4. ASSUME NEW k \in 1 .. Len(Tail(td))
      PROVE  ins(Tail(td)[k]) \subseteq more \cup UNION {outs(Tail(td)[l]) : l \in 1 .. k-1}
  <2> DEFINE len == Len(td)
  <2>1. len \in Nat /\ k \in 1 .. len - 1
    BY <1>2
  <2> HIDE DEF len
  <2>2. /\ k + 1 \in 1 .. len /\ (k + 1) - 1 = k
        /\ \A l \in 1 .. k : l = 1 \/ (l - 1 \in 1 .. k-1 /\ l - 1 \in 1 .. len - 1 /\ (l - 1) + 1 = l)
    BY <2>1
  <2>3. ins(td[k+1]) \subseteq known \cup UNION {outs(td[l]) : l \in 1 .. k}
    BY <1>1, <2>2 DEF len
  <2>4. Tail(td)[k] = td[k+1]
    BY <1>2, <2>1 DEF len
  <2>5. ASSUME NEW l \in 1 .. k
        PROVE  outs(td[l]) \subseteq more \cup UNION {outs(Tail(td)[j]) : j \in 1 .. k-1}
    <3>1. CASE l = 1
      BY <1>2, <3>1
    <3>2. CASE l - 1 \in 1 .. k-1 /\ l - 1 \in 1 .. len - 1 /\ (l - 1) + 1 = l
      <4>1. Tail(td)[l-1] = td[l]
        BY <1>2, <3>2 DEF len
      <4>2. QED
        BY <3>2, <4>1
    <3>3. QED
      BY <2>2, <3>1, <3>2
  <2> HIDE DEF more
  <2>6. known \subseteq more
    BY DEF more
  <2>7. QED
    BY <2>3, <2>4, <2>5, <2>6
<1>5. Rest(ns, Tail(td), more)
  BY <1>2, <1>4, Zenon DEF Rest, outs, ins
<1>6. QED
  BY <1>2, <1>3, <1>5 DEF ins, outs

-----------------------------------------------------------------------------
(* The states.                                                             *)

(* A model for which the check charges enough.                             *)
Predictable(m) ==
  /\ ~ HasShortTable(m) /\ MaxPolyDegree >= 2
  /\ HasArgmax(m) => MaxPolyDegree <= 7

(* What the budget check has found of an admitted model: the depth of no   *)
(* tensor is above the levels, and the nodes have paid.                    *)
Checked(m) ==
  LET d == Depths(m)
  IN  /\ Levelled(d) /\ \A t \in DOMAIN d : d[t] <= Levels
      /\ m.inputs \subseteq DOMAIN d /\ Affordable(m.nodes, d)

(* The check finds that.                                                   *)
LEMMA AdmittedIsChecked ==
  ASSUME NEW m \in Models, BudgetVerdict(m) = "admitted", Predictable(m)
  PROVE  Checked(m)
<1> DEFINE d == Depths(m)
           order == StableOrder(m.nodes)
<1>1. Propagates(m.nodes, m.inputs) /\ Refused(m) = {}
  BY DEF BudgetVerdict
<1>2. IsNodeList(m.nodes) /\ \A i \in DOMAIN m.nodes : Declared(m.nodes[i].op)
  BY ModelAssumption
<1>3. /\ m.nodes \in Seq(ToSet(m.nodes)) /\ Sortable(m.nodes, m.inputs)
      /\ \A i \in DOMAIN m.nodes : /\ IsNode(m.nodes[i]) /\ HasLists(m.nodes[i])
                                   /\ Valid(m.nodes[i].op) /\ Matched(m.nodes[i])
  BY <1>1, <1>2 DEF IsNodeList, IsNode, Propagates
<1>4. /\ DOMAIN d = m.inputs \cup Written(m.nodes)
      /\ Levelled(d) /\ \A t \in m.inputs : d[t] = 0
      /\ \A i \in DOMAIN m.nodes : Paid(m.nodes[i], d)
  BY <1>2, <1>3, DepthsHold
<1>5. \A i \in DOMAIN m.nodes : \E k \in DOMAIN m.nodes : order[k] = i
  <2>1. InOrder(m.nodes, m.inputs, order)
    BY <1>3, SortedInOrder
  <2>2. Len(order) = Len(m.nodes) /\ DOMAIN m.nodes = 1 .. Len(m.nodes)
    BY <1>3 DEF Sortable
  <2> HIDE DEF order
  <2>3. QED
    BY <2>1, <2>2 DEF InOrder
<1>6. \A k \in DOMAIN m.nodes : \A t \in ToSet(m.nodes[order[k]].outs) : ~ (d[t] > Levels)
  BY <1>1 DEF Refused
<1> HIDE DEF d, order
<1>7. \A t \in DOMAIN d : d[t] <= Levels
  <2> SUFFICES ASSUME NEW t \in DOMAIN d PROVE d[t] <= Levels
    OBVIOUS
  <2>1. d[t] \in Nat /\ Levels \in Nat
    BY <1>4, FitAssumption DEF Levelled
  <2>2. CASE t \in m.inputs
    BY <1>4, <2>1, <2>2
  <2>3. CASE t \in Written(m.nodes)
    <3>1. PICK i \in DOMAIN m.nodes : t \in ToSet(m.nodes[i].outs)
      BY <2>3 DEF Written
    <3>2. PICK k \in DOMAIN m.nodes : order[k] = i
      BY <1>5
    <3>3. ~ (d[t] > Levels)
      BY <1>6, <3>1, <3>2
    <3>4. QED
      BY <2>1, <3>3
  <2>4. QED
    BY <1>4, <2>2, <2>3
<1>8. \A i \in DOMAIN m.nodes : FullTable(m.nodes[i].op) /\ ChargedFor(m.nodes[i].op)
  <2> SUFFICES ASSUME NEW i \in DOMAIN m.nodes
               PROVE  FullTable(m.nodes[i].op) /\ ChargedFor(m.nodes[i].op)
    OBVIOUS
  <2> DEFINE op == m.nodes[i].op
  <2>1. op.type = "Activation" => ~ (Len(op.lut) < 4)
    BY MessageIs DEF Predictable, HasShortTable
  <2>2. op.type = "Argmax" => MaxPolyDegree <= 7
    BY DEF Predictable, HasArgmax
  <2>3. Declared(op)
    BY <1>2
  <2> HIDE DEF op
  <2>4. op.type = "Activation" => op.lut \in Seq(Nat)
    BY <2>3 DEF Declared
  <2>5. FullTable(op)
    BY <2>1, <2>4, MessageIs DEF FullTable
  <2>6. QED
    BY <2>2, <2>5 DEF ChargedFor, op
<1>9. Affordable(m.nodes, d)
  BY <1>2, <1>3, <1>4, <1>8 DEF Affordable
<1>10. QED
  BY <1>4, <1>7, <1>9 DEF Checked, d

(* What is so in every state of the call.                                  *)
LevelInv ==
  /\ model \in Models
  /\ phase = "load" => nodes = model.nodes
  /\ Predictable(model) =>
       /\ phase \in {"optimize", "walk"} => Checked(model) /\ AllSpent(env, Depths(model))
       /\ phase = "optimize" => DOMAIN env = model.inputs
       /\ phase = "walk" => /\ Propagates(nodes, model.inputs)
                            /\ Affordable(nodes, Depths(model))
                            /\ Rest(nodes, todo, DOMAIN env)
       /\ phase # "exhausted"

(* It holds at first.                                                      *)
LEMMA LevelInit == Init => LevelInv
  BY DEF Init, LevelInv

(* The check admits only what it has found affordable.                     *)
LEMMA LevelAdmit == LevelInv /\ Admit => LevelInv'
<1> SUFFICES ASSUME LevelInv, Admit PROVE LevelInv'
  OBVIOUS
<1>1. /\ phase = "load" /\ model' = model
      /\ phase' = "optimize" =>
           BudgetVerdict(model) = "admitted" /\ env' = [t \in model.inputs |-> Encrypted(row)]
      /\ phase' \in {"rejected", "panicked", "optimize"}
  BY DEF Admit, BudgetVerdict
<1>2. model \in Models
  BY DEF LevelInv
<1>3. ASSUME Predictable(model), phase' = "optimize"
      PROVE  Checked(model) /\ AllSpent(env', Depths(model)) /\ DOMAIN env' = model.inputs
  <2>1. Checked(model)
    BY <1>1, <1>2, <1>3, AdmittedIsChecked
  <2>2. env' = [t \in model.inputs |-> Encrypted(row)]
    BY <1>1, <1>3
  <2>3. Encrypted(row).spent = 0
    BY DEF Encrypted, Packed
  <2> DEFINE d == Depths(model)
  <2>4. /\ model.inputs \subseteq DOMAIN d /\ \A t \in DOMAIN d : d[t] \in Nat
    BY <2>1 DEF Checked, Levelled
  <2> HIDE DEF d
  <2>5. \A t \in model.inputs : t \in DOMAIN d /\ Spent(env'[t], d[t])
    BY <2>2, <2>3, <2>4 DEF Spent
  <2>6. QED
    BY <2>1, <2>2, <2>5 DEF AllSpent, d
<1>4. Checked(model)' = Checked(model) /\ Depths(model)' = Depths(model)
  BY <1>1
<1>5. Predictable(model)' <=> Predictable(model)
  BY <1>1
<1>6. AllSpent(env, Depths(model))' <=> AllSpent(env', Depths(model))
  BY <1>4
<1>7. QED
  BY <1>1, <1>2, <1>3, <1>4, <1>5, <1>6 DEF LevelInv

(* The rewriting keeps it affordable.                                      *)
LEMMA LevelOptimize == LevelInv /\ Optimize => LevelInv'
<1> SUFFICES ASSUME LevelInv, Optimize PROVE LevelInv'
  OBVIOUS
<1>1. /\ phase = "optimize" /\ model' = model /\ env' = env
      /\ nodes' = Optimized(model)
      /\ phase' \in {"walk", "unsorted"}
      /\ phase' = "walk" => Propagates(nodes', model.inputs) /\ todo' = StableOrder(nodes')
  BY DEF Optimize
<1>2. model \in Models
  BY DEF LevelInv
<1>3. ASSUME Predictable(model), phase' = "walk"
      PROVE  /\ Checked(model) /\ AllSpent(env, Depths(model))
             /\ Propagates(nodes', model.inputs) /\ Affordable(nodes', Depths(model))
             /\ Rest(nodes', todo', DOMAIN env)
  <2>1. Checked(model) /\ AllSpent(env, Depths(model)) /\ DOMAIN env = model.inputs
    BY <1>1, <1>3 DEF LevelInv
  <2>2. Affordable(Optimized(model), Depths(model))
    BY <1>3, <2>1, OptimizedPays DEF Checked, Predictable
  <2>3. Propagates(nodes', model.inputs) /\ todo' = StableOrder(nodes')
    BY <1>1, <1>3
  <2>4. nodes' \in Seq(ToSet(nodes')) /\ Sortable(nodes', model.inputs)
    BY <1>1, <2>2, <2>3 DEF Affordable, IsNodeList, Propagates
  <2> DEFINE ns == nodes'
  <2>5. ns \in Seq(ToSet(ns)) /\ Sortable(ns, model.inputs)
    BY <2>4
  <2> HIDE DEF ns
  <2>6. Rest(ns, StableOrder(ns), model.inputs)
    BY <2>5, RestIsOrder
  <2>7. QED
    BY <1>1, <2>1, <2>2, <2>3, <2>6 DEF ns
<1>4. Checked(model)' = Checked(model) /\ Depths(model)' = Depths(model)
  BY <1>1
<1>5. Predictable(model)' <=> Predictable(model)
  BY <1>1
<1>6. /\ AllSpent(env, Depths(model))' <=> AllSpent(env, Depths(model))
      /\ Propagates(nodes, model.inputs)' <=> Propagates(nodes', model.inputs)
      /\ Affordable(nodes, Depths(model))' <=> Affordable(nodes', Depths(model))
      /\ Rest(nodes, todo, DOMAIN env)' <=> Rest(nodes', todo', DOMAIN env)
  BY <1>1, <1>4
<1>7. QED
  BY <1>1, <1>2, <1>3, <1>4, <1>5, <1>6 DEF LevelInv

(* A node of the walk keeps to the depths, so there is a level for it.     *)
LEMMA LevelEval == LevelInv /\ EvalNode => LevelInv'
<1> SUFFICES ASSUME LevelInv, EvalNode PROVE LevelInv'
  OBVIOUS
<1> DEFINE n == nodes[Head(todo)]
           d == Depths(model)
           r(e, depth) == CkksOp(n.op, Operands(n, env), e, depth)
<1>1. /\ phase = "walk" /\ todo # <<>> /\ model' = model /\ nodes' = nodes
      /\ phase' \in {"walk", "panicked", "exhausted"}
      /\ phase' # "panicked" =>
           \E e, depth : depth \in Depth(n.op) /\
             \/ phase' = "exhausted" /\ \E k \in DOMAIN r(e, depth) : r(e, depth)[k].spent > Levels
             \/ phase' = "walk" /\ env' = Bind(env, n.outs, r(e, depth)) /\ todo' = Tail(todo)
  BY Zenon DEF EvalNode
<1>2. model \in Models
  BY DEF LevelInv
<1>3. ASSUME Predictable(model), phase' # "panicked"
      PROVE  /\ phase' = "walk" /\ Checked(model) /\ AllSpent(env', d)
             /\ Propagates(nodes, model.inputs) /\ Affordable(nodes, d)
             /\ Rest(nodes, todo', DOMAIN env')
  <2>1. /\ Checked(model) /\ AllSpent(env, d) /\ Propagates(nodes, model.inputs)
        /\ Affordable(nodes, d) /\ Rest(nodes, todo, DOMAIN env)
    BY <1>1, <1>3 DEF LevelInv
  <2>2. Levelled(d) /\ \A t \in DOMAIN d : d[t] <= Levels
    BY <2>1 DEF Checked
  <2>3. /\ Head(todo) \in DOMAIN nodes /\ ToSet(n.ins) \subseteq DOMAIN env
        /\ Rest(nodes, Tail(todo), DOMAIN env \cup ToSet(n.outs))
    BY <1>1, <2>1, RestAdvances
  <2>4. /\ HasLists(n) /\ Valid(n.op) /\ Declared(n.op) /\ Matched(n)
        /\ ChargedFor(n.op) /\ Paid(n, d) /\ IsInjective(n.outs)
    BY <2>1, <2>3 DEF Affordable, IsNodeList, IsNode, Propagates, Sortable
  <2> HIDE DEF n, d
  <2>5. PICK e, depth : depth \in Depth(n.op) /\
           \/ phase' = "exhausted" /\ \E k \in DOMAIN r(e, depth) : r(e, depth)[k].spent > Levels
           \/ phase' = "walk" /\ env' = Bind(env, n.outs, r(e, depth)) /\ todo' = Tail(todo)
    BY <1>1, <1>3
  <2>6. /\ \A k \in DOMAIN r(e, depth) : n.outs[k] \in DOMAIN d /\ Spent(r(e, depth)[k], d[n.outs[k]])
        /\ AllSpent(Bind(env, n.outs, r(e, depth)), d)
    BY <2>1, <2>2, <2>3, <2>4, <2>5, EvalSpends
  <2> HIDE DEF r
  <2>7. \A k \in DOMAIN r(e, depth) : ~ (r(e, depth)[k].spent > Levels)
    <3> SUFFICES ASSUME NEW k \in DOMAIN r(e, depth) PROVE ~ (r(e, depth)[k].spent > Levels)
      OBVIOUS
    <3> DEFINE ct == r(e, depth)[k]
               t == n.outs[k]
    <3>1. t \in DOMAIN d /\ Spent(ct, d[t])
      BY <2>6
    <3> HIDE DEF ct, t
    <3>2. d[t] <= Levels /\ d[t] \in Nat /\ Levels \in Nat
      BY <2>2, <3>1, FitAssumption DEF Levelled
    <3>3. ~ (ct.spent > Levels)
      BY <3>1, <3>2 DEF Spent
    <3>4. QED
      BY <3>3 DEF ct
  <2>8. phase' = "walk" /\ env' = Bind(env, n.outs, r(e, depth)) /\ todo' = Tail(todo)
    BY <2>5, <2>7
  <2>9. DOMAIN env' = DOMAIN env \cup ToSet(n.outs)
    BY <2>8, BindDomain
  <2>10. QED
    BY <2>1, <2>3, <2>6, <2>8, <2>9
<1> HIDE DEF r, n
<1>4. Checked(model)' = Checked(model) /\ Depths(model)' = d
  BY <1>1
<1>5. Predictable(model)' <=> Predictable(model)
  BY <1>1
<1>6. /\ AllSpent(env, Depths(model))' <=> AllSpent(env', d)
      /\ Propagates(nodes, model.inputs)' <=> Propagates(nodes, model.inputs)
      /\ Affordable(nodes, Depths(model))' <=> Affordable(nodes, d)
      /\ Rest(nodes, todo, DOMAIN env)' <=> Rest(nodes, todo', DOMAIN env')
  BY <1>1, <1>4
<1> HIDE DEF d
<1>7. QED
  BY <1>1, <1>2, <1>3, <1>4, <1>5, <1>6 DEF LevelInv, d

(* Every step keeps it.                                                    *)
LEMMA LevelStep == LevelInv /\ [Next]_vars => LevelInv'
<1> SUFFICES ASSUME LevelInv, [Next]_vars PROVE LevelInv'
  OBVIOUS
<1>1. CASE Admit
  BY <1>1, LevelAdmit
<1>2. CASE Optimize
  BY <1>2, LevelOptimize
<1>3. CASE EvalNode
  BY <1>3, LevelEval
<1>4. CASE Finish
  <2>1. model' = model /\ phase' \in {"done", "missing"}
    BY <1>4 DEF Finish
  <2>2. QED
    BY <2>1 DEF LevelInv
<1>5. CASE UNCHANGED vars
  BY <1>5 DEF LevelInv, vars
<1>6. QED
  BY <1>1, <1>2, <1>3, <1>4, <1>5 DEF Next, Returned

(* An admitted model runs out of levels half way through for three reasons *)
(* only: an Argmax fitted above degree 7, a short table, or fits of degree *)
(* one (backend.rs:563, optimize.rs:23).  In every other the levels spent  *)
(* on a tensor are at most the depth the check gave it, fused or not.      *)
THEOREM LevelsAreEnough == Spec => []LevelsSuffice
<1>1. LevelInv => LevelsSuffice
  <2> SUFFICES ASSUME LevelInv, phase = "exhausted"
               PROVE  \/ HasArgmax(model) /\ MaxPolyDegree > 7
                      \/ HasShortTable(model)
                      \/ MaxPolyDegree < 2
    BY DEF LevelsSuffice
  <2>1. ~ Predictable(model)
    BY DEF LevelInv
  <2>2. MaxPolyDegree \in Nat
    BY FitAssumption
  <2>3. QED
    BY <2>1, <2>2 DEF Predictable
<1>2. QED
  BY <1>1, LevelInit, LevelStep, PTL DEF Spec

(* There, what a tensor has spent is within its depth at every node:       *)
(* "Realized <= budgeted" (docs/BACKENDS.md:170) holds but for those       *)
(* exceptions.                                                             *)
THEOREM SpentWithinBudget ==
  Spec => [](~ HasShortTable(model) /\ MaxPolyDegree >= 2 /\ (HasArgmax(model) => MaxPolyDegree <= 7)
               => RealizedWithinBudgeted)
<1>1. LevelInv => (Predictable(model) => RealizedWithinBudgeted)
  <2> SUFFICES ASSUME LevelInv, Predictable(model), phase = "walk", NEW t \in DOMAIN env
               PROVE  env[t].spent <= Depths(model)[t]
    BY DEF RealizedWithinBudgeted
  <2>1. AllSpent(env, Depths(model))
    BY DEF LevelInv
  <2>2. QED
    BY <2>1 DEF AllSpent, Spent
<1>2. QED
  BY <1>1, LevelInit, LevelStep, PTL DEF Spec, Predictable
=============================================================================
