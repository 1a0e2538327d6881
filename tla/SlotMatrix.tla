----------------------------- MODULE SlotMatrix -----------------------------
(***************************************************************************)
(* Linear maps over packed slots, crates/penumbra-ckks/src/ops/matvec.rs.  *)
(* A tensor is one packed ciphertext [slots, len, spent]: LtSlots slots of *)
(* which the first len are live, and the levels it has used up.  A slot is *)
(* a fixed-point number in units of 1/Unit, or Unknown.                    *)
(***************************************************************************)
EXTENDS Ops

CONSTANTS LtSlots,         \* lt_slots
          GiantStep,       \* giant_step
          Unit,            \* bound: the grain of a slot
          Unknown          \* a slot about which nothing is known

ASSUME SlotAssumption ==
  /\ LtSlots \in Nat \ {0} /\ GiantStep \in Nat \ {0} /\ LtSlots % GiantStep = 0
  /\ Unit \in Nat \ {0} /\ Unit % 2 = 0 /\ Unknown \notin Int

Slot == 1 .. LtSlots

Packed(slots, len, spent) == [slots |-> slots, len |-> len, spent |-> spent]

-----------------------------------------------------------------------------
(* Plaintext matrices: rows of coefficients and a bias per row. *)
LinearMatrix(op) == [rows |-> op.weights, bias |-> op.bias]

(* Both scatter a window into a row; the padding of the map has no column. *)
ConvMatrix(op) ==
  LET g    == op.geom
      out  == 1 .. Len(op.weights) * Plane(g)
      Coef(r, i) == SumSet({t[1] : t \in {s \in ConvTaps(op, r) : s[2] = i}})
  IN  [rows |-> [r \in out |-> [i \in 1 .. InputLen(g) |-> Coef(r, i)]],
       bias |-> [r \in out |-> op.bias[PlaneOf(g, r) + 1]]]

AvgPoolMatrix(g) ==
  LET out == 1 .. g.chans * Plane(g)
  IN  [rows |-> [r \in out |-> [i \in 1 .. InputLen(g) |-> IF i \in Window(g, r) THEN 1 ELSE 0]],
       bias |-> [r \in out |-> 0]]

(* Segment s of a Concat, put in its place; segment s of a Split, cut out. *)
SelectionMatrix(sizes, s) ==
  LET all == Start(sizes, Len(sizes) + 1)
  IN  [rows |-> [r \in 1 .. all |-> [i \in 1 .. sizes[s] |-> IF r = Start(sizes, s) + i THEN 1 ELSE 0]],
       bias |-> [r \in 1 .. all |-> 0]]

WindowMatrix(sizes, s) ==
  LET all == Start(sizes, Len(sizes) + 1)
  IN  [rows |-> [r \in 1 .. sizes[s] |-> [i \in 1 .. all |-> IF i = Start(sizes, s) + r THEN 1 ELSE 0]],
       bias |-> [r \in 1 .. sizes[s] |-> 0]]

(* The differences a Compare looks at the sign of. *)
CompareMatrix(op) ==
  [rows |-> [r \in DOMAIN op.indices |->
               [i \in 1 .. Max({op.indices[k] : k \in DOMAIN op.indices}) |->
                  IF i = op.indices[r] THEN 1 ELSE 0]],
   bias |-> [r \in DOMAIN op.thresholds |-> - op.thresholds[r]]]

(* prepare_linear_map: the matrix must fit, and is cut into diagonals. *)
FitsSlots(m) == Len(m.rows) <= LtSlots /\ Len(m.rows[1]) <= LtSlots

ColumnOf(r, d) == ((r - 1 + d) % LtSlots) + 1

Coefficient(m, r, i) ==
  IF r \in DOMAIN m.rows /\ i \in DOMAIN m.rows[1] THEN m.rows[r][i] ELSE 0

Diagonals(m) ==
  {d \in 0 .. LtSlots - 1 : \E r \in Slot : Coefficient(m, r, ColumnOf(r, d)) # 0}

(* The rotations baby-step giant-step evaluation makes on those diagonals. *)
Rotations(m) ==
  ({d % GiantStep : d \in Diagonals(m)} \cup {d - (d % GiantStep) : d \in Diagonals(m)}) \ {0}

(* Seeded fault: the last giant step has no key. *)
ScheduleRotationsShort ==
  (1 .. GiantStep - 1) \cup {j * GiantStep : j \in 1 .. LtSlots \div GiantStep - 2}

(* The rotations keygen makes a key for, whatever the model. *)
ScheduleRotations ==
  (1 .. GiantStep - 1) \cup {j * GiantStep : j \in 1 .. LtSlots \div GiantStep - 1}

(* A sum over slots, unknown as soon as an unknown slot has a weight. *)
WeightedSum(w, slots) ==
  IF \E i \in Slot : w[i] # 0 /\ slots[i] = Unknown THEN Unknown
  ELSE MapThenSumSet(LAMBDA i : w[i] * slots[i], {i \in Slot : w[i] # 0})

Plus(a, b) == IF a = Unknown \/ b = Unknown THEN Unknown ELSE a + b

(* eval_matvec: one level; the length is the number of rows.  The length   *)
(* of x is not looked at.                                                  *)
MatVec(m, x) ==
  LET Product(r) ==
        WeightedSum([i \in Slot |-> LET d == (i - r) % LtSlots
                                    IN  IF d \in Diagonals(m) THEN Coefficient(m, r, i) ELSE 0],
                    x.slots)
      Bias(r) == IF r \in DOMAIN m.bias THEN m.bias[r] * Unit ELSE 0
  IN  Packed([r \in Slot |-> Plus(Product(r), Bias(r))], Len(m.rows), x.spent + 1)
=============================================================================
