------------------------------ MODULE CkksEval ------------------------------
(***************************************************************************)
(* One row through a model on the CKKS backend: check_graph_depth_budget   *)
(* (crates/penumbra-ckks/src/backend.rs), encryption into slots, the same  *)
(* fusion and walk of the core's evaluate_graph as on TFHE, decryption.    *)
(* What the library decides is chosen anew at every node: how deep the     *)
(* polynomial is and how far off its target in each slot.                  *)
(***************************************************************************)
EXTENDS PolyFit, Fusion, GraphWalk

CONSTANTS Models,       \* graphs: nodes, inputs, outputs, inputBits, numBlocks
          Row           \* the input rows

ASSUME ModelAssumption ==
  \A m \in Models :
    IsNodeList(m.nodes) /\ \A i \in DOMAIN m.nodes : Declared(m.nodes[i].op)

VARIABLES model,        \* the graph as loaded
          row,          \* the quantized input
          phase,        \* where the call is, or how it ended
          nodes,        \* the fused node list
          todo,         \* the rest of the topological order
          env,          \* tensor name -> packed ciphertext
          out           \* the decrypted output

(* History, for the properties: how far each tensor may be from the        *)
(* reference, in 1/Unit, or Unknown when there is no such bound.           *)
VARIABLE tolerance

vars == <<model, row, phase, nodes, todo, env, out, tolerance>>

-----------------------------------------------------------------------------
PowerOfTwo(n) == n >= 1 /\ NextPowerOfTwo(n) = n

(* The ops that are one prepared map, with no choice of anything. *)
LinearMap(op) ==
  CASE op.type = "Linear" -> LinearMatrix(op)
    [] op.type = "Conv2d" -> ConvMatrix(op)
    [] op.type = "Pool"   -> AvgPoolMatrix(op.geom)

(* build_op returns an op. *)
Supported(op) ==
  /\ Valid(op)
  /\ op.type = "Pool" => op.mode = "avg"
  /\ CASE op.type \in {"Linear", "Conv2d", "Pool"} -> FitsSlots(LinearMap(op))
       [] op.type = "Compare"    -> FitsSlots(CompareMatrix(op))
       [] op.type = "Activation" -> Len(op.lut) >= 2 /\ PowerOfTwo(Len(op.lut))
       [] op.type \in {"Concat", "Split"} -> SumFunction(op.sizes) <= LtSlots
       [] OTHER -> TRUE

(* Seeded fault: the mask of a per-channel Requant is not charged for. *)
ChargeWithoutMask(op) ==
  CASE op.type \in {"Linear", "Conv2d", "Pool", "Concat", "Split"} -> 1
    [] op.type = "Requant" ->
         BsgsDepth(MaxPolyDegree)
           + (IF IdentityClamp(op) THEN 0 ELSE BsgsDepth(Len(op.lut) - 1))
    [] op.type = "Activation" -> BsgsDepth(Len(op.lut) - 1)
    [] op.type = "Argmax" -> BsgsDepth(7)
    [] op.type = "Compare" -> 1 + BsgsDepth(MaxPolyDegree)
    [] op.type = "Add" -> 0

(* The levels the budget check charges a node. *)
Charge(op) ==
  CASE op.type \in {"Linear", "Conv2d", "Pool", "Concat", "Split"} -> 1
    [] op.type = "Requant" ->
         BsgsDepth(MaxPolyDegree) + (IF op.channelSize = 0 THEN 0 ELSE 1)
           + (IF IdentityClamp(op) THEN 0 ELSE BsgsDepth(Len(op.lut) - 1))
    [] op.type = "Activation" -> BsgsDepth(Len(op.lut) - 1)
    [] op.type = "Argmax" -> BsgsDepth(7)
    [] op.type = "Compare" -> 1 + BsgsDepth(MaxPolyDegree)
    [] op.type = "Add" -> 0

Deepest(node, d) == Max({0} \cup {d[t] : t \in ToSet(node.ins)})

Charged(node, d) == [k \in DOMAIN node.outs |-> Deepest(node, d) + Charge(node.op)]

(* The depth check_graph_depth_budget gives every tensor. *)
Depths(m) ==
  LET order == StableOrder(m.nodes)
      depths[k \in 0 .. Len(order)] ==
        IF k = 0 THEN [t \in m.inputs |-> 0]
        ELSE LET d == depths[k-1]  node == m.nodes[order[k]]
             IN  Bind(d, node.outs, Charged(node, d))
  IN  depths[Len(order)]

(* Building a per-channel Requant fills the mask of each channel, which is *)
(* lt_slots long, without looking at where the channel ends.               *)
OverrunsMask(op) == op.type = "Requant" /\ op.channelSize * Len(op.channel) > LtSlots

(* The nodes the budget check stops at, by their place in the order. *)
Refused(m) ==
  LET d == Depths(m)
      Stops(node) == \/ ~ Supported(node.op) \/ OverrunsMask(node.op)
                     \/ \E t \in ToSet(node.outs) : d[t] > Levels
  IN  {k \in DOMAIN m.nodes : Stops(m.nodes[StableOrder(m.nodes)[k]])}

(* check_graph_depth_budget: what becomes of the call. *)
BudgetVerdict(m) ==
  IF ~ Propagates(m.nodes, m.inputs) THEN "rejected"
  ELSE IF Refused(m) = {} THEN "admitted"
  ELSE IF OverrunsMask(m.nodes[StableOrder(m.nodes)[Min(Refused(m))]].op) THEN "panicked"
  ELSE "rejected"

-----------------------------------------------------------------------------
CkksAdd(a, b) ==
  Packed([i \in Slot |-> Plus(a.slots[i], b.slots[i])], a.len, Larger(a.spent, b.spent))

CkksConcat(op, in) ==
  LET Term(s) == MatVec(SelectionMatrix(op.sizes, s), in[s])
      acc[s \in 1 .. Len(in)] == IF s = 1 THEN Term(s) ELSE CkksAdd(acc[s-1], Term(s))
  IN  acc[Len(in)]

CkksSplit(op, x) == [s \in DOMAIN op.sizes |-> MatVec(WindowMatrix(op.sizes, s), x)]

(* The only operand lengths anything looks at. *)
Accepts(op, in) ==
  /\ op.type = "Add" => in[1].len = in[2].len
  /\ op.type = "Argmax" => in[1].len = 1

(* The ops that are a polynomial. *)
PolynomialOp(op, x, e, depth) ==
  CASE op.type = "Requant"    -> CkksRequant(op, x, e, depth)
    [] op.type = "Activation" -> PolyMap(TableFit(op.lut), x, e, BsgsDepth(Len(op.lut) - 1))
    [] op.type = "Argmax"     -> PolyMap(ArgmaxFit(op), x, e, depth)
    [] op.type = "Compare"    -> CkksCompare(op, x, e, depth)

CkksOp(op, in, e, depth) ==
  CASE op.type \in {"Linear", "Conv2d", "Pool"} -> <<MatVec(LinearMap(op), in[1])>>
    [] op.type = "Add"    -> <<CkksAdd(in[1], in[2])>>
    [] op.type = "Concat" -> <<CkksConcat(op, in)>>
    [] op.type = "Split"  -> CkksSplit(op, in[1])
    [] OTHER -> <<PolynomialOp(op, in[1], e, depth)>>

(* encrypt_raw: the slots behind the values are zero. *)
Encrypted(values) ==
  Packed([i \in Slot |-> IF i \in DOMAIN values THEN values[i] * Unit ELSE 0], Len(values), 0)

(* The choices a fit leaves open; an op without a fit has none. *)
Fitted(op) == op.type \in {"Requant", "Argmax", "Compare"}

Errors(op, x) ==
  IF ~ Fitted(op) THEN {<<>>}
  ELSE [1 .. (IF op.type = "Compare" THEN Len(op.indices) ELSE x.len) -> {-FitError, FitError}]

Depth(op) == IF Fitted(op) THEN FitDepths ELSE {0}

(* Seeded fault: decryption cuts the fraction off. *)
RoundedDown(v) == IF v = Unknown THEN Unknown ELSE v \div Unit

(* decrypt_vec: the live slots, each rounded to the nearest integer. *)
Rounded(v) == IF v = Unknown THEN Unknown
              ELSE IF v >= 0 THEN (2 * v + Unit) \div (2 * Unit)
              ELSE - ((Unit - 2 * v) \div (2 * Unit))

Decrypted(ct) == [i \in 1 .. ct.len |-> Rounded(ct.slots[i])]

-----------------------------------------------------------------------------
(* How far a result may be from the integer op's, when operand k is within *)
(* b[k] of ref[k]; Unknown when a polynomial may be evaluated off its      *)
(* interval.                                                               *)
RowNorm(m) == Max({SumFunction([i \in DOMAIN m.rows[r] |-> Magnitude(m.rows[r][i])]) : r \in DOMAIN m.rows})

Within(fit, x, b) == \A i \in DOMAIN x : x[i] * Unit - b >= fit.lo /\ x[i] * Unit + b <= fit.hi

TableTolerance(lut, x, b) ==
  IF ~ Within(TableFit(lut), x, b) THEN Unknown
  ELSE Max({Magnitude(LagrangeAt(lut, x[i] * Unit + e) - lut[x[i] + 1] * Unit) :
              i \in DOMAIN x, e \in -b .. b})

RequantTolerance(op, x, b) ==
  IF \E i \in DOMAIN x : ~ Within(RequantFit(op, Channel(op, i)), <<x[i]>>, b) THEN Unknown
  ELSE LET Lane(ch) == CeilDiv(2 * b * ch.mult + Unit * (2^ch.shift - 1), 2^(ch.shift + 1)) + 1
           ramp == Max({Lane(op.channel[c]) : c \in DOMAIN op.channel}) + FitError
       IN  IF IdentityClamp(op) THEN ramp
           ELSE TableTolerance(op.lut, [i \in DOMAIN x |-> Ramp(op, i, x[i])], ramp)

(* A step is flat but for a ramp: Compare's lies between two integers, at  *)
(* 1/20 from either; Argmax's has slope 5/16384 and is 1/2 at the integer. *)
CompareTolerance(op, x, b) ==
  IF ~ Within(CompareFit(op), [i \in DOMAIN op.indices |-> x[op.indices[i]] - op.thresholds[i]], b)
  THEN Unknown
  ELSE Smaller(Unit, CeilDiv(Larger(0, 20 * b - Unit), 18)) + FitError + 1

ArgmaxTolerance(op, x, b) ==
  IF ~ Within(ArgmaxFit(op), x, b) THEN Unknown
  ELSE (Unit \div 2) + CeilDiv(5 * b, 16384) + FitError + 1

Tolerance(op, ref, b) ==
  IF \E k \in DOMAIN b : b[k] = Unknown THEN Unknown
  ELSE CASE op.type \in {"Linear", "Conv2d", "Pool"} -> RowNorm(LinearMap(op)) * b[1]
         [] op.type = "Add"        -> b[1] + b[2]
         [] op.type \in {"Concat", "Split"} -> Max({b[k] : k \in DOMAIN b})
         [] op.type = "Activation" -> TableTolerance(op.lut, ref[1], b[1])
         [] op.type = "Requant"    -> RequantTolerance(op, ref[1], b[1])
         [] op.type = "Compare"    -> CompareTolerance(op, ref[1], b[1])
         [] op.type = "Argmax"     -> ArgmaxTolerance(op, ref[1], b[1])

Ref == RefEnv(model.nodes, model, row)

(* A node's outputs have a bound when the reference computes them. *)
NodeTolerance(node) ==
  LET ref == Ref
      b == IF ToSet(node.outs) \subseteq DOMAIN ref
           THEN Tolerance(node.op, Operands(node, ref), Operands(node, tolerance))
           ELSE Unknown
  IN  [t \in ToSet(node.outs) |-> b]

-----------------------------------------------------------------------------
Ended == {"rejected", "panicked", "unsorted", "exhausted", "missing", "done"}

Init ==
  /\ model \in Models
  /\ row \in Row
  /\ phase = "load"
  /\ nodes = model.nodes
  /\ todo = <<>>
  /\ env = <<>>
  /\ out = <<>>
  /\ tolerance = <<>>

(* run_predict's checks, the budget check and the encryption of the row,   *)
(* which panics when there is no room for it.                              *)
Admit ==
  /\ phase = "load"
  /\ IF Cardinality(model.inputs) = 1 /\ Cardinality(model.outputs) = 1
     THEN phase' = IF BudgetVerdict(model) # "admitted" THEN BudgetVerdict(model)
                   ELSE IF Len(row) > LtSlots THEN "panicked" ELSE "optimize"
     ELSE phase' = "rejected"
  /\ IF phase' = "optimize"
     THEN /\ env' = [t \in model.inputs |-> Encrypted(row)]
          /\ tolerance' = [t \in model.inputs |-> 0]
     ELSE UNCHANGED <<env, tolerance>>
  /\ UNCHANGED <<model, row, nodes, todo, out>>

(* optimize_graph to its end, which GraphEval takes step by step. *)
FuseOnce(ns, outputs) ==
  IF FusablePairs(ns, outputs) = {} THEN ns
  ELSE LET pc == FirstPair(ns, outputs) IN Fuse(ns, pc[1], pc[2])

Optimized(m) ==
  LET turn[k \in 0 .. Len(m.nodes)] ==
        IF k = 0 THEN m.nodes ELSE LET ns == turn[k-1] IN FuseOnce(ns, m.outputs)
  IN  turn[Len(m.nodes)]

Optimize ==
  /\ phase = "optimize"
  /\ nodes' = Optimized(model)
  /\ IF Propagates(nodes', model.inputs)
     THEN phase' = "walk" /\ todo' = StableOrder(nodes')
     ELSE phase' = "unsorted" /\ UNCHANGED todo
  /\ UNCHANGED <<model, row, env, out, tolerance>>

(* One node of the walk; an operation that has no level left is a panic.   *)
EvalNode ==
  /\ phase = "walk"
  /\ todo # <<>>
  /\ LET node == nodes[Head(todo)]
         in   == Operands(node, env)
     IN  IF ~ Supported(node.op) \/ ~ Accepts(node.op, in)
         THEN phase' = "panicked" /\ UNCHANGED <<todo, env, tolerance>>
         ELSE \E e \in Errors(node.op, in[1]), depth \in Depth(node.op) :
                LET results == CkksOp(node.op, in, e, depth)
                IN  IF \E k \in DOMAIN results : results[k].spent > Levels
                    THEN phase' = "exhausted" /\ UNCHANGED <<todo, env, tolerance>>
                    ELSE /\ env' = Bind(env, node.outs, results)
                         /\ tolerance' = NodeTolerance(node) @@ tolerance
                         /\ todo' = Tail(todo)
                         /\ UNCHANGED phase
  /\ UNCHANGED <<model, row, nodes, out>>

(* Collect the declared output, with every node evaluated, and decrypt it. *)
Finish ==
  /\ phase = "walk"
  /\ todo = <<>>
  /\ IF model.outputs \subseteq DOMAIN env
     THEN phase' = "done" /\ out' = [t \in model.outputs |-> Decrypted(env[t])]
     ELSE phase' = "missing" /\ UNCHANGED out
  /\ UNCHANGED <<model, row, nodes, todo, env, tolerance>>

(* A call that has ended stays as it is; any other state must have a step. *)
Returned == phase \in Ended /\ UNCHANGED vars

Next == Admit \/ Optimize \/ EvalNode \/ Finish \/ Returned

Spec == Init /\ [][Next]_vars

-----------------------------------------------------------------------------
(* The comparator CKKS is held to (bounds.rs:2): the live slots of every   *)
(* tensor are within the error its operands' errors and its own fit add up *)
(* to, as long as no polynomial leaves its interval; nothing of what the   *)
(* padding holds gets into them, through fusion, packing and masks.        *)
WithinTolerance ==
  LET ref == Ref IN
    \A t \in DOMAIN env : tolerance[t] # Unknown =>
      /\ env[t].len = Len(ref[t])
      /\ \A i \in DOMAIN ref[t] :
           /\ env[t].slots[i] # Unknown
           /\ Magnitude(env[t].slots[i] - ref[t][i] * Unit) <= tolerance[t]

(* A result that must be within half a unit decrypts to the reference's.   *)
DecryptsToReference ==
  phase = "done" =>
    \A t \in model.outputs : tolerance[t] # Unknown =>
      (2 * tolerance[t] < Unit => out[t] = Ref[t])

(* A fit's realised depth is at most what the budget check charged for it  *)
(* ("Realized <= budgeted", docs/BACKENDS.md:170).                         *)
RealizedWithinBudgeted ==
  phase = "walk" => \A t \in DOMAIN env : env[t].spent <= Depths(model)[t]

HasArgmax(m) == \E i \in DOMAIN m.nodes : m.nodes[i].op.type = "Argmax"

(* A table with fewer entries than a block has values, which the compiler  *)
(* never makes (lut.py:57): a Requant in front of it has them all.         *)
HasShortTable(m) ==
  \E i \in DOMAIN m.nodes :
    m.nodes[i].op.type = "Activation" /\ Len(m.nodes[i].op.lut) < Cardinality(Message)

(* An admitted model runs out of levels half way through for three reasons *)
(* only.  Its Argmax is charged for degree 7 and may be fitted above it.   *)
(* Or fusing, which comes after the check and should only reduce depth     *)
(* (optimize.rs:23), puts a full table where a short one was charged for,  *)
(* or where two identities were, and a rescale in between saves one level. *)
LevelsSuffice ==
  phase = "exhausted" =>
    \/ HasArgmax(model) /\ MaxPolyDegree > 7
    \/ HasShortTable(model)
    \/ MaxPolyDegree < 2

(* Every rotation an admitted model's maps make has a key, though keygen   *)
(* has not seen the model (keys.rs:90).                                    *)
MatricesOf(op) ==
  CASE op.type \in {"Linear", "Conv2d", "Pool"} -> {LinearMap(op)}
    [] op.type = "Compare" -> {CompareMatrix(op)}
    [] op.type = "Concat" -> {SelectionMatrix(op.sizes, s) : s \in DOMAIN op.sizes}
    [] op.type = "Split"  -> {WindowMatrix(op.sizes, s) : s \in DOMAIN op.sizes}
    [] OTHER -> {}

RotationsHaveKeys ==
  phase = "walk" =>
    \A i \in DOMAIN nodes : \A m \in MatricesOf(nodes[i].op) : Rotations(m) \subseteq ScheduleRotations
=============================================================================
