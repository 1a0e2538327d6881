------------------------------ MODULE OpTraits ------------------------------
(***************************************************************************)
(* What the TFHE ops say of themselves (the Op trait of                    *)
(* crates/penumbra-core/src/ops.rs, implemented in penumbra-tfhe/src/ops): *)
(* the widths they produce and reach, which the graph's own growth rules   *)
(* repeat, and the primitives they invoke, which benchmarks report as      *)
(* their cost and which each op counts in loops of its own beside the ones *)
(* it evaluates with.                                                      *)
(***************************************************************************)
EXTENDS GraphEval

(* The bits of n - 1: what a sum of n terms adds to their width. *)
SumGrowth(n) == IF n <= 1 THEN 0 ELSE MagnitudeBits(n - 1)

LutBits(lut) == Larger(1, MagnitudeBits(Max({0} \cup ToSet(lut))))

FanIn(op) == op.geom.chans * op.geom.kH * op.geom.kW

BiasBits(op) == MagnitudeBits(Max({0} \cup {Magnitude(op.bias[i]) : i \in DOMAIN op.bias}))

LinearOutput(op, ib) ==
  Larger(ib + op.weightBits + SumGrowth(Len(op.weights[1])), BiasBits(op)) + 2

ConvOutput(op, ib) == Larger(ib + op.weightBits + SumGrowth(FanIn(op)), BiasBits(op)) + 2

PoolOutput(op, ib) ==
  IF op.mode = "avg" THEN ib + SumGrowth(op.geom.kH * op.geom.kW) ELSE ib

AddOutput(in) == Larger(in[1], in[2]) + 1

ConcatOutput(in) == Max(ToSet(in))

SplitOutput(op, in) == [s \in DOMAIN op.sizes |-> in[1]]

(* The widths of the outputs, one for all but a Split. *)
TraitBits(op, in) ==
  CASE op.type = "Linear"  -> <<LinearOutput(op, in[1])>>
    [] op.type = "Conv2d"  -> <<ConvOutput(op, in[1])>>
    [] op.type = "Pool"    -> <<PoolOutput(op, in[1])>>
    [] op.type = "Add"     -> <<AddOutput(in)>>
    [] op.type = "Concat"  -> <<ConcatOutput(in)>>
    [] op.type = "Split"   -> SplitOutput(op, in)
    [] op.type \in {"Activation", "Requant"} -> <<op.outBits>>
    [] op.type \in {"Argmax", "Compare"} -> <<1>>

(* The assertions on the way: a table no wider than it says and than a     *)
(* block, and an Activation's operand no wider than the block it reads.    *)
ActivationAccepts(op, ib) ==
  ib <= MessageBits /\ op.outBits \in LutBits(op.lut) .. MessageBits

RequantAccepts(op) == op.outBits \in LutBits(op.lut) .. MessageBits

TraitAccepts(op, in) ==
  /\ op.type = "Activation" => ActivationAccepts(op, in[1])
  /\ op.type = "Requant" => RequantAccepts(op)

(* The widest the rescale gets, for one channel. *)
TransientBits(ib, ch, clampLo) ==
  LET half == IF ib >= 1 THEN 2^(ib - 1) ELSE 0
      up   == Larger(0, half - 1) * ch.mult + ch.roundBias
      down == Smaller(Magnitude(clampLo), half) * ch.mult
  IN  Larger(MagnitudeBits(Larger(up, down)) + 1, ib)

RequantPeak(op, ib) ==
  Max({TransientBits(ib, op.channel[i], op.clampLo) : i \in DOMAIN op.channel})

(* The widest value of the op.  A Split, whose many outputs are no wider   *)
(* than its input, is asked for the width of one.                          *)
TraitPeak(op, in) == IF op.type = "Requant" THEN RequantPeak(op, in[1]) ELSE TraitBits(op, in)[1]

-----------------------------------------------------------------------------
(* Counts of primitives: ciphertext by scalar, ciphertext to ciphertext,   *)
(* scalar to ciphertext, comparisons and shifts right, bootstraps asked    *)
(* for; and two that no counter is about, shifts left by a few bits and by *)
(* whole blocks.                                                           *)
None == [mul |-> 0, sum |-> 0, add |-> 0, cmp |-> 0, pbs |-> 0, shift |-> 0, blockshift |-> 0]

Tally(S, Count(_)) == SumFunction([s \in S |-> Count(s)])

Joins(n) == IF n > 0 THEN n - 1 ELSE 0

NonZero(ws) == {i \in DOMAIN ws : ws[i] # 0}

LinearCost(op) ==
  LET Row(r)      == op.weights[r]
      Weights(r)  == Cardinality({Row(r)[i] : i \in NonZero(Row(r))})
      Terms(r)    == Joins(Cardinality(NonZero(Row(r))))
  IN  [None EXCEPT !.mul = Tally(DOMAIN op.weights, Weights),
                   !.sum = Tally(DOMAIN op.weights, Terms),
                   !.add = Len(op.weights)]

(* The n places of a window that are on an axis of the input of length     *)
(* size, for its output o.                                                 *)
AxisTaps(g, o, n, size) ==
  {k \in 0 .. n - 1 : o * g.stride + k >= g.pad /\ o * g.stride + k - g.pad < size}

(* The channels and places where output (y, x) meets a nonzero weight.     *)
Hits(g, kernel, y, x) ==
  {ck \in (0 .. g.chans - 1) \X (AxisTaps(g, y, g.kH, g.inH) \X AxisTaps(g, x, g.kW, g.inW)) :
     kernel[WeightAt(g, ck[1], ck[2])] # 0}

Outputs(op) == (DOMAIN op.weights) \X (0 .. OutH(op.geom) - 1) \X (0 .. OutW(op.geom) - 1)

HitsOf(op, o) == Hits(op.geom, op.weights[o[1]], o[2], o[3])

(* Seeded fault: a weight is counted once a kernel, not once an output. *)
ConvCountsOfKernel(op) ==
  LET Terms(o) == Joins(Cardinality(HitsOf(op, o)))
  IN  [mul |-> Tally(DOMAIN op.weights, LAMBDA r : Cardinality(ToSet(op.weights[r]) \ {0})),
       sum |-> Tally(Outputs(op), Terms)]

ConvCounts(op) ==
  LET Weights(o) == Cardinality({op.weights[o[1]][WeightAt(op.geom, ck[1], ck[2])] :
                                  ck \in HitsOf(op, o)})
      Terms(o)   == Joins(Cardinality(HitsOf(op, o)))
  IN  [mul |-> Tally(Outputs(op), Weights), sum |-> Tally(Outputs(op), Terms)]

(* mac_count: the nonzero products of all outputs. *)
MacCount(op) == Tally(Outputs(op), LAMBDA o : Cardinality(HitsOf(op, o)))

ConvCost(op) ==
  [None EXCEPT !.mul = ConvCounts(op).mul, !.sum = ConvCounts(op).sum,
               !.add = Cardinality(Outputs(op))]

(* A window's taps are counted as rows by columns, for one channel. *)
PoolCost(op) ==
  LET g == op.geom
      Rows(y)  == Cardinality(AxisTaps(g, y, g.kH, g.inH))
      Cols(x)  == Cardinality(AxisTaps(g, x, g.kW, g.inW))
      Terms(o) == Joins(Rows(o[1]) * Cols(o[2]))
      n        == g.chans * Tally((0 .. OutH(g) - 1) \X (0 .. OutW(g) - 1), Terms)
  IN  IF op.mode = "avg" THEN [None EXCEPT !.sum = n] ELSE [None EXCEPT !.cmp = n]

(* A channel that multiplies by 1, or adds 0, is skipped; the add of the   *)
(* zero point is not counted.                                              *)
RequantCost(op, n) ==
  LET Lanes(chs) == IF op.channelSize = 0 THEN (IF chs = {} THEN 0 ELSE n)
                    ELSE Smaller(n, Cardinality(chs) * op.channelSize)
  IN  [None EXCEPT !.pbs = n, !.cmp = 3 * n,
                   !.mul = Lanes({i \in DOMAIN op.channel : op.channel[i].mult # 1}),
                   !.add = Lanes({i \in DOMAIN op.channel : op.channel[i].roundBias # 0})]

ActivationCost(n) == [None EXCEPT !.pbs = n]

AddCost(n) == [None EXCEPT !.sum = n]

(* From the lengths of the inputs, where an op looks at them. *)
Cost(op, lens) ==
  CASE op.type = "Linear"     -> LinearCost(op)
    [] op.type = "Conv2d"     -> ConvCost(op)
    [] op.type = "Pool"       -> PoolCost(op)
    [] op.type = "Requant"    -> RequantCost(op, lens[1])
    [] op.type = "Activation" -> ActivationCost(lens[1])
    [] op.type = "Add"        -> AddCost(lens[1])
    [] op.type = "Argmax"     -> [None EXCEPT !.cmp = 1]
    [] op.type = "Compare"    -> [None EXCEPT !.cmp = Len(op.thresholds)]
    [] op.type \in {"Concat", "Split"} -> None

-----------------------------------------------------------------------------
(* The same counts, taken from how the op evaluates.  A weighted sum first *)
(* joins the inputs behind each weight.  It multiplies nothing: the sum is *)
(* shifted to each place of a block where a bit of the weight is, then by  *)
(* blocks, a copy for every bit the accumulator has room for.  The copies  *)
(* of the positive weights, and of the negative ones, are joined, each     *)
(* with the bias if it has that sign, and the second is taken off.         *)
BitsOf(w) == {b \in 0 .. MagnitudeBits(w) - 1 : (Magnitude(w) \div 2^b) % 2 = 1}

Shifts(ws) == Tally(ws, LAMBDA w : Cardinality({b % MessageBits : b \in BitsOf(w)} \ {0}))

Copies(ws, acc) == Tally(ws, LAMBDA w : Cardinality({b \in BitsOf(w) : b \div MessageBits < acc}))

Additions(groups, bias, acc) ==
  LET ws   == DOMAIN groups
      up   == Copies({w \in ws : w > 0}, acc) + (IF bias > 0 THEN 1 ELSE 0)
      down == Copies({w \in ws : w < 0}, acc) + (IF bias < 0 THEN 1 ELSE 0)
  IN  Tally(ws, LAMBDA w : Joins(Cardinality(groups[w])))
        + Joins(up) + Joins(down) + (IF down > 0 THEN 1 ELSE 0)

MacWork(groups, bias, acc) ==
  LET rows == DOMAIN groups
  IN  [None EXCEPT !.shift = Tally(rows, LAMBDA r : Shifts(DOMAIN groups[r])),
                   !.blockshift = Tally(rows, LAMBDA r : Copies(DOMAIN groups[r], acc)),
                   !.sum = Tally(rows, LAMBDA r : Additions(groups[r], bias[r], acc))]

Weighted == {"Linear", "Conv2d"}

(* The inputs behind each weight of each output, and each output's bias. *)
GroupsOf(op) ==
  IF op.type = "Linear" THEN [r \in DOMAIN op.weights |-> Groups(LinearTaps(op, r))]
  ELSE [r \in 1 .. Len(op.weights) * Plane(op.geom) |-> Groups(ConvTaps(op, r))]

BiasOf(op) ==
  IF op.type = "Linear" THEN op.bias
  ELSE [r \in 1 .. Len(op.weights) * Plane(op.geom) |-> op.bias[PlaneOf(op.geom, r) + 1]]

WindowWork(op) ==
  LET Terms(r) == Cardinality(Window(op.geom, r)) - 1
      n        == Tally(1 .. op.geom.chans * Plane(op.geom), Terms)
  IN  IF op.mode = "avg" THEN [None EXCEPT !.sum = n] ELSE [None EXCEPT !.cmp = n]

ZeroPointAdds(op, n) == IF op.type = "Requant" /\ op.zeroPoint # 0 THEN n ELSE 0

RescaleWork(op, n) ==
  [None EXCEPT !.pbs = n, !.cmp = 3 * n,
               !.mul = Cardinality({i \in 1 .. n : Channel(op, i).mult # 1}),
               !.add = Cardinality({i \in 1 .. n : Channel(op, i).roundBias # 0})
                         + ZeroPointAdds(op, n)]

Work(op, lens, acc) ==
  CASE op.type \in Weighted    -> MacWork(GroupsOf(op), BiasOf(op), acc)
    [] op.type = "Pool"       -> WindowWork(op)
    [] op.type = "Requant"    -> RescaleWork(op, lens[1])
    [] op.type = "Activation" -> [None EXCEPT !.pbs = lens[1]]
    [] op.type = "Add"        -> [None EXCEPT !.sum = lens[1]]
    [] op.type = "Argmax"     -> [None EXCEPT !.cmp = lens[1]]
    [] op.type = "Compare"    -> [None EXCEPT !.cmp = Len(op.indices)]
    [] op.type \in {"Concat", "Split"} -> None

-----------------------------------------------------------------------------
(* The node whose turn it is, what it reads, and whether it can be run.    *)
Node == nodes[Head(todo)]

InWidths == Operands(Node, bits)

InLengths == LET in == Operands(Node, env) IN [i \in DOMAIN in |-> Len(in[i])]

Runs ==
  /\ phase = "walk" /\ todo # <<>>
  /\ ToSet(Node.ins) \subseteq DOMAIN env /\ Matched(Node)
  /\ TfheDefined(Node.op, Operands(Node, env), model.numBlocks)

Spent == Work(Node.op, InLengths, SignedBlocks(OutWidths(Node, bits)[1], model.numBlocks))

(* Where an op's assertions hold, the widths it says it produces and       *)
(* reaches are those the graph's growth rules give.                        *)
WidthsAgree ==
  TraitAccepts(Node.op, InWidths) =>
    /\ TraitBits(Node.op, InWidths) = OutWidths(Node, bits)
    /\ TraitPeak(Node.op, InWidths) = InternalBits(Node.op, InWidths)

(* A weighted sum is counted with the weights and the taps it evaluates    *)
(* ("must stay strictly in sync", conv2d.rs:48), and as no more than it    *)
(* does: a multiplication stands for one shifted copy or more, and the     *)
(* additions are those it would take if every weight were one bit.  The    *)
(* declared scalar_mul and scalar_add are not the "primitive invocations"  *)
(* of docs/BACKENDS.md:152: the evaluation makes neither.                  *)
SumsAgree ==
  LET cost    == Cost(Node.op, InLengths)
      spent   == Spent
      groups  == GroupsOf(Node.op)
      Taps(r) == Tally(DOMAIN groups[r], LAMBDA w : Cardinality(groups[r][w]))
  IN  /\ cost.mul = Tally(DOMAIN groups, LAMBDA r : Cardinality(DOMAIN groups[r]))
      /\ cost.sum = Tally(DOMAIN groups, LAMBDA r : Joins(Taps(r)))
      /\ cost.add = Len(groups)
      /\ Node.op.type = "Conv2d" => MacCount(Node.op) = Tally(DOMAIN groups, Taps)
      /\ cost.mul <= spent.blockshift /\ cost.sum <= spent.sum

(* Every other op declares the primitives it uses, all but a Requant's     *)
(* adds of its zero point.                                                 *)
OthersAgree ==
  [Cost(Node.op, InLengths) EXCEPT !.add = @ + ZeroPointAdds(Node.op, InLengths[1])] = Spent

(* What an op declares is what it does, at each node the walk evaluates:   *)
(* its widths, and its counts of primitives, as far as they go.            *)
DeclaredAsEvaluated ==
  Runs => WidthsAgree /\ (IF Node.op.type \in Weighted THEN SumsAgree ELSE OthersAgree)
=============================================================================
