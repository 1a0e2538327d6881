-------------------------------- MODULE Ops ---------------------------------
(***************************************************************************)
(* The nine ops, twice: on plain integers, as python/penumbra/reference.py *)
(* computes them (the oracle the encrypted path is compared with), and on  *)
(* radix ciphertexts, as crates/penumbra-tfhe/src/ops does.  A tensor is a *)
(* sequence of integers, or of ciphertexts [blocks, v]: v is the signed    *)
(* value that `blocks` two-bit blocks hold, in two's complement.           *)
(***************************************************************************)
EXTENDS BitWidth

Larger(a, b) == Max({a, b})
Smaller(a, b) == Min({a, b})

(* The signed value left when only `blocks` blocks are kept. *)
Wrap(v, blocks) ==
  LET half == 2^(MessageBits * blocks - 1)
  IN  ((v + half) % (2 * half)) - half

FitsBlocks(v, blocks) == Wrap(v, blocks) = v

Ct(blocks, v) == [blocks |-> blocks, v |-> Wrap(v, blocks)]

(* cast_to_signed: trim, or extend the sign. *)
Resize(ct, blocks) == Ct(blocks, ct.v)

Start(sizes, s) == SumFunctionOnSet(sizes, 1 .. s-1)

Segment(x, sizes, s) == SubSeq(x, Start(sizes, s) + 1, Start(sizes, s) + sizes[s])

Segments(x, sizes) == [s \in DOMAIN sizes |-> Segment(x, sizes, s)]

Channel(op, i) ==
  op.channel[IF op.channelSize = 0 THEN 1 ELSE (i - 1) \div op.channelSize + 1]

-----------------------------------------------------------------------------
(* What every implementation of an op demands of its operands' lengths; an *)
(* assertion in the Rust ops, an exception in the Python ones.             *)
ShapeOK(op, in) ==
  /\ Len(in) = Arity(op)
  /\ CASE op.type = "Linear" -> Len(op.weights[1]) = Len(in[1])
       [] op.type \in {"Conv2d", "Pool"} -> Len(in[1]) = InputLen(op.geom)
       [] op.type = "Requant" ->
            op.channelSize # 0 => Len(in[1]) = op.channelSize * Len(op.channel)
       [] op.type = "Add" -> Len(in[1]) = Len(in[2])
       [] op.type = "Argmax" -> Len(in[1]) = 1
       [] op.type = "Compare" ->
            \A i \in DOMAIN op.indices : op.indices[i] \in DOMAIN in[1]
       [] op.type = "Concat" -> \A s \in DOMAIN in : Len(in[s]) = op.sizes[s]
       [] op.type = "Split" -> Len(in[1]) = SumFunction(op.sizes)
       [] OTHER -> TRUE

-----------------------------------------------------------------------------
(* Plain integers. *)
Dot(row, x) == SumFunction([i \in DOMAIN row |-> row[i] * x[i]])

RefConv(op, x) ==
  LET g   == op.geom
      at  == Positions(Len(op.weights), g)
      Tap(p, c, k) == op.weights[p[1] + 1][WeightAt(g, c, k)] * x[InputAt(g, c, p[2], p[3], k)]
      Acc(p) == SumFunction([ck \in (0 .. g.chans - 1) \X Reached(g, p[2], p[3]) |->
                               Tap(p, ck[1], ck[2])])
  IN  [r \in DOMAIN at |-> Acc(at[r]) + op.bias[at[r][1] + 1]]

RefPool(op, x) ==
  LET g  == op.geom
      at == Positions(g.chans, g)
      Taps(p) == {InputAt(g, p[1], p[2], p[3], k) : k \in Reached(g, p[2], p[3])}
  IN  [r \in DOMAIN at |-> IF op.mode = "avg" THEN SumFunctionOnSet(x, Taps(at[r]))
                                              ELSE Max({x[i] : i \in Taps(at[r])})]

(* The value a rescale multiplies, before it is shifted down. *)
Transient(op, i, v) ==
  LET ch == Channel(op, i) IN Larger(v, op.clampLo) * ch.mult + ch.roundBias

(* The ramp alone: reference.py does not read clamp_lut, which the compiler *)
(* always makes the identity; the table is what a fused node carries.       *)
Ramp(op, i, v) ==
  Larger(0, Smaller(2^op.outBits - 1,
    (Transient(op, i, v) \div 2^Channel(op, i).shift) + op.zeroPoint))

RefDefined(op, in) ==
  /\ ShapeOK(op, in)
  /\ op.type = "Activation" => \A i \in DOMAIN in[1] : in[1][i] + 1 \in DOMAIN op.lut

RefEval(op, in) ==
  LET x == in[1] IN
  CASE op.type = "Linear" ->
         <<[r \in DOMAIN op.weights |-> Dot(op.weights[r], x) + op.bias[r]]>>
    [] op.type = "Conv2d" -> <<RefConv(op, x)>>
    [] op.type = "Activation" -> <<[i \in DOMAIN x |-> op.lut[x[i] + 1]]>>
    [] op.type = "Requant" -> <<[i \in DOMAIN x |-> op.lut[Ramp(op, i, x[i]) + 1]]>>
    [] op.type = "Pool" -> <<RefPool(op, x)>>
    [] op.type = "Add" -> <<[i \in DOMAIN x |-> x[i] + in[2][i]]>>
    [] op.type = "Argmax" -> <<<<IF x[1] >= op.threshold THEN 1 ELSE 0>>>>
    [] op.type = "Compare" ->
         <<[i \in DOMAIN op.indices |->
              IF x[op.indices[i]] >= op.thresholds[i] THEN 1 ELSE 0]>>
    [] op.type = "Concat" -> <<FlattenSeq(in)>>
    [] op.type = "Split" -> Segments(x, op.sizes)

-----------------------------------------------------------------------------
(* Ciphertexts.  ib and ob are the derived widths of the inputs and of the *)
(* outputs, nb the model's num_blocks.                                     *)
TfheDefined(op, in, nb) ==
  /\ ShapeOK(op, in)
  /\ op.type \in {"Activation", "Requant"} =>
       /\ nb > 1
       /\ Len(op.lut) = Cardinality(Message)
       /\ \A i \in DOMAIN op.lut : op.lut[i] \in Message

(* The inputs behind each nonzero weight of output r. *)
LinearTaps(op, r) == {<<op.weights[r][i], i>> : i \in DOMAIN op.weights[r]}

ConvTaps(op, r) ==
  LET g == op.geom
      kernel == op.weights[PlaneOf(g, r) + 1]
  IN  {<<kernel[WeightAt(g, c, k)], InputAt(g, c, RowOf(g, r), ColOf(g, r), k)>> :
         c \in 0 .. g.chans - 1, k \in Reached(g, RowOf(g, r), ColOf(g, r))}

Groups(taps) ==
  [w \in {t[1] : t \in taps} \ {0} |-> {t[2] : t \in {s \in taps : s[1] = w}}]

(* Inputs that share a weight are summed first, at the width their sum     *)
(* needs, and only the sum is widened to the accumulator.                  *)
GroupSum(group, x, ib, acc) ==
  LET blocks == ValueBlocks(ib + CeilLog2(Cardinality(group)), acc)
  IN  Wrap(SumFunctionOnSet([i \in group |-> Resize(x[i], blocks).v], group), blocks)

WeightedMac(groups, bias, x, ib, acc) ==
  Ct(acc, bias + SumFunction([w \in DOMAIN groups |-> w * GroupSum(groups[w], x, ib, acc)]))

(* Seeded fault: the rescale runs at its input's blocks. *)
RescaleBlocksOfInput(op, x, ib, nb) ==
  Max({TensorBlocks(x, ib, nb), ScalarBlocks(2^op.outBits - 1, nb)})

(* Blocks the whole rescale runs at. *)
RescaleBlocks(op, x, ib, nb) ==
  LET c == TensorBlocks(x, ib, nb)
  IN  Max({c, ValueBlocks(RequantPeakBits(op, MessageBits * c), nb),
           ScalarBlocks(op.clampLo, nb), ScalarBlocks(2^op.outBits - 1, nb),
           ScalarBlocks(op.zeroPoint, nb)})

RescaleLane(op, i, ct, r) ==
  LET ch      == Channel(op, i)
      biased  == Wrap(Larger(Resize(ct, r).v, op.clampLo) * ch.mult + ch.roundBias, r)
      shifted == Wrap((biased \div 2^ch.shift) + op.zeroPoint, r)
  IN  Smaller(shifted, 2^op.outBits - 1)

(* One bootstrap reads the low block only and fills the low block only. *)
Lookup(lut, v, blocks) == Ct(blocks, lut[(v % 2^MessageBits) + 1])

AtLeast(ct, t, c, blocks, nb) ==
  LET w == Larger(c, ScalarBlocks(t, nb))
  IN  Ct(blocks, IF Resize(ct, w).v >= t THEN 1 ELSE 0)

TfheLinear(op, x, ib, acc) ==
  [r \in DOMAIN op.weights |-> WeightedMac(Groups(LinearTaps(op, r)), op.bias[r], x, ib, acc)]

TfheConv(op, x, ib, acc) ==
  [r \in 1 .. Len(op.weights) * Plane(op.geom) |->
     WeightedMac(Groups(ConvTaps(op, r)), op.bias[PlaneOf(op.geom, r) + 1], x, ib, acc)]

TfheActivation(op, x, o) == [i \in DOMAIN x |-> Lookup(op.lut, x[i].v, o)]

TfheRequant(op, x, ib, o, nb) ==
  LET r == RescaleBlocks(op, x, ib, nb)
  IN  [i \in DOMAIN x |-> Lookup(op.lut, RescaleLane(op, i, x[i], r), o)]

Window(g, r) ==
  {InputAt(g, PlaneOf(g, r), RowOf(g, r), ColOf(g, r), k) : k \in Reached(g, RowOf(g, r), ColOf(g, r))}

TfhePool(op, x, o, c) ==
  [r \in 1 .. op.geom.chans * Plane(op.geom) |->
     IF op.mode = "avg"
     THEN Ct(o, SumFunctionOnSet([i \in DOMAIN x |-> Resize(x[i], o).v], Window(op.geom, r)))
     ELSE Ct(c, Max({Resize(x[i], c).v : i \in Window(op.geom, r)}))]

TfheAdd(a, b, o) == [i \in DOMAIN a |-> Ct(o, Resize(a[i], o).v + Resize(b[i], o).v)]

TfheArgmax(op, x, c, o, nb) == <<AtLeast(x[1], op.threshold, c, o, nb)>>

TfheCompare(op, x, c, o, nb) ==
  [i \in DOMAIN op.indices |-> AtLeast(x[op.indices[i]], op.thresholds[i], c, o, nb)]

TfheConcat(in, o) ==
  LET all == FlattenSeq(in) IN [i \in DOMAIN all |-> Resize(all[i], o)]

TfheSplit(op, x, c) == Segments([i \in DOMAIN x |-> Resize(x[i], c)], op.sizes)

(* The tensors a node produces, each op at the blocks its widths give it.  *)
TfheEval(op, in, ib, ob, nb) ==
  LET x == in[1]
      o == ValueBlocks(ob[1], nb)
      c == TensorBlocks(x, ib[1], nb)
  IN
  CASE op.type = "Linear"     -> <<TfheLinear(op, x, ib[1], SignedBlocks(ob[1], nb))>>
    [] op.type = "Conv2d"     -> <<TfheConv(op, x, ib[1], SignedBlocks(ob[1], nb))>>
    [] op.type = "Activation" -> <<TfheActivation(op, x, o)>>
    [] op.type = "Requant"    -> <<TfheRequant(op, x, ib[1], o, nb)>>
    [] op.type = "Pool"       -> <<TfhePool(op, x, o, c)>>
    [] op.type = "Add"        -> <<TfheAdd(x, in[2], o)>>
    [] op.type = "Argmax"     -> <<TfheArgmax(op, x, c, o, nb)>>
    [] op.type = "Compare"    -> <<TfheCompare(op, x, c, o, nb)>>
    [] op.type = "Concat"     -> <<TfheConcat(in, o)>>
    [] op.type = "Split"      -> TfheSplit(op, x, c)
=============================================================================
