--------------------------- MODULE ModelQuantize ----------------------------
(***************************************************************************)
(* Model.quantize (python/penumbra/model.py): from float layers and        *)
(* calibration data to integer layers, with the scale and the zero point   *)
(* every tensor is believed to have, and the calibrated rescales that      *)
(* insert_requants splices in.  The loop over the layers is a fold of      *)
(* Emit over them; what it hands over is a case of RequantInsertion, whose *)
(* behaviours compile it twice.                                            *)
(*                                                                         *)
(* A tensor of the integer graph has the name of the float tensor it       *)
(* stands for.                                                             *)
(***************************************************************************)
EXTENDS FloatModel, RequantInsertion

(* What the loop keeps: an error if it has raised; the nodes emitted; for  *)
(* every float tensor its integer tensor, scale, zero point, length and    *)
(* producer; the activations emitted with their accumulator; and the       *)
(* rescales, each under its layer's output.                                *)
Start0(m) ==
  [error |-> "", nodes |-> <<>>,
   ir |-> m.input :> m.input, scale |-> m.input :> InputScale(m), zp |-> m.input :> 0,
   length |-> m.input :> Len(m.data[1]), producer |-> <<>>, handled |-> {},
   calib |-> [shifts |-> <<>>, mults |-> <<>>, roundBiases |-> <<>>, clampLos |-> <<>>,
              zeroPoints |-> <<>>, perChannel |-> <<>>]]

Raise(s, what) == [s EXCEPT !.error = what]

(* Append a node, and bind a float tensor. *)
Append1(s, node) == [s EXCEPT !.nodes = Append(@, node)]

Bound(s, t, ir, scale, zp, length, producer) ==
  [s EXCEPT !.ir = (t :> ir) @@ @, !.scale = (t :> scale) @@ @, !.zp = (t :> zp) @@ @,
            !.length = (t :> length) @@ @, !.producer = (t :> producer) @@ @]

IrNode(s, node, op) == [op |-> op, ins |-> [k \in DOMAIN node.ins |-> s.ir[node.ins[k]]],
                        outs |-> node.outs]

-----------------------------------------------------------------------------
(* Add and Concat.  An operand must come out of a ReLU, or of another      *)
(* merge or Split.                                                         *)
MergeOperand(s, t) ==
  /\ t \in DOMAIN s.producer
  /\ \/ s.producer[t].layer.type \in {"Add", "Concat", "Split"}
     \/ IsRelu(s.producer[t])

MergeRefused(s, node) ==
  \/ \E t \in ToSet(node.ins) : ~ MergeOperand(s, t) \/ s.zp[t] # 0
  \/ node.layer.type = "Add" /\ s.length[node.ins[1]] # s.length[node.ins[2]]

EmitMerge(m, envs, s, node) ==
  LET class  == ClassScale(m, envs, node.ins[1])
      target == IF class = {} THEN s.scale[node.ins[1]] ELSE CHOOSE c \in class : TRUE
      sizes  == [k \in DOMAIN node.ins |-> s.length[node.ins[k]]]
      add    == node.layer.type = "Add"
      op     == IF add THEN [type |-> "Add"] ELSE [type |-> "Concat", sizes |-> sizes]
  IN  IF MergeRefused(s, node) THEN Raise(s, "merge")
      ELSE Bound(Append1(s, IrNode(s, node, op)), node.outs[1], node.outs[1], target, 0,
                 IF add THEN sizes[1] ELSE FoldLeft(+, 0, sizes), node)

(* A Split hands on the scale and the zero point of what it splits. *)
EmitSplit(s, node) ==
  LET t  == node.ins[1]
      op == [type |-> "Split", sizes |-> node.layer.sizes]
  IN  IF FoldLeft(+, 0, op.sizes) # s.length[t] THEN Raise(s, "split")
      ELSE FoldLeftDomain(LAMBDA r, k : Bound(r, node.outs[k], node.outs[k], s.scale[t],
                                              s.zp[t], op.sizes[k], node),
                          Append1(s, IrNode(s, node, op)), op.sizes)

-----------------------------------------------------------------------------
(* Pool, Linear and Conv2d: the op, and the scale of what it computes; the *)
(* scales of its channels when each has its own.                           *)
PoolScale(layer, scale) ==
  IF layer.mode = "avg" THEN Over(scale, Whole(layer.geom.kH * layer.geom.kW)) ELSE scale

EmitPool(s, node) ==
  LET g == node.layer.geom  t == node.ins[1]
  IN  Bound(Append1(s, IrNode(s, node, node.layer)), node.outs[1], node.outs[1],
            PoolScale(node.layer, s.scale[t]), 0, g.chans * Plane(g), node)

(* n_bits has an entry for every accumulator, in order. *)
BitsOf(m, node) ==
  LET acc == SelectSeq(Ordered(m), IsAccumulator)
  IN  m.bits[CHOOSE i \in DOMAIN acc : acc[i] = node]

RowScales(m, node) == WeightScales(node.layer.weight, BitsOf(m, node), m.perChannel)

ChannelScales(m, s, node) ==
  LET scales == RowScales(m, node)
  IN  [r \in DOMAIN scales |-> Times(s.scale[node.ins[1]], scales[r])]

(* The nominal scale of an accumulator: that of its coarsest channel. *)
AccumulatorScale(m, s, node) ==
  Greatest(ToSet(ChannelScales(m, s, node)))

MacOp(m, s, node) ==
  LET layer == node.layer  t == node.ins[1]
      Mac(scales) ==
        [type |-> layer.type,
         weights |-> QuantizedWeights(layer.weight, BitsOf(m, node), scales),
         bias |-> QuantizedBias(layer.weight, layer.bias, s.scale[t], s.zp[t], scales),
         weightBits |-> BitsOf(m, node)]
      Placed(mac) == IF layer.type = "Linear" THEN mac ELSE [geom |-> layer.geom] @@ mac
  IN  Placed(Mac(RowScales(m, node)))

EmitAccumulator(m, s, node) ==
  LET Length(layer) ==
        Len(layer.weight) * (IF layer.type = "Conv2d" THEN Plane(layer.geom) ELSE 1)
  IN  IF ~ HasSpec(BitsOf(m, node), TRUE) THEN Raise(s, "bits")
      ELSE IF s.scale[node.ins[1]] = Zero THEN Raise(s, "scale")
      ELSE Bound(Append1(s, IrNode(s, node, MacOp(m, s, node))), node.outs[1], node.outs[1],
                 AccumulatorScale(m, s, node), 0, Length(node.layer), node)

-----------------------------------------------------------------------------
(* The activation behind it.  A rescale per channel, or one for all.       *)
AccScales(m, s, node) ==
  IF IsAccumulator(node) /\ m.perChannel THEN ChannelScales(m, s, node)
  ELSE <<s.scale[node.outs[1]]>>

Rescales(m, accScales, actScale) ==
  [c \in DOMAIN accScales |-> RequantParams(accScales[c], actScale, m.maxMultBits)]

WithRescales(m, s, node, rescales) ==
  LET t == node.outs[1] IN
  IF IsAccumulator(node) /\ m.perChannel
  THEN [s EXCEPT !.calib.perChannel = (t :> rescales) @@ @]
  ELSE [s EXCEPT !.calib.mults = (t :> rescales[1].mult) @@ @,
                 !.calib.shifts = (t :> rescales[1].shift) @@ @,
                 !.calib.roundBiases = (t :> rescales[1].roundBias) @@ @]

(* The scale behind a ReLU: its class's, or else what the calibrated peak  *)
(* calls for, or else the accumulator's own.                               *)
ReluScale(m, envs, s, node, act) ==
  LET t       == node.outs[1]
      peak    == IF IsAccumulator(node) THEN Peak(Observed(m, envs, t)) ELSE Zero
      natural == IF Less(Zero, peak) THEN Over(peak, Whole(2^m.actBits - 1)) ELSE s.scale[t]
      class   == ClassScale(m, envs, act.outs[1]) \ {Zero}
  IN  IF class = {} THEN natural ELSE CHOOSE c \in class : TRUE

(* A ReLU becomes the rescale of the accumulator: no node of its own.      *)
FuseRelu(m, envs, s, node, act) ==
  LET t == node.outs[1]
      Fused(scale, acc) ==
        IF \E c \in DOMAIN acc : ~ HasRequant(acc[c], scale) THEN Raise(s, "ratio")
        ELSE [Bound(WithRescales(m, s, node, Rescales(m, acc, scale)),
                    act.outs[1], s.ir[t], scale, 0, s.length[t], act)
                EXCEPT !.handled = @ \cup {act}]
  IN  Fused(ReluScale(m, envs, s, node, act), AccScales(m, s, node))

(* The code the floor of a signed rescale is given. *)
FloorCode(rescales, clampLo) ==
  Min({(clampLo * ch.mult + ch.roundBias) \div 2^ch.shift : ch \in ToSet(rescales)})

(* The range before any other activation, zero included, and the scale     *)
(* that gives it all the codes there are.                                  *)
PreActivation(m, envs, t) == Observed(m, envs, t) \cup {Zero}

RangeScale(m, range) ==
  LET lo == Least(range)
      hi == Greatest(range)
  IN  IF Less(lo, hi) THEN Over(Minus(hi, lo), Whole(2^m.actBits - 1)) ELSE Whole(1)

(* Such an activation becomes a signed rescale into its table's domain, and *)
(* a table over the codes.                                                 *)
TableOp(lut) == [type |-> "Activation", lut |-> lut, outBits |-> LutOutputBits(lut)]

WithTable(m, s, node, act, scale, zp, out) ==
  [Bound(Append1(s, IrNode(s, act, TableOp(AffineLut(act.layer.fn, scale, zp, out, m.actBits)))),
         act.outs[1], act.outs[1], out.scale, out.zp, s.length[node.outs[1]], act)
     EXCEPT !.handled = @ \cup {act}, !.calib.zeroPoints = (node.outs[1] :> zp) @@ @]

(* The floor, the rescale, the offset that makes its codes unsigned, and   *)
(* the table over them.                                                    *)
LowerBelow(m, s, node, act, range, acc, scale) ==
  LET Tabled(r, zp) ==
        WithTable(m, r, node, act, scale, zp, Codomain(act.layer.fn, scale, zp, m.actBits))
      Floored(rescales, clampLo) ==
        Tabled([WithRescales(m, s, node, rescales)
                  EXCEPT !.calib.clampLos = (node.outs[1] :> clampLo) @@ @],
               Max({0, -FloorCode(rescales, clampLo)}))
  IN  IF \E c \in DOMAIN acc : ~ HasRequant(acc[c], scale) THEN Raise(s, "ratio")
      ELSE Floored(Rescales(m, acc, scale),
                   Min({0} \cup {Floor(Over(Least(range), acc[c])) : c \in DOMAIN acc}))

LowerActivation(m, envs, s, node, act) ==
  LET range == PreActivation(m, envs, node.outs[1])
  IN  LowerBelow(m, s, node, act, range, AccScales(m, s, node), RangeScale(m, range))

FeedsAccumulators(m, act) ==
  LET next == Consumers(m, act.outs[1]) IN next # {} /\ \A n \in next : IsAccumulator(n)

EmitActivation(m, envs, s, node) ==
  LET By(act) ==
        IF act.outs[1] = m.output THEN Raise(s, "terminal")
        ELSE IF IsRelu(act) THEN FuseRelu(m, envs, s, node, act)
        ELSE IF ~ FeedsAccumulators(m, act) THEN Raise(s, "consumer")
        ELSE IF ~ IsAccumulator(node) THEN Raise(s, "range")
        ELSE LowerActivation(m, envs, s, node, act)
      Read(readers, acts) ==
        IF s.error # "" \/ acts = {} THEN s
        ELSE IF readers # acts \/ Cardinality(acts) > 1 THEN Raise(s, "branching")
        ELSE By(CHOOSE n \in acts : TRUE)
      readers == Consumers(m, node.outs[1])
  IN  Read(readers, {n \in readers : n.layer.type = "Activation"})

-----------------------------------------------------------------------------
(* One turn of the loop. *)
Emit(m, envs, s, node) ==
  IF s.error # "" \/ node \in s.handled THEN s
  ELSE CASE node.layer.type = "Activation" -> Raise(s, "standalone")
         [] node.layer.type \in {"Add", "Concat"} -> EmitMerge(m, envs, s, node)
         [] node.layer.type = "Split" -> EmitSplit(s, node)
         [] OTHER -> EmitActivation(m, envs, IF node.layer.type = "Pool" THEN EmitPool(s, node)
                                             ELSE EmitAccumulator(m, s, node), node)

Quantized(m) ==
  LET envs == FloatEnvs(m)
  IN  FoldLeft(LAMBDA s, node : Emit(m, envs, s, node), Start0(m), Ordered(m))

(* What is handed to insert_requants, probed on 64 blocks; nothing if      *)
(* quantize has raised.                                                    *)
Compiled(m) ==
  LET Graph(q) == [nodes |-> q.nodes, inputs |-> {m.input}, outputs |-> {q.ir[m.output]},
                   inputBits |-> m.inputBits, numBlocks |-> 64]
      Case(q) == [graph |-> Graph(q), calib |-> q.calib, outBits |-> m.actBits,
                  rowLength |-> Len(m.data[1]), float |-> m, quantized |-> q]
  IN  {Case(q) : q \in {r \in {Quantized(m)} : r.error = ""}}

(* predict_encrypted's side of the input. *)
QuantizedRow(m, row) ==
  [i \in DOMAIN row |-> QuantizeValue(row[i], InputScale(m), m.inputBits, FALSE)]
=============================================================================
