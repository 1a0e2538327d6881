------------------------- MODULE QuantizationError --------------------------
(***************************************************************************)
(* What the integers of a compiled model stand for, layer by layer: the    *)
(* number behind each code, and how far it may be from what the float      *)
(* layer makes of the numbers behind the codes it reads.  The properties   *)
(* of ModelQuantize that compare the two models are stated here.           *)
(***************************************************************************)
EXTENDS ModelQuantize

Sized == phase = "returned" /\ pass = "sized" /\ "float" \in DOMAIN case

WriterOf(m, t) == CHOOSE node \in ToSet(m.nodes) : t \in ToSet(node.outs)

IsWide(m, t) == t # m.input /\ IsAccumulator(WriterOf(m, t))

(* What readers of a float tensor get: an accumulator's activation reads   *)
(* it wide, what reads the activation reads it narrowed.                   *)
CodesOf(m, q, ref, t) ==
  ref[IF IsWide(m, t) THEN q.ir[t] ELSE Get(rewire, q.ir[t], q.ir[t])]

(* The scale of one lane; an accumulator's channels may each have theirs.  *)
LaneScale(m, q, t, k) ==
  IF IsWide(m, t)
  THEN LET node == WriterOf(m, t)
       IN  ChannelScales(m, q, node)[IF node.layer.type = "Conv2d"
                                     THEN PlaneOf(node.layer.geom, k) + 1 ELSE k]
  ELSE q.scale[t]

Numbers(m, q, ref, t) ==
  LET codes == CodesOf(m, q, ref, t)
  IN  [k \in DOMAIN codes |-> Times(LaneScale(m, q, t, k), Whole(codes[k] - q.zp[t]))] \o <<>>

-----------------------------------------------------------------------------
(* The roundings of one layer.                                             *)
Half(p) == Over(p, Whole(2))

(* What rounding the weights of a row has moved them by, on codes as large *)
(* as these.                                                               *)
WeightError(m, q, node, r, codes) ==
  LET s  == RowScales(m, node)
      w  == node.layer.weight[r]
      wq == QuantizedWeights(node.layer.weight, BitsOf(m, node), s)[r]
      moved == Total([j \in DOMAIN w |-> Abs(Minus(w[j], Times(s[r], Whole(wq[j]))))])
  IN  Times(moved, Times(q.scale[node.ins[1]], Whole(Max({Magnitude(c) : c \in ToSet(codes)}))))

(* A weighted sum: its weights, and half a step for its bias.              *)
MacError(m, q, ref, node, k) ==
  LET r == IF node.layer.type = "Conv2d" THEN PlaneOf(node.layer.geom, k) + 1 ELSE k
  IN  Plus(WeightError(m, q, node, r, CodesOf(m, q, ref, node.ins[1])),
           Half(LaneScale(m, q, node.outs[1], k)))

(* A rescale: what multiplier and shift are off their ratio, and half a    *)
(* step; a signed one also what its floor and its offset are rounded by,   *)
(* and then the step of its table.  No activation here is steeper than 1.  *)
RatioError(m, accScale, scale) ==
  LET Off(p, ratio) == Over(Abs(Minus(Frac(p.mult, 2^p.shift), ratio)), ratio)
  IN  Off(RequantParams(accScale, scale, m.maxMultBits), Over(accScale, scale))

RescaleError(m, q, envs, node, k, y) ==
  LET t     == node.ins[1]
      step  == LaneScale(m, q, t, k)
      scale == IF IsRelu(node) THEN q.scale[node.outs[1]]
               ELSE RangeScale(m, PreActivation(m, envs, t))
      off   == RatioError(m, step, scale)
  IN  IF IsRelu(node) THEN Plus(Times(off, Abs(y)), Half(scale))
      ELSE Plus(Times(off, Plus(Abs(y), step)), Plus(Plus(scale, step), q.scale[node.outs[1]]))

(* Merges, splits, pools, and a ReLU behind a pool only move codes.        *)
LayerError(m, q, envs, ref, node, k, y) ==
  CASE IsAccumulator(node) -> MacError(m, q, ref, node, k)
    [] node.layer.type = "Activation" /\ IsWide(m, node.ins[1]) ->
         RescaleError(m, q, envs, node, k, y)
    [] OTHER -> Zero

(* The range a rescale saturates at.                                       *)
Saturated(m, q, envs, node, y) ==
  LET range == PreActivation(m, envs, node.ins[1])
      hi == IF IsRelu(node) THEN Times(q.scale[node.outs[1]], Whole(2^m.actBits - 1))
            ELSE Greatest(range)
      lo == IF IsRelu(node) THEN Zero ELSE Least(range)
  IN  IF node.layer.type = "Activation" /\ IsWide(m, node.ins[1])
      THEN Least({hi, Greatest({lo, y})}) ELSE y

Inputs(m, q, ref, node) == [i \in DOMAIN node.ins |-> Numbers(m, q, ref, node.ins[i])]

(* Every output of the layer is what the float layer makes of its inputs.  *)
LayerTracks(m, q, envs, ref, node) ==
  LET Cut(in) == [i \in DOMAIN in |->
                    [k \in DOMAIN in[i] |-> Saturated(m, q, envs, node, in[i][k])] \o <<>>]
      Near(z, y, cut) ==
        /\ DOMAIN z = DOMAIN y
        /\ \A k \in DOMAIN z : Leq(Abs(Minus(z[k], y[k])),
                                   LayerError(m, q, envs, ref, node, k, cut[1][k]))
      From(cut, out) ==
        \A i \in DOMAIN node.outs : Near(Numbers(m, q, ref, node.outs[i]), out[i], cut)
      Through(cut) == From(cut, Forward(node.layer, cut))
  IN  Through(Cut(Inputs(m, q, ref, node)))

-----------------------------------------------------------------------------
(* What a layer must be for its scales to mean what quantize takes them    *)
(* for.  The code accepts layers that are not; see the hazards.            *)

(* A merge operand comes, through Split, Add and Concat, out of a ReLU     *)
(* behind an accumulator.                                                  *)
Unified(m) ==
  LET Grow(S, node) ==
        IF node.layer.type \in {"Add", "Concat", "Split"} /\ ToSet(node.ins) \subseteq S
        THEN S \cup ToSet(node.outs) ELSE S
  IN  FoldLeft(Grow, {Rectifier(m, node).outs[1] : node \in Rectified(m)}, Ordered(m))

(* No accumulator is read but by its activation; a padded convolution      *)
(* reads codes whose zero is zero; channels with units of their own are    *)
(* not read by a signed rescale.                                           *)
Supported(m, q, node) ==
  CASE node.layer.type \in {"Add", "Concat"} -> ToSet(node.ins) \subseteq Unified(m)
    [] node.layer.type = "Activation" ->
         IsRelu(node) \/ ~ IsWide(m, node.ins[1])
           \/ Cardinality(ToSet(AccScales(m, q, WriterOf(m, node.ins[1])))) = 1
    [] node.layer.type = "Conv2d" ->
         ~ IsWide(m, node.ins[1]) /\ (node.layer.geom.pad > 0 => q.zp[node.ins[1]] = 0)
    [] OTHER -> ~ IsWide(m, node.ins[1])

-----------------------------------------------------------------------------
(* In a compiled model every layer computes, up to its own roundings and   *)
(* the range it saturates at, what the float layer would of the same       *)
(* inputs, on any row: no scale is lost, applied twice or to the wrong     *)
(* channel, no zero point is left out, and no operand of a merge is in     *)
(* units of its own (model.py:349, ptq.py:43).                             *)
TracksFloat ==
  Sized =>
    LET m == case.float  q == case.quantized
        envs == FloatEnvs(m)
    IN  \A x \in Rows :
          LET ref == RefEnv(built, source, x)
          IN  \A node \in ToSet(m.nodes) :
                Supported(m, q, node) => LayerTracks(m, q, envs, ref, node)

(* The label, the largest of the logits a client decrypts, is that of the  *)
(* float layer on the same inputs, whenever it leads by more than the      *)
(* roundings (docs/SUPPORTED-OPS.md:199).                                  *)
LabelsAgree ==
  Sized =>
    LET m == case.float  q == case.quantized
        head == WriterOf(m, m.output)
    IN  IsAccumulator(head) =>
          \A x \in Rows :
            LET ref == RefEnv(built, source, x)
                y == Forward(head.layer, Inputs(m, q, ref, head))[1]
                z == CodesOf(m, q, ref, m.output)
                Leads(k, j) == Less(Plus(y[j], Plus(MacError(m, q, ref, head, j),
                                                    MacError(m, q, ref, head, k))), y[k])
            IN  \A k \in DOMAIN y :
                  (\A j \in DOMAIN y \ {k} : Leads(k, j)) => \A j \in DOMAIN y \ {k} : z[j] < z[k]
=============================================================================
