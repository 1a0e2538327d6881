----------------------------- MODULE FloatModel -----------------------------
(***************************************************************************)
(* The float side of the model facade: the layers of                       *)
(* python/penumbra/layers.py and what model.py learns from running them on *)
(* the calibration data.  A model is a record of its layer nodes (name-    *)
(* less: [layer, ins, outs]), its input and output tensor, the calibration *)
(* rows, and the options of quantize; numbers are fractions (Quant).  A    *)
(* layer without a bias has one of zeros.                                  *)
(***************************************************************************)
EXTENDS Quant, GraphWalk

AccumulatorLayers == {"Conv2d", "Linear"}

IsAccumulator(node) == node.layer.type \in AccumulatorLayers

-----------------------------------------------------------------------------
(* forward.                                                                *)
FDot(row, x) == Total([j \in DOMAIN row |-> Times(row[j], x[j])])

SumOver(S, f) == FoldFunctionOnSet(Plus, Zero, f, S)

(* The values under the kernel of channel c at p, zero where it is padded. *)
Patch(g, x, c, p) ==
  [k \in (0 .. g.kH - 1) \X (0 .. g.kW - 1) |->
     IF k \in Reached(g, p[2], p[3]) THEN x[InputAt(g, c, p[2], p[3], k)] ELSE Zero]

FConv(layer, x) ==
  LET g  == layer.geom
      at == Positions(Len(layer.weight), g)
      Tap(p) == [ck \in (0 .. g.chans - 1) \X ((0 .. g.kH - 1) \X (0 .. g.kW - 1)) |->
                   Times(layer.weight[p[1] + 1][WeightAt(g, ck[1], ck[2])],
                         Patch(g, x, ck[1], p)[ck[2]])]
  IN  [r \in DOMAIN at |-> Plus(SumOver(DOMAIN Tap(at[r]), Tap(at[r])), layer.bias[at[r][1] + 1])]

(* An average counts the padding; a maximum does not. *)
FPool(layer, x) ==
  LET g  == layer.geom
      at == Positions(g.chans, g)
      Taps(p) == {InputAt(g, p[1], p[2], p[3], k) : k \in Reached(g, p[2], p[3])}
  IN  [r \in DOMAIN at |->
         IF layer.mode = "avg" THEN Over(SumOver(Taps(at[r]), x), Whole(g.kH * g.kW))
         ELSE Greatest({x[i] : i \in Taps(at[r])})]

Forward(layer, in) ==
  LET x == in[1] IN
  CASE layer.type = "Linear" ->
         <<[r \in DOMAIN layer.weight |-> Plus(FDot(layer.weight[r], x), layer.bias[r])]>>
    [] layer.type = "Conv2d" -> <<FConv(layer, x)>>
    [] layer.type = "Pool" -> <<FPool(layer, x)>>
    [] layer.type = "Activation" -> <<[i \in DOMAIN x |-> Apply(layer.fn, x[i])]>>
    [] layer.type = "Add" -> <<[i \in DOMAIN x |-> Plus(x[i], in[2][i])]>>
    [] layer.type = "Concat" -> <<FlattenSeq(in)>>
    [] layer.type = "Split" -> Segments(x, layer.sizes)

(* The layer nodes in the order the facade keeps them in. *)
Ordered(m) ==
  LET order == StableOrder(m.nodes) IN [i \in DOMAIN order |-> m.nodes[order[i]]]

(* Every tensor's values on one row; \o has TLC evaluate them once. *)
FloatEnv(m, row) ==
  LET Extend(e, node, out) == Bind(e, node.outs, [k \in DOMAIN out |-> out[k] \o <<>>])
      Step(e, node) == Extend(e, node, Forward(node.layer, Operands(node, e)))
  IN  FoldLeft(Step, m.input :> row, Ordered(m))

FloatEnvs(m) == [i \in DOMAIN m.data |-> FloatEnv(m, m.data[i])] \o <<>>

-----------------------------------------------------------------------------
(* _calibrate_input and _calibrate_graph, with the default observer        *)
(* ("minmax"): over the calibration data, the largest value behind a ReLU, *)
(* and the least and the greatest before it.                               *)
Observed(m, envs, t) == UNION {ToSet(envs[i][t]) : i \in DOMAIN envs}

InputScale(m) == SymmetricScale(UNION {ToSet(m.data[i]) : i \in DOMAIN m.data}, m.inputBits, FALSE)

Peak(observed) == Greatest({Relu(p) : p \in observed})

(* _is_relu_like: the function is tried at a few points. *)
Probes == {<<-100, 1>>, <<-7, 2>>, <<-1, 1>>, Zero, <<1, 1>>, <<5, 2>>, <<7, 1>>, <<100, 1>>}

IsReluLike(fn) == \A p \in Probes : Apply(fn, p) = Relu(p)

IsRelu(node) == node.layer.type = "Activation" /\ IsReluLike(node.layer.fn)

Consumers(m, t) == {node \in ToSet(m.nodes) : t \in ToSet(node.ins)}

(* _merge_scale_classes: the tensors that must share one scale with t.     *)
Merged(m) ==
  {ToSet(node.ins) \cup ToSet(node.outs) :
     node \in {n \in ToSet(m.nodes) : n.layer.type \in {"Add", "Concat", "Split"}}}

ScaleClass(m, t) ==
  LET Grow(S, i) == S \cup UNION {J \in Merged(m) : J \cap S # {}}
  IN  FoldLeftDomain(Grow, {t}, m.nodes)

(* An accumulator whose one reader is a ReLU. *)
Rectified(m) ==
  {node \in ToSet(m.nodes) :
     /\ IsAccumulator(node)
     /\ \E act \in ToSet(m.nodes) : IsRelu(act) /\ Consumers(m, node.outs[1]) = {act}}

Rectifier(m, node) == CHOOSE act \in Consumers(m, node.outs[1]) : TRUE

(* class_scales: the largest natural scale among the ReLUs of t's class;   *)
(* empty if there is none.                                                 *)
ClassScale(m, envs, t) ==
  LET members == {node \in Rectified(m) : Rectifier(m, node).outs[1] \in ScaleClass(m, t)}
      natural == {Over(Peak(Observed(m, envs, node.outs[1])), Whole(2^m.actBits - 1)) :
                    node \in members}
  IN  IF natural = {} THEN {} ELSE {Greatest(natural)}
=============================================================================
