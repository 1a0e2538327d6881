----------------------------- MODULE OnnxLoader -----------------------------
(***************************************************************************)
(* load_onnx (python/penumbra/onnx_loader.py, op_registry.py): an ONNX     *)
(* graph becomes a list of float layers or is refused.  The checks of the  *)
(* whole graph come first; then one node after the other is lowered to a   *)
(* layer, folded into an earlier one, or dropped.  `produced` says for     *)
(* every tensor that is done which layer's output stands for it.           *)
(* "unsupported" is UnsupportedModelError, "raised" any other exception.   *)
(***************************************************************************)
EXTENDS OnnxGraph

CONSTANT Graphs

VARIABLES graph, phase, todo, layers, produced, effective

vars == <<graph, phase, todo, layers, produced, effective>>

Phases == {"opset", "nodes", "ends", "lower", "loaded", "unsupported", "raised"}

-----------------------------------------------------------------------------
(* op_registry.py.                                                         *)
Shaping == {"Reshape", "Flatten", "Transpose", "Cast"}
Dense == {"Gemm", "MatMul"}
Pools == {"MaxPool", "AveragePool", "GlobalAveragePool"}
Functions1 == {"Relu", "LeakyRelu", "Sigmoid"}

Supported ==
  Shaping \cup Dense \cup Pools \cup Functions1 \cup Tails \cup
  {"Conv", "Add", "Concat", "Split", "BatchNormalization"}

OpsetOK(v) == v \in 11 .. 22

Equal(s) == Cardinality(ToSet(s)) = 1

EvenPads(op) == Len(op.pads) = 4 /\ Equal(op.pads)
SquareStrides(op) == Len(op.strides) = 2 /\ Equal(op.strides)
PadsInWindow(op) == EvenPads(op) /\ op.pads[1] < Min(ToSet(op.kernel))

(* check_attributes: the constraints of a node's own attributes. *)
AttributesOK(op) ==
  CASE op.type = "Conv" -> op.group = 1 /\ EvenPads(op) /\ SquareStrides(op)
    [] op.type = "Gemm" -> op.alpha = Whole(1)
    [] op.type = "MaxPool" -> PadsInWindow(op)
    [] op.type = "AveragePool" -> PadsInWindow(op) /\ (op.pads[1] > 0 => op.countPad = 1)
    [] op.type = "Cast" -> op.to = "float"
    [] op.type \in {"Concat", "Split"} -> op.axis = 1 \/ op.axis < 0
    [] OTHER -> TRUE

-----------------------------------------------------------------------------
(* The graph as a whole.                                                   *)
IsConst(t) == t \in DOMAIN graph.consts
Acts(node) == SelectSeq(node.ins, LAMBDA t : ~ IsConst(t))

NodeSet == ToSet(graph.nodes)

(* _topological_nodes: what the input reaches, what reaches the output.    *)
Reachable ==
  LET Grow(S, k) ==
        S \cup UNION {ToSet(n.outs) : n \in {m \in NodeSet :
                        Acts(m) # <<>> /\ ToSet(Acts(m)) \subseteq S}}
  IN  FoldLeftDomain(Grow, {graph.inputs[1]}, graph.nodes)

Reaching ==
  LET Grow(S, k) ==
        S \cup UNION {ToSet(Acts(n)) : n \in {m \in NodeSet : ToSet(m.outs) \cap S # {}}}
  IN  FoldLeftDomain(Grow, {graph.outputs[1]}, graph.nodes)

OnPath(node) ==
  /\ Acts(node) # <<>> /\ ToSet(Acts(node)) \subseteq Reachable
  /\ ToSet(node.outs) \cap Reaching # {}

-----------------------------------------------------------------------------
Init ==
  /\ graph \in Graphs
  /\ phase = "opset"
  /\ todo = <<>> /\ layers = <<>>
  /\ produced = <<>> /\ effective = ""

Check(ok, next) ==
  /\ phase' = IF ok THEN next ELSE "unsupported"
  /\ UNCHANGED <<graph, layers>>

CheckOpset ==
  /\ phase = "opset"
  /\ Check(OpsetOK(graph.opset), "nodes")
  /\ UNCHANGED <<todo, produced, effective>>

(* _validate: every node, before anything else is looked at. *)
CheckNodes ==
  /\ phase = "nodes"
  /\ Check(\A n \in NodeSet : n.op.type \in Supported /\ AttributesOK(n.op), "ends")
  /\ UNCHANGED <<todo, produced, effective>>

CheckEnds ==
  /\ phase = "ends"
  /\ Check(/\ Len(graph.inputs) = 1 /\ Len(graph.outputs) = 1
           /\ \A n \in NodeSet : OnPath(n), "lower")
  /\ todo' = graph.nodes
  /\ produced' = graph.inputs[1] :> graph.inputs[1]
  /\ effective' = graph.outputs[1]

-----------------------------------------------------------------------------
(* _lower_graph: the node at hand.                                         *)
Now == Head(todo)
OpNow == Now.op
ActNow == Acts(Now)[1]

Lowering(types) == phase = "lower" /\ todo # <<>> /\ OpNow.type \in types

Name(t) == IF t \in DOMAIN produced THEN produced[t] ELSE t

RankOf(t) == Len(graph.shapes[t])

End(verdict) ==
  /\ phase' = verdict
  /\ UNCHANGED <<graph, todo, layers, produced, effective>>

Advance(ls, names, eff) ==
  /\ todo' = Tail(todo)
  /\ layers' = ls /\ produced' = names @@ produced /\ effective' = eff
  /\ UNCHANGED <<graph, phase>>

(* The node's output stands for what t stands for. *)
Alias(ls, t) == Advance(ls, Now.outs[1] :> Name(t), effective)

(* A layer of its own, reading what its operands stand for. *)
EmitLayer(layer, ins) ==
  Advance(Append(layers, [layer |-> layer, ins |-> [k \in DOMAIN ins |-> Name(ins[k])],
                          outs |-> Now.outs]),
          [t \in ToSet(Now.outs) |-> t], effective)

(* A classifier tail is dropped, at the output only. *)
DropTail ==
  /\ phase = "lower" /\ todo # <<>> /\ IsTail(graph, Now)
  /\ IF graph.outputs[1] \in ToSet(Now.outs) /\ Len(Acts(Now)) = 1
     THEN Advance(layers, <<>>, Name(ActNow))
     ELSE End("unsupported")

(* A transpose that moves axes of size 1 only; a symbolic size may be any. *)
KeepsOrder ==
  IF OpNow.type # "Transpose" THEN TRUE
  ELSE LET moved == SelectSeq(Perm(OpNow, RankOf(ActNow)), LAMBDA a : graph.shapes[ActNow][a + 1] # 1)
       IN  \A i, j \in DOMAIN moved : i < j => moved[i] < moved[j]

FoldShape ==
  /\ Lowering(Shaping)
  /\ IF Len(Acts(Now)) = 1 /\ KeepsOrder THEN Alias(layers, ActNow) ELSE End("unsupported")

Readers(t) == {k \in DOMAIN graph.nodes : t \in ToSet(graph.nodes[k].ins)}

(* The layer that writes what t stands for. *)
WriterOf(t) == {k \in DOMAIN layers : Name(t) \in ToSet(layers[k].outs)}

(* Seeded fault: the accumulator may have other readers. *)
FoldableShared(t) == \E k \in WriterOf(t) : IsAccumulator(layers[k])

(* _fold_into_producer: t is read once, and stands for an accumulator. *)
Foldable(t) ==
  /\ Cardinality(Readers(t)) = 1
  /\ \E k \in WriterOf(t) : IsAccumulator(layers[k])

Accumulator(t) == CHOOSE k \in WriterOf(t) : TRUE

Reweighted(k, weight, bias) ==
  [layers EXCEPT ![k].layer = [@ EXCEPT !.weight = weight, !.bias = bias]]

Channels(k) == Len(layers[k].layer.weight)

(* Seeded fault: the sum is known under its own name. *)
FoldBiasNamed ==
  /\ Lowering({"Add"}) /\ Len(Acts(Now)) < Len(Now.ins)
  /\ Advance(layers, Now.outs[1] :> Now.outs[1], effective)

(* A constant addend goes into the accumulator's bias. *)
FoldBias ==
  /\ Lowering({"Add"}) /\ Len(Acts(Now)) < Len(Now.ins)
  /\ LET k == Accumulator(ActNow)
         addend == graph.consts[SelectSeq(Now.ins, IsConst)[1]].vals
         bias == layers[k].layer.bias
     IN  IF Len(Acts(Now)) = 1 /\ Foldable(ActNow) /\ Len(addend) = Channels(k)
         THEN Alias(Reweighted(k, layers[k].layer.weight,
                               [c \in DOMAIN bias |-> Plus(bias[c], addend[c])]), ActNow)
         ELSE End("unsupported")

(* fold_batchnorm: W' = s W, b' = (b - mean) s + beta. *)
FoldBatchNorm ==
  /\ Lowering({"BatchNormalization"})
  /\ LET k == Accumulator(ActNow)
         par == [i \in 2 .. 5 |-> graph.consts[Now.ins[i]].vals]
         s == [c \in DOMAIN par[2] |->
                 Over(par[2][c], Root(Plus(par[5][c], OpNow.epsilon)))]
         w == layers[k].layer.weight
         b == layers[k].layer.bias
     IN  IF Len(Now.outs) # 1 \/ (\E i \in 2 .. 5 : ~ IsConst(Now.ins[i])) \/ ~ Foldable(ActNow)
         THEN End("unsupported")
         ELSE IF Len(par[2]) # Channels(k) THEN End("raised")
         ELSE Alias(Reweighted(k, [c \in DOMAIN w |-> [j \in DOMAIN w[c] |-> Times(s[c], w[c][j])]],
                                  [c \in DOMAIN b |-> Plus(Times(Minus(b[c], par[4][c]), s[c]),
                                                           par[3][c])]), ActNow)

MergeAdd ==
  /\ Lowering({"Add"}) /\ Len(Acts(Now)) = Len(Now.ins)
  /\ EmitLayer([type |-> "Add"], Now.ins)

SameMap(t, u) ==
  RankOf(t) = 4 => SubSeq(graph.shapes[t], 3, 4) = SubSeq(graph.shapes[u], 3, 4)

(* Along the channels, with one height and width. *)
MergeConcat ==
  /\ Lowering({"Concat"})
  /\ IF /\ AxisOf(OpNow.axis, RankOf(ActNow)) = 2
        /\ \A u \in ToSet(Acts(Now)) : SameMap(ActNow, u)
     THEN EmitLayer([type |-> "Concat"], Now.ins)
     ELSE End("unsupported")

(* The channels of each part: from an attribute, a constant, or equally.   *)
PartChannels ==
  IF OpNow.split # <<>> THEN OpNow.split
  ELSE IF Len(Now.ins) > 1 /\ IsConst(Now.ins[2])
  THEN [k \in DOMAIN graph.consts[Now.ins[2]].vals |-> graph.consts[Now.ins[2]].vals[k][1]]
  ELSE IF graph.shapes[ActNow][2] # 0 /\ graph.shapes[ActNow][2] % Len(Now.outs) = 0
  THEN [k \in DOMAIN Now.outs |-> graph.shapes[ActNow][2] \div Len(Now.outs)]
  ELSE <<>>

LowerSplit ==
  /\ Lowering({"Split"})
  /\ LET sh == graph.shapes[ActNow]
         plane == IF RankOf(ActNow) = 4 THEN Max({sh[3], 1}) * Max({sh[4], 1}) ELSE 1
         sizes == [k \in DOMAIN PartChannels |-> PartChannels[k] * plane]
     IN  IF Len(Acts(Now)) # 1 \/ AxisOf(OpNow.axis, RankOf(ActNow)) # 2 \/ sizes = <<>>
         THEN End("unsupported")
         ELSE IF Len(sizes) < 2 \/ (\E k \in DOMAIN sizes : sizes[k] <= 0) THEN End("raised")
         ELSE EmitLayer([type |-> "Split", sizes |-> sizes], <<ActNow>>)

(* _nonbatch: a feature map whose sizes are known. *)
IsMap(t) == RankOf(t) = 4 /\ \A a \in 2 .. 4 : graph.shapes[t][a] # 0

MapOf(t) == Tensor(graph.shapes[t], <<>>)

LowerConv ==
  /\ Lowering({"Conv"})
  /\ LET w == graph.consts[Now.ins[2]]
         b == IF Len(Now.ins) >= 3 THEN graph.consts[Now.ins[3]].vals ELSE Zeros(w.dims[1])
     IN  IF ~ IsConst(Now.ins[2]) THEN End("raised")
         ELSE IF ~ IsMap(ActNow) \/ Len(w.dims) # 4 \/ w.dims[2] # graph.shapes[ActNow][2]
         THEN End("unsupported")
         ELSE EmitLayer([type |-> "Conv2d", weight |-> Slices(w), bias |-> b,
                         geom |-> WindowOn(MapOf(ActNow), w.dims[3], w.dims[4],
                                           OpNow.strides[1], OpNow.pads[1])], <<ActNow>>)

(* The weight is the second operand, transposed unless transB says it is;  *)
(* a product of two activations finds no constant.                         *)
LowerLinear ==
  /\ Lowering(Dense)
  /\ LET b == graph.consts[Now.ins[2]]
         w == IF OpNow.type = "Gemm" /\ OpNow.transB = 1 THEN Slices(b) ELSE Columns(b)
         bias == IF Len(Now.ins) >= 3 THEN graph.consts[Now.ins[3]].vals ELSE Zeros(Len(w))
     IN  IF Now.ins[1] # ActNow THEN End("unsupported")
         ELSE IF ~ IsConst(Now.ins[2]) THEN End("raised")
         ELSE IF Len(b.dims) # 2 \/ Len(bias) # Len(w) THEN End("unsupported")
         ELSE EmitLayer([type |-> "Linear", weight |-> w, bias |-> bias], <<ActNow>>)

LowerActivation ==
  /\ Lowering(Functions1) /\ ~ IsTail(graph, Now)
  /\ EmitLayer([type |-> "Activation", fn |-> FnOf(OpNow.type)], <<ActNow>>)

LowerPool ==
  /\ Lowering(Pools)
  /\ LET mode == IF OpNow.type = "MaxPool" THEN "max" ELSE "avg"
         x == MapOf(ActNow)
         whole == OpNow.type = "GlobalAveragePool"
         g == IF whole THEN WindowOn(x, x.dims[3], x.dims[4], 1, 0)
              ELSE WindowOn(x, OpNow.kernel[1], OpNow.kernel[2], OpNow.strides[1], OpNow.pads[1])
     IN  IF /\ IsMap(ActNow)
            /\ whole \/ (Len(OpNow.kernel) = 2 /\ SquareStrides(OpNow))
         THEN EmitLayer([type |-> "Pool", mode |-> mode, geom |-> g], <<ActNow>>)
         ELSE End("unsupported")

WrittenByLayers == UNION {ToSet(layers[k].outs) : k \in DOMAIN layers}

(* Model(): the layers are sorted, and a name nobody writes raises. *)
Return ==
  /\ phase = "lower" /\ todo = <<>>
  /\ IF layers = <<>> THEN End("unsupported")
     ELSE IF \A k \in DOMAIN layers :
               ToSet(layers[k].ins) \subseteq WrittenByLayers \cup {graph.inputs[1]}
     THEN End("loaded")
     ELSE End("raised")

Ended == phase \in {"loaded", "unsupported", "raised"} /\ UNCHANGED vars

Next ==
  \/ CheckOpset \/ CheckNodes \/ CheckEnds
  \/ DropTail \/ FoldShape \/ FoldBias \/ FoldBatchNorm
  \/ MergeAdd \/ MergeConcat \/ LowerSplit
  \/ LowerConv \/ LowerLinear \/ LowerActivation \/ LowerPool
  \/ Return \/ Ended

Spec == Init /\ [][Next]_vars

-----------------------------------------------------------------------------
(* Properties.                                                             *)

(* What stands for a tensor is the input or the output of a layer that is  *)
(* there already, and every layer has an output of its own: a fold or a    *)
(* dropped node never leaves a name behind that nothing computes.          *)
TypeOK ==
  /\ phase \in Phases
  /\ \A t \in DOMAIN produced : produced[t] \in WrittenByLayers \cup {graph.inputs[1]}
  /\ \A k, j \in DOMAIN layers : k # j => ToSet(layers[k].outs) \cap ToSet(layers[j].outs) = {}

Lowered == [nodes |-> layers, input |-> graph.inputs[1]]

(* The layers give, on the row, what the ONNX graph gives. *)
Computes(row) ==
  LET e == FloatEnv(Lowered, row)
  IN  effective \in DOMAIN e /\ e[effective] = Expected(graph, row)

Folds == {n \in NodeSet : \/ n.op.type = "BatchNormalization"
                          \/ n.op.type = "Add" /\ Len(Acts(n)) = 1}

(* The last node was folded: the output's name is no layer's. *)
FoldedOutput == effective \notin WrittenByLayers \cup {graph.inputs[1]}

(* The tensors t is another name of, or became a fold of. *)
NamesBehind(t) ==
  LET Grow(S, k) == S \cup {Acts(n)[1] : n \in {m \in NodeSet :
                              /\ m.op.type \in Shaping \/ m \in Folds
                              /\ ToSet(m.outs) \cap S # {}}}
  IN  FoldLeftDomain(Grow, {t}, graph.nodes)

(* A fold into an accumulator that is also read under an earlier name. *)
ForkedFold ==
  \E n \in Folds : \E u \in NamesBehind(Acts(n)[1]) \ {Acts(n)[1]} : Cardinality(Readers(u)) > 1

(* A vector added along the width of a feature map, as ONNX aligns it. *)
WidthwiseFold ==
  \E n \in Folds :
    /\ n.op.type = "Add"
    /\ LET t == Acts(n)[1]  c == graph.consts[SelectSeq(n.ins, IsConst)[1]]
       IN  RankOf(t) = 4 /\ Len(c.dims) = 1 /\ Len(c.vals) > 1

(* Every model that loads computes what its ONNX graph computes: layouts   *)
(* kept, nodes folded, tails dropped, operands renamed.  Of the graphs it  *)
(* is checked on, the three kinds above are outside; and operands that     *)
(* broadcast in other ways are in none of them: a constant along the width *)
(* of a rank 2 tensor, a vector on a rank 3 one, a residual Add of unequal *)
(* shapes.                                                                 *)
Faithful ==
  phase = "loaded" /\ ~ FoldedOutput /\ ~ ForkedFold /\ ~ WidthwiseFold =>
    \A r \in DOMAIN graph.rows : Computes(graph.rows[r])

(* Anything the loader cannot lower fails loudly (docs/SUPPORTED-OPS.md);  *)
(* in particular a fold into an accumulator that something else reads      *)
(* ("Branching an un-folded accumulator is not supported").                *)
ForksAreRefused ==
  phase = "loaded" /\ ~ FoldedOutput /\ ~ WidthwiseFold =>
    \A r \in DOMAIN graph.rows : Computes(graph.rows[r])
=============================================================================
