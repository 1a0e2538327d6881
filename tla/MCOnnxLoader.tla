---------------------------- MODULE MCOnnxLoader ----------------------------
(***************************************************************************)
(* Small ONNX graphs for OnnxLoader: a convolution or a dense layer on the *)
(* input, and behind it every sequence of up to three more nodes, each on  *)
(* any tensor before it; and the graphs the loader is to refuse.           *)
(***************************************************************************)
EXTENDS OnnxLoader

Fresh == <<"a1", "a2", "a3", "a4">>

Ints(s) == [i \in DOMAIN s |-> Whole(s[i])] \o <<>>
C(dims, s) == Tensor(dims, Ints(s))

(* Two channels, one row, two columns once the convolution is over. *)
Consts ==
  [n \in {"k1", "w1", "w2", "w4", "k4", "c1", "c2", "cw", "cs", "g1", "e1", "m1", "v1", "s1", "q4", "z4"} |->
     CASE n = "k1" -> C(<<2, 1, 1, 1>>, <<1, -2>>)
       [] n = "k4" -> C(<<1, 2, 1, 1>>, <<2, 3>>)
       [] n = "w1" -> C(<<2, 2>>, <<1, 2, -1, 3>>)
       [] n = "w2" -> C(<<2, 2>>, <<1, 0, 2, -1>>)
       [] n = "w4" -> C(<<4, 2>>, <<1, 2, 0, -1, 3, 1, -2, 1>>)
       [] n = "c1" -> C(<<2>>, <<1, -1>>)
       [] n = "cw" -> C(<<2>>, <<3, 5>>)
       [] n = "c2" -> C(<<2, 1, 1>>, <<2, -3>>)
       [] n = "cs" -> C(<<1>>, <<4>>)
       [] n = "g1" -> C(<<2>>, <<2, -1>>)
       [] n = "e1" -> C(<<2>>, <<1, 3>>)
       [] n = "m1" -> C(<<2>>, <<1, 2>>)
       [] n = "v1" -> C(<<2>>, <<3, 0>>)
       [] n = "s1" -> C(<<2>>, <<1, 1>>)
       [] n = "q4" -> C(<<4>>, <<1, 2, 3, 0>>)
       [] n = "z4" -> C(<<4>>, <<3, 0, 3, 0>>)]

N(op, ins, outs) == [op |-> op, ins |-> ins, outs |-> outs]

Op(type) == [type |-> type]
GemmOp(tb) == [type |-> "Gemm", transB |-> tb, alpha |-> Whole(1)]
ConvOp == [type |-> "Conv", group |-> 1, pads |-> <<0, 0, 0, 0>>, strides |-> <<1, 1>>]
PoolOp(type, k, p, cip) ==
  [type |-> type, kernel |-> k, pads |-> <<p, p, p, p>>, strides |-> <<1, 1>>, countPad |-> cip]
BnOp == [type |-> "BatchNormalization", epsilon |-> Whole(1)]
TransposeOp(perm) == [type |-> "Transpose", perm |-> perm]
AxisOp(type, axis) == [type |-> type, axis |-> axis, split |-> <<>>]

-----------------------------------------------------------------------------
(* Shapes as ONNX infers them: those of the values on one row. *)
G(nodes, dims, rows) ==
  [opset |-> 17, nodes |-> nodes, consts |-> Consts, inputs |-> <<"x">>,
   outputs |-> <<Last(nodes).outs[1]>>, inDims |-> dims, rows |-> rows, shapes |-> <<>>]

(* A symbolic batch is 0 in the shapes. *)
Inferred(g, batch) ==
  LET Dims(d) == IF d[1] = 1 THEN [d EXCEPT ![1] = batch] ELSE d
      Shapes1(e) == [t \in DOMAIN e \ DOMAIN g.consts |-> Dims(e[t].dims)] @@ <<>>
  IN  [g EXCEPT !.shapes = Shapes1(OnnxEnv(g, g.rows[1]))]

Maps  == <<Ints(<<1, 2>>), Ints(<<3, -1>>)>>
Pairs == <<Ints(<<1, 2>>), Ints(<<-1, 3>>)>>

Starts ==
  {[node |-> N(ConvOp, <<"x", "k1">>, <<"a1">>), in |-> <<1, 1, 1, 2>>, out |-> <<1, 2, 1, 2>>, rows |-> Maps],
   [node |-> N(GemmOp(0), <<"x", "w1", "c1">>, <<"a1">>), in |-> <<1, 2>>, out |-> <<1, 2>>, rows |-> Pairs]}

Bn(t) == <<t, "g1", "e1", "m1", "v1">>

(* What may follow: the nodes on one tensor of shape d, in its one or two  *)
(* spellings.                                                              *)
OnOne(t, d, o) ==
  IF Len(d) = 4
  THEN {N([type |-> "Flatten", dims |-> <<1, Size(d)>>], <<t>>, <<o>>), N(Op("Relu"), <<t>>, <<o>>)} \cup
       (IF d[2] = 2 THEN {N(Op("Add"), <<c, t>>, <<o>>) : c \in {"c2"}} \cup {N(BnOp, Bn(t), <<o>>)}
        ELSE {}) \cup
       (IF d[4] = 2 THEN {N(Op("Add"), <<t, "cw">>, <<o>>), N(TransposeOp(<<0, 2, 1, 3>>), <<t>>, <<o>>),
                          N(PoolOp("AveragePool", <<1, 2>>, 0, 0), <<t>>, <<o>>)}
        ELSE {})
  ELSE {N(Op("Softmax"), <<t>>, <<o>>)} \cup
       (IF d[2] = 2
        THEN {N(Op("Add"), <<t, "c1">>, <<o>>), N(BnOp, Bn(t), <<o>>), N(Op("Sigmoid"), <<t>>, <<o>>),
              N(Op("LeakyRelu"), <<t>>, <<o>>), N(GemmOp(1), <<t, "w2">>, <<o>>),
              N([type |-> "Reshape", dims |-> <<1, 2>>], <<t>>, <<o>>)}
        ELSE IF d[2] = 4 THEN {N(Op("MatMul"), <<t, "w4">>, <<o>>)} ELSE {})

Alike(sh) == {<<t, u>> \in (DOMAIN sh \ {"x"}) \X (DOMAIN sh \ {"x"}) : sh[t] = sh[u]}

Options(sh, o) ==
  UNION {OnOne(t, sh[t], o) : t \in DOMAIN sh \ {"x"}} \cup
  {N(Op("Add"), p, <<o>>) : p \in Alike(sh)} \cup
  {N(AxisOp("Concat", 1), <<p[1], p[2]>>, <<o>>) : p \in {q \in Alike(sh) : q[1] # q[2]}}

(* Each tensor but the last is read, or the loader refuses at once.        *)
AllRead(nodes) ==
  \A i \in 1 .. Len(nodes) - 1 : \E j \in DOMAIN nodes : nodes[i].outs[1] \in ToSet(nodes[j].ins)

Longer(start, ns) ==
  {Append(ns, o) : o \in Options(Inferred(G(ns, start.in, start.rows), 1).shapes, Fresh[Len(ns) + 1])}

(* n nodes; the fourth leaves nothing unread. *)
Grow(start) ==
  LET nodes[n \in 1 .. 4] ==
        IF n = 1 THEN {<<start.node>>}
        ELSE UNION {{q \in Longer(start, ns) : n = 4 => AllRead(q)} : ns \in nodes[n - 1]}
  IN  {q \in UNION {nodes[n] : n \in 1 .. 4} : AllRead(q)}

Grown == UNION {{G(ns, s.in, s.rows) : ns \in Grow(s)} : s \in Starts}

-----------------------------------------------------------------------------
(* Parts and joins of feature maps, pools, layouts, a cast at the input.   *)
ConvStart == CHOOSE s \in Starts : Len(s.in) = 4
GemmStart == CHOOSE s \in Starts : Len(s.in) = 2

Behind(start, nodes) == G(<<start.node>> \o nodes, start.in, start.rows)

SplitOp(axis, sizes) == [type |-> "Split", axis |-> axis, split |-> sizes]

Halved(split) ==
  <<split, N(Op("Relu"), <<"a2">>, <<"a4">>), N(AxisOp("Concat", 1), <<"a3", "a4">>, <<"b1">>),
    N([type |-> "Flatten", dims |-> <<1, 4>>], <<"b1">>, <<"b2">>), N(Op("MatMul"), <<"b2", "w4">>, <<"b3">>)>>

Shaped ==
  {Behind(ConvStart, ns) : ns \in
     {Halved(N(SplitOp(1, <<>>), <<"a1">>, <<"a2", "a3">>)),
      Halved(N(SplitOp(1, <<1, 1>>), <<"a1">>, <<"a2", "a3">>)),
      Halved(N(SplitOp(1, <<>>), <<"a1", "s1">>, <<"a2", "a3">>)),
      Halved(N(SplitOp(-3, <<>>), <<"a1">>, <<"a2", "a3">>)),
      Halved(N(SplitOp(-1, <<1, 1>>), <<"a1">>, <<"a2", "a3">>)),
      <<N(SplitOp(1, <<2>>), <<"a1">>, <<"a2">>)>>,
      <<N(Op("GlobalAveragePool"), <<"a1">>, <<"a2">>), N(TransposeOp(<<0, 2, 3, 1>>), <<"a2">>, <<"a3">>),
        N([type |-> "Reshape", dims |-> <<1, 2>>], <<"a3">>, <<"a4">>), N(Op("MatMul"), <<"a4", "w1">>, <<"b1">>),
        N(Op("Add"), <<"b1", "c1">>, <<"b2">>), N(Op("Sigmoid"), <<"b2">>, <<"b3">>)>>,
      <<N(BnOp, Bn("a1"), <<"a2">>), N(Op("Add"), <<"a2", "c2">>, <<"a3">>), N(Op("Relu"), <<"a3">>, <<"a4">>),
        N(ConvOp, <<"a4", "k4", "cs">>, <<"b1">>), N(Op("Add"), <<"b1", "cs">>, <<"b2">>),
        N(Op("Relu"), <<"b2">>, <<"b3">>)>>,
      <<N(TransposeOp(<<>>), <<"a1">>, <<"a2">>)>>,
      <<N([type |-> "Flatten", dims |-> <<1, 4>>], <<"a1">>, <<"a2">>),
        N(BnOp, <<"a2", "q4", "q4", "q4", "z4">>, <<"a3">>)>>,
      <<N(BnOp, <<"a1", "a1", "e1", "m1", "v1">>, <<"a2">>)>>,
      <<N(PoolOp("AveragePool", <<1, 2>>, 0, 0), <<"a1">>, <<"a2">>),
        N(AxisOp("Concat", 1), <<"a1", "a2">>, <<"a3">>)>>}} \cup
  {Behind(ConvStart, <<N(PoolOp(type, <<2, 2>>, 1, cip), <<"a1">>, <<"a2">>)>>) :
     type \in {"MaxPool", "AveragePool"}, cip \in {0, 1}} \cup
  {Behind(ConvStart, <<N([PoolOp("MaxPool", <<1, 2>>, 0, 0) EXCEPT !.strides = <<1, 2>>],
                         <<"a1">>, <<"a2">>)>>)} \cup
  {Behind(GemmStart, ns) : ns \in
     {<<N(SplitOp(-1, <<>>), <<"a1">>, <<"a2", "a3">>), N(AxisOp("Concat", -1), <<"a3", "a2">>, <<"a4">>)>>,
      <<N(AxisOp("Concat", 1), <<"a1", "w1">>, <<"a2">>)>>,
      <<N(Op("MatMul"), <<"a1", "a1">>, <<"a2">>)>>,
      <<N(Op("Softmax"), <<"a1">>, <<"a2">>), N(Op("MatMul"), <<"a2", "w1">>, <<"a3">>)>>,
      <<N(GemmOp(0), <<"a1", "w2", "cs">>, <<"a2">>)>>}} \cup
  {G(<<N([type |-> "Cast", to |-> to], <<"x">>, <<"b1">>), N(ConvOp, <<"b1", "k1">>, <<"a1">>)>>,
     <<1, 1, 1, 2>>, Maps) : to \in {"float", "int"}}

(* What is refused before a node is lowered, or at its first one. *)
Plain ==
  [G(<<N(GemmOp(0), <<"x", "w1">>, <<"a1">>)>>, <<1, 2>>, Pairs) EXCEPT !.shapes = [t \in {"x"} |-> <<0, 2>>]]

Refused ==
  {[Plain EXCEPT !.opset = v] : v \in {10, 11, 22, 23}} \cup
  {[Plain EXCEPT !.inputs = <<"x", "y">>], [Plain EXCEPT !.outputs = <<"a1", "x">>],
   [Plain EXCEPT !.outputs = <<"y">>]} \cup
  {[Plain EXCEPT !.nodes = <<n>>] : n \in
     {N(Op("Exp"), <<"x">>, <<"a1">>), N(Op("MatMul"), <<"w1", "x">>, <<"a1">>),
      N([GemmOp(0) EXCEPT !.alpha = Whole(2)], <<"x", "w1">>, <<"a1">>),
      N([ConvOp EXCEPT !.group = 2], <<"x", "k1">>, <<"a1">>), N(ConvOp, <<"x", "k1">>, <<"a1">>),
      N(ConvOp, <<"x", "x">>, <<"a1">>),
      N([ConvOp EXCEPT !.pads = <<0, 1, 0, 1>>], <<"x", "k1">>, <<"a1">>),
      N(Op("GlobalAveragePool"), <<"x">>, <<"a1">>), N(Op("Softmax"), <<"x">>, <<"a1">>),
      N(Op("Add"), <<"x", "c1">>, <<"a1">>), N(Op("Relu"), <<"c1">>, <<"a1">>)}}

MCGraphs == UNION {{Inferred(g, 0) : g \in UNION {Grown, Shaped}}, Refused}
=============================================================================
