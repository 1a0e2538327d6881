----------------------------- MODULE OnnxGraph ------------------------------
(***************************************************************************)
(* What an ONNX graph computes, as far as                                  *)
(* python/penumbra/onnx_loader.py relies on it: the operator specification *)
(* of ONNX, external to the repository.  A graph is a record               *)
(*   opset, nodes (checked: in order, each name written once),             *)
(*   consts (initializers and Constant nodes), inputs, outputs,            *)
(*   inDims (the input's shape), shapes (what shape inference found, 0 for *)
(*   a symbolic dimension), rows (the inputs to compare on);               *)
(* a node is [op, ins, outs] and a tensor [dims, vals], row-major, with    *)
(* the batch of one as its first axis.                                     *)
(***************************************************************************)
EXTENDS FloatModel

Tensor(dims, vals) == [dims |-> dims, vals |-> vals]

Size(dims) == FoldLeft(LAMBDA a, b : a * b, 1, dims)

Stride(dims, a) == Size(SubSeq(dims, a + 1, Len(dims)))

(* The coordinate along axis a of the i-th value. *)
Coordinate(dims, i, a) == ((i - 1) \div Stride(dims, a)) % dims[a]

(* An axis counted from 0, or from the end if negative. *)
AxisOf(a, rank) == (a % rank) + 1

(* c, stretched over the shape of x: aligned at the last axis. *)
Stretched(dims, c) ==
  LET At(i, b) == IF c.dims[b] = 1 THEN 0
                  ELSE Coordinate(dims, i, b + Len(dims) - Len(c.dims)) * Stride(c.dims, b)
  IN  [i \in 1 .. Size(dims) |->
         c.vals[1 + MapThenSumSet(LAMBDA b : At(i, b), DOMAIN c.dims)]]

Summed(x, c) ==
  LET s == Stretched(x.dims, c) IN Tensor(x.dims, [i \in DOMAIN x.vals |-> Plus(x.vals[i], s[i])])

(* The slices of a constant along its first axis, and a matrix's columns.  *)
Slices(c) ==
  LET n == Stride(c.dims, 1)
  IN  [r \in 1 .. c.dims[1] |-> SubSeq(c.vals, (r - 1) * n + 1, r * n)]

Columns(c) == [j \in 1 .. c.dims[2] |-> [k \in 1 .. c.dims[1] |-> c.vals[(k - 1) * c.dims[2] + j]]]

Zeros(n) == [i \in 1 .. n |-> Zero]

Gemm(op, in) ==
  LET w == IF op.transB = 1 THEN Slices(in[2]) ELSE Columns(in[2])
      y == Tensor(<<1, Len(w)>>, [r \in DOMAIN w |-> Times(op.alpha, FDot(w[r], in[1].vals))])
  IN  IF Len(in) = 3 THEN Summed(y, in[3]) ELSE y

(* A window of k over the map x: square strides and pads, the first of each *)
WindowOn(x, kH, kW, stride, pad) ==
  [chans |-> x.dims[2], inH |-> x.dims[3], inW |-> x.dims[4], kH |-> kH, kW |-> kW,
   stride |-> stride, pad |-> pad]

Map(chans, g, vals) == Tensor(<<1, chans, OutH(g), OutW(g)>>, vals)

Conv(op, in) ==
  LET w == in[2]
      g == WindowOn(in[1], w.dims[3], w.dims[4], op.strides[1], op.pads[1])
      b == IF Len(in) = 3 THEN in[3].vals ELSE Zeros(w.dims[1])
  IN  Map(w.dims[1], g, FConv([geom |-> g, weight |-> Slices(w), bias |-> b], in[1].vals))

(* An average divides by the whole window, or by its real values only.     *)
PoolOn(op, x) ==
  LET g == IF op.type = "GlobalAveragePool" THEN WindowOn(x, x.dims[3], x.dims[4], 1, 0)
           ELSE WindowOn(x, op.kernel[1], op.kernel[2], op.strides[1], op.pads[1])
      at == Positions(g.chans, g)
      Share(p) == <<g.kH * g.kW, Cardinality(Reached(g, p[2], p[3]))>>
      mean == FPool([mode |-> "avg", geom |-> g], x.vals)
  IN  Map(g.chans, g,
          IF op.type = "MaxPool" THEN FPool([mode |-> "max", geom |-> g], x.vals)
          ELSE IF op.type = "AveragePool" /\ op.countPad = 0
          THEN [r \in DOMAIN at |->
                  Times(mean[r], Frac(Share(at[r])[1], Share(at[r])[2]))]
          ELSE mean)

(* The models' variances have rational roots. *)
Root(p) == CHOOSE q \in {Frac(n, d) : n \in 1 .. 4, d \in 1 .. 4} : Times(q, q) = p

Normalized(op, in) ==
  LET x == in[1]
      One(i) == LET c == Coordinate(x.dims, i, 2) + 1
                IN  Plus(Over(Times(in[2].vals[c], Minus(x.vals[i], in[4].vals[c])),
                              Root(Plus(in[5].vals[c], op.epsilon))), in[3].vals[c])
  IN  Tensor(x.dims, [i \in DOMAIN x.vals |-> One(i)])

Permuted(x, perm) ==
  LET to == [k \in DOMAIN perm |-> x.dims[perm[k] + 1]]
      From(i) == 1 + MapThenSumSet(LAMBDA k : Coordinate(to, i, k) * Stride(x.dims, perm[k] + 1),
                                   DOMAIN perm)
  IN  Tensor(to, [i \in DOMAIN x.vals |-> x.vals[From(i)]])

Perm(op, rank) == IF op.perm = <<>> THEN [k \in 1 .. rank |-> rank - k] ELSE op.perm

(* The part of every slab along axis a that starts behind the first `skip`. *)
Part(x, a, skip, n) ==
  LET rest == Stride(x.dims, a)
      slab == x.dims[a] * rest
  IN  Tensor([x.dims EXCEPT ![a] = n],
             FlattenSeq([o \in 1 .. Len(x.vals) \div slab |->
               SubSeq(x.vals, (o - 1) * slab + skip * rest + 1, (o - 1) * slab + (skip + n) * rest)]))

Joined(in, a) ==
  LET slab(k) == in[k].dims[a] * Stride(in[k].dims, a)
      slabs   == Len(in[1].vals) \div slab(1)
  IN  Tensor([in[1].dims EXCEPT ![a] = MapThenSumSet(LAMBDA k : in[k].dims[a], DOMAIN in)],
             FlattenSeq([o \in 1 .. slabs |-> FlattenSeq([k \in DOMAIN in |->
               SubSeq(in[k].vals, (o - 1) * slab(k) + 1, o * slab(k))])]))

Parted(op, in, n) ==
  LET x == in[1]
      a == AxisOf(op.axis, Len(x.dims))
      sizes == IF Len(in) = 2 THEN [k \in DOMAIN in[2].vals |-> in[2].vals[k][1]]
               ELSE IF op.split # <<>> THEN op.split ELSE [k \in 1 .. n |-> x.dims[a] \div n]
  IN  [k \in DOMAIN sizes |-> Part(x, a, Start(sizes, k), sizes[k])]

(* The float functions of activations.py, among those Apply knows; a       *)
(* bounded one stands for the sigmoid.                                     *)
FnOf(type) ==
  CASE type = "Relu" -> "relu" [] type = "LeakyRelu" -> "leaky" [] type = "Sigmoid" -> "hardtanh"

Tails == {"Softmax", "LogSoftmax", "ArgMax"}

(* A classifier tail is left out: it keeps the order of the logits, and    *)
(* logits are what is compared.                                            *)
IsTail(g, node) ==
  node.op.type \in Tails \/ (node.op.type = "Sigmoid" /\ node.outs[1] = g.outputs[1])

Results(g, node, in) ==
  LET op == node.op  x == in[1] IN
  CASE IsTail(g, node) -> <<x>>
    [] op.type = "Gemm" -> <<Gemm(op, in)>>
    [] op.type = "MatMul" -> <<Gemm([transB |-> 0, alpha |-> Whole(1)], in)>>
    [] op.type = "Conv" -> <<Conv(op, in)>>
    [] op.type \in {"MaxPool", "AveragePool", "GlobalAveragePool"} -> <<PoolOn(op, x)>>
    [] op.type = "Add" -> <<IF Len(in[2].vals) <= Len(x.vals) THEN Summed(x, in[2])
                            ELSE Summed(in[2], x)>>
    [] op.type = "BatchNormalization" -> <<Normalized(op, in)>>
    [] op.type = "Concat" -> <<Joined(in, AxisOf(op.axis, Len(x.dims)))>>
    [] op.type = "Split" -> Parted(op, in, Len(node.outs))
    [] op.type = "Transpose" -> <<Permuted(x, Perm(op, Len(x.dims)))>>
    [] op.type \in {"Reshape", "Flatten"} -> <<Tensor(op.dims, x.vals)>>
    [] op.type = "Cast" -> <<IF op.to = "float" THEN x
                             ELSE Tensor(x.dims, [i \in DOMAIN x.vals |-> Whole(Floor(x.vals[i]))])>>
    [] OTHER -> <<Tensor(x.dims, [i \in DOMAIN x.vals |-> Apply(FnOf(op.type), x.vals[i])])>>

(* Every tensor on one row; \o has TLC evaluate the values once. *)
OnnxEnv(g, row) ==
  LET Extend(e, node, out) ==
        Bind(e, node.outs, [k \in DOMAIN out |-> Tensor(out[k].dims, out[k].vals \o <<>>)])
      Step(e, node) == Extend(e, node, Results(g, node, Operands(node, e)))
  IN  FoldLeft(Step, (g.inputs[1] :> Tensor(g.inDims, row)) @@ g.consts, g.nodes)

Expected(g, row) == OnnxEnv(g, row)[g.outputs[1]].vals
=============================================================================
