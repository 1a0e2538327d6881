------------------------------ MODULE MCModels -------------------------------
(***************************************************************************)
(* Small models, for every run that evaluates one.  Rows are two values of *)
(* two bits; every op of the IR is there, with the parameters that put its *)
(* widths, rounding, sign or table at an edge.                             *)
(***************************************************************************)
EXTENDS BitWidth, TLC

CONSTANTS t0, t1, t2, t3, t4, u1, u2, u3, u4      \* tensor names

T == <<t1, t2, t3, t4>>     \* T[i] is the first output of op i of a chain
U == <<u1, u2, u3, u4>>     \* U[i] its second, when the op is a Split

Lin(weights, bias, wb) == [type |-> "Linear", weights |-> weights, bias |-> bias,
                           weightBits |-> wb]
Conv(g, kernels, bias, wb) == [type |-> "Conv2d", geom |-> g, weights |-> kernels,
                               bias |-> bias, weightBits |-> wb]
Act(lut, ob)          == [type |-> "Activation", lut |-> lut, outBits |-> ob]
Chan(m, s, rb)        == [mult |-> m, shift |-> s, roundBias |-> rb]
Req(chs, size, lo, zp, ob, lut) ==
  [type |-> "Requant", channel |-> chs, channelSize |-> size, clampLo |-> lo,
   zeroPoint |-> zp, outBits |-> ob, lut |-> lut]
Pool(mode, g)         == [type |-> "Pool", mode |-> mode, geom |-> g]
Add                   == [type |-> "Add"]
Argmax(th)            == [type |-> "Argmax", threshold |-> th]
Compare(is, ths)      == [type |-> "Compare", indices |-> is, thresholds |-> ths]
Concat(a, b)          == [type |-> "Concat", sizes |-> <<a, b>>]
Split                 == [type |-> "Split", sizes |-> <<1, 1>>]

Identity == <<0, 1, 2, 3>>

(* Two values as a map of one channel or of two, under a kernel or window  *)
(* of kH by kW.                                                            *)
Map(chans, kH, kW, stride, pad) ==
  [chans |-> chans, inH |-> 1, inW |-> 2 \div chans, kH |-> kH, kW |-> kW,
   stride |-> stride, pad |-> pad]

(* Weighted sums: a shared weight and a negative one, a lone weight with a *)
(* bias wider than the sum, a padded kernel, two channels.                 *)
Macs ==
  {Lin(<<<<1, 1>>>>, <<0>>, 1),
   Lin(<<<<1, -1>>, <<-1, -1>>>>, <<0, 1>>, 1),
   Lin(<<<<3, 0>>, <<0, -3>>>>, <<-5, 12>>, 2),
   Conv(Map(1, 2, 2, 1, 1), <<<<1, 0, 2, 1>>>>, <<-1>>, 2),
   Conv(Map(2, 1, 1, 1, 0), <<<<1, 2>>, <<-2, 2>>>>, <<0, 3>>, 2)}

Requants ==
  {Req(<<Chan(1, 0, 0)>>, 0, 0, 0, 2, Identity),
   Req(<<Chan(2, 0, 0)>>, 0, 0, 0, 2, Identity),
   Req(<<Chan(3, 2, 2)>>, 0, 0, 0, 2, Identity),
   Req(<<Chan(1, 1, 0)>>, 0, 0, 0, 1, <<0, 1, 0, 0>>),
   Req(<<Chan(1, 0, 0)>>, 0, -2, 2, 2, Identity),
   Req(<<Chan(1, 0, 0), Chan(5, 2, 1)>>, 1, 0, 0, 2, Identity)}

Tables ==
  {Act(<<3, 2, 1, 0>>, 2), Act(<<0, 0, 1, 1>>, 1), Act(<<1, 3, 0, 2>>, 2)}

Others ==
  {Pool("avg", Map(1, 1, 2, 1, 0)), Pool("max", Map(1, 1, 2, 1, 0)),
   Pool("avg", Map(1, 2, 2, 1, 1)), Pool("max", Map(2, 2, 2, 1, 1)), Add, Argmax(2), Argmax(-1), Split,
   Compare(<<2, 1>>, <<1, 5>>), Concat(2, 2), Concat(1, 1)}

Catalogue == Macs \cup Requants \cup Tables \cup Others

(* Op i of a chain reads what op i-1 wrote; Add and Concat read it twice.  *)
Chained(ops) ==
  LET Source(i) == IF i = 1 THEN t0 ELSE T[i-1]
  IN  [i \in DOMAIN ops |->
         [op   |-> ops[i],
          ins  |-> IF Arity(ops[i]) = 2 THEN <<Source(i), Source(i)>> ELSE <<Source(i)>>,
          outs |-> IF ops[i].type = "Split" THEN <<T[i], U[i]>> ELSE <<T[i]>>]]

Model(ns, nb) ==
  [nodes |-> ns, inputs |-> {t0}, outputs |-> {T[Len(ns)]}, inputBits |-> 2, inputLen |-> 2,
   numBlocks |-> nb]

Chains(n, Ops, Blocks) ==
  {Model(Chained(ops), nb) : ops \in [1 .. n -> Ops], nb \in Blocks}
=============================================================================
