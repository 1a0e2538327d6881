-------------------------- MODULE MCModelQuantize ---------------------------
(***************************************************************************)
(* Small float models for QuantizationError, with the cases of             *)
(* MCRequantInsertion beside them.                                         *)
(***************************************************************************)
EXTENDS QuantizationError, MCRequantInsertion

CONSTANTS t4, t5, t6, t7

Chain == <<t1, t2, t3, t4, t5, t6, t7>>

Q(n, d) == Frac(n, d)

(* Two inputs of two bits, and what a model sees of them. *)
Data == <<<<Whole(3), Q(1, 2)>>, <<Whole(0), Whole(2)>>>>

FLin(w, b) == [type |-> "Linear", weight |-> w, bias |-> b]
FConvOf(g, w, b) == [type |-> "Conv2d", geom |-> g, weight |-> w, bias |-> b]
FPoolOf(mode, g) == [type |-> "Pool", mode |-> mode, geom |-> g]
FAct(fn) == [type |-> "Activation", fn |-> fn]
FAdd == [type |-> "Add"]
FConcat == [type |-> "Concat"]
FSplit == [type |-> "Split", sizes |-> <<1, 1>>]

FNode(layer, ins, outs) == [layer |-> layer, ins |-> ins, outs |-> outs]

Straight(layers) ==
  [i \in DOMAIN layers |->
     FNode(layers[i], <<IF i = 1 THEN t0 ELSE Chain[i - 1]>>, <<Chain[i]>>)]

FModel(nodes, out, bits, actBits, perChannel, mb) ==
  [nodes |-> nodes, input |-> t0, output |-> out, inputBits |-> 2, data |-> Data,
   bits |-> bits, actBits |-> actBits, perChannel |-> perChannel, maxMultBits |-> mb]

Mixed == FLin(<<<<Whole(1), Q(1, 2)>>, <<Q(-1, 2), Q(3, 2)>>>>, <<Q(1, 2), Q(-1, 1)>>)
Small == FLin(<<<<Whole(1), Whole(-1)>>, <<Q(1, 4), Q(1, 4)>>>>, <<Q(0, 1), Q(1, 2)>>)
Lone  == FLin(<<<<Q(1, 2), Whole(-1)>>>>, <<Whole(1)>>)

Behind(fns) ==
  {FModel(Straight(<<ends[1], FAct(fn), ends[2]>>), t3, <<b, b>>, ab, pc, mb) :
     ends \in {<<Mixed, Small>>, <<Small, Lone>>}, fn \in fns, b \in {2, 3},
     ab \in {1, 2}, pc \in BOOLEAN, mb \in {1, 3}}

(* A map of one channel and one row; kernels over both of its values, over  *)
(* one, and over a padded neighbourhood.                                   *)
Pair(kW, pad) == [chans |-> 1, inH |-> 1, inW |-> 2, kH |-> 1, kW |-> kW, stride |-> 1, pad |-> pad]
Single == Pair(1, 0)
Padded == [Pair(3, 1) EXCEPT !.kH = 3]

Kernel(g, w) == FConvOf(g, [oc \in DOMAIN w |-> w[oc]], [oc \in DOMAIN w |-> Q(1, 2)])

(* A convolution of one or of two channels, a pool or another convolution  *)
(* behind it.                                                              *)
Mapped ==
  {Straight(<<Kernel(Single, <<<<Whole(1)>>>>), FAct("relu"), FPoolOf(mode, Pair(2, 0)),
              FLin(<<<<Q(3, 2)>>>>, <<Whole(-1)>>)>>) : mode \in {"avg", "max"}} \cup
  {Straight(<<Kernel(Single, <<<<Whole(1)>>, <<Q(-1, 2)>>>>), FAct("relu"),
              FPoolOf("avg", [Pair(2, 0) EXCEPT !.chans = 2]), Lone>>)} \cup
  {Straight(<<FPoolOf("avg", Pair(2, 0)), FLin(<<<<Whole(1)>>>>, <<Q(-1, 2)>>), FAct("relu"),
              FLin(<<<<Whole(2)>>>>, <<Whole(0)>>)>>)} \cup
  {Straight(<<Kernel(Single, <<<<Q(-1, 2)>>>>), FAct(fn),
              Kernel(Padded, <<[i \in 1 .. 9 |-> Q(1 + (i % 3), 2)]>>), FAct("relu"), Lone>>) :
     fn \in {"relu", "leaky"}}

(* A skip over a layer, added or concatenated; one half of a split that is *)
(* worked on, and merged with the other.                                   *)
Skips ==
  {<<FNode(Mixed, <<t0>>, <<t1>>), FNode(FAct("relu"), <<t1>>, <<t2>>),
     FNode(Small, <<t2>>, <<t3>>), FNode(FAct("relu"), <<t3>>, <<t4>>),
     FNode(FAdd, <<t2, t4>>, <<t5>>), FNode(Lone, <<t5>>, <<t6>>)>>,
   <<FNode(Mixed, <<t0>>, <<t1>>), FNode(FAct("relu"), <<t1>>, <<t2>>),
     FNode(FLin(<<<<Q(1, 2), Whole(-1)>>>>, <<Whole(1)>>), <<t2>>, <<t3>>),
     FNode(FAct("relu"), <<t3>>, <<t4>>), FNode(FConcat, <<t4, t2>>, <<t5>>),
     FNode(FLin(<<<<Whole(1), Q(-1, 2), Whole(-1)>>>>, <<Whole(0)>>), <<t5>>, <<t6>>)>>}

Halves ==
  {<<FNode(Mixed, <<t0>>, <<t1>>), FNode(FAct("relu"), <<t1>>, <<t2>>),
     FNode(FSplit, <<t2>>, <<t3, t4>>),
     FNode(FLin(<<<<Whole(2)>>>>, <<Q(-1, 2)>>), <<t3>>, <<t5>>),
     FNode(FAct("relu"), <<t5>>, <<t6>>), FNode(merge, <<t6, t4>>, <<t7>>)>> :
     merge \in {FAdd, FConcat}}

(* A half of the raw input: it has a scale of its own. *)
RawHalf ==
  <<FNode(FSplit, <<t0>>, <<t1, t2>>), FNode(FLin(<<<<Whole(2)>>>>, <<Whole(0)>>), <<t1>>, <<t3>>),
    FNode(FAct("relu"), <<t3>>, <<t4>>), FNode(FAdd, <<t4, t2>>, <<t5>>)>>

Wirings ==
  {<<ns, Last(ns).outs[1]>> : ns \in Mapped \cup Skips \cup Halves \cup {RawHalf}}

FloatModels ==
  Behind({"relu", "leaky", "hardtanh"}) \cup
  {FModel(w[1], w[2], [i \in 1 .. 3 |-> b], 2, pc, 3) : w \in Wirings, b \in {2, 3}, pc \in BOOLEAN}

MCAllCases == MCCases \cup UNION {Compiled(m) : m \in FloatModels}
=============================================================================
