------------------------- MODULE MCRequantInsertion -------------------------
(***************************************************************************)
(* Small models for RequantInsertion: every way three ops can read each    *)
(* other, and short chains under every kind of calibration.                *)
(***************************************************************************)
EXTENDS RequantInsertion, TLC

CONSTANTS t0, t1, t2, t3

T == <<t1, t2, t3>>

Lin(weights, bias, wb) == [type |-> "Linear", weights |-> weights, bias |-> bias,
                           weightBits |-> wb]
Conv(g, kernels, bias, wb) == [type |-> "Conv2d", geom |-> g, weights |-> kernels,
                               bias |-> bias, weightBits |-> wb]
Chan(m, s, rb) == [mult |-> m, shift |-> s, roundBias |-> rb]
Halve == [type |-> "Requant", channel |-> <<Chan(1, 1, 0)>>, channelSize |-> 0,
          clampLo |-> 0, zeroPoint |-> 0, outBits |-> 2, lut |-> <<0, 1, 2, 3>>]
Add  == [type |-> "Add"]
Decision == [type |-> "Argmax", threshold |-> 2]
Table == [type |-> "Activation", lut |-> <<3, 0, 1, 2>>, outBits |-> 2]
Sum   == Lin(<<<<3>>>>, <<1>>, 2)
Negated == Lin(<<<<-1>>>>, <<9>>, 1)

Node(op, ins, out) == [op |-> op, ins |-> ins, outs |-> <<out>>]

Reading(op, seen) ==
  IF op.type = "Add" THEN {<<s, t>> : s \in seen, t \in seen} ELSE {<<t>> : t \in seen}

(* Every op reading anything earlier. *)
Wired(ops, n) ==
  UNION {{Node(op, ins, T[n]) : ins \in Reading(op, {t0} \cup {T[k] : k \in 1 .. n-1})} :
           op \in ops}

Graph(ns, outs, nb) ==
  [nodes |-> ns, inputs |-> {t0}, outputs |-> outs, inputBits |-> 2, numBlocks |-> nb]

NoCalibration ==
  [shifts |-> <<>>, mults |-> <<>>, roundBiases |-> <<>>, clampLos |-> <<>>,
   zeroPoints |-> <<>>, perChannel |-> <<>>]

Case(g, calib, outBits, n) == [graph |-> g, calib |-> calib, outBits |-> outBits, rowLength |-> n]

(* Layers in the order of the list, and with the last one listed first.    *)
Listings(ns) == {ns, <<ns[3], ns[1], ns[2]>>}

Networks ==
  {Case(Graph(l, outs, nb), NoCalibration, 2, 1) :
     l \in UNION {Listings(<<a, b, c>>) :
             a \in Wired({Sum, Negated, Halve, Add}, 1),
             b \in Wired({Sum, Negated, Decision, Add, Halve}, 2),
             c \in Wired({Sum, Decision, Add, Table, Halve}, 3)},
     outs \in {{t3}, {t1, t3}}, nb \in {3, 64}}

(* Two layers and a table behind them, under a calibration of the first.   *)
Calibrations ==
  {[shifts |-> s, mults |-> m, roundBiases |-> rb, clampLos |-> lo, zeroPoints |-> zp,
    perChannel |-> pc] :
     s \in {<<>>, t1 :> 0, t1 :> 2}, m \in {<<>>, t1 :> 5}, rb \in {<<>>, t1 :> 3},
     lo \in {<<>>, t1 :> -2}, zp \in {<<>>, t1 :> 1, t1 :> 2},
     pc \in {<<>>, t1 :> <<Chan(3, 2, 1)>>, t1 :> <<Chan(1, 0, 0), Chan(2, 2, 0)>>}}

Calibrated2 ==
  {Case(Graph(<<Node(first, <<t0>>, t1), Node(second, <<t1>>, t2), Node(Table, <<t2>>, t3)>>,
              {t3}, nb), calib, ob, 1) :
     first \in {Sum, Negated}, second \in {Sum, Table}, calib \in Calibrations,
     ob \in {1, 2}, nb \in {4, 64}}

(* A convolution of one channel into two, with and without padding and     *)
(* stride, in front of a table.                                            *)
Geometries ==
  {[chans |-> 1, inH |-> h, inW |-> 2, kH |-> h, kW |-> 2, stride |-> s, pad |-> p] :
     h \in {1, 2}, s \in {1, 2}, p \in {0, 1}}

Convolved ==
  {Case(Graph(<<Node(Conv(g, [oc \in {1, 2} |-> [w \in 1 .. 2 * g.kH |-> oc * w - 2]], <<1, -1>>, 3),
                     <<t0>>, t1),
                Node(Table, <<t1>>, t2)>>, {t2}, 64),
        [NoCalibration EXCEPT !.perChannel = pc], 2, 2 * g.inH) :
     g \in Geometries,
     pc \in {<<>>, t1 :> <<Chan(1, 1, 0), Chan(3, 2, 1)>>, t1 :> <<Chan(1, 1, 0)>>}}

(* A tensor that has the narrowed tensor's name already; a read nobody     *)
(* defines; a cycle.                                                       *)
Odd ==
  {Case(Graph(ns, {t3}, 64), NoCalibration, 2, 1) :
     ns \in {<<Node(Sum, <<t0>>, t1), Node(Table, <<t0>>, Rq(t1)), Node(Table, <<t1>>, t3)>>,
             <<Node(Sum, <<t0>>, t1), Node(Table, <<t2>>, t3)>>,
             <<Node(Sum, <<t2>>, t1), Node(Sum, <<t1>>, t2), Node(Sum, <<t0>>, t3)>>}}

MCCases == Networks \cup Calibrated2 \cup Convolved \cup Odd
=============================================================================
