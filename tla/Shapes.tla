------------------------------- MODULE Shapes -------------------------------
(***************************************************************************)
(* Where a kernel or a pooling window reaches.  A feature map is a flat    *)
(* tensor, [channels][inH][inW], channel-major and row-major; a geometry g *)
(* is a record chans, inH, inW, kH, kW, stride, pad.  Every side of the    *)
(* code has its own copy of this index arithmetic:                         *)
(*   crates/penumbra-tfhe/src/ops/conv2d.rs, pool.rs   one flat output     *)
(*     index, taken apart into channel, row and column                     *)
(*   python/penumbra/reference.py                      nested loops        *)
(***************************************************************************)
EXTENDS Integers, SequencesExt

OutDim(in, k, stride, pad) == (in + 2 * pad - k) \div stride + 1

OutH(g) == OutDim(g.inH, g.kH, g.stride, g.pad)
OutW(g) == OutDim(g.inW, g.kW, g.stride, g.pad)
Plane(g) == OutH(g) * OutW(g)

InputLen(g) == g.chans * g.inH * g.inW

(* OpSpec::validate, for the shape alone. *)
ValidShape(g) ==
  /\ g.chans > 0 /\ g.inH > 0 /\ g.inW > 0
  /\ g.kH > 0 /\ g.kW > 0 /\ g.stride > 0
  /\ g.kH <= g.inH + 2 * g.pad /\ g.kW <= g.inW + 2 * g.pad

(* The kernel offsets that fall on a real input from output (oy, ox).      *)
Reached(g, oy, ox) ==
  {k \in (0 .. g.kH - 1) \X (0 .. g.kW - 1) :
     /\ oy * g.stride + k[1] - g.pad \in 0 .. g.inH - 1
     /\ ox * g.stride + k[2] - g.pad \in 0 .. g.inW - 1}

(* The flat position (from 1) of what offset k of channel c reads.         *)
InputAt(g, c, oy, ox, k) ==
  (c * g.inH + oy * g.stride + k[1] - g.pad) * g.inW + ox * g.stride + k[2] - g.pad + 1

(* The flat position (from 1) of its weight in a kernel row.               *)
WeightAt(g, c, k) == (c * g.kH + k[1]) * g.kW + k[2] + 1

(* The runtime: output r (from 1) of a map of planes. *)
PlaneOf(g, r) == (r - 1) \div Plane(g)
RowOf(g, r)   == ((r - 1) % Plane(g)) \div OutW(g)
ColOf(g, r)   == (r - 1) % OutW(g)

(* The oracle: every channel, row and column, in the order of its loops.   *)
Positions(channels, g) ==
  FlattenSeq([c \in 1 .. channels |->
    FlattenSeq([y \in 1 .. OutH(g) |->
      [x \in 1 .. OutW(g) |-> <<c - 1, y - 1, x - 1>>]])])
=============================================================================
