------------------------------ MODULE BitWidth ------------------------------
(***************************************************************************)
(* How wide a tensor may get and how many radix blocks it is given:        *)
(*   crates/penumbra-core/src/bitwidth.rs   growth rules and budget        *)
(*   crates/penumbra-tfhe/src/width.rs      blocks per tensor              *)
(*   python/penumbra/bitwidth.py            the compiler's copy            *)
(* A width is read in two ways: a tensor's `bits` bound its magnitude,     *)
(* |v| < 2^bits, while the rescale of a Requant and the capacity of the    *)
(* radix count the sign bit.                                               *)
(*                                                                         *)
(* An op is a record.  A Conv2d has one kernel, a Linear one weight row,   *)
(* per output channel; a Conv2d and a Pool carry their geometry (Shapes).  *)
(* A Requant's channel list has one entry, and channelSize 0, when it is   *)
(* not per channel.                                                        *)
(***************************************************************************)
EXTENDS Shapes

MessageBits == 2                  \* MESSAGE_BITS
Message == 0 .. 2^MessageBits - 1 \* what one block holds

Magnitude(v) == IF v < 0 THEN -v ELSE v

(* Bits of |v|, 0 for 0. *)
MagnitudeBits(v) ==
  CHOOSE k \in 0 .. Magnitude(v) :
    Magnitude(v) < 2^k /\ \A j \in 0 .. k-1 : 2^j <= Magnitude(v)

CeilLog2(n) == CHOOSE k \in 0 .. n : n <= 2^k /\ \A j \in 0 .. k-1 : 2^j < n

Capacity(nb) == nb * MessageBits

-----------------------------------------------------------------------------
(* Blocks, never fewer than one nor more than the model's num_blocks. *)
CeilDiv(a, b) == (a + b - 1) \div b

(* Seeded fault: the model's num_blocks is no limit. *)
ClampBelowOnly(n, cap) == Max({n, 1})

Clamp(n, cap) == Min({Max({n, 1}), cap})

(* Seeded fault: no room for the sign. *)
ValueBlocksUnsigned(bits, cap) == Clamp(CeilDiv(bits, MessageBits), cap)

ValueBlocks(bits, cap) == Clamp(CeilDiv(bits + 1, MessageBits), cap)

SignedBlocks(bits, cap) == Clamp(CeilDiv(bits, MessageBits), cap)

ScalarBlocks(v, cap) == ValueBlocks(MagnitudeBits(v), cap)

TensorBlocks(x, bits, cap) ==
  Max({Min({x[i].blocks, ValueBlocks(bits, cap)}) : i \in DOMAIN x})

-----------------------------------------------------------------------------
(* The number of input tensors an op takes, checked by every growth rule. *)
Arity(op) ==
  CASE op.type = "Add"    -> 2
    [] op.type = "Concat" -> Len(op.sizes)
    [] OTHER              -> 1

OutArity(op) == IF op.type = "Split" THEN Len(op.sizes) ELSE 1

MaxBits(in) == Max({in[i] : i \in DOMAIN in})

(* Seeded fault: a sum is as wide as its wider operand. *)
MaxBitsOfSum(in) == MaxBits(in)

SumBits(in) == MaxBits(in) + 1

(* The width of each output, from the widths of the inputs. *)
OutputBits(op, in) ==
  CASE op.type \in {"Linear", "Conv2d"} ->
         Max({in[1] + op.weightBits + CeilLog2(Len(op.weights[1]))}
               \cup {MagnitudeBits(op.bias[i]) : i \in DOMAIN op.bias}) + 2
    [] op.type \in {"Activation", "Requant"} -> op.outBits
    [] op.type = "Pool" ->
         in[1] + (IF op.mode = "avg" THEN CeilLog2(op.geom.kH * op.geom.kW) ELSE 0)
    [] op.type = "Add" -> SumBits(in)
    [] op.type \in {"Argmax", "Compare"} -> 1
    [] op.type \in {"Concat", "Split"} -> MaxBits(in)

(* The rescale's transient: the input's `bits` are taken as a signed width. *)
RequantInternalBits(bits, ch, clampLo) ==
  LET floorCap == IF bits >= 1 THEN 2^(bits-1) ELSE 0
      posMax   == IF bits >= 1 THEN floorCap - 1 ELSE 0
      negMag   == Min({Magnitude(clampLo), floorCap})
      peak     == Max({posMax * ch.mult + ch.roundBias, negMag * ch.mult})
  IN  Max({MagnitudeBits(peak) + 1, bits})

RequantPeakBits(op, bits) ==
  Max({RequantInternalBits(bits, op.channel[i], op.clampLo) : i \in DOMAIN op.channel})

InternalBits(op, in) ==
  IF op.type = "Requant" THEN RequantPeakBits(op, in[1]) ELSE OutputBits(op, in)

-----------------------------------------------------------------------------
(* The image of the floor, the least value a Requant can hand to its table. *)
FloorImage(op) ==
  Min({(op.clampLo * ch.mult + ch.roundBias) \div 2^ch.shift :
         ch \in {op.channel[i] : i \in DOMAIN op.channel}})

(* OpSpec::validate, without the ranges the encoding cannot leave. *)
ValidMac(op) ==
  /\ op.weights # <<>> /\ Len(op.weights) = Len(op.bias)
  /\ \A oc \in DOMAIN op.weights : Len(op.weights[oc]) = Len(op.weights[1])

ValidConv(op) ==
  /\ ValidMac(op) /\ ValidShape(op.geom)
  /\ Len(op.weights[1]) = op.geom.chans * op.geom.kH * op.geom.kW

ValidPool(op) ==
  ValidShape(op.geom) /\ op.geom.pad < op.geom.kH /\ op.geom.pad < op.geom.kW

ValidRequant(op) ==
  /\ Len(op.lut) = Cardinality(Message)
  /\ \A i \in DOMAIN op.lut : op.lut[i] \in Message
  /\ op.outBits <= MessageBits
  /\ op.clampLo <= 0
  /\ op.channel # <<>> /\ \A i \in DOMAIN op.channel : op.channel[i].mult >= 1
  /\ op.zeroPoint + FloorImage(op) >= 0

Valid(op) ==
  CASE op.type = "Linear" -> ValidMac(op)
    [] op.type = "Conv2d" -> ValidConv(op)
    [] op.type = "Pool" -> ValidPool(op)
    [] op.type = "Compare" ->
         op.thresholds # <<>> /\ Len(op.indices) = Len(op.thresholds)
    [] op.type = "Requant" -> ValidRequant(op)
    [] op.type \in {"Concat", "Split"} ->
         Len(op.sizes) >= 2 /\ \A i \in DOMAIN op.sizes : op.sizes[i] > 0
    [] OTHER -> TRUE
=============================================================================
