------------------------------- MODULE Quant --------------------------------
(***************************************************************************)
(* The quantization service (python/penumbra/quantization): scales, the    *)
(* integers of weights and biases, the multiplier and shift that stand for *)
(* a ratio of scales, and the tables of affine activations.  The floats of *)
(* the code are exact fractions <<n, d>> in lowest terms, d > 0; ties and  *)
(* logarithms are therefore decided without floating-point error.          *)
(***************************************************************************)
EXTENDS BitWidth

gcd[a \in Nat, b \in Nat] == IF b = 0 THEN a ELSE gcd[b, a % b]

Frac(n, d) == LET g == gcd[Magnitude(n), d] IN <<n \div g, d \div g>>

Whole(n) == <<n, 1>>
Zero == Whole(0)

Plus(p, q)  == Frac(p[1] * q[2] + q[1] * p[2], p[2] * q[2])
Times(p, q) == LET a == Frac(p[1], q[2])  b == Frac(q[1], p[2])
               IN  <<a[1] * b[1], a[2] * b[2]>>
Neg(p)      == <<-p[1], p[2]>>
Minus(p, q) == Plus(p, Neg(q))
Inv(p)      == IF p[1] > 0 THEN <<p[2], p[1]>> ELSE <<-p[2], -p[1]>>
Over(p, q)  == Times(p, Inv(q))
Abs(p)      == <<Magnitude(p[1]), p[2]>>
Leq(p, q)   == p[1] * q[2] <= q[1] * p[2]
Less(p, q)  == ~ Leq(q, p)

Greatest(S) == CHOOSE p \in S : \A q \in S : Leq(q, p)
Least(S)    == CHOOSE p \in S : \A q \in S : Leq(p, q)
Total(s)    == FoldSeq(Plus, Zero, s)

Floor(p) == p[1] \div p[2]

(* np.round and round: to nearest, halves to even. *)
Round(p) ==
  LET up == (2 * p[1] + p[2]) \div (2 * p[2])
  IN  IF (2 * p[1] + p[2]) % (2 * p[2]) = 0 /\ up % 2 = 1 THEN up - 1 ELSE up

Clip(v, lo, hi) == IF v < lo THEN lo ELSE IF v > hi THEN hi ELSE v

-----------------------------------------------------------------------------
(* spec.py: the symmetric scale of a set of values.                        *)
Edge(bits, signed) == IF signed THEN 2^(bits - 1) - 1 ELSE 2^bits - 1

QMin(bits, signed) == IF signed THEN -(2^(bits - 1)) ELSE 0

HasSpec(bits, signed) == bits > 0 /\ Edge(bits, signed) > 0

SymmetricScale(values, bits, signed) ==
  LET peak == Greatest({Abs(v) : v \in values} \cup {Zero})
  IN  IF Less(Zero, peak) THEN Over(peak, Whole(Edge(bits, signed))) ELSE Whole(1)

QuantizeValue(v, scale, bits, signed) ==
  Clip(Round(Over(v, scale)), QMin(bits, signed), Edge(bits, signed))

-----------------------------------------------------------------------------
(* ptq.py: weights, row by row, and biases in the accumulator's units.     *)
Values(rows) == UNION {{rows[r][j] : j \in DOMAIN rows[r]} : r \in DOMAIN rows}

(* One scale for every row, or one for each. *)
WeightScales(w, bits, perChannel) ==
  [r \in DOMAIN w |->
     SymmetricScale(IF perChannel THEN {w[r][j] : j \in DOMAIN w[r]} ELSE Values(w), bits, TRUE)]

QuantizedWeights(w, bits, scales) ==
  [r \in DOMAIN w |-> [j \in DOMAIN w[r] |-> QuantizeValue(w[r][j], scales[r], bits, TRUE)]]

(* Seeded fault: the zero point of the input is left out. *)
EffectiveBiasAlone(w, b, inScale, zp) == b

(* The input's zero point folds into the bias. *)
EffectiveBias(w, b, inScale, zp) ==
  [r \in DOMAIN w |-> Minus(b[r], Times(Times(inScale, Whole(zp)), Total(w[r])))]

QuantizedBias(w, b, inScale, zp, scales) ==
  LET eff == EffectiveBias(w, b, inScale, zp)
  IN  [r \in DOMAIN w |-> Round(Over(eff[r], Times(inScale, scales[r])))]

-----------------------------------------------------------------------------
(* choose_requant_params.                                                  *)

(* round(log2(p)): 2^(k-1/2) < p < 2^(k+1/2); no fraction is on the edge.   *)
(* The models' ratios are within 2^12.                                     *)
TwoTo(k) == IF k >= 0 THEN Whole(2^k) ELSE <<1, 2^(-k)>>

RoundLog2(p) ==
  LET Near(k, rest) == IF Less(Whole(2), Times(rest, rest)) THEN k + 1 ELSE k
      From(k) == Near(k, Over(p, TwoTo(k)))
  IN  From(CHOOSE j \in -12 .. 12 : Leq(TwoTo(j), p) /\ Less(p, TwoTo(j + 1)))

(* How far mult / 2^shift is from the ratio; _err times the ratio, times its *)
(* denominator, which are the same for all that are compared.              *)
Distance(mult, shift, ratio) ==
  <<Magnitude(mult * ratio[2] - ratio[1] * 2^shift), 2^shift>>

HasRequant(accScale, outScale) ==
  Less(Zero, accScale) /\ Less(Zero, outScale) /\ Leq(accScale, outScale)

(* The first of the closest multipliers, each with the shift that brings  *)
(* it closest; one whose shift would amplify is out, but for 1.            *)
ShiftFor(m, ratio) ==
  LET nearest == RoundLog2(Over(Whole(m), ratio)) IN IF m = 1 THEN Max({0, nearest}) ELSE nearest

Closest(ratio, b) ==
  LET pairs == {p \in {<<m, ShiftFor(m, ratio)>> : m \in 1 .. 2^b - 1} : p[2] >= 0}
      Nearer(p, q) == Leq(Distance(p[1], p[2], ratio), Distance(q[1], q[2], ratio))
  IN  CHOOSE p \in pairs : \A q \in pairs : Nearer(p, q) /\ (Nearer(q, p) => p[1] <= q[1])

RequantParams(accScale, outScale, maxMultBits) ==
  LET Params(c) == [mult |-> c[1], shift |-> c[2], roundBias |-> IF c[2] > 0 THEN 2^(c[2] - 1) ELSE 0]
  IN  Params(Closest(Over(accScale, outScale), maxMultBits))

-----------------------------------------------------------------------------
(* lut.py: the codomain and the table of an activation over affine codes.  *)

(* The float functions a user's model may hold, by name. *)
Relu(p) == Greatest({p, Zero})

Apply(fn, p) ==
  CASE fn = "relu"     -> Relu(p)
    [] fn = "leaky"    -> Greatest({p, Over(p, Whole(2))})
    [] fn = "hardtanh" -> Least({Whole(1), Greatest({Whole(-1), p})})

LutOutputBits(lut) ==
  Max({1} \cup {MagnitudeBits(lut[i]) : i \in DOMAIN lut})

Codomain(fn, inScale, inZp, actBits) ==
  LET top == 2^actBits - 1
      Affine(lo, scale) == [scale |-> scale, zp |-> Clip(Round(Over(Neg(lo), scale)), 0, top)]
      Between(lo, hi) == IF hi = lo THEN [scale |-> Whole(1), zp |-> 0]
                         ELSE Affine(lo, Over(Minus(hi, lo), Whole(top)))
      Spanning(ys) == Between(Least(ys), Greatest(ys))
  IN  Spanning({Apply(fn, Times(Whole(v - inZp), inScale)) : v \in 0 .. top} \cup {Zero})

AffineLut(fn, inScale, inZp, out, outBits) ==
  [i \in 1 .. 2^MessageBits |->
     Clip(Round(Over(Apply(fn, Times(Whole(i - 1 - inZp), inScale)), out.scale)) + out.zp,
          0, 2^outBits - 1)]
=============================================================================
