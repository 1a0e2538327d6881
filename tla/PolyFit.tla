------------------------------- MODULE PolyFit -------------------------------
(***************************************************************************)
(* The polynomial half of crates/penumbra-ckks: what Requant, Activation,  *)
(* Argmax and Compare are replaced by (ops/polymap.rs, argmax.rs,          *)
(* compare.rs).  The minimax fit itself is the library's: a polynomial is  *)
(* anything within FitError of its target on the interval it was fitted    *)
(* on, of any of the degrees the library may settle on, and Unknown off    *)
(* that interval and in the padding.                                       *)
(***************************************************************************)
EXTENDS SlotMatrix

CONSTANTS Levels,          \* log_budget in units of log_delta
          MaxPolyDegree,   \* max_poly_degree
          Degrees,         \* bound: the degrees precision_at_depth settles on
          FitError         \* bound: the error of a fit, in 1/Unit

ASSUME FitAssumption ==
  Levels \in Nat /\ FitError \in Nat /\ MaxPolyDegree \in Nat /\ Degrees \subseteq 1 .. MaxPolyDegree

-----------------------------------------------------------------------------
(* A fit is a record kind, lo, hi, ... : the function a polynomial  *)
(* approximates and the interval it does so on.                            *)
BsgsDepth(degree) == CeilLog2(degree + 1)

MaxDepth == Larger(1, Levels)

FitDepths == {BsgsDepth(d) : d \in {d \in Degrees : BsgsDepth(d) <= MaxDepth}}

NextPowerOfTwo(n) == 2^CeilLog2(Larger(n, 1))

(* fit_requant: the interval covers what saturates the ramp, within caps. *)
RequantReach(op, ch) ==
  LET sat == Larger(512, NextPowerOfTwo((2^op.outBits * 2^ch.shift) \div Larger(ch.mult, 1)))
  IN  Larger(512, Smaller(sat, 2^13)) + 1

RequantFit(op, ch) ==
  [kind |-> "requant", lo |-> - RequantReach(op, ch) * Unit, hi |-> RequantReach(op, ch) * Unit,
   op |-> op, ch |-> ch]

(* An interpolated table is exact, but soon leaves it off its entries.     *)
TableFit(lut) == [kind |-> "table", lo |-> -Unit, hi |-> Len(lut) * Unit, lut |-> lut]

ArgmaxFit(op) ==
  [kind |-> "argmax", lo |-> -(2^15) * Unit, hi |-> 2^15 * Unit, threshold |-> op.threshold]

CompareFit(op) ==
  LET reach == 2^8 + Max({Magnitude(op.thresholds[i]) : i \in DOMAIN op.thresholds})
  IN  [kind |-> "compare", lo |-> - reach * Unit, hi |-> reach * Unit]

Clip(v, lo, hi) == Larger(lo, Smaller(hi, v))

(* Seeded fault: the ramp itself is fitted, without the floor's midpoint.  *)
RequantTargetNoMidpoint(op, ch, v) ==
  Clip(((Larger(v, op.clampLo * Unit) * ch.mult + ch.roundBias * Unit) \div 2^ch.shift)
         + op.zeroPoint * Unit,
       0, (2^op.outBits - 1) * Unit)

(* The middle of the step that the floor of the integer op makes. *)
RequantTarget(op, ch, v) ==
  LET scaled == 2 * (Larger(v, op.clampLo * Unit) * ch.mult + ch.roundBias * Unit)
                  - Unit * (2^ch.shift - 1)
  IN  Clip((scaled \div 2^(ch.shift + 1)) + op.zeroPoint * Unit, 0, (2^op.outBits - 1) * Unit)

(* lagrange_eval, over the common denominator of its terms. *)
LagrangeAt(lut, v) ==
  LET n == Len(lut)
      Others(i) == (0 .. n - 1) \ {i}
      Den(i) == ProductSet({i - j : j \in Others(i)})
      Fact == ProductSet(1 .. n - 1)
      Term(i) == lut[i + 1] * ProductSet({v - j * Unit : j \in Others(i)}) * (Fact \div Den(i))
  IN  MapThenSumSet(Term, 0 .. n - 1) \div (Fact * Unit^(n - 2))

(* A ramp from 0 to 1 of half-width tau = num/den around the origin. *)
StepAt(v, num, den) == Clip((Unit \div 2) + (v * den) \div (2 * num), 0, Unit)

Target(fit, v) ==
  CASE fit.kind = "requant" -> RequantTarget(fit.op, fit.ch, v)
    [] fit.kind = "table"   -> LagrangeAt(fit.lut, v)
    [] fit.kind = "argmax"  -> StepAt(v - fit.threshold * Unit, 8192, 5)
    [] fit.kind = "compare" -> StepAt(v + Unit \div 2, 9, 20)

(* eval_polymap on every slot; e is the error of the fit, slot by slot.    *)
PolyMap(fit, x, e, depth) ==
  Packed([i \in Slot |->
            IF i > x.len \/ x.slots[i] = Unknown THEN Unknown
            ELSE IF x.slots[i] \notin fit.lo .. fit.hi THEN Unknown
            ELSE Target(fit, x.slots[i]) + (IF fit.kind = "table" THEN 0 ELSE e[i])],
         x.len, x.spent + depth)

-----------------------------------------------------------------------------
(* is_identity_clamp: the table of an unfused Requant adds nothing to its  *)
(* ramp, and is left out.                                                  *)
IdentityClamp(op) == \A i \in DOMAIN op.lut : op.lut[i] = Smaller(i - 1, 2^op.outBits - 1)

AfterRequant(op, x) ==
  IF IdentityClamp(op) THEN x
  ELSE PolyMap(TableFit(op.lut), x, <<>>, BsgsDepth(Len(op.lut) - 1))

(* One polynomial per distinct channel, each masked to its channels' slots *)
(* and added up; depth is that of the deepest one.                         *)
PerChannel(op, x, e, depth) ==
  LET Branch(ch) == PolyMap(RequantFit(op, ch), x, e, depth)
  IN  Packed([i \in Slot |-> IF i <= op.channelSize * Len(op.channel)
                            THEN Branch(Channel(op, i)).slots[i] ELSE 0],
             x.len, x.spent + depth + 1)

CkksRequant(op, x, e, depth) ==
  AfterRequant(op, IF op.channelSize = 0 THEN PolyMap(RequantFit(op, op.channel[1]), x, e, depth)
                                         ELSE PerChannel(op, x, e, depth))

CkksCompare(op, x, e, depth) == PolyMap(CompareFit(op), MatVec(CompareMatrix(op), x), e, depth)
=============================================================================
