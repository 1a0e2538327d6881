----------------------------- MODULE MCMinimize -----------------------------
(***************************************************************************)
(* Small searches: two rounds over every knob, the weights of two layers,  *)
(* knobs in another order or twice, an unknown one, one round or none.     *)
(***************************************************************************)
EXTENDS Minimize

Plan(i, ws, m) == [inputBits |-> i, weightBits |-> ws, maxMultBits |-> m]

Args(start, knobs, rounds) == [start |-> start, knobs |-> knobs, maxRounds |-> rounds]

MCCalls ==
  {Args(Plan(3, <<3>>, 2), <<"max_mult_bits", "input_bits", "weight_bits">>, 2),
   Args(Plan(2, <<3, 3>>, 1), <<"weight_bits", "input_bits">>, 3),
   Args(Plan(4, <<2>>, 1), <<"input_bits", "weight_bits", "input_bits">>, 2),
   Args(Plan(3, <<1>>, 2), <<"weight_bits", "max_mult_bits">>, 1),
   Args(Plan(3, <<3>>, 2), <<"weight_bits">>, 0),
   Args(Plan(3, <<3>>, 2), <<"weights">>, 2)}

MCMinBits == [k \in Allowed |-> IF k = "max_mult_bits" THEN 1 ELSE 2]
=============================================================================
