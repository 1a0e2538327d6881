----------------------------- MODULE MCCkksEval ------------------------------
(***************************************************************************)
(* Small models for CkksEval: four slots, giant steps of two, eight levels *)
(* where the default profile has eleven, fits of the least degree and of   *)
(* the default largest.                                                    *)
(***************************************************************************)
EXTENDS CkksEval, MCModels

Rows == {<<0, 3>>, <<3, 1>>, <<2, 2>>, <<1>>}

Sum2 == Lin(<<<<1, 1>>>>, <<0>>, 1)
Halve == Req(<<Chan(1, 1, 0)>>, 0, 0, 0, 2, Identity)
Quarter == Req(<<Chan(3, 2, 2)>>, 0, 0, 0, 2, Identity)
Table == Act(<<3, 2, 1, 0>>, 2)

(* Off the fitted intervals, over the number of slots, two per channel.    *)
Extremes ==
  {Lin(<<<<300, 0>>, <<0, -300>>>>, <<0, 1>>, 9),
   Lin(<<<<1, 0>>, <<0, 1>>, <<1, 1>>, <<1, 0>>, <<0, 1>>>>, <<0, 0, 0, 0, 0>>, 1),
   Req(<<Chan(1, 0, 0), Chan(2, 1, 0), Chan(1, 1, 0)>>, 2, 0, 0, 2, Identity),
   Req(<<Chan(1, 0, 0), Chan(1, 2, 0)>>, 1, 0, 0, 2, Identity),
   Compare(<<2, 2, 1>>, <<0, 3, -1>>)}

Some == Macs \cup Requants \cup {Table, Argmax(2), Split, Concat(2, 2), Add,
          Pool("avg", Map(1, 2, 2, 1, 1)), Pool("max", Map(1, 1, 2, 1, 0))}

(* Four ops that are charged all eight levels; fused, they need nine. *)
ShortTable ==
  Model(Chained(<<Lin(<<<<1, 1>>>>, <<0>>, 1), Req(<<Chan(1, 1, 0)>>, 1, 0, 0, 1, <<0, 1, 1, 1>>),
                  Act(<<1, 0>>, 1), Lin(<<<<1>>>>, <<0>>, 1)>>), 2)

CkksModels ==
  Chains(2, Some \cup Extremes, {2}) \cup {ShortTable} \cup
  {Model(Chained(ops), 2) : ops \in
     {<<a, b, c>> : a \in Macs, b \in {Halve, Quarter},
        c \in {Table, Halve, Sum2, Argmax(1), Compare(<<1>>, <<1>>), Add, Split, Concat(2, 2)}}}

(* A score and its threshold. *)
ArgmaxModels == {Model(Chained(<<Lin(<<<<1, 1>>>>, <<0>>, 1), Argmax(2)>>), 2)}
=============================================================================
