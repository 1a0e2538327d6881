---------------------------- MODULE MCGraphEval -----------------------------
(***************************************************************************)
(* Small models for GraphEval: what its runs put together from the ops of  *)
(* MCModels, and small ensembles of trees.                                 *)
(***************************************************************************)
EXTENDS OpTraits, TreeEval, MCModels

(* Every op after every op, at two and at three blocks; three in a row     *)
(* where the second widens what a Requant or a decision narrows.           *)
WidthModels ==
  Chains(2, Catalogue, {2, 3}) \cup
  {Model(Chained(<<a, b, c>>), nb) :
     a \in Macs, b \in {Add, Pool("avg", Map(1, 1, 2, 1, 0)), Split, Concat(2, 2)},
     c \in {Req(<<Chan(3, 2, 2)>>, 0, 0, 0, 2, Identity), Argmax(-1),
           Pool("max", Map(1, 1, 2, 1, 0))},
     nb \in {3, 4}}

-----------------------------------------------------------------------------
(* Chains of lookups behind one weighted sum, in every order of the node   *)
(* list; with the second tensor returned, or read once more by an Add, so  *)
(* that only some pairs may be fused; and a node that reads itself.        *)
Lookups == Tables \cup (Requants \ {Req(<<Chan(2, 0, 0)>>, 0, 0, 0, 2, Identity)})

Stem == Lin(<<<<1>>, <<3>>>>, <<-1, -2>>, 2)

Listed(ns, p) == [i \in DOMAIN ns |-> ns[p[i]]]

Trains ==
  {Listed(Chained(<<Stem, a, b, c>>), p) : a \in Lookups, b \in Lookups, c \in Tables,
     p \in {<<1, 2, 3, 4>>, <<4, 3, 2, 1>>, <<2, 4, 3, 1>>, <<3, 1, 4, 2>>}}

Forks ==
  {<<Chained(<<Stem, a, b>>)[1], Chained(<<Stem, a, b>>)[2], Chained(<<Stem, a, b>>)[3],
     [op |-> Add, ins |-> <<t3, r>>, outs |-> <<t4>>]>> :
     a \in Lookups, b \in Lookups, r \in {t1, t2, t3}}

Loops ==
  {<<[op |-> Stem, ins |-> <<t0>>, outs |-> <<t1>>],
     [op |-> a, ins |-> <<t2>>, outs |-> <<t2>>]>> : a \in Lookups}

Returning(ns, t, nb) == [Model(ns, nb) EXCEPT !.outputs = {t}, !.inputLen = 1]

FusionModels ==
  {Returning(ns, t4, 3) : ns \in Trains} \cup
  {Returning(ns, t, 4) : ns \in Forks, t \in {t2, t4}} \cup
  {Returning(ns, t2, 3) : ns \in Loops}

-----------------------------------------------------------------------------
(* Ensembles over two features of two bits, one with scale 1 and one with  *)
(* scale 1/2.  A stump; a path that asks for one feature twice, with a     *)
(* threshold below every value; a threshold no radix of the run could hold *)
(* unclipped; a leaf; a tree deep on the right.                            *)
TreeData == <<<<Whole(3), Whole(0)>>, <<Whole(1), <<3, 2>>>>>>

Test(j, t) == [feature |-> j, threshold |-> t]

Grown(split, leaf) == [split |-> split, leaf |-> leaf]

Tested ==
  {<<1 :> Test(1, Whole(1)), {2, 3}>>,
   <<1 :> Test(1, Whole(9)), {2, 3}>>,
   <<(1 :> Test(1, Whole(2))) @@ (2 :> Test(1, Whole(-1))), {4, 5, 3}>>,
   <<(1 :> Test(2, <<3, 4>>)) @@ (3 :> Test(1, <<3, 2>>)) @@ (7 :> Test(2, Whole(1))), {2, 6, 14, 15}>>,
   <<<<>>, {1}>>}

(* Weights of scikit-learn's leaves are counts; at one leaf nothing was    *)
(* counted.                                                                *)
Counts(i, classes) == [c \in 1 .. classes |-> Whole(IF i = 5 THEN 0 ELSE (i + c) % 3)]

SklearnTree(t, classes) == Grown(t[1], [i \in t[2] |-> Counts(i, classes)])
XgboostTree(t) == Grown(t[1], [i \in t[2] |-> <<((5 * i) % 7) - 3, 4>>])

Ensembles ==
  {[kind |-> "sklearn", trees |-> [k \in DOMAIN ts |-> SklearnTree(ts[k], classes)],
    classes |-> classes, base |-> Zero, data |-> TreeData, inputBits |-> 2, leafBits |-> 3] :
     ts \in [1 .. 2 -> Tested], classes \in {2, 3}} \cup
  {[kind |-> "xgboost", trees |-> [k \in DOMAIN ts |-> XgboostTree(ts[k])],
    classes |-> classes, base |-> <<1, 2>>, data |-> TreeData, inputBits |-> 2, leafBits |-> 2] :
     ts \in [1 .. 2 -> Tested], classes \in {2, 3}}

TreeModels == UNION {TreeModel(e) : e \in Ensembles}

MCModelsEvaluated == WidthModels \cup FusionModels \cup TreeModels

-----------------------------------------------------------------------------
(* Two ops whose widths fill the radix to its last bit. *)
BoundaryModels ==
  {Model(Chained(<<a, b>>), 2) : a \in {Add, Pool("avg", Map(1, 1, 2, 1, 0))}, b \in {Add} \cup Requants}
=============================================================================
