------------------------------- MODULE Trees --------------------------------
(***************************************************************************)
(* Decision trees as graphs (python/penumbra/adapters/trees.py): two       *)
(* comparisons with a weighted sum between and behind them.                *)
(*                                                                         *)
(* A tree is a pair of functions, split and leaf, from positions: 1 is the *)
(* root, 2i and 2i+1 are the left and the right child of i.  A split is    *)
(* [feature, threshold]; a leaf is, for scikit-learn, a weight per class,  *)
(* and for XGBoost a single value.  An ensemble is a record of its kind,   *)
(* trees, number of classes, base margin, calibration rows, and the        *)
(* options inputBits and leafBits; numbers are fractions (Quant).          *)
(***************************************************************************)
EXTENDS Quant, GraphWalk

Sklearn(e) == e.kind = "sklearn"

(* The parsers' walk: a node, all of its left, all of its right. *)
Preorder(tree) ==
  LET pre[i \in DOMAIN tree.split \cup DOMAIN tree.leaf] ==
        IF i \in DOMAIN tree.leaf THEN <<i>> ELSE <<i>> \o pre[2 * i] \o pre[2 * i + 1]
  IN  pre[1]

Splits(tree) == SelectSeq(Preorder(tree), LAMBDA i : i \in DOMAIN tree.split)
Leaves(tree) == SelectSeq(Preorder(tree), LAMBDA i : i \in DOMAIN tree.leaf)

(* What leaf i of tree number k adds to each class. *)
LeafValue(e, k, i) ==
  LET leaf  == e.trees[k].leaf[i]
      class == IF e.classes = 2 THEN 2 ELSE 1 + ((k - 1) % e.classes)
  IN  IF Sklearn(e)
      THEN LET all == Total(leaf) IN
           [c \in 1 .. e.classes |->
              IF Less(Zero, all) THEN Over(Over(leaf[c], all), Whole(Len(e.trees))) ELSE Zero]
      ELSE [c \in 1 .. e.classes |-> IF c = class THEN leaf ELSE Zero]

-----------------------------------------------------------------------------
(* _build_tree_graph.  Splits and leaves are numbered through all trees.   *)
InTrees(e, Of(_)) ==
  FlattenSeq([k \in DOMAIN e.trees |->
    [i \in DOMAIN Of(e.trees[k]) |-> <<k, Of(e.trees[k])[i]>>]])

AllSplits(e) == InTrees(e, Splits)
AllLeaves(e) == InTrees(e, Leaves)

SplitAt(e, s) == e.trees[s[1]].split[s[2]]

(* One scale per feature. *)
FeatureScale(e, j) == SymmetricScale({e.data[i][j] : i \in DOMAIN e.data}, e.inputBits, FALSE)

(* Seeded fault: both libraries go right on equality. *)
IntegerThresholdSame(e, split) ==
  LET steps == Over(split.threshold, FeatureScale(e, split.feature))
  IN  Clip(-Floor(Neg(steps)), 0, 2^e.inputBits)

(* The least code that goes right: above the threshold for scikit-learn,   *)
(* at or above it for XGBoost.                                             *)
IntegerThreshold(e, split) ==
  LET steps == Over(split.threshold, FeatureScale(e, split.feature))
  IN  Clip(IF Sklearn(e) THEN Floor(steps) + 1 ELSE -Floor(Neg(steps)), 0, 2^e.inputBits)

SplitCmp(e) ==
  LET all == AllSplits(e) IN
  [type |-> "Compare",
   indices |-> [g \in DOMAIN all |-> SplitAt(e, all[g]).feature],
   thresholds |-> [g \in DOMAIN all |-> IntegerThreshold(e, SplitAt(e, all[g]))]]

(* 1 if the way to leaf l goes right at split s, -1 if left, 0 if it does  *)
(* not come by.                                                            *)
Turn(l, s) ==
  LET below == CHOOSE d \in 0 .. l[2] : l[2] \div 2^d <= 2 * s[2] + 1
      child == l[2] \div 2^below
  IN  IF l[1] = s[1] /\ child \div 2 = s[2] THEN 2 * (child % 2) - 1 ELSE 0

Way(e, l) == LET all == AllSplits(e) IN [g \in DOMAIN all |-> Turn(l, all[g])]

Lefts(way) == Cardinality({g \in DOMAIN way : way[g] = -1})
Depth(way) == Cardinality({g \in DOMAIN way : way[g] # 0})

LeafScore(e) ==
  LET ways == [i \in DOMAIN AllLeaves(e) |-> Way(e, AllLeaves(e)[i])] IN
  [type |-> "Linear", weightBits |-> 1, weights |-> ways,
   bias |-> [i \in DOMAIN ways |-> Lefts(ways[i])]]

LeafSel(e) ==
  LET all == AllLeaves(e) IN
  [type |-> "Compare", indices |-> [i \in DOMAIN all |-> i],
   thresholds |-> [i \in DOMAIN all |-> Depth(Way(e, all[i]))]]

LeafScale(e) ==
  SymmetricScale(Values([i \in DOMAIN AllLeaves(e) |->
                           LeafValue(e, AllLeaves(e)[i][1], AllLeaves(e)[i][2])]),
                 e.leafBits, TRUE)

LeafCode(e, l, c) == Round(Over(LeafValue(e, l[1], l[2])[c], LeafScale(e)))

(* Only XGBoost's two-class models have a base margin. *)
BaseCode(e, c) ==
  IF ~ Sklearn(e) /\ e.classes = 2 /\ c = 2 THEN Round(Over(e.base, LeafScale(e))) ELSE 0

Logits(e) ==
  LET all == AllLeaves(e) IN
  [type |-> "Linear", weightBits |-> e.leafBits,
   weights |-> [c \in 1 .. e.classes |-> [i \in DOMAIN all |-> LeafCode(e, all[i], c)]],
   bias |-> [c \in 1 .. e.classes |-> BaseCode(e, c)]]

(* A set: empty if there is nothing to compare, or no scale for so few bits. *)
TreeModel(e) ==
  LET Node(op, in, out) == [op |-> op, ins |-> <<in>>, outs |-> <<out>>]
      provisional ==
        [nodes |-> <<Node(SplitCmp(e), "x", "split_bits"),
                     Node(LeafScore(e), "split_bits", "leaf_scores"),
                     Node(LeafSel(e), "leaf_scores", "leaf_onehot"),
                     Node(Logits(e), "leaf_onehot", "logits")>>,
         inputs |-> {"x"}, outputs |-> {"logits"}, inputBits |-> e.inputBits,
         inputLen |-> Len(e.data[1]), numBlocks |-> 2, ensemble |-> e]
  IN  IF AllSplits(e) = <<>> \/ ~ HasSpec(e.leafBits, TRUE) THEN {}
      ELSE {[provisional EXCEPT !.numBlocks = MinimalBlocks(provisional)]}

-----------------------------------------------------------------------------
(* What the library computes: down each tree, by its own rule.             *)
ReachedLeaf(e, tree, x) ==
  LET Right(s) == IF Sklearn(e) THEN Less(s.threshold, x[s.feature])
                  ELSE Leq(s.threshold, x[s.feature])
      from[i \in DOMAIN tree.split \cup DOMAIN tree.leaf] ==
        IF i \in DOMAIN tree.leaf THEN i
        ELSE from[IF Right(tree.split[i]) THEN 2 * i + 1 ELSE 2 * i]
  IN  from[1]

(* The logits a row of codes should get: one leaf per tree. *)
Votes(e, codes) ==
  LET x == [j \in DOMAIN codes |-> Times(Whole(codes[j]), FeatureScale(e, j))]
      leaf == [k \in DOMAIN e.trees |-> <<k, ReachedLeaf(e, e.trees[k], x)>>]
  IN  [c \in 1 .. e.classes |->
         FoldLeft(LAMBDA sum, l : sum + LeafCode(e, l, c), BaseCode(e, c), leaf)]
=============================================================================
