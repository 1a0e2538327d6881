---------------------------- MODULE MCTopoOrder -----------------------------
EXTENDS TopoOrder

CONSTANTS x, a, b, c, d      \* tensor names: x is the graph input

MCTensor == {x, a, b, c, d}

Out == <<a, b, c, d>>

(* The graphs on n nodes, node i writing the i-th name, whose node i reads *)
(* the input and any set of names in May(n, i).                            *)
WellNamed(n, May(_, _)) ==
  {g \in [n : {n}, inputs : {{x}},
          reads : [0 .. n-1 -> {{x} \cup S : S \in SUBSET {Out[k] : k \in 1 .. n}}],
          writes : {[i \in 0 .. n-1 |-> <<Out[i+1]>>]}] :
     \A i \in 0 .. n-1 : g.reads[i] \subseteq {x} \cup May(n, i)}

Any(n, i) == {Out[k] : k \in 1 .. n}
NotItself(n, i) == {Out[k] : k \in (1 .. n) \ {i+1}}

(* Every dependency relation on at most three nodes, and every one without *)
(* a self-dependency on four.                                              *)
DependencyGraphs ==
  UNION {WellNamed(n, Any) : n \in 0 .. 3} \cup WellNamed(4, NotItself)

(* Three nodes whose names may be wrong in every way: a read nobody        *)
(* defines, a graph input overwritten, a name written by two nodes or      *)
(* twice by one node, and nodes with no output or with two.                *)
Misnamed ==
  [n : {3}, inputs : {{x}, {x, d}},
   reads : [0 .. 2 -> {{x}, {a}, {b}, {a, b}, {d}, {x, c}}],
   writes : [0 .. 2 -> {<<>>, <<a>>, <<b>>, <<a, b>>, <<c, c>>, <<x>>}]]

EveryGraph == DependencyGraphs \cup Misnamed
=============================================================================
