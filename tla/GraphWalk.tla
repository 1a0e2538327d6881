----------------------------- MODULE GraphWalk ------------------------------
(***************************************************************************)
(* What a node list means to everyone who walks it: the order the sort     *)
(* gives, the width of every tensor, the two budget checks, and the values *)
(* of the integer reference.  A model is a record with nodes, inputs,      *)
(* outputs, inputBits and numBlocks; a node is [op, ins, outs].            *)
(***************************************************************************)
EXTENDS Ops

HasLists(n) ==
  /\ n = [op |-> n.op, ins |-> n.ins, outs |-> n.outs]
  /\ n.ins \in Seq(ToSet(n.ins)) /\ n.outs \in Seq(ToSet(n.outs))

(* A node, with the fields a table lookup is rewritten with. *)
IsNode(n) ==
  /\ HasLists(n)
  /\ "type" \in DOMAIN n.op
  /\ n.op.type \in {"Activation", "Requant"} =>
       {"outBits", "lut"} \subseteq DOMAIN n.op /\ n.op.lut \in Seq(Nat)
  /\ n.op.type = "Requant" => {"clampLo", "zeroPoint", "channel"} \subseteq DOMAIN n.op

(* Integers of a magnitude below 2^bits. *)
Below(x, bits) == x \in Seq(Int) /\ \A i \in DOMAIN x : Magnitude(x[i]) < 2^bits

(* The ops of the intermediate representation. *)
OpTypes == {"Linear", "Conv2d", "Activation", "Requant", "Pool", "Add", "Argmax", "Compare",
            "Concat", "Split"}

(* What the compiler makes an op declare: its fields have the types OpSpec *)
(* gives them, the weights are within weightBits (QuantSpec.quantize clips *)
(* them) and a table's entries within outBits.  Op::output_bits asserts    *)
(* the last, but an evaluation never asks it: it and the budget check take *)
(* the declared width as it is (bitwidth.rs:83), so a graph from elsewhere *)
(* may declare less than its table holds, and is none of these models.     *)
Declared(op) ==
  /\ op.type \in OpTypes
  /\ op.type \in {"Linear", "Conv2d"} =>
       /\ op.weightBits \in Nat /\ op.bias \in Seq(Int)
       /\ op.weights \in Seq(Seq(Int))
       /\ \A r \in DOMAIN op.weights : Below(op.weights[r], op.weightBits)
  /\ op.type \in {"Conv2d", "Pool"} =>
       op.geom \in [chans : Nat, inH : Nat, inW : Nat, kH : Nat, kW : Nat, stride : Nat, pad : Nat]
  /\ op.type \in {"Activation", "Requant"} =>
       op.outBits \in Nat /\ op.lut \in Seq(Nat) /\ Below(op.lut, op.outBits)
  /\ op.type = "Requant" =>
       /\ op.channel \in Seq([mult : Nat, shift : Nat, roundBias : Nat])
       /\ op.channelSize \in Nat /\ op.clampLo \in Int /\ op.zeroPoint \in Nat
  /\ op.type = "Argmax" => op.threshold \in Int
  /\ op.type = "Compare" => op.indices \in Seq(Nat) /\ op.thresholds \in Seq(Int)
  /\ op.type \in {"Concat", "Split"} => op.sizes \in Seq(Nat)

IsNodeList(ns) == ns \in Seq(ToSet(ns)) /\ \A i \in DOMAIN ns : IsNode(ns[i])

Producers(ns, i) == {p \in DOMAIN ns : ToSet(ns[p].outs) \cap ToSet(ns[i].ins) # {}}

(* The nodes that can come next: not out yet, their producers all out. *)
Ready(ns, o) == {i \in DOMAIN ns \ ToSet(o) : Producers(ns, i) \subseteq ToSet(o)}

(* The order TopoOrder computes: again and again the first ready node of   *)
(* the list; shorter than the list on a cycle.                             *)
StableOrder(ns) ==
  LET order[k \in 0 .. Len(ns)] ==
        IF k = 0 THEN <<>>
        ELSE LET o == order[k-1]
             IN  IF Ready(ns, o) = {} THEN o ELSE Append(o, Min(Ready(ns, o)))
  IN  order[Len(ns)]

Written(ns) == UNION {ToSet(ns[i].outs) : i \in DOMAIN ns}

(* What topological_order accepts. *)
Sortable(ns, inputs) ==
  /\ \A i \in DOMAIN ns : ToSet(ns[i].ins) \subseteq inputs \cup Written(ns)
  /\ \A i \in DOMAIN ns :
       /\ IsInjective(ns[i].outs)
       /\ ToSet(ns[i].outs) \cap inputs = {}
       /\ \A j \in DOMAIN ns \ {i} : ToSet(ns[i].outs) \cap ToSet(ns[j].outs) = {}
  /\ Len(StableOrder(ns)) = Len(ns)

Matched(node) == Len(node.ins) = Arity(node.op) /\ Len(node.outs) = OutArity(node.op)

(* propagate_bit_widths returns widths exactly on these node lists. *)
Propagates(ns, inputs) ==
  /\ Sortable(ns, inputs)
  /\ \A i \in DOMAIN ns : Valid(ns[i].op) /\ Matched(ns[i])

PlaceOf(names, t) == CHOOSE k \in DOMAIN names : names[k] = t

(* The environment e with a node's outputs bound to values. *)
Bind(e, names, values) ==
  [t \in DOMAIN e \cup ToSet(names) |->
     IF t \in ToSet(names) THEN values[PlaceOf(names, t)] ELSE e[t]]

Operands(node, e) == [k \in DOMAIN node.ins |-> e[node.ins[k]]]

OutWidths(node, w) == [k \in DOMAIN node.outs |-> OutputBits(node.op, Operands(node, w))]

InputWidths(m) == [t \in m.inputs |-> m.inputBits]

Widths(ns, m) ==
  LET order == StableOrder(ns)
      widths[k \in 0 .. Len(order)] ==
        IF k = 0 THEN InputWidths(m)
        ELSE LET w == widths[k-1]  node == ns[order[k]]
             IN  Bind(w, node.outs, OutWidths(node, w))
  IN  widths[Len(order)]

(* check_graph_bit_width_budget. *)
BudgetOK(m) ==
  /\ Propagates(m.nodes, m.inputs)
  /\ LET w   == Widths(m.nodes, m)
         cap == Capacity(m.numBlocks)
     IN  \A i \in DOMAIN m.nodes :
           /\ \A k \in DOMAIN m.nodes[i].outs : w[m.nodes[i].outs[k]] <= cap
           /\ InternalBits(m.nodes[i].op, Operands(m.nodes[i], w)) <= cap

(* Seeded fault: the compiler's check is no more than the runtime's. *)
PyBudgetWithoutTables(m) == BudgetOK(m)

(* The compiler's copy of the check also refuses a table lookup on a wide  *)
(* tensor (python/penumbra/bitwidth.py).                                   *)
PyBudgetOK(m) ==
  /\ BudgetOK(m)
  /\ \A i \in DOMAIN m.nodes :
       m.nodes[i].op.type = "Activation" =>
         Widths(m.nodes, m)[m.nodes[i].ins[1]] <= MessageBits

(* Seeded fault: the transient of a rescale is not counted. *)
MinimalBlocksOfWidths(m) ==
  LET w == Widths(m.nodes, m)
  IN  Larger(2, CeilDiv(MaxBits(w), MessageBits))

(* minimal_num_blocks: the least radix for all of it. *)
MinimalBlocks(m) ==
  LET w     == Widths(m.nodes, m)
      held  == {w[t] : t \in DOMAIN w}
      peaks == {InternalBits(m.nodes[i].op, Operands(m.nodes[i], w)) : i \in DOMAIN m.nodes}
  IN  Larger(2, CeilDiv(Max({0} \cup held \cup peaks), MessageBits))

-----------------------------------------------------------------------------
(* The oracle: evaluate_graph_int, as far as it is defined.                *)
RefKnown(node, e) ==
  ToSet(node.ins) \subseteq DOMAIN e /\ RefDefined(node.op, Operands(node, e))

RefBind(node, e) ==
  IF RefKnown(node, e) THEN Bind(e, node.outs, RefEval(node.op, Operands(node, e))) ELSE e

RefEnv(ns, m, x) ==
  LET order == StableOrder(ns)
      env[k \in 0 .. Len(order)] ==
        IF k = 0 THEN [t \in m.inputs |-> x] ELSE RefBind(ns[order[k]], env[k-1])
  IN  env[Len(order)]

Clear(cts) == [i \in DOMAIN cts |-> cts[i].v]
=============================================================================
