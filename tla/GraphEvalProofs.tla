--------------------------- MODULE GraphEvalProofs ---------------------------
(***************************************************************************)
(* Fusing and walking a graph, for every graph: the fusion loop ends below *)
(* its cap, what it leaves can be sorted and its widths propagated, the    *)
(* walk finds every operand and its width, each width it derives holds the *)
(* value the integer oracle has for that tensor, a rewrite changes no      *)
(* value that is still in the graph, and what the walk holds under a name  *)
(* is always a tensor of ciphertexts that fit their blocks.                *)
(***************************************************************************)
EXTENDS GraphEval, WalkProofs

(* What the fusion loop keeps of a graph the budget check admitted: each   *)
(* turn takes one node away, and the list can still be sorted and walked.  *)
FuseInv ==
  /\ phase = "load" => nodes = model.nodes /\ fused = 0
  /\ phase = "fuse" =>
       /\ IsNodeList(nodes)
       /\ fused \in Nat /\ Len(nodes) + fused = Len(model.nodes)
       /\ Propagates(nodes, model.inputs)
       /\ DOMAIN env = model.inputs

(* What is still to do is the end of the order, and the tensors at hand    *)
(* are the inputs and what the rest of the order wrote.                    *)
Walked == Len(StableOrder(nodes)) - Len(todo)

AtHand ==
  model.inputs \cup
    UNION {ToSet(nodes[StableOrder(nodes)[k]].outs) : k \in 1 .. Walked}

WalkInv ==
  phase = "walk" =>
    /\ IsNodeList(nodes)
    /\ Sortable(nodes, model.inputs)
    /\ todo \in Seq(DOMAIN nodes)
    /\ Len(todo) <= Len(StableOrder(nodes))
    /\ \A k \in 1 .. Len(todo) : todo[k] = StableOrder(nodes)[Walked + k]
    /\ DOMAIN env = AtHand /\ DOMAIN bits = AtHand

Inv == model \in Models /\ FuseInv /\ WalkInv /\ FusionKeepsSound

(* The invariant holds at first.                                           *)
LEMMA InvInit == Init => Inv
  BY DEF Init, Inv, FuseInv, WalkInv, FusionKeepsSound

(* The budget check admits only graphs whose widths can be propagated.     *)
LEMMA AdmitStep == Inv /\ Admit => Inv'
<1> SUFFICES ASSUME Inv, Admit PROVE Inv'
  OBVIOUS
<1>1. /\ phase = "load" /\ model' = model /\ nodes' = nodes /\ fused' = fused
      /\ phase' \in {"fuse", "rejected"}
      /\ phase' = "fuse" => BudgetOK(model) /\ DOMAIN env' = model.inputs
  BY DEF Admit
<1>2. nodes = model.nodes /\ fused = 0 /\ model \in Models
  BY <1>1 DEF Inv, FuseInv
<1>3. IsNodeList(model.nodes)
  BY <1>2, ModelAssumption
<1>4. BudgetOK(model) => Propagates(model.nodes, model.inputs)
  BY DEF BudgetOK
<1>5. Len(model.nodes) \in Nat
  BY <1>3 DEF IsNodeList
<1>6. FuseInv'
  BY <1>1, <1>2, <1>3, <1>4, <1>5 DEF FuseInv
<1>7. WalkInv' /\ FusionKeepsSound'
  BY <1>1 DEF WalkInv, FusionKeepsSound
<1>8. QED
  BY <1>1, <1>2, <1>6, <1>7 DEF Inv

(* A turn of the loop: the list is one node shorter than before and can    *)
(* still be sorted and walked, so it never takes more turns than nodes.    *)
LEMMA FuseStepStep == Inv /\ FuseStep => Inv'
<1> SUFFICES ASSUME Inv, FuseStep PROVE Inv'
  OBVIOUS
<1> DEFINE pc == FirstPair(nodes, model.outputs)
<1>1. /\ phase = "fuse" /\ FusablePairs(nodes, model.outputs) # {}
      /\ model' = model /\ env' = env
      /\ \/ fused + 1 > Len(model.nodes)
         \/ /\ nodes' = Fuse(nodes, pc[1], pc[2])
            /\ fused' = fused + 1
            /\ phase' = phase
  BY DEF FuseStep
<1>2. /\ IsNodeList(nodes) /\ model \in Models
      /\ fused \in Nat /\ Len(nodes) + fused = Len(model.nodes)
      /\ Propagates(nodes, model.inputs)
      /\ DOMAIN env = model.inputs
  BY <1>1 DEF Inv, FuseInv
<1>3. PICK p, c : p = pc[1] /\ c = pc[2]
  OBVIOUS
<1>4. p \in DOMAIN nodes /\ c \in DOMAIN nodes /\ Fusable(nodes, model.outputs, p, c)
  BY <1>1, <1>2, <1>3, FirstPairIsFusable
<1> HIDE DEF pc
<1>5. nodes \in Seq(ToSet(nodes))
  BY <1>2 DEF IsNodeList
<1>6. DOMAIN nodes = 1 .. Len(nodes) /\ Len(nodes) \in Nat
  BY <1>5
<1>7. Adjacent(nodes, model.outputs, p, c) /\ p < c
  BY <1>4, <1>6 DEF Fusable, Adjacent
<1>8. /\ nodes' = Fuse(nodes, p, c) /\ fused' = fused + 1 /\ phase' = phase
  BY <1>1, <1>2, <1>3, <1>4, <1>6, <1>7
<1>9. /\ Sortable(nodes, model.inputs)
      /\ \A i \in DOMAIN nodes : Valid(nodes[i].op) /\ Matched(nodes[i])
  BY <1>2 DEF Propagates
<1>10. Sortable(nodes', model.inputs)
  BY <1>2, <1>4, <1>7, <1>8, <1>9, FuseKeepsSortable
<1>11. /\ IsNodeList(nodes')
       /\ \A k \in DOMAIN nodes' : Valid(nodes'[k].op) /\ Matched(nodes'[k])
  BY <1>2, <1>4, <1>8, <1>9, FuseKeepsNodes
<1>12. Len(nodes') = Len(nodes) - 1
  <2>1. Layout(ToSet(nodes), nodes, p, c, Fuse(nodes, p, c))
    BY <1>4, <1>5, <1>6, <1>7, FuseLayout
  <2>2. QED
    BY <1>8, <2>1 DEF Layout
<1>13. FuseInv'
  <2>1. Propagates(nodes', model.inputs)
    BY <1>10, <1>11 DEF Propagates
  <2>2. fused' \in Nat /\ Len(nodes') + fused' = Len(model.nodes)
    BY <1>2, <1>6, <1>8, <1>12
  <2>3. QED
    BY <1>1, <1>2, <1>8, <1>11, <2>1, <2>2 DEF FuseInv
<1>14. WalkInv' /\ FusionKeepsSound'
  BY <1>1, <1>8 DEF WalkInv, FusionKeepsSound
<1>15. QED
  BY <1>1, <1>2, <1>13, <1>14 DEF Inv

(* The walk starts with the inputs at hand and the whole order to do.      *)
LEMMA StartWalkStep == Inv /\ StartWalk => Inv'
<1> SUFFICES ASSUME Inv, StartWalk PROVE Inv'
  OBVIOUS
<1>1. phase = "fuse" /\ UNCHANGED <<model, row, nodes, fused, env, out>>
  BY DEF StartWalk
<1>2. /\ IsNodeList(nodes) /\ model \in Models
      /\ Propagates(nodes, model.inputs)
      /\ DOMAIN env = model.inputs
  BY <1>1 DEF Inv, FuseInv
<1>3. Sortable(nodes, model.inputs)
  BY <1>2 DEF Propagates
<1>4. phase' = "walk" /\ todo' = StableOrder(nodes) /\ bits' = InputWidths(model)
  BY <1>2, <1>3 DEF StartWalk
<1>5. DOMAIN bits' = model.inputs
  BY <1>4 DEF InputWidths
<1>6. nodes \in Seq(ToSet(nodes))
  BY <1>2 DEF IsNodeList
<1>7. todo' \in Seq(DOMAIN nodes) /\ Len(todo') \in Nat
  <2>1. ProducersFirst(nodes, StableOrder(nodes))
    BY <1>6, OrderIsSound
  <2>2. QED
    BY <1>4, <2>1 DEF ProducersFirst
<1>8. Walked' = 0 /\ AtHand' = model.inputs
  <2>1. Walked' = 0
    BY <1>1, <1>4, <1>7 DEF Walked
  <2>2. AtHand' = model.inputs \cup UNION {ToSet(nodes[StableOrder(nodes)[k]].outs) : k \in 1 .. 0}
    BY <1>1, <2>1 DEF AtHand
  <2>3. 1 .. 0 = {}
    OBVIOUS
  <2>4. QED
    BY <2>1, <2>2, <2>3
<1>9. WalkInv'
  BY <1>1, <1>2, <1>3, <1>4, <1>5, <1>7, <1>8 DEF WalkInv
<1>10. FuseInv' /\ FusionKeepsSound'
  BY <1>4 DEF FuseInv, FusionKeepsSound
<1>11. QED
  BY <1>1, <1>2, <1>9, <1>10 DEF Inv

(* One node: its producers come before it in the order, so their outputs   *)
(* are at hand, and then its own are.                                      *)
LEMMA EvalNodeStep == Inv /\ EvalNode => Inv'
<1> SUFFICES ASSUME Inv, EvalNode PROVE Inv'
  OBVIOUS
<1> DEFINE order == StableOrder(nodes)
           i     == Head(todo)
<1>1. phase = "walk" /\ todo # <<>> /\ UNCHANGED <<model, row, nodes, fused, out>>
  BY DEF EvalNode
<1>2. /\ IsNodeList(nodes) /\ model \in Models
      /\ Sortable(nodes, model.inputs)
      /\ todo \in Seq(DOMAIN nodes)
      /\ Len(todo) <= Len(order)
      /\ \A k \in 1 .. Len(todo) : todo[k] = order[Walked + k]
      /\ DOMAIN env = AtHand /\ DOMAIN bits = AtHand
  BY <1>1 DEF Inv, WalkInv
<1>3. nodes \in Seq(ToSet(nodes))
  BY <1>2 DEF IsNodeList
<1>4. ProducersFirst(nodes, order)
  BY <1>3, OrderIsSound
<1>5. order \in Seq(DOMAIN nodes)
  BY <1>4 DEF ProducersFirst
<1> HIDE DEF order
<1>6. /\ Len(order) \in Nat /\ Len(todo) \in Nat /\ Len(todo) >= 1
      /\ i = todo[1] /\ i \in DOMAIN nodes
      /\ Tail(todo) \in Seq(DOMAIN nodes) /\ Len(Tail(todo)) = Len(todo) - 1
      /\ \A k \in 1 .. Len(todo) - 1 : Tail(todo)[k] = todo[k + 1]
  BY <1>1, <1>2, <1>5
<1>7. Walked = Len(order) - Len(todo) /\ Walked \in Nat /\ Walked + 1 \in 1 .. Len(order)
  BY <1>2, <1>6 DEF Walked, order
<1>8. i = order[Walked + 1]
  BY <1>2, <1>6
<1> HIDE DEF i
<1>9. ToSet(nodes[i].ins) \subseteq AtHand
  <2> SUFFICES ASSUME NEW t \in ToSet(nodes[i].ins), t \notin model.inputs PROVE t \in AtHand
    BY DEF AtHand
  <2>1. PICK p \in DOMAIN nodes : t \in ToSet(nodes[p].outs)
    BY <1>2, <1>6 DEF Sortable, Written
  <2>2. p \in Producers(nodes, i)
    BY <2>1 DEF Producers
  <2>3. PICK k \in 1 .. (Walked + 1) - 1 : order[k] = p
    BY <1>4, <1>7, <1>8, <2>2 DEF ProducersFirst
  <2>4. k \in 1 .. Walked
    BY <1>7
  <2>5. QED
    BY <2>1, <2>3, <2>4 DEF AtHand, order
<1>10. ToSet(nodes[i].ins) \subseteq DOMAIN env \cap DOMAIN bits
  BY <1>2, <1>9
<1>11. \/ phase' = "panicked"
       \/ /\ DOMAIN env' = AtHand \cup ToSet(nodes[i].outs)
          /\ DOMAIN bits' = AtHand \cup ToSet(nodes[i].outs)
          /\ todo' = Tail(todo)
          /\ phase' = phase
  <2>1. \/ phase' = "panicked"
        \/ \E v, w : /\ env' = Bind(env, nodes[i].outs, v)
                     /\ bits' = Bind(bits, nodes[i].outs, w)
                     /\ todo' = Tail(todo)
                     /\ phase' = phase
    BY <1>10, Zenon DEF EvalNode, i
  <2>2. ASSUME NEW v, NEW w,
               /\ env' = Bind(env, nodes[i].outs, v)
               /\ bits' = Bind(bits, nodes[i].outs, w)
        PROVE  /\ DOMAIN env' = AtHand \cup ToSet(nodes[i].outs)
               /\ DOMAIN bits' = AtHand \cup ToSet(nodes[i].outs)
    <3>1. /\ DOMAIN env' = DOMAIN env \cup ToSet(nodes[i].outs)
          /\ DOMAIN bits' = DOMAIN bits \cup ToSet(nodes[i].outs)
      BY <2>2, BindDomain, Zenon
    <3>2. QED
      BY <1>2, <3>1, Zenon
  <2>3. QED
    BY <2>1, <2>2, Zenon
<1>12. CASE phase' = "panicked"
  BY <1>1, <1>2, <1>12 DEF Inv, FuseInv, WalkInv, FusionKeepsSound
<1>13. CASE /\ DOMAIN env' = AtHand \cup ToSet(nodes[i].outs)
            /\ DOMAIN bits' = AtHand \cup ToSet(nodes[i].outs)
            /\ todo' = Tail(todo)
            /\ phase' = phase
  <2>1. Walked' = Walked + 1 /\ order' = order
    <3>1. Walked' = Len(order) - Len(todo')
      BY <1>1 DEF Walked, order
    <3>2. QED
      BY <1>1, <1>6, <1>7, <1>13, <3>1 DEF order
  <2>2. AtHand' = AtHand \cup ToSet(nodes[i].outs)
    <3>1. AtHand' = model.inputs \cup UNION {ToSet(nodes[order[k]].outs) : k \in 1 .. Walked + 1}
      BY <1>1, <2>1 DEF AtHand, order
    <3>2. AtHand = model.inputs \cup UNION {ToSet(nodes[order[k]].outs) : k \in 1 .. Walked}
      BY DEF AtHand, order
    <3>3. 1 .. Walked + 1 = (1 .. Walked) \cup {Walked + 1}
      BY <1>7
    <3>4. QED
      BY <1>8, <3>1, <3>2, <3>3
  <2>3. \A k \in 1 .. Len(todo') : todo'[k] = order[Walked' + k]
    <3> SUFFICES ASSUME NEW k \in 1 .. Len(todo') PROVE todo'[k] = order[Walked' + k]
      OBVIOUS
    <3>1. k + 1 \in 1 .. Len(todo) /\ todo'[k] = todo[k + 1]
      BY <1>6, <1>13
    <3>2. todo[k + 1] = order[Walked + (k + 1)] /\ Walked + (k + 1) = Walked' + k
      BY <1>2, <1>7, <2>1, <3>1
    <3>3. QED
      BY <3>1, <3>2
  <2>4. Len(todo') <= Len(order) /\ todo' \in Seq(DOMAIN nodes)
    BY <1>2, <1>6, <1>13
  <2>5. WalkInv'
    BY <1>1, <1>2, <1>13, <2>1, <2>2, <2>3, <2>4 DEF WalkInv, order
  <2>6. QED
    BY <1>1, <1>2, <1>13, <2>5 DEF Inv, FuseInv, FusionKeepsSound
<1>14. QED
  BY <1>11, <1>12, <1>13

(* Every step keeps it.                                                    *)
LEMMA InvStep == Inv /\ [Next]_vars => Inv'
<1> SUFFICES ASSUME Inv, [Next]_vars PROVE Inv'
  OBVIOUS
<1>1. CASE Admit
  BY <1>1, AdmitStep
<1>2. CASE FuseStep
  BY <1>2, FuseStepStep
<1>3. CASE StartWalk
  BY <1>3, StartWalkStep
<1>4. CASE EvalNode
  BY <1>4, EvalNodeStep
<1>5. CASE Finish
  <2>1. phase' \in {"done", "missing"} /\ model' = model
    BY <1>5 DEF Finish
  <2>2. QED
    BY <2>1 DEF Inv, FuseInv, WalkInv, FusionKeepsSound
<1>6. CASE UNCHANGED vars
  BY <1>6 DEF vars, Inv, FuseInv, WalkInv, FusionKeepsSound, AtHand, Walked
<1>7. QED
  BY <1>1, <1>2, <1>3, <1>4, <1>5, <1>6 DEF Next, Returned

(* Fusing keeps every graph the budget check admits one that can be sorted *)
(* and walked: the loop of optimize_graph ends before its cap, the widths  *)
(* and the order it is given back exist, and evaluate_graph never looks up *)
(* an operand or a width that is not there.                                *)
THEOREM FusionIsSound == Spec => []FusionKeepsSound
<1>1. Inv => FusionKeepsSound
  BY DEF Inv
<1>2. QED
  BY <1>1, InvInit, InvStep, PTL DEF Spec

-----------------------------------------------------------------------------
(* What fusing does to the values.                                         *)

(* A plain rescale of a table entry is an index into its table.            *)
LEMMA RampPlain ==
  ASSUME NEW op, op.type = "Requant", Valid(op), Declared(op), PlainRequant(op),
         NEW u \in Nat, NEW i
  PROVE  Ramp(op, i, u) + 1 = SecondIndex(op, u)
<1> DEFINE ch == op.channel[1]
           t == u * ch.mult + ch.roundBias
           d == 2^ch.shift
           cap == 2^op.outBits - 1
           q == t \div d
<1>1. op.channelSize = 0 /\ op.clampLo = 0 /\ op.zeroPoint = 0
  BY DEF PlainRequant
<1>2. /\ op.channel \in Seq([mult : Nat, shift : Nat, roundBias : Nat]) /\ op.channel # <<>>
      /\ op.outBits \in Nat
  BY DEF Declared, Valid, ValidRequant
<1>3. ch.mult \in Nat /\ ch.shift \in Nat /\ ch.roundBias \in Nat
  <2> DEFINE Ch == [mult : Nat, shift : Nat, roundBias : Nat]
  <2>1. op.channel \in Seq(Ch) /\ op.channel # <<>>
    BY <1>2
  <2> HIDE DEF Ch
  <2>2. op.channel[1] \in Ch
    BY <2>1
  <2>3. QED
    BY <2>2 DEF Ch
<1>4. Channel(op, i) = ch
  BY <1>1 DEF Channel
<1>5. d \in Nat \ {0} /\ cap \in Nat
  <2>1. \A k \in Nat : 2^k \in Nat \ {0}
    <3>1. \A k \in Nat : 2^k \in Nat /\ 1 <= 2^k
      BY PowerStep, PowerBounds
    <3>2. QED
      BY <3>1
  <2>2. d \in Nat \ {0} /\ 2^op.outBits \in Nat \ {0}
    BY <1>2, <1>3, <2>1
  <2>3. QED
    BY <2>2
<1>6. Transient(op, i, u) = t /\ t \in Nat
  <2>1. Larger(u, 0) = u
    BY LargerSmaller
  <2>2. Transient(op, i, u) = Larger(u, 0) * ch.mult + ch.roundBias
    BY <1>1, <1>4 DEF Transient
  <2> HIDE DEF ch
  <2>3. t \in Nat
    BY <1>3
  <2>4. QED
    BY <2>1, <2>2, <2>3
<1>7. Ramp(op, i, u) = Larger(0, Smaller(cap, (t \div d) + 0))
  BY <1>1, <1>4, <1>6 DEF Ramp
<1>8. SecondIndex(op, u) = Smaller(t \div d, cap) + 1
  BY DEF SecondIndex
<1> HIDE DEF t, d, cap, ch
<1>9. q \in Nat /\ (t \div d) + 0 = q
  BY <1>5, <1>6, Quotient
<1> HIDE DEF q
<1>10. Smaller(cap, q) = Smaller(q, cap) /\ Smaller(cap, q) \in Nat
  BY <1>5, <1>9, LargerSmaller
<1>11. Larger(0, Smaller(cap, q)) = Smaller(cap, q)
  BY <1>10, LargerSmaller
<1>12. QED
  BY <1>7, <1>8, <1>9, <1>10, <1>11 DEF q

(* One lookup in the composed table is the two lookups it stands for.      *)
LEMMA FusedEval ==
  ASSUME NEW a, IsTable(a), Valid(a), Declared(a),
         NEW b, IsTable(b), Valid(b), Declared(b), Composable(a, b),
         NEW in, in[1] \in Seq(Int), RefDefined(a, in), RefDefined(b, RefEval(a, in))
  PROVE  /\ RefDefined(FusedOp(a, b), in)
         /\ RefEval(FusedOp(a, b), in) = RefEval(b, RefEval(a, in))
<1> DEFINE x == in[1]
           lut == Composed(a, b)
           f == FusedOp(a, b)
           u == RefEval(a, in)[1]
           r(i) == IF a.type = "Activation" THEN x[i] + 1 ELSE Ramp(a, i, x[i]) + 1
<1>1. Len(in) = 1
  BY DEF IsTable, RefDefined, ShapeOK, Arity
<1>2. \A i \in DOMAIN x : r(i) \in DOMAIN a.lut
  <2>1. CASE a.type = "Activation"
    BY <2>1 DEF RefDefined
  <2>2. CASE a.type = "Requant"
    BY <2>2, RampInTable
  <2>3. QED
    BY <2>1, <2>2 DEF IsTable
<1>3. RefEval(a, in) = <<[i \in DOMAIN x |-> a.lut[r(i)]]>>
  <2>1. CASE a.type = "Activation"
    BY <2>1 DEF RefEval
  <2>2. CASE a.type = "Requant"
    BY <2>2 DEF RefEval
  <2>3. QED
    BY <2>1, <2>2 DEF IsTable
<1>4. RefEval(a, in) = <<u>> /\ u = [i \in DOMAIN x |-> a.lut[r(i)]]
  BY <1>3
<1>5. a.lut \in Seq(Nat)
  BY DEF IsTable, Declared
<1>6. lut = [j \in DOMAIN a.lut |-> b.lut[Index(a, b, a.lut[j])]]
  BY DEF Composed
<1>7. f.lut = lut /\ f.type = a.type
  <2>1. CASE a.type = "Requant"
    <3>1. f = [a EXCEPT !.lut = lut]
      BY <2>1 DEF FusedOp
    <3> HIDE DEF f, lut
    <3>2. QED
      BY <3>1 DEF IsTable
  <2>2. CASE a.type = "Activation"
    <3>1. f = [b EXCEPT !.lut = lut] /\ b.type = "Activation"
      BY <2>2 DEF FusedOp, Composable
    <3> HIDE DEF f, lut
    <3>2. QED
      BY <2>2, <3>1 DEF IsTable
  <2>3. QED
    BY <2>1, <2>2 DEF IsTable
<1>8. a.type = "Requant" =>
        /\ f.outBits = a.outBits /\ f.clampLo = a.clampLo /\ f.zeroPoint = a.zeroPoint
        /\ f.channel = a.channel /\ f.channelSize = a.channelSize
  <2> SUFFICES ASSUME a.type = "Requant"
               PROVE  /\ f.outBits = a.outBits /\ f.clampLo = a.clampLo /\ f.zeroPoint = a.zeroPoint
                      /\ f.channel = a.channel /\ f.channelSize = a.channelSize
    OBVIOUS
  <2>1. f = [a EXCEPT !.lut = lut]
    BY DEF FusedOp
  <2> HIDE DEF f, lut
  <2>2. QED
    BY <2>1
<1> HIDE DEF f, lut, u
<1>9. a.type = "Requant" => \A i : Ramp(f, i, x[i]) = Ramp(a, i, x[i])
  BY <1>8, Zenon DEF Ramp, Transient, Channel
<1>10. RefEval(f, in) = <<[i \in DOMAIN x |-> lut[r(i)]]>>
  <2>1. CASE a.type = "Activation"
    BY <1>7, <2>1 DEF RefEval
  <2>2. CASE a.type = "Requant"
    BY <1>7, <1>9, <2>2 DEF RefEval
  <2>3. QED
    BY <2>1, <2>2 DEF IsTable
<1>11. RefDefined(f, in)
  <2>1. CASE a.type = "Activation"
    <3>1. \A i \in DOMAIN x : x[i] + 1 \in DOMAIN lut
      BY <1>2, <1>6, <2>1
    <3>2. ShapeOK(f, in)
      BY <1>1, <1>7, <2>1 DEF ShapeOK, Arity
    <3>3. QED
      BY <1>7, <2>1, <3>1, <3>2 DEF RefDefined
  <2>2. CASE a.type = "Requant"
    <3>1. ShapeOK(a, in)
      BY DEF RefDefined
    <3>2. ShapeOK(f, in)
      BY <1>1, <1>7, <1>8, <2>2, <3>1 DEF ShapeOK, Arity
    <3>3. QED
      BY <1>7, <2>2, <3>2 DEF RefDefined
  <2>3. QED
    BY <2>1, <2>2 DEF IsTable
<1> HIDE DEF r, x
<1>12. RefEval(b, <<u>>) = <<[i \in DOMAIN x |-> b.lut[Index(a, b, a.lut[r(i)])]]>>
  <2>1. DOMAIN u = DOMAIN x /\ \A i \in DOMAIN x : u[i] = a.lut[r(i)] /\ u[i] \in Nat
    BY <1>2, <1>4, <1>5
  <2>2. CASE b.type = "Activation"
    <3>1. RefEval(b, <<u>>) = <<[i \in DOMAIN u |-> b.lut[u[i] + 1]]>>
      BY <2>2 DEF RefEval
    <3>2. \A i \in DOMAIN x : Index(a, b, a.lut[r(i)]) = u[i] + 1
      BY <2>1, <2>2 DEF Index
    <3>3. QED
      BY <2>1, <3>1, <3>2
  <2>3. CASE b.type = "Requant"
    <3>1. RefEval(b, <<u>>) = <<[i \in DOMAIN u |-> b.lut[Ramp(b, i, u[i]) + 1]]>>
      BY <2>3 DEF RefEval
    <3>2. PlainRequant(b)
      BY <2>3 DEF Composable
    <3>3. \A i \in DOMAIN x : Index(a, b, a.lut[r(i)]) = Ramp(b, i, u[i]) + 1
      <4> SUFFICES ASSUME NEW i \in DOMAIN x
                   PROVE  Index(a, b, a.lut[r(i)]) = Ramp(b, i, u[i]) + 1
        OBVIOUS
      <4>1. Index(a, b, a.lut[r(i)]) = SecondIndex(b, u[i])
        BY <2>1, <2>3 DEF Index
      <4>2. QED
        BY <2>1, <2>3, <3>2, <4>1, RampPlain
    <3>4. QED
      BY <2>1, <3>1, <3>3
  <2>4. QED
    BY <2>2, <2>3 DEF IsTable
<1>13. \A i \in DOMAIN x : lut[r(i)] = b.lut[Index(a, b, a.lut[r(i)])]
  BY <1>2, <1>6 DEF x
<1>14. RefEval(f, in) = RefEval(b, RefEval(a, in))
  BY <1>4, <1>10, <1>12, <1>13
<1>15. QED
  BY <1>11, <1>14 DEF f

(* The fused node computes what the two nodes did.                         *)
LEMMA FusedHeld ==
  ASSUME NEW m, HasLists(m), IsTable(m.op), Valid(m.op), Declared(m.op), Matched(m),
         NEW n, HasLists(n), IsTable(n.op), Valid(n.op), Declared(n.op), Matched(n),
         Composable(m.op, n.op), n.ins[1] = m.outs[1],
         NEW e, Typed(e), Held(m, e), Held(n, e)
  PROVE  Held(FusedNode(m, n), e)
<1> DEFINE new == FusedNode(m, n)
           in == Operands(m, e)
<1>1. new.ins = m.ins /\ new.outs = n.outs /\ new.op = FusedOp(m.op, n.op)
  BY DEF FusedNode
<1> HIDE DEF new
<1> SUFFICES ASSUME ToSet(n.outs) \cap DOMAIN e # {}
             PROVE  /\ RefKnown(new, e)
                    /\ \A k \in DOMAIN n.outs :
                         n.outs[k] \in DOMAIN e /\ e[n.outs[k]] = RefEval(new.op, Operands(new, e))[k]
  BY <1>1 DEF Held, new
<1>2. /\ Len(m.ins) = 1 /\ Len(m.outs) = 1 /\ Len(n.ins) = 1 /\ Len(n.outs) = 1
  BY DEF IsTable, Matched, Arity, OutArity
<1>3. DOMAIN m.ins = 1 .. 1 /\ DOMAIN m.outs = 1 .. 1 /\ DOMAIN n.ins = 1 .. 1 /\ DOMAIN n.outs = 1 .. 1
  BY <1>2 DEF HasLists
<1>4. /\ RefKnown(n, e)
      /\ \A k \in DOMAIN n.outs :
           n.outs[k] \in DOMAIN e /\ e[n.outs[k]] = RefEval(n.op, Operands(n, e))[k]
  BY DEF Held
<1>5. ToSet(n.ins) \subseteq DOMAIN e /\ RefDefined(n.op, Operands(n, e))
  BY <1>4 DEF RefKnown
<1>6. m.outs[1] \in DOMAIN e /\ m.outs[1] \in ToSet(m.outs)
  BY <1>3, <1>5 DEF ToSet
<1>7. /\ RefKnown(m, e)
      /\ e[m.outs[1]] = RefEval(m.op, in)[1]
  BY <1>3, <1>6 DEF Held
<1>8. ToSet(m.ins) \subseteq DOMAIN e /\ RefDefined(m.op, in)
  BY <1>7 DEF RefKnown
<1>9. Operands(n, e) = <<e[m.outs[1]]>>
  <2>1. Operands(n, e) = [k \in 1 .. 1 |-> e[n.ins[k]]]
    BY <1>3 DEF Operands
  <2>2. QED
    BY <2>1
<1>10. in[1] \in Seq(Int)
  <2>1. in = [k \in 1 .. 1 |-> e[m.ins[k]]] /\ m.ins[1] \in DOMAIN e
    BY <1>3, <1>8 DEF Operands, ToSet
  <2> HIDE DEF in
  <2>2. QED
    BY <2>1 DEF Typed
<1>11. Operands(new, e) = in
  BY <1>1 DEF Operands
<1> HIDE DEF in
<1>12. RefEval(m.op, in) = <<RefEval(m.op, in)[1]>>
  <2>1. CASE m.op.type = "Activation"
    BY <2>1 DEF RefEval
  <2>2. CASE m.op.type = "Requant"
    BY <2>2 DEF RefEval
  <2>3. QED
    BY <2>1, <2>2 DEF IsTable
<1>13. Operands(n, e) = RefEval(m.op, in)
  BY <1>7, <1>9, <1>12, Zenon
<1>14. /\ RefDefined(new.op, in)
       /\ RefEval(new.op, in) = RefEval(n.op, RefEval(m.op, in))
  <2>1. RefDefined(n.op, RefEval(m.op, in))
    BY <1>5, <1>13
  <2>2. QED
    BY <1>1, <1>8, <1>10, <2>1, FusedEval
<1>15. RefKnown(new, e)
  BY <1>1, <1>8, <1>11, <1>14 DEF RefKnown
<1>16. QED
  BY <1>4, <1>11, <1>13, <1>14, <1>15

(* A rewrite of the list keeps every value it still has: what held of the  *)
(* list and its ops' declarations holds of the rewritten one.              *)
LEMMA FuseHolds ==
  ASSUME NEW ns, IsNodeList(ns), NEW outputs,
         NEW p \in DOMAIN ns, NEW c \in DOMAIN ns, Fusable(ns, outputs, p, c),
         \A i \in DOMAIN ns : Valid(ns[i].op) /\ Declared(ns[i].op) /\ Matched(ns[i]),
         NEW e, Typed(e), Holds(ns, e)
  PROVE  /\ Holds(Fuse(ns, p, c), e)
         /\ \A k \in DOMAIN Fuse(ns, p, c) : Declared(Fuse(ns, p, c)[k].op)
<1> DEFINE fs == Fuse(ns, p, c)
           new == FusedNode(ns[p], ns[c])
           S == ToSet(ns)
<1>1. ns \in Seq(S) /\ \A i \in DOMAIN ns : IsNode(ns[i])
  BY DEF IsNodeList
<1> HIDE DEF S
<1>2. DOMAIN ns = 1 .. Len(ns) /\ Len(ns) \in Nat
  BY <1>1
<1>3. /\ Adjacent(ns, outputs, p, c) /\ Composable(ns[p].op, ns[c].op)
      /\ ns[p].op.type = "Requant" => FitsTable(Composed(ns[p].op, ns[c].op), ns[p].op.outBits)
  BY DEF Fusable
<1>4. p < c
  BY <1>2, <1>3 DEF Adjacent
<1>5. Layout(S, ns, p, c, fs)
  BY <1>1, <1>2, <1>4, FuseLayout
<1>6. /\ HasLists(ns[p]) /\ IsTable(ns[p].op) /\ HasLists(ns[c]) /\ IsTable(ns[c].op)
  <2>1. IsNode(ns[p]) /\ IsNode(ns[c])
    BY <1>1
  <2>2. ns[p].op.type \in {"Activation", "Requant"} /\ ns[c].op.type \in {"Activation", "Requant"}
    BY <1>3 DEF Composable
  <2>3. QED
    BY <2>1, <2>2 DEF IsNode, IsTable
<1>7. ns[c].ins[1] = ns[p].outs[1]
  <2> DEFINE t == ns[p].outs[1]
  <2>1. Len(ns[c].ins) = 1 /\ DOMAIN ns[c].ins = 1 .. 1
    BY <1>3, <1>6 DEF Adjacent, HasLists
  <2>2. t \in ToSet(ns[c].ins)
    BY <1>3, OnlyReader
  <2>3. QED
    BY <2>1, <2>2 DEF ToSet
<1>8. Held(ns[p], e) /\ Held(ns[c], e)
  BY DEF Holds
<1>9. Held(new, e)
  <2> DEFINE m == ns[p]
             n == ns[c]
  <2>1. /\ HasLists(m) /\ IsTable(m.op) /\ Valid(m.op) /\ Declared(m.op) /\ Matched(m)
        /\ HasLists(n) /\ IsTable(n.op) /\ Valid(n.op) /\ Declared(n.op) /\ Matched(n)
        /\ Composable(m.op, n.op) /\ n.ins[1] = m.outs[1]
        /\ Held(m, e) /\ Held(n, e)
    BY <1>3, <1>6, <1>7, <1>8
  <2> HIDE DEF m, n
  <2>2. Held(FusedNode(m, n), e)
    BY <2>1, FusedHeld
  <2>3. QED
    BY <2>2 DEF m, n
<1>10. Declared(new.op)
  <2>1. new.op = FusedOp(ns[p].op, ns[c].op)
    BY DEF FusedNode
  <2>2. Declared(FusedOp(ns[p].op, ns[c].op))
    BY <1>3, <1>6, FusedDeclared
  <2>3. QED
    BY <2>1, <2>2
<1> HIDE DEF new, fs
<1>11. /\ DOMAIN fs = 1 .. Len(fs)
       /\ \A k \in DOMAIN fs : fs[k] = new \/ \E i \in DOMAIN ns : fs[k] = ns[i]
  <2>1. /\ fs \in Seq(S \cup {new})
        /\ \A k \in 1 .. Len(fs) : fs[k] = new \/ \E i \in DOMAIN ns : fs[k] = ns[i]
    BY <1>2, <1>5 DEF Layout, new
  <2>2. DOMAIN fs = 1 .. Len(fs)
    BY <2>1
  <2>3. QED
    BY <2>1, <2>2
<1>12. \A k \in DOMAIN fs : Held(fs[k], e) /\ Declared(fs[k].op)
  BY <1>9, <1>10, <1>11 DEF Holds
<1>13. QED
  BY <1>12 DEF Holds, fs

(* What makes the widths sound, and why it lasts: the oracle's forward pass *)
(* of the loaded model is, for every node now in the list, what the node's  *)
(* op computes from its operands (fusing two nodes does not change that),   *)
(* every op keeps to what it declares, and each width the walk derived      *)
(* holds the value the oracle has there.                                    *)
WidthInv ==
  /\ row \in [1 .. model.inputLen -> 0 .. 2^model.inputBits - 1]
  /\ phase \in {"fuse", "walk"} =>
       /\ \A i \in DOMAIN nodes : Valid(nodes[i].op) /\ Declared(nodes[i].op) /\ Matched(nodes[i])
       /\ Holds(nodes, Ref) /\ Typed(Ref)
       /\ \A t \in model.inputs : t \in DOMAIN Ref /\ Ref[t] = row
  /\ Wide(bits, Ref)

(* It holds at first.                                                      *)
LEMMA WidthInit == Init => WidthInv
<1> SUFFICES ASSUME Init PROVE WidthInv
  OBVIOUS
<1>1. row \in [1 .. model.inputLen -> 0 .. 2^model.inputBits - 1] /\ phase = "load" /\ bits = <<>>
  BY DEF Init
<1>2. DOMAIN bits = {}
  BY <1>1
<1>3. QED
  BY <1>1, <1>2 DEF WidthInv, Wide

(* A row is a tensor within its declared width.                            *)
LEMMA RowIsBelow ==
  ASSUME NEW len \in Nat, NEW k \in Nat, NEW r \in [1 .. len -> 0 .. 2^k - 1]
  PROVE  r \in Seq(Int) /\ Below(r, k)
<1>1. 2^k \in Nat
  BY PowerStep
<1>2. \A i \in 1 .. len : r[i] \in Nat /\ r[i] < 2^k
  BY <1>1
<1>3. r \in Seq(Int) /\ DOMAIN r = 1 .. len
  BY <1>2
<1>4. \A i \in DOMAIN r : Magnitude(r[i]) < 2^k
  BY <1>2, <1>3 DEF Magnitude
<1>5. QED
  BY <1>3, <1>4 DEF Below

(* The budget check admits only graphs whose forward pass is what their    *)
(* nodes compute.                                                          *)
LEMMA WidthAdmit == Inv /\ WidthInv /\ Admit => WidthInv'
<1> SUFFICES ASSUME Inv, WidthInv, Admit PROVE WidthInv'
  OBVIOUS
<1>1. /\ phase = "load" /\ UNCHANGED <<model, row, nodes, bits>>
      /\ phase' \in {"fuse", "rejected"}
      /\ phase' = "fuse" => BudgetOK(model)
  BY DEF Admit
<1>2. nodes = model.nodes /\ model \in Models
  BY <1>1 DEF Inv, FuseInv
<1>3. /\ IsNodeList(model.nodes) /\ \A i \in DOMAIN model.nodes : Declared(model.nodes[i].op)
      /\ model.inputBits \in Nat /\ model.inputLen \in Nat
  BY <1>2, ModelAssumption
<1>4. row \in Seq(Int)
  BY <1>3, RowIsBelow DEF WidthInv
<1>5. Ref' = Ref
  BY <1>1 DEF Ref
<1>6. CASE phase' = "fuse"
  <2>1. Propagates(model.nodes, model.inputs)
    BY <1>1, <1>6 DEF BudgetOK
  <2>2. /\ Sortable(model.nodes, model.inputs)
        /\ \A i \in DOMAIN model.nodes :
             Valid(model.nodes[i].op) /\ Declared(model.nodes[i].op) /\ Matched(model.nodes[i])
    BY <1>3, <2>1 DEF Propagates
  <2>3. /\ Holds(model.nodes, Ref) /\ Typed(Ref)
        /\ \A t \in model.inputs : t \in DOMAIN Ref /\ Ref[t] = row
    BY <1>3, <1>4, <2>2, NodesListed, RefHolds DEF Ref
  <2> HIDE DEF Ref
  <2>4. QED
    BY <1>1, <1>2, <1>5, <2>2, <2>3 DEF WidthInv
<1>7. CASE phase' = "rejected"
  BY <1>1, <1>5, <1>7 DEF WidthInv
<1>8. QED
  BY <1>1, <1>6, <1>7

(* A rewrite computes the same values with ops that declare as much.       *)
LEMMA WidthFuse == Inv /\ WidthInv /\ FuseStep => WidthInv'
<1> SUFFICES ASSUME Inv, WidthInv, FuseStep PROVE WidthInv'
  OBVIOUS
<1> DEFINE pc == FirstPair(nodes, model.outputs)
<1>1. /\ phase = "fuse" /\ FusablePairs(nodes, model.outputs) # {}
      /\ UNCHANGED <<model, row, bits>>
      /\ phase' = "capped" \/ (nodes' = Fuse(nodes, pc[1], pc[2]) /\ phase' = phase)
  BY DEF FuseStep
<1>2. Ref' = Ref
  BY <1>1 DEF Ref
<1>3. CASE phase' = "capped"
  BY <1>1, <1>2, <1>3 DEF WidthInv
<1>4. CASE nodes' = Fuse(nodes, pc[1], pc[2]) /\ phase' = phase
  <2>1. IsNodeList(nodes)
    BY <1>1 DEF Inv, FuseInv
  <2>2. PICK p, c : p = pc[1] /\ c = pc[2]
    OBVIOUS
  <2>3. p \in DOMAIN nodes /\ c \in DOMAIN nodes /\ Fusable(nodes, model.outputs, p, c)
    BY <1>1, <2>1, <2>2, FirstPairIsFusable
  <2>4. nodes' = Fuse(nodes, p, c)
    BY <1>4, <2>2
  <2> HIDE DEF pc
  <2>5. /\ \A i \in DOMAIN nodes : Valid(nodes[i].op) /\ Declared(nodes[i].op) /\ Matched(nodes[i])
        /\ Holds(nodes, Ref) /\ Typed(Ref)
    BY <1>1 DEF WidthInv
  <2>6. \A k \in DOMAIN nodes' : Valid(nodes'[k].op) /\ Matched(nodes'[k])
    BY <2>1, <2>3, <2>4, <2>5, FuseKeepsNodes
  <2> DEFINE e == Ref
  <2>7. Typed(e) /\ Holds(nodes, e) /\ e' = e
    BY <1>2, <2>5
  <2> HIDE DEF e
  <2>8. Holds(nodes', e) /\ \A k \in DOMAIN nodes' : Declared(nodes'[k].op)
    BY <2>1, <2>3, <2>4, <2>5, <2>7, FuseHolds
  <2>9. QED
    BY <1>1, <1>2, <1>4, <2>6, <2>8 DEF WidthInv, e
<1>5. QED
  BY <1>1, <1>3, <1>4

(* The walk starts with the inputs' declared width.                        *)
LEMMA WidthStart == Inv /\ WidthInv /\ StartWalk => WidthInv'
<1> SUFFICES ASSUME Inv, WidthInv, StartWalk PROVE WidthInv'
  OBVIOUS
<1>1. /\ phase = "fuse" /\ UNCHANGED <<model, row, nodes>>
      /\ \/ phase' = "walk" /\ bits' = InputWidths(model)
         \/ phase' = "unsorted" /\ UNCHANGED bits
  BY DEF StartWalk
<1>2. Ref' = Ref
  BY <1>1 DEF Ref
<1>3. CASE phase' = "walk" /\ bits' = InputWidths(model)
  <2>1. model \in Models
    BY DEF Inv
  <2>2. model.inputBits \in Nat /\ model.inputLen \in Nat
    BY <2>1, ModelAssumption
  <2>3. Below(row, model.inputBits)
    BY <2>2, RowIsBelow DEF WidthInv
  <2>4. \A t \in model.inputs : t \in DOMAIN Ref /\ Ref[t] = row
    BY <1>1 DEF WidthInv
  <2>5. DOMAIN bits' = model.inputs /\ \A t \in model.inputs : bits'[t] = model.inputBits
    BY <1>3 DEF InputWidths
  <2>6. Wide(bits', Ref)
    BY <2>2, <2>3, <2>4, <2>5 DEF Wide
  <2> HIDE DEF Ref
  <2>7. QED
    BY <1>1, <1>2, <1>3, <2>6 DEF WidthInv
<1>4. CASE phase' = "unsorted" /\ UNCHANGED bits
  BY <1>1, <1>2, <1>4 DEF WidthInv
<1>5. QED
  BY <1>1, <1>3, <1>4

(* One node of the walk.                                                   *)
LEMMA WidthEval == Inv /\ WidthInv /\ EvalNode => WidthInv'
<1> SUFFICES ASSUME Inv, WidthInv, EvalNode PROVE WidthInv'
  OBVIOUS
<1> DEFINE i == Head(todo)
           n == nodes[i]
<1>1. phase = "walk" /\ todo # <<>> /\ UNCHANGED <<model, row, nodes>>
  BY DEF EvalNode
<1>2. Ref' = Ref
  BY <1>1 DEF Ref
<1>3. \/ phase' \in {"unread", "panicked"} /\ UNCHANGED bits
      \/ /\ phase' = phase
         /\ ToSet(n.ins) \subseteq DOMAIN bits
         /\ bits' = Bind(bits, n.outs, OutWidths(n, bits))
  BY Zenon DEF EvalNode
<1>4. CASE phase' \in {"unread", "panicked"} /\ UNCHANGED bits
  BY <1>1, <1>2, <1>4 DEF WidthInv
<1>5. CASE /\ phase' = phase
           /\ ToSet(n.ins) \subseteq DOMAIN bits
           /\ bits' = Bind(bits, n.outs, OutWidths(n, bits))
  <2>1. IsNodeList(nodes) /\ todo \in Seq(DOMAIN nodes)
    BY <1>1 DEF Inv, WalkInv
  <2>2. i \in DOMAIN nodes
    BY <1>1, <2>1
  <2> HIDE DEF i
  <2>3. HasLists(n)
    BY <2>1, <2>2 DEF IsNodeList, IsNode
  <2>4. /\ Valid(n.op) /\ Declared(n.op) /\ Matched(n)
        /\ Holds(nodes, Ref) /\ Typed(Ref) /\ Wide(bits, Ref)
    BY <1>1, <2>2 DEF WidthInv
  <2>5. Held(n, Ref)
    BY <2>2, <2>4 DEF Holds
  <2> HIDE DEF n
  <2> DEFINE e == Ref
  <2>6. Typed(e) /\ Held(n, e) /\ Wide(bits, e)
    BY <2>4, <2>5
  <2> HIDE DEF e
  <2>7. Wide(bits', e)
    BY <1>5, <2>3, <2>4, <2>6, EvalWide
  <2>8. QED
    BY <1>1, <1>2, <1>5, <2>7 DEF WidthInv, e
<1>6. QED
  BY <1>3, <1>4, <1>5

(* Every step keeps the widths sound.                                       *)
LEMMA WidthStep == Inv /\ WidthInv /\ [Next]_vars => WidthInv'
<1> SUFFICES ASSUME Inv, WidthInv, [Next]_vars PROVE WidthInv'
  OBVIOUS
<1>1. CASE Admit
  BY <1>1, WidthAdmit
<1>2. CASE FuseStep
  BY <1>2, WidthFuse
<1>3. CASE StartWalk
  BY <1>3, WidthStart
<1>4. CASE EvalNode
  BY <1>4, WidthEval
<1>5. CASE Finish
  <2>1. phase' \in {"done", "missing"} /\ UNCHANGED <<model, row, nodes, bits>>
    BY <1>5 DEF Finish
  <2>2. Ref' = Ref
    BY <2>1 DEF Ref
  <2>3. QED
    BY <2>1, <2>2 DEF WidthInv
<1>6. CASE UNCHANGED vars
  <2>1. UNCHANGED <<model, row, nodes, bits, phase>>
    BY <1>6 DEF vars
  <2>2. Ref' = Ref
    BY <2>1 DEF Ref
  <2>3. QED
    BY <2>1, <2>2 DEF WidthInv
<1>7. QED
  BY <1>1, <1>2, <1>3, <1>4, <1>5, <1>6 DEF Next, Returned

(* Whatever the graph and the input row, each tensor the walk has evaluated *)
(* has, in the integer oracle's forward pass, a value whose magnitude the   *)
(* width the compiler derived for it (bitwidth.rs, output_bits) can hold.   *)
(* The ops are those the quantizer writes (Declared): the proof goes op by  *)
(* op (OpFits) and is carried through fusion (FuseHolds).                   *)
THEOREM WidthsAreSound == Spec => []WidthSound
<1>1. WidthInv => WidthSound
  BY DEF WidthInv, WidthSound, Wide, Below
<1>2. QED
  BY <1>1, InvInit, InvStep, WidthInit, WidthStep, PTL DEF Spec

-----------------------------------------------------------------------------
(* Nothing is left out of the environment that a node could compute.       *)
Full(ns, e) == \A i \in DOMAIN ns : RefKnown(ns[i], e) => ToSet(ns[i].outs) \subseteq DOMAIN e

(* One node of the oracle's walk, whatever its values: nothing, or its     *)
(* outputs.                                                                *)
Adds(f, n, e) ==
  /\ ~ RefKnown(n, e) => f = e
  /\ RefKnown(n, e) => DOMAIN f = DOMAIN e \cup ToSet(n.outs)
  /\ \A t \in DOMAIN e \ ToSet(n.outs) : f[t] = e[t]

(* Binding does that.                                                      *)
LEMMA BindOne ==
  ASSUME NEW n, NEW e
  PROVE  Adds(RefBind(n, e), n, e)
<1> DEFINE v == RefEval(n.op, Operands(n, e))
<1>1. CASE ~ RefKnown(n, e)
  BY <1>1 DEF RefBind, Adds
<1>2. CASE RefKnown(n, e)
  <2>1. RefBind(n, e) = Bind(e, n.outs, v)
    BY <1>2 DEF RefBind
  <2> HIDE DEF v
  <2>2. /\ DOMAIN Bind(e, n.outs, v) = DOMAIN e \cup ToSet(n.outs)
        /\ \A t \in DOMAIN e \ ToSet(n.outs) : Bind(e, n.outs, v)[t] = e[t]
    BY DEF Bind
  <2>3. QED
    BY <1>2, <2>1, <2>2 DEF Adds
<1>3. QED
  BY <1>1, <1>2

(* What a node may read is the same in an environment that has more, if    *)
(* what it reads is not among what was added.                              *)
LEMMA KnownBefore ==
  ASSUME NEW n, NEW e, NEW f, RefKnown(n, f),
         \A t \in ToSet(n.ins) \cap DOMAIN f : t \in DOMAIN e /\ e[t] = f[t]
  PROVE  RefKnown(n, e) /\ Operands(n, e) = Operands(n, f)
<1>1. ToSet(n.ins) \subseteq DOMAIN f /\ RefDefined(n.op, Operands(n, f))
  BY DEF RefKnown
<1>2. \A k \in DOMAIN n.ins : e[n.ins[k]] = f[n.ins[k]]
  BY <1>1 DEF ToSet
<1>3. Operands(n, e) = Operands(n, f)
  BY <1>2 DEF Operands
<1>4. QED
  BY <1>1, <1>3 DEF RefKnown

(* The oracle's walk leaves nothing out, and binds only what is written.   *)
LEMMA RefFull ==
  ASSUME NEW ns, IsNodeList(ns), NEW m, Sortable(ns, m.inputs), NEW x
  PROVE  LET e == RefEnv(ns, m, x)
         IN  Full(ns, e) /\ DOMAIN e \subseteq m.inputs \cup Written(ns)
<1> DEFINE order == StableOrder(ns)
           outs(i) == ToSet(ns[i].outs)
           ins(i) == ToSet(ns[i].ins)
<1>1. /\ Len(order) \in Nat /\ \A k \in 1 .. Len(order) : order[k] \in DOMAIN ns
      /\ \A i \in DOMAIN ns : \E k \in 1 .. Len(order) : order[k] = i
      /\ \A k \in 1 .. Len(order) : \A j \in 1 .. k : ins(order[j]) \cap outs(order[k]) = {}
  BY SortedInOrder DEF InOrder, IsNodeList
<1> HIDE DEF order
<1>2. PICK envs :
        /\ envs[0] = [t \in m.inputs |-> x]
        /\ \A k \in 1 .. Len(order) : envs[k] = RefBind(ns[order[k]], envs[k-1])
        /\ RefEnv(ns, m, x) = envs[Len(order)]
  <2>1. PICK e : Unfolded(e, ns, m, x)
    BY <1>1, RefUnfolds DEF order
  <2>2. QED
    BY <2>1, Zenon DEF Unfolded, order
<1> DEFINE P(k) == /\ DOMAIN envs[k] \subseteq m.inputs \cup Written(ns)
                   /\ \A j \in 1 .. k :
                        RefKnown(ns[order[j]], envs[k]) => outs(order[j]) \subseteq DOMAIN envs[k]
           N == {k \in Nat : k <= Len(order) => P(k)}
<1>3. 0 \in N
  <2>1. DOMAIN envs[0] = m.inputs
    BY <1>2
  <2>2. 1 .. 0 = {}
    OBVIOUS
  <2>3. P(0)
    BY <2>1, <2>2
  <2>4. QED
    BY <2>3
<1>4. ASSUME NEW k \in Nat, k \in N PROVE k + 1 \in N
  <2> SUFFICES ASSUME k + 1 <= Len(order) PROVE P(k + 1)
    OBVIOUS
  <2> DEFINE n == ns[order[k+1]]
             e == envs[k]
             f == envs[k+1]
  <2>1. k <= Len(order) /\ k + 1 \in 1 .. Len(order) /\ (k + 1) - 1 = k
    BY <1>1
  <2>2. P(k)
    BY <1>4, <2>1
  <2>3. f = RefBind(n, e)
    BY <1>2, <2>1
  <2>4. order[k+1] \in DOMAIN ns /\ outs(order[k+1]) \subseteq Written(ns)
    BY <1>1, <2>1 DEF Written
  <2>5. ToSet(n.outs) = outs(order[k+1]) /\ ToSet(n.ins) = ins(order[k+1])
    OBVIOUS
  <2>6. /\ DOMAIN e \subseteq m.inputs \cup Written(ns)
        /\ \A j \in 1 .. k : RefKnown(ns[order[j]], e) => outs(order[j]) \subseteq DOMAIN e
    BY <2>2
  <2> HIDE DEF n, e, f, P
  <2>7. /\ ~ RefKnown(n, e) => f = e
        /\ RefKnown(n, e) => DOMAIN f = DOMAIN e \cup ToSet(n.outs)
        /\ \A t \in DOMAIN e \ ToSet(n.outs) : f[t] = e[t]
    <3>1. Adds(RefBind(n, e), n, e)
      BY BindOne
    <3>2. QED
      BY <2>3, <3>1 DEF Adds
  <2>8. DOMAIN f \subseteq DOMAIN e \cup ToSet(n.outs) /\ DOMAIN e \subseteq DOMAIN f
    BY <2>7
  <2>9. DOMAIN f \subseteq m.inputs \cup Written(ns)
    BY <2>4, <2>5, <2>6, <2>8
  <2>10. ASSUME NEW j \in 1 .. k + 1, RefKnown(ns[order[j]], f)
         PROVE  outs(order[j]) \subseteq DOMAIN f
    <3> DEFINE a == ns[order[j]]
    <3>1. ToSet(a.ins) = ins(order[j]) /\ ToSet(a.outs) = outs(order[j]) /\ RefKnown(a, f)
      BY <2>10
    <3>2. ins(order[j]) \cap outs(order[k+1]) = {}
      BY <1>1, <2>1
    <3>3. j = k + 1 => a = n
      BY DEF n
    <3>4. j \in 1 .. k => (RefKnown(a, e) => outs(order[j]) \subseteq DOMAIN e)
      BY <2>6
    <3>5. j = k + 1 \/ j \in 1 .. k
      OBVIOUS
    <3> HIDE DEF a, outs, ins
    <3>6. \A t \in ToSet(a.ins) \cap DOMAIN f : t \in DOMAIN e /\ e[t] = f[t]
      BY <2>5, <2>7, <2>8, <3>1, <3>2
    <3>7. RefKnown(a, e)
      BY <3>1, <3>6, KnownBefore
    <3>8. CASE j = k + 1
      BY <2>7, <3>1, <3>3, <3>7, <3>8
    <3>9. CASE j \in 1 .. k
      BY <2>8, <3>4, <3>7, <3>9
    <3>10. QED
      BY <3>5, <3>8, <3>9
  <2>11. QED
    BY <2>9, <2>10 DEF f, P
<1>5. P(Len(order))
  <2> HIDE DEF P
  <2>1. \A k \in Nat : k \in N
    <3> HIDE DEF N
    <3>1. QED
      BY <1>3, <1>4, SetInduction
  <2>2. QED
    BY <1>1, <2>1
<1> DEFINE e == envs[Len(order)]
<1>6. /\ DOMAIN e \subseteq m.inputs \cup Written(ns)
      /\ \A j \in 1 .. Len(order) : RefKnown(ns[order[j]], e) => outs(order[j]) \subseteq DOMAIN e
  BY <1>5
<1>7. RefEnv(ns, m, x) = e
  BY <1>2
<1> HIDE DEF e, P
<1>8. Full(ns, e)
  <2> SUFFICES ASSUME NEW i \in DOMAIN ns, RefKnown(ns[i], e) PROVE ToSet(ns[i].outs) \subseteq DOMAIN e
    BY DEF Full
  <2>1. PICK j \in 1 .. Len(order) : order[j] = i
    BY <1>1
  <2>2. QED
    BY <1>6, <2>1
<1>9. QED
  BY <1>6, <1>7, <1>8

(* Two environments that hold and leave nothing out are the same on what a *)
(* list reads and writes, once they agree on its inputs.                   *)
LEMMA SameValues ==
  ASSUME NEW ns, IsNodeList(ns), NEW inputs, Sortable(ns, inputs),
         NEW e, Holds(ns, e), Full(ns, e), NEW f, Holds(ns, f), Full(ns, f),
         \A t \in inputs : t \in DOMAIN e /\ t \in DOMAIN f /\ e[t] = f[t],
         NEW t \in inputs \cup Written(ns)
  PROVE  /\ t \in DOMAIN e <=> t \in DOMAIN f
         /\ t \in DOMAIN e => e[t] = f[t]
<1> DEFINE order == StableOrder(ns)
           outs(i) == ToSet(ns[i].outs)
           ins(i) == ToSet(ns[i].ins)
           Seen(k) == inputs \cup UNION {outs(order[l]) : l \in 1 .. k}
           Same(s) == (s \in DOMAIN e <=> s \in DOMAIN f) /\ (s \in DOMAIN e => e[s] = f[s])
           P(k) == \A s \in Seen(k) : Same(s)
           N == {k \in Nat : k <= Len(order) => P(k)}
<1>1. /\ Len(order) \in Nat /\ \A k \in 1 .. Len(order) : order[k] \in DOMAIN ns
      /\ \A i \in DOMAIN ns : \E k \in 1 .. Len(order) : order[k] = i
      /\ \A k \in 1 .. Len(order) : ins(order[k]) \subseteq Seen(k-1)
  BY SortedInOrder DEF InOrder, IsNodeList
<1> HIDE DEF order
<1>2. \A s \in inputs : Same(s)
  OBVIOUS
<1>3. 0 \in N
  <2>1. 1 .. 0 = {}
    OBVIOUS
  <2>2. Seen(0) = inputs
    BY <2>1
  <2> HIDE DEF Seen, Same
  <2>3. P(0)
    BY <1>2, <2>2
  <2> HIDE DEF P
  <2>4. QED
    BY <2>3
<1>4. ASSUME NEW k \in Nat, k \in N PROVE k + 1 \in N
  <2> SUFFICES ASSUME k + 1 <= Len(order) PROVE P(k + 1)
    OBVIOUS
  <2> DEFINE n == ns[order[k+1]]
  <2>1. k <= Len(order) /\ k + 1 \in 1 .. Len(order) /\ (k + 1) - 1 = k
    BY <1>1
  <2>2. P(k)
    BY <1>4, <2>1
  <2>3. order[k+1] \in DOMAIN ns /\ ins(order[k+1]) \subseteq Seen(k)
    BY <1>1, <2>1
  <2>4. Seen(k + 1) = Seen(k) \cup outs(order[k+1])
    <3>1. 1 .. k + 1 = (1 .. k) \cup {k + 1}
      OBVIOUS
    <3>2. QED
      BY <3>1
  <2>5. ToSet(n.outs) = outs(order[k+1]) /\ ToSet(n.ins) = ins(order[k+1])
    OBVIOUS
  <2>6. /\ Held(n, e) /\ Held(n, f)
        /\ RefKnown(n, e) => ToSet(n.outs) \subseteq DOMAIN e
        /\ RefKnown(n, f) => ToSet(n.outs) \subseteq DOMAIN f
    BY <2>3 DEF Holds, Full
  <2> HIDE DEF n, Seen, outs, ins
  <2>7. \A s \in ToSet(n.ins) : Same(s)
    BY <2>2, <2>3, <2>5
  <2>8. RefKnown(n, e) <=> RefKnown(n, f)
    <3>1. RefKnown(n, f) => RefKnown(n, e)
      BY <2>7, KnownBefore
    <3>2. RefKnown(n, e) => RefKnown(n, f)
      BY <2>7, KnownBefore
    <3>3. QED
      BY <3>1, <3>2
  <2>9. ASSUME NEW s \in ToSet(n.outs) PROVE Same(s)
    <3>1. CASE RefKnown(n, e)
      <4>1. Operands(n, e) = Operands(n, f)
        BY <2>7, <2>8, <3>1, KnownBefore
      <4>2. ToSet(n.outs) \subseteq DOMAIN e /\ ToSet(n.outs) \subseteq DOMAIN f
        BY <2>6, <2>8, <3>1
      <4>3. PICK j \in DOMAIN n.outs : n.outs[j] = s
        BY DEF ToSet
      <4>4. /\ e[s] = RefEval(n.op, Operands(n, e))[j]
            /\ f[s] = RefEval(n.op, Operands(n, f))[j]
        BY <2>6, <4>2, <4>3 DEF Held
      <4>5. QED
        BY <4>1, <4>2, <4>4
    <3>2. CASE ~ RefKnown(n, e)
      <4>1. ToSet(n.outs) \cap DOMAIN e = {} /\ ToSet(n.outs) \cap DOMAIN f = {}
        BY <2>6, <2>8, <3>2 DEF Held
      <4>2. QED
        BY <4>1
    <3>3. QED
      BY <3>1, <3>2
  <2> HIDE DEF Same
  <2>10. QED
    BY <2>2, <2>4, <2>5, <2>9
<1>5. P(Len(order))
  <2> HIDE DEF P
  <2>1. \A k \in Nat : k \in N
    <3> HIDE DEF N
    <3>1. QED
      BY <1>3, <1>4, SetInduction
  <2>2. QED
    BY <1>1, <2>1
<1>6. t \in Seen(Len(order))
  BY <1>1 DEF Written
<1> HIDE DEF Seen
<1>7. QED
  BY <1>5, <1>6

(* The other way round: a value the fused node has, the two had.           *)
LEMMA FusedDefined ==
  ASSUME NEW a, IsTable(a), Valid(a), Declared(a),
         NEW b, IsTable(b), Valid(b), Declared(b), Composable(a, b),
         NEW in, in[1] \in Seq(Int), RefDefined(FusedOp(a, b), in)
  PROVE  RefDefined(a, in) /\ RefDefined(b, RefEval(a, in))
<1> DEFINE x == in[1]
           lut == Composed(a, b)
           f == FusedOp(a, b)
           r(i) == IF a.type = "Activation" THEN x[i] + 1 ELSE Ramp(a, i, x[i]) + 1
<1>1. lut = [j \in DOMAIN a.lut |-> b.lut[Index(a, b, a.lut[j])]]
  BY DEF Composed
<1>2. RefDefined(a, in)
  <2>1. CASE a.type = "Activation"
    <3>1. f = [b EXCEPT !.lut = lut] /\ b.type = "Activation"
      BY <2>1 DEF FusedOp, Composable
    <3> HIDE DEF f, lut
    <3>2. f.lut = lut /\ f.type = "Activation"
      BY <3>1 DEF IsTable
    <3>3. Len(in) = 1 /\ \A i \in DOMAIN x : x[i] + 1 \in DOMAIN lut
      BY <3>2 DEF RefDefined, ShapeOK, Arity, f
    <3>4. QED
      BY <1>1, <2>1, <3>3 DEF RefDefined, ShapeOK, Arity
  <2>2. CASE a.type = "Requant"
    <3>1. f = [a EXCEPT !.lut = lut]
      BY <2>2 DEF FusedOp
    <3> HIDE DEF f, lut
    <3>2. f.type = "Requant" /\ f.channel = a.channel /\ f.channelSize = a.channelSize
      BY <2>2, <3>1
    <3>3. ShapeOK(f, in)
      BY DEF RefDefined, f
    <3>4. ShapeOK(a, in)
      BY <2>2, <3>2, <3>3 DEF ShapeOK, Arity
    <3>5. QED
      BY <2>2, <3>4 DEF RefDefined
  <2>3. QED
    BY <2>1, <2>2 DEF IsTable
<1> HIDE DEF lut, f
<1>3. \A i \in DOMAIN x : r(i) \in DOMAIN a.lut
  <2>1. CASE a.type = "Activation"
    BY <1>2, <2>1 DEF RefDefined
  <2>2. CASE a.type = "Requant"
    BY <1>2, <2>2, RampInTable
  <2>3. QED
    BY <2>1, <2>2 DEF IsTable
<1> DEFINE u == [i \in DOMAIN x |-> a.lut[r(i)]]
<1>4. RefEval(a, in) = <<u>>
  <2>1. CASE a.type = "Activation"
    BY <2>1 DEF RefEval
  <2>2. CASE a.type = "Requant"
    BY <2>2 DEF RefEval
  <2>3. QED
    BY <2>1, <2>2 DEF IsTable
<1>5. DOMAIN u = DOMAIN x /\ \A i \in DOMAIN x : u[i] = a.lut[r(i)]
  OBVIOUS
<1> HIDE DEF u, r, x
<1>6. RefDefined(b, <<u>>)
  <2>1. Len(<<u>>) = 1 /\ <<u>>[1] = u
    OBVIOUS
  <2>2. CASE b.type = "Activation"
    <3>1. \A i \in DOMAIN u : u[i] + 1 \in DOMAIN b.lut
      BY <1>3, <1>5, <2>2 DEF Composable, Index
    <3>2. QED
      BY <2>1, <2>2, <3>1 DEF RefDefined, ShapeOK, Arity
  <2>3. CASE b.type = "Requant"
    <3>1. b.channelSize = 0
      BY <2>3 DEF Composable, PlainRequant
    <3>2. QED
      BY <2>1, <2>3, <3>1 DEF RefDefined, ShapeOK, Arity
  <2>4. QED
    BY <2>2, <2>3 DEF IsTable
<1>7. QED
  BY <1>2, <1>4, <1>6

(* The fused node leaves nothing out that the two did not.                 *)
LEMMA FusedFull ==
  ASSUME NEW m, HasLists(m), IsTable(m.op), Valid(m.op), Declared(m.op), Matched(m),
         NEW n, HasLists(n), IsTable(n.op), Valid(n.op), Declared(n.op), Matched(n),
         Composable(m.op, n.op), n.ins[1] = m.outs[1],
         NEW e, Typed(e), Held(m, e),
         RefKnown(m, e) => ToSet(m.outs) \subseteq DOMAIN e,
         RefKnown(n, e) => ToSet(n.outs) \subseteq DOMAIN e,
         RefKnown(FusedNode(m, n), e)
  PROVE  ToSet(n.outs) \subseteq DOMAIN e
<1> DEFINE new == FusedNode(m, n)
           in == Operands(m, e)
<1>1. new.ins = m.ins /\ new.op = FusedOp(m.op, n.op)
  BY DEF FusedNode
<1>2. ToSet(m.ins) \subseteq DOMAIN e /\ RefDefined(FusedOp(m.op, n.op), in)
  BY <1>1 DEF RefKnown, Operands
<1> HIDE DEF new
<1>3. Len(m.ins) = 1 /\ Len(m.outs) = 1 /\ Len(n.ins) = 1
  BY DEF IsTable, Matched, Arity, OutArity
<1>4. DOMAIN m.ins = 1 .. 1 /\ DOMAIN m.outs = 1 .. 1 /\ DOMAIN n.ins = 1 .. 1
  BY <1>3 DEF HasLists
<1>5. in[1] \in Seq(Int)
  <2>1. in = [k \in 1 .. 1 |-> e[m.ins[k]]] /\ m.ins[1] \in DOMAIN e
    BY <1>2, <1>4 DEF Operands, ToSet
  <2> HIDE DEF in
  <2>2. QED
    BY <2>1 DEF Typed
<1>6. RefDefined(m.op, in) /\ RefDefined(n.op, RefEval(m.op, in))
  <2> HIDE DEF in
  <2>1. QED
    BY <1>2, <1>5, FusedDefined
<1>7. RefKnown(m, e)
  BY <1>2, <1>6 DEF RefKnown
<1>8. m.outs[1] \in ToSet(m.outs) /\ ToSet(m.outs) \subseteq DOMAIN e
  BY <1>4, <1>7 DEF ToSet
<1>9. m.outs[1] \in DOMAIN e /\ e[m.outs[1]] = RefEval(m.op, in)[1]
  BY <1>4, <1>8 DEF Held
<1>10. RefEval(m.op, in) = <<RefEval(m.op, in)[1]>>
  <2> HIDE DEF in
  <2>1. CASE m.op.type = "Activation"
    BY <2>1 DEF RefEval
  <2>2. CASE m.op.type = "Requant"
    BY <2>2 DEF RefEval
  <2>3. QED
    BY <2>1, <2>2 DEF IsTable
<1>11. Operands(n, e) = <<e[m.outs[1]]>>
  <2>1. Operands(n, e) = [k \in 1 .. 1 |-> e[n.ins[k]]]
    BY <1>4 DEF Operands
  <2>2. QED
    BY <2>1
<1> HIDE DEF in
<1>12. Operands(n, e) = RefEval(m.op, in)
  BY <1>9, <1>10, <1>11, Zenon
<1>13. ToSet(n.ins) \subseteq DOMAIN e
  <2>1. ToSet(n.ins) = {n.ins[1]}
    BY <1>4 DEF ToSet
  <2>2. QED
    BY <1>9, <2>1
<1>14. RefKnown(n, e)
  BY <1>6, <1>12, <1>13 DEF RefKnown
<1>15. QED
  BY <1>14

(* What a rewrite leaves nothing out of.                                   *)
LEMMA FuseFull ==
  ASSUME NEW ns, IsNodeList(ns), NEW outputs,
         NEW p \in DOMAIN ns, NEW c \in DOMAIN ns, Fusable(ns, outputs, p, c),
         \A i \in DOMAIN ns : Valid(ns[i].op) /\ Declared(ns[i].op) /\ Matched(ns[i]),
         NEW e, Typed(e), Holds(ns, e), Full(ns, e)
  PROVE  Full(Fuse(ns, p, c), e)
<1> DEFINE fs == Fuse(ns, p, c)
           new == FusedNode(ns[p], ns[c])
           S == ToSet(ns)
<1>1. ns \in Seq(S) /\ \A i \in DOMAIN ns : IsNode(ns[i])
  BY DEF IsNodeList
<1> HIDE DEF S
<1>2. DOMAIN ns = 1 .. Len(ns) /\ Len(ns) \in Nat
  BY <1>1
<1>3. Adjacent(ns, outputs, p, c) /\ Composable(ns[p].op, ns[c].op)
  BY DEF Fusable
<1>4. p < c
  BY <1>2, <1>3 DEF Adjacent
<1>5. Layout(S, ns, p, c, fs)
  BY <1>1, <1>2, <1>4, FuseLayout
<1>6. HasLists(ns[p]) /\ IsTable(ns[p].op) /\ HasLists(ns[c]) /\ IsTable(ns[c].op)
  <2>1. IsNode(ns[p]) /\ IsNode(ns[c])
    BY <1>1
  <2>2. ns[p].op.type \in {"Activation", "Requant"} /\ ns[c].op.type \in {"Activation", "Requant"}
    BY <1>3 DEF Composable
  <2>3. QED
    BY <2>1, <2>2 DEF IsNode, IsTable
<1>7. ns[c].ins[1] = ns[p].outs[1]
  <2> DEFINE t == ns[p].outs[1]
  <2>1. Len(ns[c].ins) = 1 /\ DOMAIN ns[c].ins = 1 .. 1
    BY <1>3, <1>6 DEF Adjacent, HasLists
  <2>2. t \in ToSet(ns[c].ins)
    BY <1>3, OnlyReader
  <2>3. QED
    BY <2>1, <2>2 DEF ToSet
<1>8. RefKnown(new, e) => ToSet(new.outs) \subseteq DOMAIN e
  <2> SUFFICES ASSUME RefKnown(new, e) PROVE ToSet(new.outs) \subseteq DOMAIN e
    OBVIOUS
  <2> DEFINE m == ns[p]
             n == ns[c]
  <2>1. /\ HasLists(m) /\ IsTable(m.op) /\ Valid(m.op) /\ Declared(m.op) /\ Matched(m)
        /\ HasLists(n) /\ IsTable(n.op) /\ Valid(n.op) /\ Declared(n.op) /\ Matched(n)
        /\ Composable(m.op, n.op) /\ n.ins[1] = m.outs[1]
        /\ Held(m, e)
        /\ RefKnown(m, e) => ToSet(m.outs) \subseteq DOMAIN e
    BY <1>3, <1>6, <1>7 DEF Holds, Full
  <2>2. RefKnown(n, e) => ToSet(n.outs) \subseteq DOMAIN e
    BY DEF Full
  <2>3. RefKnown(FusedNode(m, n), e) /\ new.outs = n.outs
    BY DEF FusedNode
  <2> HIDE DEF m, n, new
  <2>4. ToSet(n.outs) \subseteq DOMAIN e
    BY <2>1, <2>2, <2>3, FusedFull
  <2>5. QED
    BY <2>3, <2>4
<1> HIDE DEF new, fs
<1>9. \A k \in DOMAIN fs : fs[k] = new \/ \E i \in DOMAIN ns : fs[k] = ns[i]
  <2>1. /\ fs \in Seq(S \cup {new})
        /\ \A k \in 1 .. Len(fs) : fs[k] = new \/ \E i \in DOMAIN ns : fs[k] = ns[i]
    BY <1>2, <1>5 DEF Layout, new
  <2>2. DOMAIN fs = 1 .. Len(fs)
    BY <2>1
  <2>3. QED
    BY <2>1, <2>2
<1>10. \A k \in DOMAIN fs : RefKnown(fs[k], e) => ToSet(fs[k].outs) \subseteq DOMAIN e
  BY <1>8, <1>9 DEF Full
<1>11. QED
  BY <1>10 DEF Full, fs

(* What is written after a rewrite: all but the tensor between the two.    *)
LEMMA FuseWrites ==
  ASSUME NEW ns, IsNodeList(ns), NEW outputs,
         NEW p \in DOMAIN ns, NEW c \in DOMAIN ns, Adjacent(ns, outputs, p, c)
  PROVE  /\ Written(Fuse(ns, p, c)) \subseteq Written(ns)
         /\ \A t \in outputs : t \in Written(ns) => t \in Written(Fuse(ns, p, c))
<1> DEFINE fs == Fuse(ns, p, c)
<1>1. p < c
  <2>1. DOMAIN ns = 1 .. Len(ns)
    BY DEF IsNodeList
  <2>2. QED
    BY <2>1 DEF Adjacent
<1>2. /\ \A k \in DOMAIN fs : Wrote(p, c, k) \in DOMAIN ns /\ fs[k].outs = ns[Wrote(p, c, k)].outs
      /\ \A i \in DOMAIN ns \ {p} : \E k \in DOMAIN fs : Wrote(p, c, k) = i
  <2>1. Named(ns, p, c, fs)
    BY <1>1, FuseNames
  <2>2. QED
    BY <2>1 DEF Named
<1>3. ToSet(ns[p].outs) = {ns[p].outs[1]} /\ ns[p].outs[1] \notin outputs
  <2>1. ToSet(ns[p].outs) = {ns[p].outs[1]}
    BY OnlyReader
  <2>2. QED
    BY <2>1 DEF Adjacent
<1> HIDE DEF fs
<1>4. Written(fs) \subseteq Written(ns)
  BY <1>2 DEF Written
<1>5. ASSUME NEW t \in outputs, t \in Written(ns) PROVE t \in Written(fs)
  <2>1. PICK i \in DOMAIN ns : t \in ToSet(ns[i].outs)
    BY <1>5 DEF Written
  <2>2. i # p
    BY <1>3, <2>1
  <2>3. PICK k \in DOMAIN fs : Wrote(p, c, k) = i
    BY <1>2, <2>2
  <2>4. QED
    BY <1>2, <2>1, <2>3 DEF Written
<1>6. QED
  BY <1>4, <1>5 DEF fs

(* One rewrite, on the oracle's values.                                    *)
LEMMA FuseSameValues ==
  ASSUME NEW ns, IsNodeList(ns), NEW m, Sortable(ns, m.inputs), NEW outputs,
         NEW p \in DOMAIN ns, NEW c \in DOMAIN ns, Fusable(ns, outputs, p, c),
         \A i \in DOMAIN ns : Valid(ns[i].op) /\ Declared(ns[i].op) /\ Matched(ns[i]),
         NEW x \in Seq(Int)
  PROVE  LET before == RefEnv(ns, m, x)
             after  == RefEnv(Fuse(ns, p, c), m, x)
         IN  /\ outputs \cap DOMAIN before = outputs \cap DOMAIN after
             /\ \A t \in DOMAIN after : t \in DOMAIN before /\ after[t] = before[t]
<1> DEFINE fs == Fuse(ns, p, c)
           e == RefEnv(ns, m, x)
           f == RefEnv(fs, m, x)
<1>1. Adjacent(ns, outputs, p, c)
  BY DEF Fusable
<1>2. /\ Holds(ns, e) /\ Typed(e) /\ Full(ns, e) /\ DOMAIN e \subseteq m.inputs \cup Written(ns)
      /\ \A t \in m.inputs : t \in DOMAIN e /\ e[t] = x
  BY NodesListed, RefHolds, RefFull
<1>3. IsNodeList(fs) /\ \A k \in DOMAIN fs : Valid(fs[k].op) /\ Matched(fs[k])
  BY FuseKeepsNodes
<1>4. Sortable(fs, m.inputs)
  BY <1>1, FuseKeepsSortable
<1> HIDE DEF e
<1>5. /\ Holds(fs, e) /\ Full(fs, e)
      /\ \A k \in DOMAIN fs : Declared(fs[k].op)
  BY <1>2, FuseHolds, FuseFull
<1>6. /\ Written(fs) \subseteq Written(ns)
      /\ \A t \in outputs : t \in Written(ns) => t \in Written(fs)
  BY <1>1, FuseWrites
<1> HIDE DEF fs
<1>7. /\ Holds(fs, f) /\ Full(fs, f) /\ DOMAIN f \subseteq m.inputs \cup Written(fs)
      /\ \A t \in m.inputs : t \in DOMAIN f /\ f[t] = x
  BY <1>3, <1>4, <1>5, NodesListed, RefHolds, RefFull
<1> HIDE DEF f
<1>8. \A t \in m.inputs \cup Written(fs) :
        /\ t \in DOMAIN e <=> t \in DOMAIN f
        /\ t \in DOMAIN e => e[t] = f[t]
  <2>1. \A t \in m.inputs : t \in DOMAIN e /\ t \in DOMAIN f /\ e[t] = f[t]
    BY <1>2, <1>7
  <2>2. QED
    BY <1>3, <1>4, <1>5, <1>7, <2>1, SameValues
<1>9. outputs \cap DOMAIN e = outputs \cap DOMAIN f
  BY <1>2, <1>6, <1>7, <1>8
<1>10. \A t \in DOMAIN f : t \in DOMAIN e /\ f[t] = e[t]
  BY <1>7, <1>8
<1>11. QED
  BY <1>9, <1>10 DEF e, f, fs

(* Fusing is exact: whatever the graph and the row, a rewrite of           *)
(* optimize_graph changes no value of the forward pass that is still in    *)
(* the graph, and returns the same outputs on the same rows.               *)
THEOREM FusingIsExact == Spec => FusionExact
<1> DEFINE Exact == nodes' # nodes =>
             LET before == RefEnv(nodes, model, row)
                 after  == RefEnv(nodes', model, row)
             IN  /\ model.outputs \cap DOMAIN before = model.outputs \cap DOMAIN after
                 /\ \A t \in DOMAIN after : t \in DOMAIN before /\ after[t] = before[t]
<1>1. ASSUME Inv, WidthInv, Next, nodes' # nodes PROVE Exact
  <2> DEFINE pc == FirstPair(nodes, model.outputs)
  <2>1. FuseStep
    BY <1>1 DEF Next, Admit, StartWalk, EvalNode, Finish, Returned, vars
  <2>2. /\ phase = "fuse" /\ FusablePairs(nodes, model.outputs) # {}
        /\ nodes' = Fuse(nodes, pc[1], pc[2])
    BY <1>1, <2>1 DEF FuseStep
  <2>3. /\ IsNodeList(nodes) /\ Sortable(nodes, model.inputs) /\ model \in Models
    BY <1>1, <2>2 DEF Inv, FuseInv, Propagates
  <2>4. \A i \in DOMAIN nodes : Valid(nodes[i].op) /\ Declared(nodes[i].op) /\ Matched(nodes[i])
    BY <1>1, <2>2 DEF WidthInv
  <2>5. row \in Seq(Int)
    <3>1. model.inputBits \in Nat /\ model.inputLen \in Nat
      BY <2>3, ModelAssumption
    <3>2. row \in [1 .. model.inputLen -> 0 .. 2^model.inputBits - 1]
      BY <1>1 DEF WidthInv
    <3>3. QED
      BY <3>1, <3>2, RowIsBelow
  <2>6. PICK p, c : p = pc[1] /\ c = pc[2]
    OBVIOUS
  <2>7. p \in DOMAIN nodes /\ c \in DOMAIN nodes /\ Fusable(nodes, model.outputs, p, c)
    BY <2>2, <2>3, <2>6, FirstPairIsFusable
  <2>8. nodes' = Fuse(nodes, p, c)
    BY <2>2, <2>6
  <2> HIDE DEF pc
  <2>9. LET before == RefEnv(nodes, model, row)
            after  == RefEnv(Fuse(nodes, p, c), model, row)
        IN  /\ model.outputs \cap DOMAIN before = model.outputs \cap DOMAIN after
            /\ \A t \in DOMAIN after : t \in DOMAIN before /\ after[t] = before[t]
    BY <2>3, <2>4, <2>5, <2>7, FuseSameValues
  <2>10. QED
    BY <2>8, <2>9
<1>2. Inv /\ WidthInv /\ [Next]_vars => [Exact]_vars
  <2>1. CASE Next
    BY <1>1, <2>1
  <2>2. CASE UNCHANGED vars
    BY <2>2
  <2>3. QED
    BY <2>1, <2>2
<1>3. QED
  BY <1>2, InvInit, InvStep, WidthInit, WidthStep, PTL DEF Spec, FusionExact

-----------------------------------------------------------------------------
(* Half of what q blocks can tell apart.                                   *)
Half(q) == 2^(MessageBits * q - 1)

(* Half the range of a radix of q blocks.                                   *)
LEMMA HalfIs ==
  ASSUME NEW q \in Nat \ {0}
  PROVE  Half(q) \in Nat \ {0} /\ 2 * Half(q) = 2^(2 * q) /\ MessageBits * q - 1 \in Nat
<1>1. 2 * q - 1 \in Nat /\ (2 * q - 1) + 1 = 2 * q
  OBVIOUS
<1>2. 2^(2 * q - 1) \in Nat /\ 1 <= 2^(2 * q - 1)
  BY <1>1, PowerStep, PowerBounds
<1>3. 2^((2 * q - 1) + 1) = 2 * 2^(2 * q - 1)
  BY <1>1, PowerStep
<1>4. QED
  BY <1>1, <1>2, <1>3 DEF Half, MessageBits

(* Division with a remainder.                                              *)
LEMMA Remainder ==
  ASSUME NEW a \in Int, NEW m \in Nat \ {0}
  PROVE  a % m \in Nat /\ a % m < m /\ a \div m \in Int /\ a = (a \div m) * m + (a % m)
  OBVIOUS

(* Congruent numbers less than a modulus apart are equal.                  *)
LEMMA CongruentClose ==
  ASSUME NEW u \in Int, NEW v \in Int, NEW m \in Nat \ {0}, Congruent(u, v, m),
         u - v < m, v - u < m
  PROVE  u = v
<1>1. PICK k \in Int : u = v + k * m
  BY DEF Congruent
<1>2. CASE k = 0
  BY <1>1, <1>2
<1>3. CASE k >= 1
  <2>1. k - 1 \in Nat /\ k * m = (k - 1) * m + m /\ (k - 1) * m \in Nat
    BY <1>3
  <2>2. QED
    BY <1>1, <2>1
<1>4. CASE k <= -1
  <2>1. -k - 1 \in Nat /\ -(k * m) = (-k - 1) * m + m /\ (-k - 1) * m \in Nat
    BY <1>4
  <2>2. QED
    BY <1>1, <2>1
<1>5. QED
  BY <1>2, <1>3, <1>4

(* Congruence is kept by sums, differences and products.                    *)
LEMMA CongruentSteps ==
  ASSUME NEW m \in Int
  PROVE  /\ \A u \in Int : Congruent(u, u, m)
         /\ \A u, v \in Int : Congruent(u, v, m) => Congruent(v, u, m)
         /\ \A u, v, w \in Int : Congruent(u, v, m) /\ Congruent(v, w, m) => Congruent(u, w, m)
         /\ \A u, v, a, c \in Int :
              Congruent(u, v, m) /\ Congruent(a, c, m) => Congruent(u + a, v + c, m)
         /\ \A u, v, a \in Int : Congruent(u, v, m) => Congruent(a * u, a * v, m)
<1>1. ASSUME NEW u \in Int PROVE Congruent(u, u, m)
  <2>1. u = u + 0 * m
    OBVIOUS
  <2>2. QED
    BY <2>1 DEF Congruent
<1>2. ASSUME NEW u \in Int, NEW v \in Int, Congruent(u, v, m) PROVE Congruent(v, u, m)
  <2>1. PICK k \in Int : u = v + k * m
    BY <1>2 DEF Congruent
  <2>2. v = u + (-k) * m /\ -k \in Int
    BY <2>1
  <2>3. QED
    BY <2>2 DEF Congruent
<1>3. ASSUME NEW u \in Int, NEW v \in Int, NEW w \in Int, Congruent(u, v, m), Congruent(v, w, m)
      PROVE  Congruent(u, w, m)
  <2>1. PICK k \in Int : u = v + k * m
    BY <1>3 DEF Congruent
  <2>2. PICK l \in Int : v = w + l * m
    BY <1>3 DEF Congruent
  <2>3. u = w + (k + l) * m /\ k + l \in Int
    BY <2>1, <2>2
  <2>4. QED
    BY <2>3 DEF Congruent
<1>4. ASSUME NEW u \in Int, NEW v \in Int, NEW a \in Int, NEW c \in Int,
             Congruent(u, v, m), Congruent(a, c, m)
      PROVE  Congruent(u + a, v + c, m)
  <2>1. PICK k \in Int : u = v + k * m
    BY <1>4 DEF Congruent
  <2>2. PICK l \in Int : a = c + l * m
    BY <1>4 DEF Congruent
  <2>3. u + a = (v + c) + (k + l) * m /\ k + l \in Int
    BY <2>1, <2>2
  <2>4. QED
    BY <2>3 DEF Congruent
<1>5. ASSUME NEW u \in Int, NEW v \in Int, NEW a \in Int, Congruent(u, v, m)
      PROVE  Congruent(a * u, a * v, m)
  <2>1. PICK k \in Int : u = v + k * m
    BY <1>5 DEF Congruent
  <2>2. a * (v + k * m) = a * v + (a * k) * m /\ a * k \in Int
    OBVIOUS
  <2>3. a * u = a * v + (a * k) * m
    BY <2>1, <2>2
  <2>4. QED
    BY <2>2, <2>3 DEF Congruent
<1>6. QED
  BY <1>1, <1>2, <1>3, <1>4, <1>5

(* Trimming to q blocks: the signed residue.                               *)
LEMMA WrapIs ==
  ASSUME NEW v \in Int, NEW q \in Nat \ {0}
  PROVE  /\ Wrap(v, q) \in Int /\ -Half(q) <= Wrap(v, q) /\ Wrap(v, q) < Half(q)
         /\ Congruent(Wrap(v, q), v, 2 * Half(q))
         /\ -Half(q) <= v /\ v < Half(q) => Wrap(v, q) = v
<1> DEFINE h == Half(q)
           a == v + h
           m == 2 * h
<1>1. h \in Nat \ {0} /\ m \in Nat \ {0} /\ a \in Int
  BY HalfIs
<1>2. Wrap(v, q) = (a % m) - h
  BY DEF Wrap, Half
<1> HIDE DEF h
<1>3. a % m \in Nat /\ a % m < m /\ a \div m \in Int /\ a = (a \div m) * m + (a % m)
  <2> HIDE DEF a, m
  <2>1. QED
    BY <1>1, Remainder
<1>4. (a % m) - h \in Int /\ -h <= (a % m) - h /\ (a % m) - h < h
  <2> HIDE DEF a
  <2>1. QED
    BY <1>1, <1>3
<1>5. (a % m) - h = v + (-(a \div m)) * m
  <2> DEFINE k == a \div m
             e == a % m
  <2>1. k \in Int /\ e \in Int /\ v + h = k * m + e
    BY <1>3
  <2> HIDE DEF k, e, m
  <2>2. k * m \in Int /\ (-k) * m = -(k * m)
    BY <1>1, <2>1
  <2>3. e - h = v + (-k) * m
    BY <1>1, <2>1, <2>2
  <2>4. QED
    BY <2>3 DEF k, e
<1>6. Congruent((a % m) - h, v, m)
  BY <1>3, <1>5 DEF Congruent
<1>7. ASSUME -h <= v, v < h PROVE (a % m) - h = v
  <2> DEFINE u == (a % m) - h
  <2>1. u \in Int /\ u - v < m /\ v - u < m
    <3> HIDE DEF a
    <3>1. QED
      BY <1>1, <1>4, <1>7
  <2>2. Congruent(u, v, m)
    BY <1>6
  <2> HIDE DEF u, m
  <2>3. u = v
    BY <1>1, <2>1, <2>2, CongruentClose
  <2>4. QED
    BY <2>3 DEF u
<1> HIDE DEF a
<1>8. QED
  BY <1>2, <1>4, <1>6, <1>7 DEF h

(* What q blocks hold.                                                     *)
LEMMA FitsIs ==
  ASSUME NEW v \in Int, NEW q \in Nat \ {0}
  PROVE  FitsBlocks(v, q) <=> -Half(q) <= v /\ v < Half(q)
  BY WrapIs DEF FitsBlocks

(* A residue of a number that fits is that number.                         *)
LEMMA WrapExact ==
  ASSUME NEW u \in Int, NEW v \in Int, NEW q \in Nat \ {0}, FitsBlocks(v, q),
         Congruent(u, v, 2 * Half(q))
  PROVE  Wrap(u, q) = v
<1> DEFINE h == Half(q)
           m == 2 * h
           w == Wrap(u, q)
<1>1. h \in Nat \ {0} /\ m \in Nat \ {0} /\ m \in Int
  BY HalfIs
<1>2. w \in Int /\ -h <= w /\ w < h /\ Congruent(w, u, m)
  BY WrapIs
<1>3. -h <= v /\ v < h
  BY FitsIs
<1>4. Congruent(u, v, m)
  OBVIOUS
<1> HIDE DEF h, w
<1>5. w - v < m /\ v - w < m
  BY <1>1, <1>2, <1>3
<1> HIDE DEF m
<1>6. Congruent(w, v, m)
  BY <1>1, <1>2, <1>4, CongruentSteps
<1>7. w = v
  BY <1>1, <1>2, <1>5, <1>6, CongruentClose
<1>8. QED
  BY <1>7 DEF w

(* More blocks hold no less, and a bit below the capacity is enough.       *)
LEMMA FitsMore ==
  ASSUME NEW v \in Int, NEW q \in Nat \ {0}, NEW r \in Nat \ {0}, q <= r, FitsBlocks(v, q)
  PROVE  FitsBlocks(v, r)
<1>1. 2 * q - 1 \in Nat /\ 2 * r - 1 \in Nat /\ 2 * q - 1 <= 2 * r - 1
  OBVIOUS
<1>2. 2^(2 * q - 1) <= 2^(2 * r - 1)
  BY <1>1, PowerBounds
<1>3. Half(q) <= Half(r) /\ Half(q) \in Nat /\ Half(r) \in Nat
  BY <1>2, HalfIs DEF Half, MessageBits
<1>4. QED
  BY <1>3, FitsIs

(* Blocks with two bits each hold what is below their width.               *)
LEMMA FitsBelow ==
  ASSUME NEW v \in Int, NEW k \in Nat, NEW q \in Nat \ {0}, k + 1 <= 2 * q, Magnitude(v) < 2^k
  PROVE  FitsBlocks(v, q)
<1>1. 2 * q - 1 \in Nat /\ k <= 2 * q - 1
  OBVIOUS
<1>2. 2^k \in Nat /\ 2^(2 * q - 1) \in Nat /\ 2^k <= 2^(2 * q - 1)
  BY <1>1, PowerStep, PowerBounds
<1>3. -(2^k) < v /\ v < 2^k
  BY <1>2, MagnitudeIs
<1>4. -Half(q) <= v /\ v < Half(q)
  BY <1>2, <1>3 DEF Half, MessageBits
<1>5. QED
  BY <1>4, FitsIs

-----------------------------------------------------------------------------
(* The blocks a tensor is given.                                           *)

(* A clamped block count.                                                  *)
LEMMA ClampIs ==
  ASSUME NEW n \in Int, NEW cap \in Nat \ {0}
  PROVE  /\ Clamp(n, cap) \in 1 .. cap
         /\ Clamp(n, cap) = cap \/ Clamp(n, cap) >= n
         /\ \A m \in Int : n <= m => Clamp(n, cap) <= Clamp(m, cap)
<1>1. \A k \in Int : Clamp(k, cap) = Smaller(Larger(k, 1), cap)
  BY DEF Clamp, Larger, Smaller
<1>2. \A k \in Int : Larger(k, 1) = (IF k >= 1 THEN k ELSE 1) /\ Larger(k, 1) \in Int
  BY LargerSmaller
<1>3. \A k \in Int : Smaller(Larger(k, 1), cap) = IF Larger(k, 1) <= cap THEN Larger(k, 1) ELSE cap
  BY <1>2, LargerSmaller
<1>4. \A k \in Int : Clamp(k, cap) = LET j == IF k >= 1 THEN k ELSE 1 IN IF j <= cap THEN j ELSE cap
  BY <1>1, <1>2, <1>3
<1>5. QED
  BY <1>4

(* Blocks for a width and its sign.                                        *)
LEMMA CeilDivIs ==
  ASSUME NEW wd \in Nat
  PROVE  /\ CeilDiv(wd, MessageBits) \in Nat /\ wd <= 2 * CeilDiv(wd, MessageBits)
         /\ 2 * CeilDiv(wd, MessageBits) <= wd + 1
  BY DEF CeilDiv, MessageBits

(* Room for a magnitude of `bits` bits and a sign, unless the radix ends.   *)
LEMMA ValueBlocksIs ==
  ASSUME NEW wd \in Nat, NEW cap \in Nat \ {0}
  PROVE  /\ ValueBlocks(wd, cap) \in 1 .. cap
         /\ ValueBlocks(wd, cap) = cap \/ wd + 1 <= 2 * ValueBlocks(wd, cap)
<1> DEFINE n == CeilDiv(wd + 1, MessageBits)
<1>1. n \in Nat /\ wd + 1 <= 2 * n
  BY CeilDivIs
<1>2. ValueBlocks(wd, cap) = Clamp(n, cap)
  BY DEF ValueBlocks
<1> HIDE DEF n
<1>3. Clamp(n, cap) \in 1 .. cap /\ (Clamp(n, cap) = cap \/ Clamp(n, cap) >= n)
  BY <1>1, ClampIs
<1>4. QED
  BY <1>1, <1>2, <1>3

(* Room for a signed number of `bits` bits, unless the radix ends.          *)
LEMMA SignedBlocksIs ==
  ASSUME NEW wd \in Nat, NEW cap \in Nat \ {0}
  PROVE  /\ SignedBlocks(wd, cap) \in 1 .. cap
         /\ SignedBlocks(wd, cap) = cap \/ wd <= 2 * SignedBlocks(wd, cap)
         /\ SignedBlocks(wd, cap) <= ValueBlocks(wd, cap)
<1> DEFINE n == CeilDiv(wd, MessageBits)
           m == CeilDiv(wd + 1, MessageBits)
<1>1. n \in Nat /\ wd <= 2 * n /\ m \in Nat /\ wd + 1 <= 2 * m /\ 2 * n <= wd + 1
  BY CeilDivIs
<1>2. SignedBlocks(wd, cap) = Clamp(n, cap) /\ ValueBlocks(wd, cap) = Clamp(m, cap)
  BY DEF SignedBlocks, ValueBlocks
<1> HIDE DEF n, m
<1>3. Clamp(n, cap) \in 1 .. cap /\ (Clamp(n, cap) = cap \/ Clamp(n, cap) >= n)
  BY <1>1, ClampIs
<1>4. n <= m
  BY <1>1
<1>5. Clamp(n, cap) <= Clamp(m, cap)
  BY <1>1, <1>4, ClampIs
<1>6. QED
  BY <1>1, <1>2, <1>3, <1>5

(* A value the radix holds is held by the blocks of its width.              *)
LEMMA ValueFits ==
  ASSUME NEW v \in Int, NEW wd \in Nat, Magnitude(v) < 2^wd,
         NEW cap \in Nat \ {0}, FitsBlocks(v, cap)
  PROVE  FitsBlocks(v, ValueBlocks(wd, cap))
<1>1. ValueBlocks(wd, cap) \in Nat \ {0}
      /\ (ValueBlocks(wd, cap) = cap \/ wd + 1 <= 2 * ValueBlocks(wd, cap))
  BY ValueBlocksIs
<1>2. CASE ValueBlocks(wd, cap) = cap
  BY <1>2
<1>3. CASE wd + 1 <= 2 * ValueBlocks(wd, cap)
  BY <1>1, <1>3, FitsBelow
<1>4. QED
  BY <1>1, <1>2, <1>3

(* A width that counts the sign already needs no further bit.              *)
LEMMA SignedFits ==
  ASSUME NEW v \in Int, NEW wd \in Nat \ {0}, Magnitude(v) < 2^(wd - 1),
         NEW cap \in Nat \ {0}, FitsBlocks(v, cap)
  PROVE  FitsBlocks(v, SignedBlocks(wd, cap))
<1>1. SignedBlocks(wd, cap) \in Nat \ {0}
      /\ (SignedBlocks(wd, cap) = cap \/ wd <= 2 * SignedBlocks(wd, cap))
  BY SignedBlocksIs
<1>2. CASE SignedBlocks(wd, cap) = cap
  BY <1>2
<1>3. CASE wd <= 2 * SignedBlocks(wd, cap)
  <2>1. wd - 1 \in Nat /\ (wd - 1) + 1 <= 2 * SignedBlocks(wd, cap)
    BY <1>1, <1>3
  <2>2. QED
    BY <1>1, <2>1, FitsBelow
<1>4. QED
  BY <1>1, <1>2, <1>3

-----------------------------------------------------------------------------
(* Ciphertexts, and what it means that they carry a tensor of the oracle.  *)
Cts(nb) == [blocks : 1 .. nb, v : Int]

(* Every value in the radix.                                               *)
InRadix(x, nb) == \A i \in DOMAIN x : FitsBlocks(x[i], nb)

(* One value each, in blocks that hold it and are no fewer than its width  *)
(* calls for without a sign.                                               *)
Carries(cts, x, b, nb) ==
  /\ cts \in Seq(Cts(nb)) /\ Len(cts) = Len(x)
  /\ \A i \in 1 .. Len(x) :
       /\ cts[i].v = x[i] /\ FitsBlocks(x[i], cts[i].blocks)
       /\ SignedBlocks(b, nb) <= cts[i].blocks

(* What ciphertexts that carry a tensor are.                               *)
LEMMA CarriesIs ==
  ASSUME NEW nb \in Nat \ {0}, NEW x \in Seq(Int), NEW b \in Nat, NEW cts, Carries(cts, x, b, nb)
  PROVE  /\ cts \in Seq(Cts(nb)) /\ Len(cts) = Len(x) /\ Len(x) \in Nat
         /\ DOMAIN cts = 1 .. Len(x) /\ DOMAIN x = 1 .. Len(x)
         /\ \A i \in 1 .. Len(x) :
              /\ cts[i] \in Cts(nb) /\ cts[i].v = x[i] /\ x[i] \in Int
              /\ cts[i].blocks \in 1 .. nb /\ FitsBlocks(x[i], cts[i].blocks)
              /\ SignedBlocks(b, nb) <= cts[i].blocks
<1>1. cts \in Seq(Cts(nb)) /\ Len(cts) = Len(x) /\ Len(x) \in Nat
      /\ DOMAIN cts = 1 .. Len(x) /\ DOMAIN x = 1 .. Len(x)
  BY DEF Carries
<1>2. \A i \in 1 .. Len(x) : /\ cts[i].v = x[i] /\ FitsBlocks(x[i], cts[i].blocks)
                              /\ SignedBlocks(b, nb) <= cts[i].blocks
  BY DEF Carries
<1>3. \A i \in 1 .. Len(x) : cts[i] \in Cts(nb) /\ x[i] \in Int
  BY <1>1
<1>4. \A i \in 1 .. Len(x) : cts[i].blocks \in 1 .. nb
  BY <1>3 DEF Cts
<1>5. QED
  BY <1>1, <1>2, <1>3, <1>4

(* And what they hold, elementwise.                                        *)
LEMMA CarriesValues ==
  ASSUME NEW nb \in Nat \ {0}, NEW x \in Seq(Int), NEW b \in Nat, NEW cts, Carries(cts, x, b, nb)
  PROVE  /\ DOMAIN cts = 1 .. Len(x) /\ DOMAIN x = 1 .. Len(x) /\ Len(x) \in Nat
         /\ \A i \in 1 .. Len(x) : cts[i].v = x[i] /\ x[i] \in Int
<1>1. DOMAIN cts = 1 .. Len(x) /\ DOMAIN x = 1 .. Len(x) /\ Len(x) \in Nat
  BY DEF Carries
<1>2. \A i \in 1 .. Len(x) : cts[i].v = x[i]
  BY DEF Carries
<1>3. \A i \in 1 .. Len(x) : x[i] \in Int
  BY <1>1
<1>4. QED
  BY <1>1, <1>2, <1>3

(* They decrypt to it.                                                     *)
LEMMA CarriesClear ==
  ASSUME NEW nb \in Nat \ {0}, NEW x \in Seq(Int), NEW b \in Nat, NEW cts, Carries(cts, x, b, nb)
  PROVE  Clear(cts) = x
<1>1. /\ DOMAIN cts = 1 .. Len(x) /\ DOMAIN x = 1 .. Len(x)
      /\ \A i \in 1 .. Len(x) : cts[i].v = x[i]
  BY CarriesIs
<1>2. Clear(cts) = [i \in 1 .. Len(x) |-> x[i]]
  BY <1>1 DEF Clear
<1>3. x = [i \in 1 .. Len(x) |-> x[i]]
  BY <1>1
<1>4. QED
  BY <1>2, <1>3

(* The blocks a tensor is brought to hold all of it.                       *)
LEMMA TensorBlocksHold ==
  ASSUME NEW nb \in Nat \ {0}, NEW x, NEW b \in Nat, Below(x, b), NEW cts, Carries(cts, x, b, nb),
         Len(x) # 0
  PROVE  /\ TensorBlocks(cts, b, nb) \in 1 .. nb
         /\ SignedBlocks(b, nb) <= TensorBlocks(cts, b, nb)
         /\ \A i \in DOMAIN x : FitsBlocks(x[i], TensorBlocks(cts, b, nb))
<1> DEFINE V == ValueBlocks(b, nb)
           f == [i \in 1 .. Len(x) |-> Smaller(cts[i].blocks, V)]
           S == {f[i] : i \in 1 .. Len(x)}
           c == TensorBlocks(cts, b, nb)
<1>1. x \in Seq(Int) /\ \A i \in DOMAIN x : Magnitude(x[i]) < 2^b
  BY DEF Below
<1>2. /\ Len(x) \in Nat \ {0} /\ DOMAIN cts = 1 .. Len(x) /\ DOMAIN x = 1 .. Len(x)
      /\ \A i \in 1 .. Len(x) :
           /\ x[i] \in Int /\ cts[i].blocks \in 1 .. nb /\ FitsBlocks(x[i], cts[i].blocks)
           /\ SignedBlocks(b, nb) <= cts[i].blocks
  BY <1>1, CarriesIs
<1>3. V \in 1 .. nb /\ SignedBlocks(b, nb) <= V /\ SignedBlocks(b, nb) \in 1 .. nb
  BY ValueBlocksIs, SignedBlocksIs
<1>4. c = Max(S)
  <2>1. S = {Min({cts[i].blocks, V}) : i \in DOMAIN cts}
    BY <1>2 DEF Smaller
  <2>2. QED
    BY <2>1 DEF TensorBlocks
<1> HIDE DEF V
<1>5. \A i \in 1 .. Len(x) : f[i] = (IF cts[i].blocks <= V THEN cts[i].blocks ELSE V)
  <2> SUFFICES ASSUME NEW i \in 1 .. Len(x)
               PROVE  Smaller(cts[i].blocks, V) = (IF cts[i].blocks <= V THEN cts[i].blocks ELSE V)
    OBVIOUS
  <2>1. cts[i].blocks \in Int /\ V \in Int
    BY <1>2, <1>3
  <2>2. QED
    BY <2>1, LargerSmaller
<1> HIDE DEF f
<1>6. S \subseteq Int /\ S # {} /\ S \subseteq 1 .. nb
  <2>1. \A i \in 1 .. Len(x) : f[i] \in 1 .. nb
    BY <1>2, <1>3, <1>5
  <2>2. 1 \in 1 .. Len(x)
    BY <1>2
  <2>3. QED
    BY <2>1, <2>2
<1>7. IsFiniteSet(S)
  <2>1. 1 \in Int /\ nb \in Int
    OBVIOUS
  <2>2. IsFiniteSet(1 .. nb)
    BY <2>1, FS_Interval, Zenon
  <2> HIDE DEF S
  <2>3. QED
    BY <1>6, <2>2, FS_Subset, Zenon
<1> HIDE DEF c
<1>8. c \in S /\ \A y \in S : y <= c
  <2> HIDE DEF S
  <2>1. QED
    BY <1>4, <1>6, <1>7, LargestInteger
<1>9. c \in 1 .. nb
  BY <1>6, <1>8
<1>10. SignedBlocks(b, nb) <= c
  <2>1. PICK i \in 1 .. Len(x) : c = f[i]
    BY <1>8
  <2>2. QED
    BY <1>2, <1>3, <1>5, <2>1
<1>11. ASSUME NEW i \in DOMAIN x PROVE FitsBlocks(x[i], c)
  <2>1. i \in 1 .. Len(x) /\ x[i] \in Int /\ cts[i].blocks \in 1 .. nb /\ f[i] <= c
    BY <1>2, <1>8
  <2>2. FitsBlocks(x[i], cts[i].blocks)
    BY <1>2, <2>1
  <2>3. FitsBlocks(x[i], nb)
    BY <2>1, <2>2, FitsMore
  <2>4. FitsBlocks(x[i], V)
    BY <1>1, <2>1, <2>3, ValueFits DEF V
  <2>5. FitsBlocks(x[i], f[i]) /\ f[i] \in 1 .. nb
    BY <1>3, <1>5, <2>1, <2>2, <2>4
  <2>6. QED
    BY <1>9, <2>1, <2>5, FitsMore
<1>12. QED
  BY <1>9, <1>10, <1>11 DEF c

(* One ciphertext, trimmed.                                                *)
LEMMA CtIs ==
  ASSUME NEW nb \in Nat \ {0}, NEW q \in 1 .. nb, NEW u \in Int, NEW v \in Int,
         FitsBlocks(v, q), Congruent(u, v, 2 * Half(q))
  PROVE  Ct(q, u) \in Cts(nb) /\ Ct(q, u).v = v /\ Ct(q, u).blocks = q
<1>1. Wrap(u, q) = v
  BY WrapExact
<1>2. QED
  BY <1>1 DEF Ct, Cts

(* Ciphertexts of q blocks carry y if their values are y's modulo the      *)
(* radix.                                                                  *)
LEMMA CtsCarry ==
  ASSUME NEW nb \in Nat \ {0}, NEW y \in Seq(Int), NEW W \in Nat, NEW q \in 1 .. nb,
         SignedBlocks(W, nb) <= q, \A i \in DOMAIN y : FitsBlocks(y[i], q),
         NEW u, \A i \in DOMAIN y : u[i] \in Int /\ Congruent(u[i], y[i], 2 * Half(q)),
         NEW T, T = [i \in DOMAIN y |-> Ct(q, u[i])]
  PROVE  Carries(T, y, W, nb)
<1>1. DOMAIN y = 1 .. Len(y) /\ Len(y) \in Nat /\ \A i \in 1 .. Len(y) : y[i] \in Int
  OBVIOUS
<1>2. \A i \in 1 .. Len(y) : T[i] \in Cts(nb) /\ T[i].v = y[i] /\ T[i].blocks = q
  <2> SUFFICES ASSUME NEW i \in 1 .. Len(y)
               PROVE  T[i] \in Cts(nb) /\ T[i].v = y[i] /\ T[i].blocks = q
    OBVIOUS
  <2>1. T[i] = Ct(q, u[i]) /\ u[i] \in Int /\ y[i] \in Int /\ FitsBlocks(y[i], q)
    BY <1>1
  <2>2. Congruent(u[i], y[i], 2 * Half(q))
    BY <1>1
  <2>3. Ct(q, u[i]) \in Cts(nb) /\ Ct(q, u[i]).v = y[i] /\ Ct(q, u[i]).blocks = q
    BY <2>1, <2>2, CtIs
  <2>4. QED
    BY <2>1, <2>3, Zenon
<1>3. T \in Seq(Cts(nb)) /\ Len(T) = Len(y)
  BY <1>1, <1>2
<1>4. QED
  BY <1>1, <1>2, <1>3 DEF Carries

(* In particular, blocks that a width of magnitudes calls for.             *)
LEMMA ValuesCarry ==
  ASSUME NEW nb \in Nat \ {0}, NEW y, NEW W \in Nat, Below(y, W), InRadix(y, nb),
         NEW u, \A i \in DOMAIN y :
                  u[i] \in Int /\ Congruent(u[i], y[i], 2 * Half(ValueBlocks(W, nb))),
         NEW T, T = [i \in DOMAIN y |-> Ct(ValueBlocks(W, nb), u[i])]
  PROVE  Carries(T, y, W, nb)
<1>1. y \in Seq(Int) /\ \A i \in DOMAIN y : Magnitude(y[i]) < 2^W
  BY DEF Below
<1>2. \A i \in DOMAIN y : y[i] \in Int /\ FitsBlocks(y[i], nb)
  BY <1>1 DEF InRadix
<1>3. \A i \in DOMAIN y : FitsBlocks(y[i], ValueBlocks(W, nb))
  BY <1>1, <1>2, ValueFits
<1>4. ValueBlocks(W, nb) \in 1 .. nb /\ SignedBlocks(W, nb) <= ValueBlocks(W, nb)
  BY ValueBlocksIs, SignedBlocksIs
<1> DEFINE q == ValueBlocks(W, nb)
<1>5. q \in 1 .. nb /\ SignedBlocks(W, nb) <= q /\ \A i \in DOMAIN y : FitsBlocks(y[i], q)
  BY <1>3, <1>4
<1>6. /\ \A i \in DOMAIN y : u[i] \in Int /\ Congruent(u[i], y[i], 2 * Half(q))
      /\ T = [i \in DOMAIN y |-> Ct(q, u[i])]
  OBVIOUS
<1> HIDE DEF q
<1>7. QED
  BY <1>1, <1>5, <1>6, CtsCarry

-----------------------------------------------------------------------------
(* One op: its operands, as the oracle has them and as ciphertexts.        *)
Encrypts(in, x, b, nb) ==
  /\ in = [k \in DOMAIN x |-> in[k]]
  /\ \A k \in DOMAIN x : Carries(in[k], x[k], b[k], nb)

(* What an op is handed on both sides, and what the widths promise of it.   *)
Given(op, in, x, b, nb) ==
  /\ Valid(op) /\ Declared(op) /\ nb \in Nat \ {0}
  /\ Bounded(x, b) /\ RefDefined(op, x)
  /\ Encrypts(in, x, b, nb) /\ TfheDefined(op, in, nb)
  /\ \A j \in 1 .. OutArity(op) : InRadix(RefEval(op, x)[j], nb)

(* And its results.                                                        *)
Yields(op, in, x, b, ob, nb) ==
  \A j \in 1 .. OutArity(op) :
    Carries(TfheEval(op, in, b, ob, nb)[j], RefEval(op, x)[j], OutputBits(op, b), nb)

(* The same, operand by operand and result by result.                      *)
LEMMA GivenIs ==
  ASSUME NEW op, NEW in, NEW x, NEW b, NEW nb, Given(op, in, x, b, nb)
  PROVE  /\ nb \in Nat \ {0} /\ OutputBits(op, b) \in Nat
         /\ DOMAIN x = 1 .. Len(x) /\ Len(x) \in Nat /\ DOMAIN in = 1 .. Len(x)
         /\ in = [k \in 1 .. Len(x) |-> in[k]]
         /\ \A k \in 1 .. Len(x) :
              /\ x[k] \in Seq(Int) /\ b[k] \in Nat /\ Below(x[k], b[k])
              /\ Carries(in[k], x[k], b[k], nb)
         /\ \A j \in 1 .. OutArity(op) :
              /\ InRadix(RefEval(op, x)[j], nb)
              /\ Below(RefEval(op, x)[j], OutputBits(op, b))
<1>1. /\ Valid(op) /\ Declared(op) /\ nb \in Nat \ {0} /\ Bounded(x, b) /\ RefDefined(op, x)
      /\ in = [k \in DOMAIN x |-> in[k]]
      /\ \A k \in DOMAIN x : Carries(in[k], x[k], b[k], nb)
      /\ \A j \in 1 .. OutArity(op) : InRadix(RefEval(op, x)[j], nb)
  BY DEF Given, Encrypts
<1>2. Fits(op, x, b)
  BY <1>1, OpFits
<1>3. /\ OutputBits(op, b) \in Nat
      /\ \A j \in 1 .. OutArity(op) : Below(RefEval(op, x)[j], OutputBits(op, b))
  BY <1>2 DEF Fits
<1>4. /\ DOMAIN x = 1 .. Len(x) /\ Len(x) \in Nat
      /\ \A k \in DOMAIN x : x[k] \in Seq(Int) /\ b[k] \in Nat /\ Below(x[k], b[k])
  BY <1>1, OperandsAre
<1>5. DOMAIN in = DOMAIN x
  BY <1>1
<1>6. QED
  BY <1>1, <1>3, <1>4, <1>5

(* An op of one result.                                                    *)
LEMMA OneResult ==
  ASSUME NEW op, NEW in, NEW x, NEW b, NEW ob, NEW nb, OutArity(op) = 1,
         NEW T, TfheEval(op, in, b, ob, nb) = <<T>>, NEW y, RefEval(op, x) = <<y>>,
         Carries(T, y, OutputBits(op, b), nb)
  PROVE  Yields(op, in, x, b, ob, nb)
<1>1. TfheEval(op, in, b, ob, nb)[1] = T /\ RefEval(op, x)[1] = y
  OBVIOUS
<1>2. QED
  BY <1>1 DEF Yields

(* A table lookup: the operand is below 4, so the block it reads holds it.  *)
LEMMA ActivationCarries ==
  ASSUME NEW op, op.type = "Activation", NEW in, NEW x, NEW b, NEW nb, Given(op, in, x, b, nb),
         NEW ob, ob[1] = OutputBits(op, b)
  PROVE  Yields(op, in, x, b, ob, nb)
<1> DEFINE W == OutputBits(op, b)
           o == ValueBlocks(W, nb)
           y == [i \in DOMAIN x[1] |-> op.lut[x[1][i] + 1]]
           u == [i \in DOMAIN x[1] |-> op.lut[(in[1][i].v % 2^MessageBits) + 1]]
           T == TfheActivation(op, in[1], o)
<1>1. nb \in Nat \ {0} /\ W \in Nat /\ OutArity(op) = 1
  BY GivenIs DEF OutArity
<1>2. RefDefined(op, x) /\ TfheDefined(op, in, nb) /\ Declared(op)
  BY DEF Given
<1>3. Len(x) = 1 /\ \A i \in DOMAIN x[1] : x[1][i] + 1 \in DOMAIN op.lut
  BY <1>2 DEF RefDefined, ShapeOK, Arity
<1>4. op.lut \in Seq(Nat) /\ Len(op.lut) = 4
  BY <1>2, MessageIs DEF Declared, TfheDefined
<1>5. x[1] \in Seq(Int) /\ b[1] \in Nat /\ Carries(in[1], x[1], b[1], nb)
  BY <1>3, GivenIs
<1>6. /\ DOMAIN in[1] = 1 .. Len(x[1]) /\ DOMAIN x[1] = 1 .. Len(x[1])
      /\ \A i \in 1 .. Len(x[1]) : in[1][i].v = x[1][i] /\ x[1][i] \in Int
  <2>1. nb \in Nat \ {0} /\ x[1] \in Seq(Int) /\ b[1] \in Nat /\ Carries(in[1], x[1], b[1], nb)
    BY <1>1, <1>5
  <2>2. /\ DOMAIN in[1] = 1 .. Len(x[1]) /\ DOMAIN x[1] = 1 .. Len(x[1]) /\ Len(x[1]) \in Nat
        /\ \A i \in 1 .. Len(x[1]) : in[1][i].v = x[1][i] /\ x[1][i] \in Int
    BY ONLY <2>1, CarriesValues
  <2>3. QED
    BY <2>2
<1>7. RefEval(op, x) = <<y>>
  BY DEF RefEval
<1>8. TfheEval(op, in, b, ob, nb) = <<T>>
  BY DEF TfheEval
<1>9. InRadix(y, nb) /\ Below(y, W)
  <2>1. InRadix(RefEval(op, x)[1], nb) /\ Below(RefEval(op, x)[1], W)
    BY <1>1, GivenIs
  <2>2. RefEval(op, x)[1] = y
    BY <1>7
  <2>3. QED
    BY <2>1, <2>2
<1>10. ASSUME NEW i \in DOMAIN y
       PROVE  u[i] \in Int /\ Congruent(u[i], y[i], 2 * Half(o))
  <2>1. i \in 1 .. Len(x[1]) /\ in[1][i].v = x[1][i] /\ x[1][i] \in Int /\ x[1][i] + 1 \in 1 .. 4
    BY <1>3, <1>4, <1>6
  <2>2. x[1][i] % 4 = x[1][i]
    BY <2>1
  <2>3. 2^MessageBits = 4
    <3>1. 2^0 = 1 /\ 2^1 = 2 * 2^0 /\ 2^2 = 2 * 2^1
      BY PowerStep, 0 \in Nat, 0 + 1 = 1, 1 \in Nat, 1 + 1 = 2
    <3>2. QED
      BY <3>1 DEF MessageBits
  <2>4. u[i] = y[i] /\ y[i] \in Int
    <3>1. in[1][i].v % 2^MessageBits = x[1][i]
      BY <2>1, <2>2, <2>3
    <3>2. u[i] = op.lut[x[1][i] + 1] /\ y[i] = op.lut[x[1][i] + 1]
      BY <1>6, <2>1, <3>1
    <3> DEFINE j == x[1][i] + 1
    <3>3. j \in 1 .. 4
      BY <2>1
    <3> HIDE DEF j
    <3>4. op.lut[j] \in Nat
      BY <1>4, <3>3
    <3> HIDE DEF u, y
    <3>5. QED
      BY <3>2, <3>4 DEF j
  <2>5. 2 * Half(o) \in Int
    <3>1. o \in Nat \ {0}
      BY <1>1, ValueBlocksIs
    <3> HIDE DEF o
    <3>2. QED
      BY <3>1, HalfIs
  <2> HIDE DEF u, y, o
  <2>6. QED
    BY <2>4, <2>5, CongruentSteps
<1>11. T = [i \in DOMAIN y |-> Ct(o, u[i])]
  BY <1>6 DEF TfheActivation, Lookup
<1> HIDE DEF y, u, T, W
<1>12. Carries(T, y, W, nb)
  BY <1>1, <1>9, <1>10, <1>11, ValuesCarry
<1>13. QED
  BY <1>1, <1>7, <1>8, <1>12, OneResult DEF W

-----------------------------------------------------------------------------
(* The rescale of a Requant.                                               *)

(* Dividing keeps an order.                                                *)
LEMMA QuotientMonotone ==
  ASSUME NEW a \in Int, NEW c \in Int, NEW d \in Nat \ {0}, a <= c
  PROVE  a \div d \in Int /\ c \div d \in Int /\ a \div d <= c \div d
<1> DEFINE p == a \div d
           q == c \div d
           e == a % d
           f == c % d
<1>1. /\ p \in Int /\ q \in Int /\ e \in Nat /\ f \in Nat /\ e < d /\ f < d
      /\ a = p * d + e /\ c = q * d + f
  BY Remainder
<1> HIDE DEF p, q, e, f
<1>2. SUFFICES ASSUME q + 1 <= p PROVE FALSE
  BY <1>1 DEF p, q
<1>3. (q + 1) * d <= p * d /\ (q + 1) * d = q * d + d /\ p * d \in Int /\ q * d \in Int
  BY <1>1, <1>2, ScaleBound
<1>4. QED
  BY <1>1, <1>3

(* And a quotient is no larger than what is divided.                       *)
LEMMA QuotientBound ==
  ASSUME NEW a \in Int, NEW p \in Nat, NEW d \in Nat \ {0}, -p <= a, a <= p
  PROVE  a \div d \in Int /\ -p <= a \div d /\ a \div d <= p
<1>1. p * d >= p
  BY ScaleBound, p * 1 = p
<1> DEFINE q == a \div d
           e == a % d
<1>2. q \in Int /\ e \in Nat /\ e < d /\ a = q * d + e
  BY Remainder
<1> HIDE DEF q, e
<1>3. PICK c \in Nat : d = 1 + c
  BY d - 1 \in Nat, d = 1 + (d - 1)
<1>4. q <= p
  <2>1. SUFFICES ASSUME p + 1 <= q PROVE FALSE
    BY <1>2
  <2>2. (p + 1) * d <= q * d /\ q * d \in Int
    BY <1>2, <2>1, ScaleBound
  <2>3. (p + 1) * d = p + 1 + (p + 1) * c /\ (p + 1) * c \in Nat
    BY <1>3
  <2>4. QED
    BY <1>2, <2>2, <2>3
<1>5. -p <= q
  <2>1. SUFFICES ASSUME q <= -p - 1 PROVE FALSE
    BY <1>2
  <2>2. q * d <= (-p - 1) * d /\ q * d \in Int
    BY <1>2, <2>1, ScaleBound
  <2>3. (-p - 1) * d = -p - p * c - d /\ p * c \in Nat
    BY <1>3
  <2>4. QED
    BY <1>2, <2>2, <2>3
<1>6. QED
  BY <1>2, <1>4, <1>5 DEF q

(* What a channel makes of a value, before and after the shift.            *)
Image(ch, v) == v * ch.mult + ch.roundBias

(* Its width, for operands that are signed integers of B bits: the last    *)
(* bit of it is the sign.                                                  *)
LEMMA InternalBitsHold ==
  ASSUME NEW B \in Nat \ {0}, NEW ch \in Channels, NEW lo \in Int, lo <= 0,
         NEW v \in Int, v < 2^(B - 1), v >= lo, v >= -(2^(B - 1))
  PROVE  /\ RequantInternalBits(B, ch, lo) \in Nat \ {0}
         /\ Image(ch, v) \in Int
         /\ Magnitude(Image(ch, v)) < 2^(RequantInternalBits(B, ch, lo) - 1)
<1> DEFINE F == 2^(B - 1)
           N == Smaller(Magnitude(lo), F)
           P == (F - 1) * ch.mult + ch.roundBias
           peak == Larger(P, N * ch.mult)
           wd == Larger(MagnitudeBits(peak) + 1, B)
<1>1. B - 1 \in Nat /\ F \in Nat \ {0} /\ B >= 1
  <2>1. B - 1 \in Nat
    OBVIOUS
  <2>2. 2^(B - 1) \in Nat /\ 1 <= 2^(B - 1)
    BY <2>1, PowerStep, PowerBounds
  <2>3. QED
    BY <2>1, <2>2
<1>2. RequantInternalBits(B, ch, lo) = wd
  BY <1>1 DEF RequantInternalBits, Larger, Smaller
<1>3. ch.mult \in Nat /\ ch.roundBias \in Nat
  BY DEF Channels
<1>4. v < F /\ v >= -F
  OBVIOUS
<1> HIDE DEF F
<1>5. Magnitude(lo) = -lo /\ -lo \in Nat
  BY DEF Magnitude
<1>6. N \in Nat /\ -N <= v
  <2>1. N = IF Magnitude(lo) <= F THEN Magnitude(lo) ELSE F
    BY <1>1, <1>5, LargerSmaller
  <2>2. QED
    BY <1>1, <1>4, <1>5, <2>1
<1> HIDE DEF N
<1>7. v * ch.mult <= (F - 1) * ch.mult /\ v * ch.mult \in Int /\ (F - 1) * ch.mult \in Int
  BY <1>1, <1>3, <1>4, ScaleBound
<1>8. (-N) * ch.mult <= v * ch.mult /\ (-N) * ch.mult = -(N * ch.mult) /\ N * ch.mult \in Nat
  BY <1>3, <1>6, ScaleBound
<1>9. P \in Int /\ peak = (IF P >= N * ch.mult THEN P ELSE N * ch.mult)
  <2>1. P \in Int
    BY <1>3, <1>7
  <2> HIDE DEF P
  <2>2. QED
    BY <1>8, <2>1, LargerSmaller
<1>10. peak \in Nat /\ P <= peak /\ N * ch.mult <= peak
  <2> HIDE DEF P, peak
  <2>1. QED
    BY <1>8, <1>9
<1>11. Image(ch, v) \in Int /\ -peak <= Image(ch, v) /\ Image(ch, v) <= peak
  <2>1. Image(ch, v) = v * ch.mult + ch.roundBias
    BY DEF Image
  <2>2. P = (F - 1) * ch.mult + ch.roundBias
    OBVIOUS
  <2> HIDE DEF P, peak
  <2>3. QED
    BY <1>3, <1>7, <1>8, <1>10, <2>1, <2>2
<1> HIDE DEF peak
<1>12. MagnitudeBits(peak) \in Nat /\ Magnitude(peak) < 2^MagnitudeBits(peak)
  BY <1>10, MagnitudeBitsHold
<1>13. wd = (IF MagnitudeBits(peak) + 1 >= B THEN MagnitudeBits(peak) + 1 ELSE B)
  <2>1. MagnitudeBits(peak) + 1 \in Int /\ B \in Int
    BY <1>12
  <2>2. QED
    BY <2>1, LargerSmaller
<1> HIDE DEF wd
<1>14. wd \in Nat \ {0} /\ MagnitudeBits(peak) <= wd - 1 /\ wd - 1 \in Nat
  BY <1>1, <1>12, <1>13
<1>15. 2^MagnitudeBits(peak) <= 2^(wd - 1) /\ 2^(wd - 1) \in Nat /\ 2^MagnitudeBits(peak) \in Nat
  BY <1>12, <1>14, PowerStep, PowerBounds
<1>16. peak < 2^(wd - 1)
  <2>1. Magnitude(peak) = peak
    BY <1>10 DEF Magnitude
  <2>2. QED
    BY <1>10, <1>12, <1>15, <2>1
<1>17. Magnitude(Image(ch, v)) < 2^(wd - 1)
  <2>1. -(2^(wd - 1)) < Image(ch, v) /\ Image(ch, v) < 2^(wd - 1)
    BY <1>10, <1>11, <1>15, <1>16
  <2>2. QED
    BY <1>11, <1>15, <2>1, MagnitudeIs
<1>18. QED
  BY <1>2, <1>11, <1>14, <1>17

(* ... and after the shift.                                                *)
Scaled(ch, v) == Image(ch, v) \div 2^ch.shift

(* It is an integer, and grows with the value.                             *)
LEMMA ScaledType ==
  ASSUME NEW ch \in Channels, 2^ch.shift \in Nat \ {0}, NEW v \in Int
  PROVE  Image(ch, v) \in Int /\ Scaled(ch, v) \in Int
<1>1. ch.mult \in Nat /\ ch.roundBias \in Nat
  BY DEF Channels
<1>2. Image(ch, v) \in Int
  BY <1>1 DEF Image
<1> DEFINE d == 2^ch.shift
           a == Image(ch, v)
<1>3. d \in Nat \ {0} /\ a \in Int
  BY <1>2
<1> HIDE DEF d, a
<1>4. a \div d \in Int
  BY <1>3
<1>5. QED
  BY <1>2, <1>4 DEF Scaled, d, a

(* The floor's image is that of one channel and no channel's is lower.     *)
LEMMA FloorImageIs ==
  ASSUME NEW op, op.type = "Requant", Valid(op), Declared(op)
  PROVE  /\ FloorImage(op) \in Int
         /\ \E k \in 1 .. Len(op.channel) : FloorImage(op) = Scaled(op.channel[k], op.clampLo)
         /\ \A k \in 1 .. Len(op.channel) : FloorImage(op) <= Scaled(op.channel[k], op.clampLo)
<1> DEFINE n == Len(op.channel)
           f == [k \in 1 .. n |-> Scaled(op.channel[k], op.clampLo)]
           S == {f[k] : k \in 1 .. n}
<1>1. n \in Nat \ {0} /\ DOMAIN op.channel = 1 .. n
  BY ChannelsAre
<1>2. \A k \in 1 .. n : f[k] \in Int
  BY ChannelsAre, ScaledType
<1>3. FloorImage(op) = Min(S)
  <2>1. {(op.clampLo * ch.mult + ch.roundBias) \div 2^ch.shift :
           ch \in {op.channel[i] : i \in DOMAIN op.channel}} = S
    BY <1>1 DEF Scaled, Image
  <2>2. QED
    BY <2>1 DEF FloorImage
<1> HIDE DEF n, f
<1>4. S \subseteq Int /\ IsFiniteSet(S) /\ S # {}
  BY <1>1, <1>2, SmallSet
<1>5. Min(S) \in S /\ \A y \in S : Min(S) <= y
  <2> HIDE DEF S
  <2>1. QED
    BY <1>4, LeastInteger
<1>6. /\ Min(S) \in Int /\ \E k \in 1 .. n : Min(S) = f[k]
      /\ \A k \in 1 .. n : Min(S) <= f[k]
  BY <1>2, <1>5
<1>7. QED
  BY <1>3, <1>6 DEF f, n

(* The transient is as wide as any channel makes it.                       *)
LEMMA PeakBitsAre ==
  ASSUME NEW op, op.type = "Requant", Valid(op), Declared(op), NEW B \in Nat \ {0}
  PROVE  /\ RequantPeakBits(op, B) \in Nat \ {0}
         /\ \A k \in 1 .. Len(op.channel) :
              RequantInternalBits(B, op.channel[k], op.clampLo) <= RequantPeakBits(op, B)
<1> DEFINE n == Len(op.channel)
           f == [k \in 1 .. n |-> RequantInternalBits(B, op.channel[k], op.clampLo)]
           S == {f[k] : k \in 1 .. n}
<1>1. n \in Nat \ {0} /\ DOMAIN op.channel = 1 .. n /\ op.clampLo \in Int /\ op.clampLo <= 0
      /\ \A k \in 1 .. n : op.channel[k] \in Channels
  BY ChannelsAre
<1>2. 0 < 2^(B - 1) /\ 0 >= -(2^(B - 1))
  <2>1. B - 1 \in Nat
    OBVIOUS
  <2>2. 2^(B - 1) \in Nat /\ 1 <= 2^(B - 1)
    BY <2>1, PowerStep, PowerBounds
  <2>3. QED
    BY <2>2
<1>3. \A k \in 1 .. n : f[k] \in Nat \ {0}
  BY <1>1, <1>2, InternalBitsHold, 0 \in Int
<1>4. RequantPeakBits(op, B) = Max(S)
  BY <1>1 DEF RequantPeakBits
<1> HIDE DEF n, f
<1>5. S \subseteq Int /\ IsFiniteSet(S) /\ S # {}
  BY <1>1, <1>3, SmallSet
<1>6. Max(S) \in S /\ \A y \in S : y <= Max(S)
  <2> HIDE DEF S
  <2>1. QED
    BY <1>5, LargestInteger
<1>7. Max(S) \in Nat \ {0} /\ \A k \in 1 .. n : f[k] <= Max(S)
  BY <1>3, <1>6
<1>8. QED
  BY <1>4, <1>7 DEF f, n

(* Blocks for the transient, with a bit to spare where there is an offset, *)
(* hold the rescaled value and the offset on top of it.                    *)
LEMMA RescaleFits ==
  ASSUME NEW op, op.type = "Requant", Valid(op), Declared(op),
         NEW i, NEW k \in 1 .. Len(op.channel), Channel(op, i) = op.channel[k],
         NEW B \in Nat \ {0}, NEW v \in Int, -(2^(B - 1)) <= v, v < 2^(B - 1),
         Magnitude(op.clampLo) <= 2^(B - 1), op.zeroPoint <= Larger(0, -FloorImage(op)),
         NEW r \in Nat \ {0}, RequantPeakBits(op, B) + ZeroPointBits(op) <= 2 * r
  PROVE  /\ FitsBlocks(Transient(op, i, v), r)
         /\ FitsBlocks((Transient(op, i, v) \div 2^Channel(op, i).shift) + op.zeroPoint, r)
<1> DEFINE lo == op.clampLo
           ch == op.channel[k]
           L == Larger(v, lo)
           P == RequantPeakBits(op, B)
           Q == 2^(P - 1)
           F == 2^(B - 1)
<1>1. /\ lo \in Int /\ lo <= 0 /\ op.zeroPoint \in Nat
      /\ \A j \in 1 .. Len(op.channel) :
           op.channel[j] \in Channels /\ 2^op.channel[j].shift \in Nat \ {0}
  BY ChannelsAre
<1>2. B - 1 \in Nat /\ F \in Nat \ {0}
  <2>1. B - 1 \in Nat
    OBVIOUS
  <2>2. 2^(B - 1) \in Nat /\ 1 <= 2^(B - 1)
    BY <2>1, PowerStep, PowerBounds
  <2>3. QED
    BY <2>1, <2>2
<1>3. L \in Int /\ L >= lo /\ L >= -F /\ L < F
  <2>1. L = IF v >= lo THEN v ELSE lo
    BY <1>1, LargerSmaller
  <2>2. -F <= v /\ v < F
    OBVIOUS
  <2> HIDE DEF L, F
  <2>3. QED
    BY <1>1, <1>2, <2>1, <2>2
<1>4. lo >= -F /\ lo < F
  <2>1. Magnitude(lo) = -lo /\ Magnitude(lo) <= F
    BY <1>1 DEF Magnitude
  <2> HIDE DEF F
  <2>2. QED
    BY <1>1, <1>2, <2>1
<1>5. P \in Nat \ {0} /\ P - 1 \in Nat /\ Q \in Nat \ {0}
  <2>1. P \in Nat \ {0}
    BY PeakBitsAre
  <2> HIDE DEF P
  <2>2. P - 1 \in Nat
    BY <2>1
  <2>3. 2^(P - 1) \in Nat /\ 1 <= 2^(P - 1)
    BY <2>2, PowerStep, PowerBounds
  <2>4. QED
    BY <2>1, <2>2, <2>3
<1>6. ASSUME NEW j \in 1 .. Len(op.channel), NEW a \in Int, a >= lo, a >= -F, a < F
      PROVE  /\ Image(op.channel[j], a) \in Int /\ Magnitude(Image(op.channel[j], a)) < Q
             /\ Scaled(op.channel[j], a) \in Int /\ -Q < Scaled(op.channel[j], a)
             /\ Scaled(op.channel[j], a) < Q
  <2> DEFINE c == op.channel[j]
             R == RequantInternalBits(B, c, lo)
             u == Image(c, a)
             d == 2^c.shift
  <2>1. c \in Channels /\ d \in Nat \ {0}
    BY <1>1
  <2>2. R \in Nat \ {0} /\ u \in Int /\ Magnitude(u) < 2^(R - 1)
    BY <1>1, <1>6, <2>1, InternalBitsHold
  <2>3. R <= P
    BY PeakBitsAre
  <2>4. 2^(R - 1) \in Nat /\ 2^(R - 1) <= Q
    <3> HIDE DEF R, P
    <3>1. R - 1 \in Nat /\ R - 1 <= P - 1
      BY <1>5, <2>2, <2>3
    <3>2. QED
      BY <1>5, <3>1, PowerStep, PowerBounds
  <2>5. Scaled(c, a) = u \div d
    BY DEF Scaled
  <2> HIDE DEF c, R, u, d, Q
  <2>6. -(2^(R - 1)) < u /\ u < 2^(R - 1)
    BY <2>2, <2>4, MagnitudeIs
  <2>7. -(Q - 1) <= u /\ u <= Q - 1 /\ Q - 1 \in Nat /\ Magnitude(u) < Q
    <3>1. -(Q - 1) <= u /\ u <= Q - 1 /\ Q - 1 \in Nat /\ -Q < u /\ u < Q
      BY <1>5, <2>2, <2>4, <2>6
    <3>2. QED
      BY <1>5, <2>2, <3>1, MagnitudeIs
  <2>8. u \div d \in Int /\ -(Q - 1) <= u \div d /\ u \div d <= Q - 1
    BY <2>1, <2>2, <2>7, QuotientBound
  <2>9. u \div d \in Int /\ -Q < u \div d /\ u \div d < Q
    <3> DEFINE z == u \div d
    <3>1. z \in Int /\ -(Q - 1) <= z /\ z <= Q - 1 /\ Q \in Nat
      BY <1>5, <2>8
    <3> HIDE DEF z
    <3>2. z \in Int /\ -Q < z /\ z < Q
      BY <3>1
    <3>3. QED
      BY <3>2 DEF z
  <2>10. QED
    BY <2>2, <2>5, <2>7, <2>9 DEF c, u
<1>7. op.zeroPoint < Q
  <2>1. PICK j \in 1 .. Len(op.channel) : FloorImage(op) = Scaled(op.channel[j], lo)
    BY FloorImageIs
  <2>2. FloorImage(op) \in Int /\ -Q < FloorImage(op)
    BY <1>1, <1>4, <1>6, <2>1
  <2>3. Larger(0, -FloorImage(op)) = IF 0 >= -FloorImage(op) THEN 0 ELSE -FloorImage(op)
    BY <2>2, LargerSmaller
  <2> HIDE DEF Q
  <2>4. QED
    BY <1>1, <1>5, <2>2, <2>3
<1>8. /\ Image(ch, L) \in Int /\ Magnitude(Image(ch, L)) < Q
      /\ Scaled(ch, L) \in Int /\ -Q < Scaled(ch, L) /\ Scaled(ch, L) < Q
  <2> HIDE DEF L, F, Q
  <2>1. QED
    BY <1>3, <1>6
<1>9. Transient(op, i, v) = Image(ch, L) /\ Transient(op, i, v) \div 2^Channel(op, i).shift = Scaled(ch, L)
  BY DEF Transient, Image, Scaled
<1>10. FitsBlocks(Image(ch, L), r)
  <2>1. (P - 1) + 1 <= 2 * r
    <3>1. P + ZeroPointBits(op) <= 2 * r /\ ZeroPointBits(op) \in {0, 1}
      BY DEF ZeroPointBits
    <3> HIDE DEF P
    <3>2. QED
      BY <1>5, <3>1
  <2> DEFINE u == Image(ch, L)
             K == P - 1
  <2>2. u \in Int /\ K \in Nat /\ K + 1 <= 2 * r /\ Magnitude(u) < 2^K
    BY <1>5, <1>8, <2>1
  <2> HIDE DEF u, K
  <2>3. FitsBlocks(u, r)
    BY <2>2, FitsBelow
  <2>4. QED
    BY <2>3 DEF u
<1>11. CASE op.zeroPoint # 0
  <2> DEFINE s == Scaled(ch, L) + op.zeroPoint
  <2>1. 2^P = 2 * Q /\ 2^P \in Nat
    <3> HIDE DEF P
    <3>1. P = (P - 1) + 1
      BY <1>5
    <3>2. 2^((P - 1) + 1) = 2 * 2^(P - 1)
      BY <1>5, PowerStep
    <3>3. QED
      BY <1>5, <3>1, <3>2
  <2>2. s \in Int /\ -(2 * Q) < s /\ s < 2 * Q
    <3> DEFINE t == Scaled(ch, L)
               z == op.zeroPoint
    <3>1. t \in Int /\ -Q < t /\ t < Q /\ z \in Nat /\ z < Q /\ Q \in Nat
      BY <1>1, <1>5, <1>7, <1>8
    <3> HIDE DEF Q, t, z
    <3>2. (t + z) \in Int /\ -(2 * Q) < t + z /\ t + z < 2 * Q
      BY <3>1
    <3>3. QED
      BY <3>2 DEF t, z
  <2>3. P + 1 <= 2 * r /\ P \in Nat
    <3>1. ZeroPointBits(op) = 1 /\ P + ZeroPointBits(op) <= 2 * r
      BY <1>11 DEF ZeroPointBits
    <3> HIDE DEF P
    <3>2. QED
      BY <1>5, <3>1
  <2> HIDE DEF s, P, Q
  <2>4. Magnitude(s) < 2^P
    BY <2>1, <2>2, MagnitudeIs
  <2>5. FitsBlocks(s, r)
    BY <2>2, <2>3, <2>4, FitsBelow
  <2>6. QED
    BY <1>9, <1>10, <2>5 DEF s
<1>12. CASE op.zeroPoint = 0
  <2> DEFINE s == Scaled(ch, L)
             K == P - 1
  <2>1. s \in Int /\ K \in Nat /\ Q = 2^K /\ -Q < s /\ s < Q
    BY <1>5, <1>8
  <2>2. K + 1 <= 2 * r
    <3>1. P + ZeroPointBits(op) <= 2 * r /\ ZeroPointBits(op) \in {0, 1}
      BY DEF ZeroPointBits
    <3> HIDE DEF P
    <3>2. QED
      BY <1>5, <3>1
  <2> HIDE DEF s, K, P, Q
  <2>3. Magnitude(s) < 2^K
    BY <1>5, <2>1, MagnitudeIs
  <2>4. FitsBlocks(s, r) /\ s + op.zeroPoint = s
    BY <1>12, <2>1, <2>2, <2>3, FitsBelow
  <2>5. QED
    BY <1>9, <1>10, <2>4 DEF s
<1>13. QED
  BY <1>1, <1>11, <1>12

(* What a rescale works on, in the oracle's pass, is in the radix.          *)
RescalesInRadix(op, x, nb) ==
  \A i \in DOMAIN x :
    /\ FitsBlocks(Transient(op, i, x[i]), nb)
    /\ FitsBlocks((Transient(op, i, x[i]) \div 2^Channel(op, i).shift) + op.zeroPoint, nb)

(* Its floor is no lower than its operand, its offset no more than lifts   *)
(* the floor's image to 0.                                                 *)
FloorFits(op, w) ==
  2 * Magnitude(op.clampLo) <= 2^w /\ op.zeroPoint <= Larger(0, -FloorImage(op))

(* The blocks of a rescale are no fewer than its operand's, and than its   *)
(* transient's.                                                            *)
LEMMA RescaleBlocksAre ==
  ASSUME NEW op, op.type = "Requant", Valid(op), Declared(op), NEW nb \in Nat \ {0},
         NEW cts, NEW b, TensorBlocks(cts, b, nb) \in 1 .. nb
  PROVE  /\ RescaleBlocks(op, cts, b, nb) \in 1 .. nb
         /\ TensorBlocks(cts, b, nb) <= RescaleBlocks(op, cts, b, nb)
         /\ ValueBlocks(RequantPeakBits(op, 2 * TensorBlocks(cts, b, nb)), nb)
              <= RescaleBlocks(op, cts, b, nb)
<1> DEFINE c == TensorBlocks(cts, b, nb)
           V == ValueBlocks(RequantPeakBits(op, 2 * c), nb)
           f == <<c, V, ScalarBlocks(op.clampLo, nb), ScalarBlocks(2^op.outBits - 1, nb),
                  ScalarBlocks(op.zeroPoint, nb)>>
           S == {f[k] : k \in 1 .. 5}
<1>1. op.clampLo \in Int /\ op.zeroPoint \in Int /\ 2^op.outBits - 1 \in Int
  <2>1. op.clampLo \in Int /\ op.zeroPoint \in Nat /\ op.outBits \in Nat
    BY DEF Declared
  <2>2. 2^op.outBits \in Nat
    BY <2>1, PowerStep
  <2>3. QED
    BY <2>1, <2>2
<1>2. \A t \in Int : ScalarBlocks(t, nb) \in 1 .. nb
  BY MagnitudeBitsHold, ValueBlocksIs DEF ScalarBlocks
<1>3. V \in 1 .. nb
  <2>1. 2 * c \in Nat \ {0}
    OBVIOUS
  <2>2. RequantPeakBits(op, 2 * c) \in Nat
    BY <2>1, PeakBitsAre
  <2>3. QED
    BY <2>2, ValueBlocksIs
<1>4. RescaleBlocks(op, cts, b, nb) = Max(S)
  <2>1. S = {c, V, ScalarBlocks(op.clampLo, nb), ScalarBlocks(2^op.outBits - 1, nb),
             ScalarBlocks(op.zeroPoint, nb)}
    <3>1. 1 .. 5 = {1, 2, 3, 4, 5}
      OBVIOUS
    <3>2. S = {f[1], f[2], f[3], f[4], f[5]}
      BY <3>1
    <3>3. QED
      BY <3>2
  <2>2. QED
    BY <2>1 DEF RescaleBlocks, MessageBits
<1>5. \A k \in 1 .. 5 : f[k] \in 1 .. nb
  <2> DEFINE p == ScalarBlocks(op.clampLo, nb)
             q == ScalarBlocks(2^op.outBits - 1, nb)
             z == ScalarBlocks(op.zeroPoint, nb)
  <2>1. c \in 1 .. nb /\ p \in 1 .. nb /\ q \in 1 .. nb /\ z \in 1 .. nb /\ V \in 1 .. nb
    BY <1>1, <1>2, <1>3
  <2> HIDE DEF c, V, p, q, z
  <2>2. \A k \in 1 .. 5 : <<c, V, p, q, z>>[k] \in 1 .. nb
    BY <2>1
  <2>3. QED
    BY <2>2 DEF p, q, z
<1>6. f[1] = c /\ f[2] = V
  OBVIOUS
<1> HIDE DEF f, V, c
<1>7. S \subseteq Int /\ IsFiniteSet(S) /\ S # {}
  <2>1. \A k \in 1 .. 5 : f[k] \in Int
    BY <1>5
  <2>2. QED
    BY <2>1, SmallSet, 5 \in Nat \ {0}
<1>8. Max(S) \in S /\ \A y \in S : y <= Max(S)
  <2> HIDE DEF S
  <2>1. QED
    BY <1>7, LargestInteger
<1>9. Max(S) \in 1 .. nb /\ f[1] <= Max(S) /\ f[2] <= Max(S)
  BY <1>5, <1>8
<1>10. QED
  BY <1>4, <1>6, <1>9 DEF V, c

(* One lane, at those blocks, ends where the oracle's ramp does.           *)
LEMMA LaneIsRamp ==
  ASSUME NEW op, op.type = "Requant", Valid(op), Declared(op),
         NEW i, NEW k \in 1 .. Len(op.channel), Channel(op, i) = op.channel[k],
         NEW v \in Int, NEW r \in Nat \ {0}, NEW ct, ct.v = v, FitsBlocks(v, r),
         FitsBlocks(Transient(op, i, v), r),
         FitsBlocks((Transient(op, i, v) \div 2^Channel(op, i).shift) + op.zeroPoint, r)
  PROVE  /\ RescaleLane(op, i, ct, r) = Ramp(op, i, v)
         /\ Ramp(op, i, v) \in 0 .. 3
<1> DEFINE ch == Channel(op, i)
           lo == op.clampLo
           L == Larger(v, lo)
           u == Transient(op, i, v)
           s == (u \div 2^ch.shift) + op.zeroPoint
           cap == 2^op.outBits - 1
<1>1. /\ lo \in Int /\ lo <= 0 /\ op.zeroPoint \in Nat /\ op.zeroPoint + FloorImage(op) >= 0
      /\ ch \in Channels /\ 2^ch.shift \in Nat \ {0}
  BY ChannelsAre
<1>2. Resize(ct, r).v = v
  BY DEF Resize, Ct, FitsBlocks
<1>3. u = L * ch.mult + ch.roundBias /\ u = Image(ch, L)
  BY DEF Transient, Image
<1>4. Wrap(u, r) = u /\ Wrap(s, r) = s
  BY DEF FitsBlocks
<1>5. RescaleLane(op, i, ct, r) = Smaller(s, cap)
  <2>1. Wrap(Larger(Resize(ct, r).v, op.clampLo) * ch.mult + ch.roundBias, r) = u
    BY <1>2, <1>3, <1>4
  <2>2. RescaleLane(op, i, ct, r) =
          Smaller(Wrap((Wrap(Larger(Resize(ct, r).v, op.clampLo) * ch.mult + ch.roundBias, r)
                          \div 2^ch.shift) + op.zeroPoint, r), cap)
    BY DEF RescaleLane
  <2> HIDE DEF u, ch
  <2>3. QED
    BY <1>4, <2>1, <2>2
<1>6. Ramp(op, i, v) = Larger(0, Smaller(cap, s))
  BY DEF Ramp
<1>7. L \in Int /\ lo <= L
  <2>1. L = IF v >= lo THEN v ELSE lo
    BY <1>1, LargerSmaller
  <2> HIDE DEF L
  <2>2. QED
    BY <1>1, <2>1
<1>8. s \in Int /\ s >= 0
  <2>1. FloorImage(op) \in Int /\ FloorImage(op) <= Scaled(ch, lo)
    BY FloorImageIs
  <2>2. Image(ch, lo) \in Int /\ Image(ch, L) \in Int /\ Image(ch, lo) <= Image(ch, L)
    <3>1. ch.mult \in Nat /\ ch.roundBias \in Nat
      BY <1>1 DEF Channels
    <3> HIDE DEF L, ch, lo
    <3>2. lo * ch.mult <= L * ch.mult /\ lo * ch.mult \in Int /\ L * ch.mult \in Int
      BY <1>1, <1>7, <3>1, ScaleBound
    <3> DEFINE B == ch.roundBias
               g == lo * ch.mult
               h == L * ch.mult
    <3>3. g + B = Image(ch, lo) /\ h + B = Image(ch, L)
      BY DEF Image
    <3>4. B \in Nat /\ g \in Int /\ h \in Int /\ g <= h
      BY <3>1, <3>2
    <3> HIDE DEF B, g, h
    <3>5. (g + B) \in Int /\ (h + B) \in Int /\ g + B <= h + B
      BY <3>4
    <3>6. QED
      BY <3>3, <3>5
  <2> DEFINE d == 2^ch.shift
             a == Image(ch, lo)
             p == Image(ch, L)
  <2>3. d \in Nat \ {0} /\ a \in Int /\ p \in Int /\ a <= p
    BY <1>1, <2>2
  <2>4. s = (p \div d) + op.zeroPoint /\ Scaled(ch, lo) = a \div d
    BY <1>3 DEF Scaled
  <2> HIDE DEF d, a, p, s
  <2>5. a \div d \in Int /\ p \div d \in Int /\ a \div d <= p \div d
    BY <2>3, QuotientMonotone
  <2> DEFINE ad == a \div d
             pd == p \div d
             zp == op.zeroPoint
             fi == FloorImage(op)
  <2> HIDE DEF ad, pd, ch, lo
  <2>6. /\ ad \in Int /\ pd \in Int /\ ad <= pd /\ s = pd + zp
        /\ fi \in Int /\ fi <= ad /\ zp \in Nat /\ zp + fi >= 0
    BY <1>1, <2>1, <2>4, <2>5 DEF ad, pd
  <2> HIDE DEF zp, fi
  <2>7. QED
    BY ONLY <2>6
<1>9. cap \in 0 .. 3
  <2>1. op.outBits \in Nat /\ op.outBits <= 2
    BY DEF Declared, Valid, ValidRequant, MessageBits
  <2>2. 2^op.outBits \in Nat /\ 1 <= 2^op.outBits /\ 2^op.outBits <= 2^2
    BY <2>1, PowerStep, PowerBounds
  <2>3. 2^2 = 4
    <3>1. 0 + 1 = 1 /\ 1 + 1 = 2 /\ 0 \in Nat /\ 1 \in Nat
      OBVIOUS
    <3>2. 2^(0 + 1) = 2 * 2^0 /\ 2^(1 + 1) = 2 * 2^1 /\ 2^0 = 1
      BY <3>1, PowerStep
    <3>3. QED
      BY <3>1, <3>2
  <2> DEFINE full == 2^op.outBits
  <2>4. full \in Nat /\ 1 <= full /\ full <= 4 /\ cap = full - 1
    BY <2>2, <2>3
  <2> HIDE DEF full, cap
  <2>5. QED
    BY <2>4
<1> HIDE DEF s, cap
<1>10. /\ Smaller(s, cap) = (IF s <= cap THEN s ELSE cap)
       /\ Smaller(cap, s) = (IF cap <= s THEN cap ELSE s)
  BY <1>8, <1>9, LargerSmaller
<1> DEFINE m == IF s <= cap THEN s ELSE cap
<1>11. Smaller(s, cap) = m /\ Smaller(cap, s) = m /\ m \in 0 .. 3
  BY <1>8, <1>9, <1>10
<1> HIDE DEF m
<1>12. Larger(0, m) = m
  <2>1. Larger(0, m) = IF 0 >= m THEN 0 ELSE m
    BY <1>11, LargerSmaller
  <2>2. QED
    BY <1>11, <2>1
<1>13. QED
  BY <1>5, <1>6, <1>11, <1>12

(* Four entries, two bits.                                                 *)
LEMMA MessageValues == 2^MessageBits = 4
<1>1. 2^0 = 1 /\ 2^1 = 2 * 2^0 /\ 2^2 = 2 * 2^1
  BY PowerStep, 0 \in Nat, 0 + 1 = 1, 1 \in Nat, 1 + 1 = 2
<1>2. QED
  BY <1>1 DEF MessageBits

(* The operand, at its blocks, is a signed integer of their bits that the  *)
(* floor is no lower than, unless they are the whole radix.                *)
LEMMA FloorOfBlocks ==
  ASSUME NEW c \in Nat \ {0}, NEW b \in Nat, b <= 2 * c, NEW lo \in Int, 2 * Magnitude(lo) <= 2^b
  PROVE  Magnitude(lo) <= Half(c)
<1>1. 2^b \in Nat /\ 2^(2 * c) \in Nat /\ 2^b <= 2^(2 * c)
  BY PowerStep, PowerBounds
<1>2. Half(c) \in Nat /\ 2 * Half(c) = 2^(2 * c)
  BY HalfIs
<1>3. Magnitude(lo) \in Nat
  BY DEF Magnitude
<1>4. QED
  BY <1>1, <1>2, <1>3

(* The blocks a rescale runs at hold all it computes.                      *)
LEMMA RescaleHolds ==
  ASSUME NEW op, op.type = "Requant", Valid(op), Declared(op),
         NEW nb \in Nat \ {0}, NEW x, NEW b \in Nat, Below(x, b), NEW cts, Carries(cts, x, b, nb),
         RescalesInRadix(op, x, nb), FloorFits(op, b),
         NEW i \in DOMAIN x, NEW k \in 1 .. Len(op.channel), Channel(op, i) = op.channel[k]
  PROVE  LET r == RescaleBlocks(op, cts, b, nb)
         IN  /\ r \in 1 .. nb /\ FitsBlocks(x[i], r)
             /\ FitsBlocks(Transient(op, i, x[i]), r)
             /\ FitsBlocks((Transient(op, i, x[i]) \div 2^Channel(op, i).shift) + op.zeroPoint, r)
<1> DEFINE c == TensorBlocks(cts, b, nb)
           r == RescaleBlocks(op, cts, b, nb)
           P == RequantPeakBits(op, 2 * c)
           v == x[i]
<1>1. x \in Seq(Int) /\ Len(x) # 0 /\ v \in Int
  BY DEF Below
<1>2. c \in 1 .. nb /\ SignedBlocks(b, nb) <= c /\ FitsBlocks(v, c)
  BY <1>1, TensorBlocksHold
<1>3. r \in 1 .. nb /\ c <= r /\ ValueBlocks(P, nb) <= r
  BY <1>2, RescaleBlocksAre
<1> HIDE DEF c, r, P
<1>4. FitsBlocks(v, r)
  BY <1>1, <1>2, <1>3, FitsMore
<1>5. CASE r = nb
  BY <1>3, <1>4, <1>5 DEF RescalesInRadix, r
<1>6. CASE r # nb
  <2>1. c \in Nat \ {0} /\ 2 * c \in Nat \ {0} /\ c < nb
    BY <1>2, <1>3, <1>6
  <2>2. P \in Nat
    BY <2>1, PeakBitsAre DEF P
  <2>3. P + 1 <= 2 * r
    <3>1. ValueBlocks(P, nb) \in 1 .. nb
          /\ (ValueBlocks(P, nb) = nb \/ P + 1 <= 2 * ValueBlocks(P, nb))
      BY <2>2, ValueBlocksIs
    <3>2. QED
      BY <1>3, <1>6, <2>2, <3>1
  <2>4. b <= 2 * c
    <3>1. SignedBlocks(b, nb) \in 1 .. nb
          /\ (SignedBlocks(b, nb) = nb \/ b <= 2 * SignedBlocks(b, nb))
      BY SignedBlocksIs
    <3>2. QED
      BY <1>2, <2>1, <3>1
  <2>5. op.clampLo \in Int /\ 2 * Magnitude(op.clampLo) <= 2^b /\ op.zeroPoint <= Larger(0, -FloorImage(op))
    BY ChannelsAre DEF FloorFits
  <2>6. Magnitude(op.clampLo) <= Half(c) /\ -Half(c) <= v /\ v < Half(c)
    BY <1>1, <1>2, <2>1, <2>4, <2>5, FloorOfBlocks, FitsIs
  <2>7. Half(c) = 2^(2 * c - 1)
    BY DEF Half, MessageBits
  <2> DEFINE B == 2 * c
  <2>8. /\ B \in Nat \ {0} /\ -(2^(B - 1)) <= v /\ v < 2^(B - 1) /\ Magnitude(op.clampLo) <= 2^(B - 1)
        /\ RequantPeakBits(op, B) + ZeroPointBits(op) <= 2 * r /\ r \in Nat \ {0}
    <3>1. ZeroPointBits(op) \in {0, 1} /\ P \in Nat
      BY <2>1, PeakBitsAre DEF P, ZeroPointBits
    <3>2. P + 1 <= 2 * r
      BY <1>3, <2>3
    <3>3. P + ZeroPointBits(op) <= 2 * r
      BY <1>3, <3>1, <3>2
    <3>4. QED
      BY <1>3, <2>1, <2>6, <2>7, <3>3 DEF P
  <2> HIDE DEF B, v
  <2>9. /\ FitsBlocks(Transient(op, i, v), r)
        /\ FitsBlocks((Transient(op, i, v) \div 2^Channel(op, i).shift) + op.zeroPoint, r)
    BY <1>1, <2>5, <2>8, RescaleFits
  <2>10. QED
    BY <1>3, <1>4, <2>9 DEF v, r
<1>7. QED
  BY <1>5, <1>6

(* A Requant: the rescale wraps nowhere, and the table reads what the      *)
(* oracle's ramp gives.                                                    *)
LEMMA RequantCarries ==
  ASSUME NEW op, op.type = "Requant", NEW in, NEW x, NEW b, NEW nb, Given(op, in, x, b, nb),
         NEW ob, ob[1] = OutputBits(op, b), RescalesInRadix(op, x[1], nb), FloorFits(op, b[1])
  PROVE  Yields(op, in, x, b, ob, nb)
<1> DEFINE W == OutputBits(op, b)
           o == ValueBlocks(W, nb)
           r == RescaleBlocks(op, in[1], b[1], nb)
           y == [i \in DOMAIN x[1] |-> op.lut[Ramp(op, i, x[1][i]) + 1]]
           u == [i \in DOMAIN x[1] |-> op.lut[(RescaleLane(op, i, in[1][i], r) % 2^MessageBits) + 1]]
           T == TfheRequant(op, in[1], b[1], o, nb)
<1>1. nb \in Nat \ {0} /\ W \in Nat /\ OutArity(op) = 1
  BY GivenIs DEF OutArity
<1>2. RefDefined(op, x) /\ TfheDefined(op, in, nb) /\ Declared(op) /\ Valid(op)
  BY DEF Given
<1>3. Len(x) = 1
  BY <1>2 DEF RefDefined, ShapeOK, Arity
<1>4. op.lut \in Seq(Nat) /\ Len(op.lut) = 4
  BY <1>2, MessageIs DEF Declared, TfheDefined
<1>5. x[1] \in Seq(Int) /\ b[1] \in Nat /\ Carries(in[1], x[1], b[1], nb) /\ Below(x[1], b[1])
  BY <1>3, GivenIs
<1>6. /\ DOMAIN in[1] = 1 .. Len(x[1]) /\ DOMAIN x[1] = 1 .. Len(x[1])
      /\ \A i \in 1 .. Len(x[1]) : in[1][i].v = x[1][i] /\ x[1][i] \in Int
  <2>1. nb \in Nat \ {0} /\ x[1] \in Seq(Int) /\ b[1] \in Nat /\ Carries(in[1], x[1], b[1], nb)
    BY <1>1, <1>5
  <2>2. /\ DOMAIN in[1] = 1 .. Len(x[1]) /\ DOMAIN x[1] = 1 .. Len(x[1]) /\ Len(x[1]) \in Nat
        /\ \A i \in 1 .. Len(x[1]) : in[1][i].v = x[1][i] /\ x[1][i] \in Int
    BY ONLY <2>1, CarriesValues
  <2>3. QED
    BY <2>2
<1>7. RefEval(op, x) = <<y>>
  BY DEF RefEval
<1>8. TfheEval(op, in, b, ob, nb) = <<T>>
  BY DEF TfheEval
<1>9. InRadix(y, nb) /\ Below(y, W)
  <2>1. InRadix(RefEval(op, x)[1], nb) /\ Below(RefEval(op, x)[1], W)
    BY <1>1, GivenIs
  <2>2. RefEval(op, x)[1] = y
    BY <1>7
  <2>3. QED
    BY <2>1, <2>2
<1>10. ASSUME NEW i \in DOMAIN y
       PROVE  u[i] \in Int /\ Congruent(u[i], y[i], 2 * Half(o))
  <2>1. i \in DOMAIN x[1] /\ in[1][i].v = x[1][i] /\ x[1][i] \in Int
    BY <1>6
  <2>2. PICK k \in DOMAIN op.channel : Channel(op, i) = op.channel[k]
    BY <1>2, <1>5, <2>1, ChannelIs
  <2>3. k \in 1 .. Len(op.channel)
    BY <1>2, ChannelsAre
  <2>4. /\ r \in 1 .. nb /\ FitsBlocks(x[1][i], r)
        /\ FitsBlocks(Transient(op, i, x[1][i]), r)
        /\ FitsBlocks((Transient(op, i, x[1][i]) \div 2^Channel(op, i).shift) + op.zeroPoint, r)
    BY <1>1, <1>2, <1>5, <2>1, <2>2, <2>3, RescaleHolds
  <2> DEFINE lane == RescaleLane(op, i, in[1][i], r)
             ramp == Ramp(op, i, x[1][i])
  <2>5. lane = ramp /\ ramp \in 0 .. 3
    <3>1. r \in Nat \ {0}
      BY <1>1, <2>4
    <3> HIDE DEF r
    <3>2. QED
      BY <1>2, <2>1, <2>2, <2>3, <2>4, <3>1, LaneIsRamp
  <2>6. u[i] = op.lut[(lane % 2^MessageBits) + 1] /\ y[i] = op.lut[ramp + 1]
    BY <2>1
  <2> HIDE DEF lane, ramp
  <2>7. lane % 2^MessageBits = ramp
    <3>1. ramp % 4 = ramp
      BY <2>5
    <3>2. QED
      BY <2>5, <3>1, MessageValues
  <2>8. u[i] = y[i] /\ y[i] \in Int
    BY <1>4, <2>5, <2>6, <2>7
  <2>9. 2 * Half(o) \in Int
    <3>1. o \in Nat \ {0}
      BY <1>1, ValueBlocksIs
    <3> HIDE DEF o
    <3>2. QED
      BY <3>1, HalfIs
  <2> HIDE DEF u, y, o
  <2>10. QED
    BY <2>8, <2>9, CongruentSteps
<1>11. T = [i \in DOMAIN y |-> Ct(o, u[i])]
  BY <1>6 DEF TfheRequant, Lookup
<1> HIDE DEF y, u, T, W
<1>12. Carries(T, y, W, nb)
  BY <1>1, <1>9, <1>10, <1>11, ValuesCarry
<1>13. QED
  BY <1>1, <1>7, <1>8, <1>12, OneResult DEF W

(* A resized ciphertext.                                                   *)
LEMMA ResizeIs ==
  ASSUME NEW ct, NEW v \in Int, ct.v = v, NEW q \in Nat \ {0}
  PROVE  /\ Resize(ct, q).v \in Int /\ Congruent(Resize(ct, q).v, v, 2 * Half(q))
         /\ FitsBlocks(v, q) => Resize(ct, q).v = v
<1>1. Resize(ct, q).v = Wrap(v, q)
  BY DEF Resize, Ct
<1>2. QED
  BY <1>1, WrapIs DEF FitsBlocks

(* A sum: both operands are resized to the blocks of the result, which     *)
(* hold it.                                                                *)
LEMMA AddCarries ==
  ASSUME NEW op, op.type = "Add", NEW in, NEW x, NEW b, NEW nb, Given(op, in, x, b, nb),
         NEW ob, ob[1] = OutputBits(op, b)
  PROVE  Yields(op, in, x, b, ob, nb)
<1> DEFINE W == OutputBits(op, b)
           o == ValueBlocks(W, nb)
           y == [i \in DOMAIN x[1] |-> x[1][i] + x[2][i]]
           u == [i \in DOMAIN x[1] |-> Resize(in[1][i], o).v + Resize(in[2][i], o).v]
           T == TfheAdd(in[1], in[2], o)
<1>1. nb \in Nat \ {0} /\ W \in Nat /\ OutArity(op) = 1 /\ o \in Nat \ {0}
  <2>1. nb \in Nat \ {0} /\ W \in Nat /\ OutArity(op) = 1
    BY GivenIs DEF OutArity
  <2> HIDE DEF W
  <2>2. QED
    BY <2>1, ValueBlocksIs
<1>2. RefDefined(op, x)
  BY DEF Given
<1>3. Len(x) = 2 /\ Len(x[1]) = Len(x[2])
  BY <1>2 DEF RefDefined, ShapeOK, Arity
<1>4. /\ x[1] \in Seq(Int) /\ b[1] \in Nat /\ Carries(in[1], x[1], b[1], nb)
      /\ x[2] \in Seq(Int) /\ b[2] \in Nat /\ Carries(in[2], x[2], b[2], nb)
  BY <1>3, GivenIs
<1>5. /\ DOMAIN in[1] = 1 .. Len(x[1]) /\ DOMAIN x[1] = 1 .. Len(x[1])
      /\ \A i \in 1 .. Len(x[1]) : in[1][i].v = x[1][i] /\ x[1][i] \in Int
  <2>1. nb \in Nat \ {0} /\ x[1] \in Seq(Int) /\ b[1] \in Nat /\ Carries(in[1], x[1], b[1], nb)
    BY <1>1, <1>4
  <2>2. /\ DOMAIN in[1] = 1 .. Len(x[1]) /\ DOMAIN x[1] = 1 .. Len(x[1]) /\ Len(x[1]) \in Nat
        /\ \A i \in 1 .. Len(x[1]) : in[1][i].v = x[1][i] /\ x[1][i] \in Int
    BY ONLY <2>1, CarriesValues
  <2>3. QED
    BY <2>2
<1>6. \A i \in 1 .. Len(x[1]) : in[2][i].v = x[2][i] /\ x[2][i] \in Int
  <2>1. nb \in Nat \ {0} /\ x[2] \in Seq(Int) /\ b[2] \in Nat /\ Carries(in[2], x[2], b[2], nb)
    BY <1>1, <1>4
  <2>2. /\ DOMAIN in[2] = 1 .. Len(x[2]) /\ DOMAIN x[2] = 1 .. Len(x[2]) /\ Len(x[2]) \in Nat
        /\ \A i \in 1 .. Len(x[2]) : in[2][i].v = x[2][i] /\ x[2][i] \in Int
    BY ONLY <2>1, CarriesValues
  <2>3. QED
    BY <2>2, <1>3
<1>7. RefEval(op, x) = <<y>>
  BY DEF RefEval
<1>8. TfheEval(op, in, b, ob, nb) = <<T>>
  BY DEF TfheEval
<1>9. InRadix(y, nb) /\ Below(y, W)
  <2>1. InRadix(RefEval(op, x)[1], nb) /\ Below(RefEval(op, x)[1], W)
    BY <1>1, GivenIs
  <2>2. RefEval(op, x)[1] = y
    BY <1>7
  <2>3. QED
    BY <2>1, <2>2
<1>10. ASSUME NEW i \in DOMAIN y
       PROVE  u[i] \in Int /\ Congruent(u[i], y[i], 2 * Half(o))
  <2> DEFINE p == Resize(in[1][i], o).v
             q == Resize(in[2][i], o).v
             m == 2 * Half(o)
  <2>1. /\ i \in DOMAIN x[1] /\ in[1][i].v = x[1][i] /\ x[1][i] \in Int
        /\ in[2][i].v = x[2][i] /\ x[2][i] \in Int
    BY <1>5, <1>6
  <2>2. u[i] = p + q /\ y[i] = x[1][i] + x[2][i]
    BY <2>1
  <2>3. m \in Int
    <3> HIDE DEF o
    <3>1. QED
      BY <1>1, HalfIs
  <2>4. /\ p \in Int /\ Congruent(p, x[1][i], m)
        /\ q \in Int /\ Congruent(q, x[2][i], m)
    <3> HIDE DEF o
    <3>1. QED
      BY <1>1, <2>1, ResizeIs
  <2> HIDE DEF p, q, m, u, y
  <2>5. p + q \in Int /\ Congruent(p + q, x[1][i] + x[2][i], m)
    <3> DEFINE d == x[1][i]
               e == x[2][i]
    <3>1. d \in Int /\ e \in Int /\ Congruent(p, d, m) /\ Congruent(q, e, m)
      BY <2>1, <2>4
    <3> HIDE DEF d, e
    <3>2. p + q \in Int /\ Congruent(p + q, d + e, m)
      BY <2>3, <2>4, <3>1, CongruentSteps
    <3>3. QED
      BY <3>2 DEF d, e
  <2>6. QED
    BY <2>2, <2>5 DEF m
<1>11. T = [i \in DOMAIN y |-> Ct(o, u[i])]
  BY <1>5 DEF TfheAdd
<1> HIDE DEF y, u, T, W
<1>12. Carries(T, y, W, nb)
  BY <1>1, <1>9, <1>10, <1>11, ValuesCarry
<1>13. QED
  BY <1>1, <1>7, <1>8, <1>12, OneResult DEF W

(* A comparison with a threshold, at blocks that hold both.                *)
LEMMA AtLeastIs ==
  ASSUME NEW nb \in Nat \ {0}, NEW t \in Int, NEW c \in 1 .. nb, NEW v \in Int, NEW ct, ct.v = v,
         FitsBlocks(v, c), NEW o
  PROVE  AtLeast(ct, t, c, o, nb) = Ct(o, IF v >= t THEN 1 ELSE 0)
<1> DEFINE s == ScalarBlocks(t, nb)
           w == Larger(c, s)
<1>1. s \in Nat \ {0}
  <2> DEFINE M == MagnitudeBits(t)
  <2>1. M \in Nat
    BY MagnitudeBitsHold
  <2>2. s = ValueBlocks(M, nb)
    BY DEF ScalarBlocks
  <2> HIDE DEF M, s
  <2>3. QED
    BY <2>1, <2>2, ValueBlocksIs
<1>2. w \in Nat \ {0} /\ c <= w
  <2>1. w = IF c >= s THEN c ELSE s
    BY <1>1, LargerSmaller
  <2> HIDE DEF s, w
  <2>2. QED
    BY <1>1, <2>1
<1> HIDE DEF w
<1>3. FitsBlocks(v, w)
  BY <1>2, FitsMore
<1>4. Resize(ct, w).v = v
  BY <1>2, <1>3, ResizeIs
<1>5. AtLeast(ct, t, c, o, nb) = Ct(o, IF Resize(ct, w).v >= t THEN 1 ELSE 0)
  BY DEF AtLeast, w
<1>6. QED
  BY <1>4, <1>5

(* The values themselves.                                                  *)
LEMMA ExactCarry ==
  ASSUME NEW nb \in Nat \ {0}, NEW y, NEW W \in Nat, Below(y, W), InRadix(y, nb),
         NEW T, T = [i \in DOMAIN y |-> Ct(ValueBlocks(W, nb), y[i])]
  PROVE  Carries(T, y, W, nb)
<1> DEFINE o == ValueBlocks(W, nb)
<1>1. \A i \in DOMAIN y : y[i] \in Int
  BY DEF Below
<1>2. 2 * Half(o) \in Int
  <2>1. o \in Nat \ {0}
    BY ValueBlocksIs
  <2> HIDE DEF o
  <2>2. QED
    BY <2>1, HalfIs
<1> HIDE DEF o
<1>3. \A i \in DOMAIN y : y[i] \in Int /\ Congruent(y[i], y[i], 2 * Half(o))
  BY <1>1, <1>2, CongruentSteps
<1>4. QED
  BY <1>3, ValuesCarry DEF o

(* A comparison of one value with the threshold.                           *)
LEMMA ArgmaxCarries ==
  ASSUME NEW op, op.type = "Argmax", NEW in, NEW x, NEW b, NEW nb, Given(op, in, x, b, nb),
         NEW ob, ob[1] = OutputBits(op, b)
  PROVE  Yields(op, in, x, b, ob, nb)
<1> DEFINE W == OutputBits(op, b)
           o == ValueBlocks(W, nb)
           c == TensorBlocks(in[1], b[1], nb)
           t == op.threshold
           y == <<IF x[1][1] >= t THEN 1 ELSE 0>>
           T == TfheArgmax(op, in[1], c, o, nb)
<1>1. nb \in Nat \ {0} /\ W \in Nat /\ OutArity(op) = 1
  BY GivenIs DEF OutArity
<1>2. RefDefined(op, x) /\ Declared(op)
  BY DEF Given
<1>3. Len(x) = 1 /\ Len(x[1]) = 1
  BY <1>2 DEF RefDefined, ShapeOK, Arity
<1>4. t \in Int
  BY <1>2 DEF Declared
<1>5. x[1] \in Seq(Int) /\ b[1] \in Nat /\ Carries(in[1], x[1], b[1], nb) /\ Below(x[1], b[1])
  <2>1. 1 \in 1 .. Len(x)
    BY <1>3
  <2>2. QED
    BY <2>1, GivenIs, Zenon
<1>6. in[1][1].v = x[1][1] /\ x[1][1] \in Int
  <2>1. 1 \in 1 .. Len(x[1])
    BY <1>3
  <2>2. QED
    BY <1>1, <1>5, <2>1, CarriesValues
<1>7. RefEval(op, x) = <<y>>
  BY DEF RefEval
<1>8. TfheEval(op, in, b, ob, nb) = <<T>>
  BY DEF TfheEval
<1>9. InRadix(y, nb) /\ Below(y, W)
  <2>1. InRadix(RefEval(op, x)[1], nb) /\ Below(RefEval(op, x)[1], W)
    BY <1>1, GivenIs
  <2>2. RefEval(op, x)[1] = y
    BY <1>7
  <2>3. QED
    BY <2>1, <2>2
<1>10. c \in 1 .. nb /\ FitsBlocks(x[1][1], c)
  <2>1. 1 \in DOMAIN x[1] /\ Len(x[1]) # 0
    BY <1>3, <1>5
  <2>2. QED
    BY <1>1, <1>5, <2>1, TensorBlocksHold
<1> HIDE DEF c
<1>11. AtLeast(in[1][1], t, c, o, nb) = Ct(o, IF x[1][1] >= t THEN 1 ELSE 0)
  <2> HIDE DEF t, o
  <2>1. QED
    BY <1>1, <1>4, <1>6, <1>10, AtLeastIs
<1>12. T = <<Ct(o, IF x[1][1] >= t THEN 1 ELSE 0)>>
  BY <1>11 DEF TfheArgmax
<1> DEFINE e == IF x[1][1] >= t THEN 1 ELSE 0
<1>13. y = <<e>> /\ T = <<Ct(o, e)>>
  BY <1>12
<1> HIDE DEF y, T, W, e, o
<1>14. T = [i \in DOMAIN y |-> Ct(o, y[i])]
  BY <1>13
<1>15. Carries(T, y, W, nb)
  BY <1>1, <1>9, <1>14, ExactCarry DEF o
<1>16. QED
  BY <1>1, <1>7, <1>8, <1>15, OneResult DEF W

(* Comparisons of chosen values with thresholds.                           *)
LEMMA CompareCarries ==
  ASSUME NEW op, op.type = "Compare", NEW in, NEW x, NEW b, NEW nb, Given(op, in, x, b, nb),
         NEW ob, ob[1] = OutputBits(op, b)
  PROVE  Yields(op, in, x, b, ob, nb)
<1> DEFINE W == OutputBits(op, b)
           o == ValueBlocks(W, nb)
           c == TensorBlocks(in[1], b[1], nb)
           js == op.indices
           e == [i \in DOMAIN js |-> IF x[1][js[i]] >= op.thresholds[i] THEN 1 ELSE 0]
           T == TfheCompare(op, in[1], c, o, nb)
<1>1. nb \in Nat \ {0} /\ W \in Nat /\ OutArity(op) = 1
  BY GivenIs DEF OutArity
<1>2. RefDefined(op, x) /\ Declared(op) /\ Valid(op)
  BY DEF Given
<1>3. \A i \in DOMAIN js : js[i] \in DOMAIN x[1]
  BY <1>2 DEF RefDefined, ShapeOK, Arity
<1>0. Len(x) = 1
  BY <1>2 DEF RefDefined, ShapeOK, Arity
<1>4. \A i \in DOMAIN js : op.thresholds[i] \in Int
  <2>1. js \in Seq(Nat) /\ op.thresholds \in Seq(Int) /\ Len(js) = Len(op.thresholds)
    BY <1>2 DEF Declared, Valid
  <2> HIDE DEF js
  <2>2. QED
    BY <2>1
<1>5. x[1] \in Seq(Int) /\ b[1] \in Nat /\ Carries(in[1], x[1], b[1], nb) /\ Below(x[1], b[1])
  BY <1>0, GivenIs
<1>6. /\ DOMAIN x[1] = 1 .. Len(x[1]) /\ Len(x[1]) \in Nat
      /\ \A i \in 1 .. Len(x[1]) : in[1][i].v = x[1][i] /\ x[1][i] \in Int
  <2>1. nb \in Nat \ {0} /\ x[1] \in Seq(Int) /\ b[1] \in Nat /\ Carries(in[1], x[1], b[1], nb)
    BY <1>1, <1>5
  <2>2. /\ DOMAIN in[1] = 1 .. Len(x[1]) /\ DOMAIN x[1] = 1 .. Len(x[1]) /\ Len(x[1]) \in Nat
        /\ \A i \in 1 .. Len(x[1]) : in[1][i].v = x[1][i] /\ x[1][i] \in Int
    BY ONLY <2>1, CarriesValues
  <2>3. QED
    BY <2>2
<1>7. RefEval(op, x) = <<e>>
  BY DEF RefEval
<1>8. TfheEval(op, in, b, ob, nb) = <<T>>
  BY DEF TfheEval
<1>9. InRadix(e, nb) /\ Below(e, W)
  <2>1. InRadix(RefEval(op, x)[1], nb) /\ Below(RefEval(op, x)[1], W)
    BY <1>1, GivenIs
  <2>2. RefEval(op, x)[1] = e
    BY <1>7
  <2>3. QED
    BY <2>1, <2>2
<1>10. ASSUME NEW i \in DOMAIN js
       PROVE  AtLeast(in[1][js[i]], op.thresholds[i], c, o, nb) = Ct(o, e[i])
  <2> DEFINE j == js[i]
             t == op.thresholds[i]
             v == x[1][j]
  <2>1. j \in 1 .. Len(x[1]) /\ t \in Int /\ v \in Int /\ in[1][j].v = v
    BY <1>3, <1>4, <1>6
  <2>2. c \in 1 .. nb /\ FitsBlocks(v, c)
    <3>1. Len(x[1]) # 0 /\ j \in DOMAIN x[1]
      BY <1>6, <2>1
    <3> HIDE DEF j
    <3>2. QED
      BY <1>1, <1>5, <3>1, TensorBlocksHold
  <2>3. e[i] = IF v >= t THEN 1 ELSE 0
    OBVIOUS
  <2> HIDE DEF c, o, e, v, t, j
  <2>4. AtLeast(in[1][j], t, c, o, nb) = Ct(o, IF v >= t THEN 1 ELSE 0)
    BY <1>1, <2>1, <2>2, AtLeastIs
  <2>5. QED
    BY <2>3, <2>4 DEF t, j
<1>11. T = [i \in DOMAIN js |-> Ct(o, e[i])] /\ DOMAIN e = DOMAIN js
  BY <1>10 DEF TfheCompare
<1> HIDE DEF e, T, W, js, c
<1>12. T = [i \in DOMAIN e |-> Ct(ValueBlocks(W, nb), e[i])]
  BY <1>11
<1>13. Carries(T, e, W, nb)
  BY <1>1, <1>9, <1>12, ExactCarry
<1>14. QED
  BY <1>1, <1>7, <1>8, <1>13, OneResult DEF W

(* What a ciphertext decrypts to.                                          *)
Plain(nb) == [ct \in Cts(nb) |-> ct.v]

(* Operands end to end, resized to common blocks.                          *)
LEMMA ConcatCarries ==
  ASSUME NEW op, op.type = "Concat", NEW in, NEW x, NEW b, NEW nb, Given(op, in, x, b, nb),
         NEW ob, ob[1] = OutputBits(op, b)
  PROVE  Yields(op, in, x, b, ob, nb)
<1> DEFINE W == OutputBits(op, b)
           o == ValueBlocks(W, nb)
           all == FlattenSeq(in)
           y == FlattenSeq(x)
           T == TfheConcat(in, o)
           C == Cts(nb)
           SC == Seq(C)
           g == Plain(nb)
<1>1. nb \in Nat \ {0} /\ W \in Nat /\ OutArity(op) = 1
  BY GivenIs DEF OutArity
<1>2. Len(x) \in Nat /\ DOMAIN x = 1 .. Len(x) /\ in = [k \in 1 .. Len(x) |-> in[k]]
  BY GivenIs
<1>3. ASSUME NEW k \in 1 .. Len(x)
      PROVE  in[k] \in SC /\ x[k] = Mapped(g, in[k])
  <2>1. x[k] \in Seq(Int) /\ b[k] \in Nat /\ Carries(in[k], x[k], b[k], nb)
    BY GivenIs
  <2>2. /\ in[k] \in Seq(Cts(nb)) /\ DOMAIN in[k] = 1 .. Len(x[k]) /\ DOMAIN x[k] = 1 .. Len(x[k])
        /\ \A i \in 1 .. Len(x[k]) : in[k][i] \in Cts(nb) /\ in[k][i].v = x[k][i]
    <3> DEFINE s == x[k]
               t == in[k]
    <3>1. s \in Seq(Int) /\ b[k] \in Nat /\ Carries(t, s, b[k], nb)
      BY <2>1
    <3> HIDE DEF s, t
    <3>2. DOMAIN t = 1 .. Len(s) /\ DOMAIN s = 1 .. Len(s) /\ \A i \in 1 .. Len(s) : t[i].v = s[i]
      BY <1>1, <3>1, CarriesValues
    <3>3. t \in Seq(Cts(nb))
      BY <3>1 DEF Carries
    <3>4. \A i \in 1 .. Len(s) : t[i] \in Cts(nb)
      BY <3>2, <3>3
    <3>5. QED
      BY <3>2, <3>3, <3>4 DEF s, t
  <2>3. Mapped(g, in[k]) = [i \in 1 .. Len(x[k]) |-> x[k][i]]
    BY <2>2 DEF Mapped, Plain
  <2>4. x[k] = [i \in 1 .. Len(x[k]) |-> x[k][i]]
    BY <2>1
  <2>5. QED
    BY <2>2, <2>3, <2>4
<1>4. in \in Seq(SC)
  <2> HIDE DEF SC
  <2>1. QED
    BY <1>2, <1>3
<1>5. all \in SC
  BY <1>4, FlattenSeqType, Zenon
<1>6. y = Mapped(g, all)
  <2>1. x = [k \in DOMAIN in |-> Mapped(g, in[k])]
    <3>1. x = [k \in 1 .. Len(x) |-> x[k]]
      <4>1. x \in Seq(Seq(Int))
        BY OperandsAre DEF Given
      <4>2. QED
        BY <4>1
    <3>2. DOMAIN in = 1 .. Len(x)
      BY <1>2
    <3> HIDE DEF g
    <3>3. QED
      BY <1>3, <3>1, <3>2
  <2> HIDE DEF g
  <2>2. QED
    BY <1>4, <2>1, FlattenMap, Zenon
<1>7. RefEval(op, x) = <<y>>
  BY DEF RefEval
<1>8. TfheEval(op, in, b, ob, nb) = <<T>>
  BY DEF TfheEval
<1>9. InRadix(y, nb) /\ Below(y, W)
  <2>1. InRadix(RefEval(op, x)[1], nb) /\ Below(RefEval(op, x)[1], W)
    BY <1>1, GivenIs
  <2>2. RefEval(op, x)[1] = y
    BY <1>7
  <2>3. QED
    BY <2>1, <2>2
<1>10. T = [i \in DOMAIN all |-> Resize(all[i], o)]
  BY DEF TfheConcat
<1> HIDE DEF all, y, T, W
<1>11. DOMAIN y = DOMAIN all /\ \A i \in DOMAIN all : y[i] = all[i].v
  <2>1. \A i \in DOMAIN all : all[i] \in C
    BY <1>5
  <2>2. QED
    BY <1>6, <2>1 DEF Mapped, Plain
<1>12. T = [i \in DOMAIN y |-> Ct(o, y[i])]
  BY <1>10, <1>11 DEF Resize
<1>13. Carries(T, y, W, nb)
  BY <1>1, <1>9, <1>12, ExactCarry
<1>14. QED
  BY <1>1, <1>7, <1>8, <1>13, OneResult DEF W

(* The blocks the parts of a split get.                                    *)
LEMMA SplitCarries ==
  ASSUME NEW op, op.type = "Split", NEW in, NEW x, NEW b, NEW nb, Given(op, in, x, b, nb), NEW ob
  PROVE  Yields(op, in, x, b, ob, nb)
<1> DEFINE W == OutputBits(op, b)
           X == x[1]
           c == TensorBlocks(in[1], b[1], nb)
           R == [i \in DOMAIN in[1] |-> Resize(in[1][i], c)]
<1>1. nb \in Nat \ {0} /\ W \in Nat /\ OutArity(op) = Len(op.sizes)
  BY GivenIs DEF OutArity
<1>2. RefDefined(op, x) /\ Declared(op) /\ Valid(op)
  BY DEF Given
<1>3. Len(x) = 1 /\ Len(X) = SumFunction(op.sizes)
  BY <1>2 DEF RefDefined, ShapeOK, Arity
<1>4. op.sizes \in Seq(Nat) /\ \A i \in DOMAIN op.sizes : op.sizes[i] > 0
  BY <1>2 DEF Declared, Valid
<1>5. X \in Seq(Int) /\ b[1] \in Nat /\ Carries(in[1], X, b[1], nb) /\ Below(X, b[1])
  BY <1>3, GivenIs
<1>6. /\ DOMAIN X = 1 .. Len(X) /\ Len(X) \in Nat /\ DOMAIN in[1] = 1 .. Len(X)
      /\ \A i \in 1 .. Len(X) : in[1][i].v = X[i] /\ X[i] \in Int
  <2>1. nb \in Nat \ {0} /\ X \in Seq(Int) /\ b[1] \in Nat /\ Carries(in[1], X, b[1], nb)
    BY <1>1, <1>5
  <2>2. /\ DOMAIN in[1] = 1 .. Len(X) /\ DOMAIN X = 1 .. Len(X) /\ Len(X) \in Nat
        /\ \A i \in 1 .. Len(X) : in[1][i].v = X[i] /\ X[i] \in Int
    BY ONLY <2>1, CarriesValues
  <2>3. QED
    BY <2>2
<1>7. W = b[1]
  <2>1. b \in Seq(Nat) /\ Len(b) = 1
    BY <1>3, OperandsAre DEF Given
  <2>2. DOMAIN b = 1 .. Len(b) /\ Len(b) \in Nat \ {0} /\ \A k \in DOMAIN b : b[k] \in Nat
    BY <2>1
  <2>3. MaxBits(b) \in Nat /\ \A k \in DOMAIN b : b[k] <= MaxBits(b)
    BY <2>2, MaxBitsIs
  <2>4. W = Max({b[k] : k \in DOMAIN b})
    BY DEF OutputBits, MaxBits
  <2>5. {b[k] : k \in DOMAIN b} = {b[1]}
    BY <2>1, <2>2
  <2>6. Max({b[1]}) = b[1]
    <3>1. IsFiniteSet({b[1]})
      BY FS_Singleton, Zenon
    <3>2. {b[1]} \subseteq Int /\ {b[1]} # {}
      BY <1>5
    <3>3. Max({b[1]}) \in {b[1]}
      BY <3>1, <3>2, LargestInteger
    <3>4. QED
      BY <3>3
  <2>7. QED
    BY <2>4, <2>5, <2>6
<1>8. RefEval(op, x) = Segments(X, op.sizes)
  BY DEF RefEval
<1>9. TfheEval(op, in, b, ob, nb) = Segments(R, op.sizes)
  BY DEF TfheEval, TfheSplit
<1>10. ASSUME NEW s \in 1 .. OutArity(op)
       PROVE  Carries(TfheEval(op, in, b, ob, nb)[s], RefEval(op, x)[s], W, nb)
  <2> DEFINE a == Start(op.sizes, s)
             n == op.sizes[s]
             part == SubSeq(X, a + 1, a + n)
             cut == SubSeq(R, a + 1, a + n)
  <2>1. s \in DOMAIN op.sizes /\ n \in Nat \ {0}
    BY <1>1, <1>4
  <2>2. a \in Nat /\ a + n <= Len(X)
    BY <1>3, <1>4, <2>1, PartsInside
  <2>3. RefEval(op, x)[s] = part /\ TfheEval(op, in, b, ob, nb)[s] = cut
    BY <1>8, <1>9, <2>1 DEF Segments, Segment
  <2>4. Len(X) # 0
    <3> HIDE DEF a, n
    <3>1. QED
      BY <1>6, <2>1, <2>2
  <2>5. /\ c \in 1 .. nb /\ SignedBlocks(b[1], nb) <= c
        /\ \A i \in DOMAIN X : FitsBlocks(X[i], c)
    BY <1>1, <1>5, <2>4, TensorBlocksHold
  <2>6. R = [i \in 1 .. Len(X) |-> Ct(c, X[i])]
    BY <1>6 DEF Resize
  <2> HIDE DEF a, n, X, c, R
  <2>7. part \in Seq(Int) /\ Len(part) = n /\ \A i \in 1 .. n : part[i] = X[a + i]
    BY <1>5, <2>1, <2>2
  <2>8. cut = [i \in 1 .. n |-> R[a + i]]
    <3>1. R \in Seq({R[i] : i \in 1 .. Len(X)}) /\ Len(R) = Len(X)
      BY <1>6, <2>6
    <3>2. QED
      BY <1>6, <2>1, <2>2, <3>1
  <2>9. \A i \in 1 .. n : a + i \in 1 .. Len(X)
    BY <1>6, <2>1, <2>2
  <2>10. cut = [i \in 1 .. n |-> Ct(c, X[a + i])]
    BY <2>6, <2>8, <2>9
  <2> HIDE DEF part, cut
  <2>11. DOMAIN part = 1 .. n /\ cut = [i \in DOMAIN part |-> Ct(c, part[i])]
    BY <2>1, <2>7, <2>10
  <2>12. \A i \in DOMAIN part : part[i] \in Int /\ FitsBlocks(part[i], c)
    BY <1>6, <2>5, <2>7, <2>9, <2>11
  <2>13. 2 * Half(c) \in Int
    <3>1. c \in Nat \ {0}
      BY <1>1, <2>5
    <3>2. QED
      BY <3>1, HalfIs
  <2>14. \A i \in DOMAIN part : Congruent(part[i], part[i], 2 * Half(c))
    BY <2>12, <2>13, CongruentSteps
  <2> HIDE DEF W
  <2>15. Carries(cut, part, W, nb)
    BY <1>1, <1>7, <2>5, <2>7, <2>11, <2>12, <2>14, CtsCarry
  <2>16. QED
    BY <2>3, <2>15 DEF part, cut, a, n, X, R, c
<1>11. QED
  BY <1>10 DEF Yields

(* A remainder of a remainder, for a multiple of the divisor.              *)
LEMMA RemainderTwice ==
  ASSUME NEW a \in Nat, NEW h \in Nat \ {0}, NEW w \in Nat \ {0}
  PROVE  (a % (h * w)) % w = a % w
<1> DEFINE m == h * w
           q == a \div m
           e == a % m
           p == e \div w
           f == e % w
<1>1. m \in Nat \ {0}
  OBVIOUS
<1>2. q \in Int /\ e \in Nat /\ a = q * m + e
  <2> HIDE DEF m
  <2>1. QED
    BY <1>1, Remainder
<1>3. p \in Int /\ f \in Nat /\ f < w /\ e = p * w + f
  <2> HIDE DEF e
  <2>1. QED
    BY <1>2, Remainder
<1> HIDE DEF q, e, p, f
<1>4. a = (q * h + p) * w + f /\ q * h + p \in Int
  <2>1. q * m = (q * h) * w
    BY <1>2
  <2>2. q * h \in Int
    BY <1>2
  <2>3. (q * h + p) * w = (q * h) * w + p * w
    BY <1>3, <2>2
  <2> DEFINE s == (q * h) * w
             t == p * w
  <2>4. s \in Int /\ t \in Int
    BY <1>3, <2>2
  <2>5. a = s + (t + f)
    BY <1>2, <1>3, <2>1
  <2>6. (q * h + p) * w = s + t
    BY <2>3
  <2> HIDE DEF s, t
  <2>7. QED
    BY <1>3, <2>2, <2>4, <2>5, <2>6
<1> DEFINE d == q * h + p
<1> HIDE DEF d, m
<1>5. d \in Int /\ a = d * w + f
  BY <1>4 DEF d
<1> DEFINE b == a \div w
           z == a % w
<1>6. b \in Int /\ z \in Nat /\ z < w /\ a = b * w + z
  BY Remainder
<1> HIDE DEF b, z
<1>7. Congruent(f, z, w)
  <2>1. f = z + (b - d) * w
    <3>1. (b - d) * w = b * w - d * w /\ b * w \in Int /\ d * w \in Int
      BY <1>5, <1>6
    <3>2. QED
      BY <1>3, <1>5, <1>6, <3>1
  <2>2. b - d \in Int
    BY <1>5, <1>6
  <2>3. QED
    BY <2>1, <2>2 DEF Congruent
<1>8. f = z
  <2>1. f \in Int /\ z \in Int /\ f - z < w /\ z - f < w
    BY <1>3, <1>6
  <2>2. QED
    BY <1>7, <2>1, CongruentClose
<1>9. QED
  BY <1>8 DEF f, e, m, z

(* A place in a list of n parts of L entries.                              *)
LEMMA PlaceIs ==
  ASSUME NEW n \in Nat, NEW L \in Nat \ {0}, NEW a \in 0 .. n * L - 1
  PROVE  a \div L \in 0 .. n - 1 /\ a % L \in 0 .. L - 1
<1> DEFINE q == a \div L
           e == a % L
<1>1. n * L \in Nat /\ a \in Nat /\ a < n * L
  OBVIOUS
<1>2. q \in Nat /\ e \in Nat /\ e < L /\ a = q * L + e
  BY <1>1, Quotient, Remainder
<1> HIDE DEF q, e
<1>3. SUFFICES ASSUME n <= q PROVE FALSE
  BY <1>2 DEF q, e
<1>4. n * L <= q * L /\ q * L \in Int
  BY <1>2, <1>3, ScaleBound
<1>5. QED
  BY <1>1, <1>2, <1>4

(* The flat places of an output map: the oracle's loops visit them in the  *)
(* order the runtime numbers them.                                         *)
LEMMA PositionsAre ==
  ASSUME NEW channels \in Nat, NEW g \in Geometries, ValidShape(g)
  PROVE  /\ Plane(g) \in Nat \ {0}
         /\ Len(Positions(channels, g)) = channels * Plane(g)
         /\ \A r \in 1 .. channels * Plane(g) :
              Positions(channels, g)[r] = <<PlaneOf(g, r), RowOf(g, r), ColOf(g, r)>>
<1> DEFINE S == Int \X Int \X Int
           H == OutH(g)
           W == OutW(g)
           Line(c, y) == [x \in 1 .. W |-> <<c - 1, y - 1, x - 1>>]
           Map(c) == [y \in 1 .. H |-> Line(c, y)]
           Maps == [c \in 1 .. channels |-> FlattenSeq(Map(c))]
           SS == Seq(S)
<1>1. H \in Nat \ {0} /\ W \in Nat \ {0}
  <2>1. /\ g.inH \in Nat /\ g.inW \in Nat /\ g.kH \in Nat /\ g.kW \in Nat /\ g.pad \in Nat
        /\ g.stride \in Nat \ {0} /\ g.kH <= g.inH + 2 * g.pad /\ g.kW <= g.inW + 2 * g.pad
    BY DEF Geometries, ValidShape
  <2>2. \A n \in Nat, k \in Nat, s \in Nat \ {0}, p \in Nat :
          k <= n + 2 * p => OutDim(n, k, s, p) \in Nat \ {0}
    <3> SUFFICES ASSUME NEW n \in Nat, NEW k \in Nat, NEW s \in Nat \ {0}, NEW p \in Nat,
                        k <= n + 2 * p
                 PROVE  OutDim(n, k, s, p) \in Nat \ {0}
      OBVIOUS
    <3> DEFINE e == n + 2 * p - k
               d == e \div s
    <3>1. e \in Nat
      OBVIOUS
    <3> HIDE DEF e
    <3>2. d \in Nat
      BY <3>1, Quotient
    <3> HIDE DEF d
    <3>3. OutDim(n, k, s, p) = d + 1
      BY DEF OutDim, d, e
    <3>4. QED
      BY <3>2, <3>3
  <2>3. QED
    BY <2>1, <2>2 DEF OutH, OutW
<1> HIDE DEF H, W
<1>2. H * W \in Nat \ {0} /\ Plane(g) = H * W
  BY <1>1 DEF Plane, H, W
<1>3. \A c \in 1 .. channels : \A y \in 1 .. H :
        /\ Line(c, y) \in SS /\ Len(Line(c, y)) = W
        /\ \A x \in 1 .. W : Line(c, y)[x] = <<c - 1, y - 1, x - 1>>
  BY <1>1
<1> HIDE DEF Line, S
<1>4. ASSUME NEW c \in 1 .. channels
      PROVE  /\ FlattenSeq(Map(c)) \in SS /\ Len(FlattenSeq(Map(c))) = H * W
             /\ \A r \in 1 .. H * W :
                  FlattenSeq(Map(c))[r] = <<c - 1, (r - 1) \div W, (r - 1) % W>>
  <2> DEFINE M == Map(c)
  <2>1. M \in Seq(Seq(S)) /\ Len(M) = H /\ DOMAIN M = 1 .. H
        /\ \A y \in 1 .. H : M[y] = Line(c, y)
    <3> HIDE DEF SS
    <3>1. M \in Seq(SS) /\ Len(M) = H /\ DOMAIN M = 1 .. H
          /\ \A y \in 1 .. H : M[y] = Line(c, y)
      BY <1>1, <1>3
    <3>2. QED
      BY <3>1 DEF SS
  <2> HIDE DEF M
  <2>2. \A y \in DOMAIN M : Len(M[y]) = W
    BY <1>3, <2>1
  <2>3. FlattenSeq(M) \in Seq(S)
    BY <2>1, FlattenSeqType, Zenon
  <2>4. /\ Len(FlattenSeq(M)) = H * W
        /\ \A r \in 1 .. H * W : FlattenSeq(M)[r] = M[(r - 1) \div W + 1][((r - 1) % W) + 1]
    <3>1. /\ Len(FlattenSeq(M)) = Len(M) * W
          /\ \A r \in 1 .. Len(M) * W : FlattenSeq(M)[r] = M[(r - 1) \div W + 1][((r - 1) % W) + 1]
      BY <1>1, <2>1, <2>2, FlattenUniform, Zenon
    <3>2. QED
      BY <2>1, <3>1, Zenon
  <2>5. ASSUME NEW r \in 1 .. H * W
        PROVE  FlattenSeq(M)[r] = <<c - 1, (r - 1) \div W, (r - 1) % W>>
    <3> DEFINE y == (r - 1) \div W + 1
               x == ((r - 1) % W) + 1
    <3>1. (r - 1) \div W \in 0 .. H - 1 /\ (r - 1) % W \in 0 .. W - 1
      <4>1. H * W \in Nat
        BY <1>1
      <4>2. r - 1 \in 0 .. H * W - 1
        BY <4>1
      <4>3. QED
        BY <1>1, <4>2, PlaceIs
    <3>2. y \in 1 .. H /\ x \in 1 .. W /\ y - 1 = (r - 1) \div W /\ x - 1 = (r - 1) % W
      BY <1>1, <3>1
    <3>3. FlattenSeq(M)[r] = M[y][x]
      BY <2>4
    <3> HIDE DEF x, y
    <3>4. M[y][x] = <<c - 1, y - 1, x - 1>>
      BY <1>3, <2>1, <3>2
    <3>5. QED
      BY <3>2, <3>3, <3>4
  <2>6. QED
    BY <2>3, <2>4, <2>5 DEF M
<1> HIDE DEF Map
<1>5. Maps \in Seq(Seq(S)) /\ Len(Maps) = channels /\ DOMAIN Maps = 1 .. channels
      /\ \A c \in 1 .. channels : Maps[c] = FlattenSeq(Map(c))
  <2> HIDE DEF SS
  <2>1. Maps \in Seq(SS) /\ Len(Maps) = channels /\ DOMAIN Maps = 1 .. channels
        /\ \A c \in 1 .. channels : Maps[c] = FlattenSeq(Map(c))
    BY <1>4
  <2>2. QED
    BY <2>1 DEF SS
<1>6. Positions(channels, g) = FlattenSeq(Maps)
  BY DEF Positions, Map, Line, H, W
<1> HIDE DEF Maps
<1> DEFINE L == H * W
<1>7. /\ Len(FlattenSeq(Maps)) = channels * L
      /\ \A r \in 1 .. channels * L :
           FlattenSeq(Maps)[r] = Maps[(r - 1) \div L + 1][((r - 1) % L) + 1]
  <2>1. L \in Nat \ {0} /\ \A c \in DOMAIN Maps : Len(Maps[c]) = L
    BY <1>2, <1>4, <1>5
  <2> HIDE DEF L
  <2>2. /\ Len(FlattenSeq(Maps)) = Len(Maps) * L
        /\ \A r \in 1 .. Len(Maps) * L :
             FlattenSeq(Maps)[r] = Maps[(r - 1) \div L + 1][((r - 1) % L) + 1]
    BY <1>5, <2>1, FlattenUniform, Zenon
  <2>3. QED
    BY <1>5, <2>2, Zenon
<1>8. ASSUME NEW r \in 1 .. channels * L
      PROVE  FlattenSeq(Maps)[r] = <<(r - 1) \div L, ((r - 1) % L) \div W, (r - 1) % W>>
  <2> DEFINE c == (r - 1) \div L + 1
             z == ((r - 1) % L) + 1
  <2>1. L \in Nat \ {0} /\ channels * L \in Nat
    BY <1>2
  <2>2. ((r - 1) % L) % W = (r - 1) % W
    <3>1. r - 1 \in Nat
      BY <2>1
    <3>2. QED
      BY <1>1, <3>1, RemainderTwice
  <2> HIDE DEF L
  <2>3. (r - 1) \div L \in 0 .. channels - 1 /\ (r - 1) % L \in 0 .. L - 1
    <3>1. r - 1 \in 0 .. channels * L - 1
      BY <2>1
    <3>2. QED
      BY <2>1, <3>1, PlaceIs
  <2>4. c \in 1 .. channels /\ z \in 1 .. L /\ c - 1 = (r - 1) \div L /\ z - 1 = (r - 1) % L
    BY <2>1, <2>3
  <2>5. FlattenSeq(Maps)[r] = Maps[c][z]
    BY <1>7
  <2> HIDE DEF c, z
  <2>6. Maps[c][z] = <<c - 1, (z - 1) \div W, (z - 1) % W>>
    BY <1>4, <1>5, <2>4 DEF L
  <2>7. QED
    BY <2>2, <2>4, <2>5, <2>6
<1>9. ASSUME NEW r \in 1 .. channels * L
      PROVE  FlattenSeq(Maps)[r] = <<PlaneOf(g, r), RowOf(g, r), ColOf(g, r)>>
  BY <1>2, <1>8 DEF PlaneOf, RowOf, ColOf, W
<1>10. QED
  BY <1>2, <1>6, <1>7, <1>9

(* The place of an output in its map.                                      *)
LEMMA OutputPlace ==
  ASSUME NEW channels \in Nat, NEW g \in Geometries, ValidShape(g), NEW r \in 1 .. channels * Plane(g)
  PROVE  /\ PlaneOf(g, r) \in 0 .. channels - 1 /\ RowOf(g, r) \in 0 .. OutH(g) - 1
         /\ ColOf(g, r) \in 0 .. OutW(g) - 1 /\ RowOf(g, r) \in Nat /\ ColOf(g, r) \in Nat
<1> DEFINE P == Positions(channels, g)
           C == 0 .. channels - 1
           H == 0 .. OutH(g) - 1
           W == 0 .. OutW(g) - 1
<1>1. /\ Len(P) = channels * Plane(g)
      /\ P[r] = <<PlaneOf(g, r), RowOf(g, r), ColOf(g, r)>>
  BY PositionsAre
<1>2. P \in Seq(C \X H \X W)
  BY PositionsType
<1>3. H \subseteq Nat /\ W \subseteq Nat
  BY OutMap
<1> HIDE DEF P, C, H, W
<1>4. P[r] \in C \X H \X W
  BY <1>1, <1>2
<1>5. <<PlaneOf(g, r), RowOf(g, r), ColOf(g, r)>> \in C \X H \X W
  BY <1>1, <1>4
<1>6. PlaneOf(g, r) \in C /\ RowOf(g, r) \in H /\ ColOf(g, r) \in W
  BY <1>5
<1>7. QED
  BY <1>3, <1>6 DEF C, H, W

(* The windows of a valid pool cover some of its operand.                  *)
LEMMA WindowIs ==
  ASSUME NEW g \in Geometries, ValidShape(g), g.pad < g.kH, g.pad < g.kW,
         NEW r \in 1 .. g.chans * Plane(g)
  PROVE  /\ Window(g, r) = Covered(g, <<PlaneOf(g, r), RowOf(g, r), ColOf(g, r)>>)
         /\ IsFiniteSet(Window(g, r)) /\ Window(g, r) # {} /\ Window(g, r) \subseteq 1 .. InputLen(g)
<1> DEFINE p == <<PlaneOf(g, r), RowOf(g, r), ColOf(g, r)>>
<1>1. p[1] = PlaneOf(g, r) /\ p[2] = RowOf(g, r) /\ p[3] = ColOf(g, r)
  OBVIOUS
<1>2. Window(g, r) = Covered(g, p)
  BY <1>1 DEF Window, Covered
<1>3. g.chans \in Nat
  BY DEF Geometries
<1>4. p[1] \in 0 .. g.chans - 1 /\ p[2] \in Nat /\ p[3] \in Nat
      /\ p[2] \in 0 .. OutH(g) - 1 /\ p[3] \in 0 .. OutW(g) - 1
  BY <1>1, <1>3, OutputPlace
<1> HIDE DEF p
<1>5. Reached(g, p[2], p[3]) # {}
  BY <1>4, WindowReaches
<1>6. IsFiniteSet(Covered(g, p)) /\ Covered(g, p) # {} /\ Covered(g, p) \subseteq 1 .. InputLen(g)
  BY <1>4, <1>5, CoveredCount
<1>7. QED
  BY <1>2, <1>6 DEF p

(* v holds the values of the members of T, at q blocks.                    *)
Resized(v, cts, q, T) == \A i \in T : v[i] = Resize(cts[i], q).v

(* A sum over a window of resized ciphertexts, and the largest of them.    *)
LEMMA WindowSum ==
  ASSUME NEW nb \in Nat \ {0}, NEW x \in Seq(Int), NEW b \in Nat, NEW cts, Carries(cts, x, b, nb),
         NEW T, IsFiniteSet(T), T \subseteq 1 .. Len(x), NEW q \in Nat \ {0},
         NEW v, Resized(v, cts, q, T)
  PROVE  /\ SumFunctionOnSet(v, T) \in Int /\ SumFunctionOnSet(x, T) \in Int
         /\ Congruent(SumFunctionOnSet(v, T), SumFunctionOnSet(x, T), 2 * Half(q))
<1>1. \A i \in 1 .. Len(x) : cts[i].v = x[i] /\ x[i] \in Int
  BY CarriesIs
<1>2. \A i \in T : v[i] \in Int /\ x[i] \in Int /\ Congruent(v[i], x[i], 2 * Half(q))
  <2> SUFFICES ASSUME NEW i \in T
               PROVE  v[i] \in Int /\ x[i] \in Int /\ Congruent(v[i], x[i], 2 * Half(q))
    OBVIOUS
  <2>1. cts[i].v = x[i] /\ x[i] \in Int
    BY <1>1
  <2>2. v[i] = Resize(cts[i], q).v
    BY DEF Resized
  <2>3. Resize(cts[i], q).v \in Int /\ Congruent(Resize(cts[i], q).v, x[i], 2 * Half(q))
    BY <2>1, ResizeIs
  <2>4. QED
    BY <2>1, <2>2, <2>3
<1>3. 2 * Half(q) \in Int
  BY HalfIs
<1>4. Congruent(SumFunctionOnSet(v, T), SumFunctionOnSet(x, T), 2 * Half(q))
  BY <1>2, <1>3, SumCongruent
<1>5. SumFunctionOnSet(v, T) \in Int /\ SumFunctionOnSet(x, T) \in Int
  BY <1>2, SumType
<1>6. QED
  BY <1>4, <1>5

(* The largest of a window of ciphertexts is the largest of their values.   *)
LEMMA WindowMax ==
  ASSUME NEW nb \in Nat \ {0}, NEW x \in Seq(Int), NEW b \in Nat, NEW cts, Carries(cts, x, b, nb),
         NEW T, IsFiniteSet(T), T # {}, T \subseteq 1 .. Len(x), NEW q \in Nat \ {0},
         \A i \in DOMAIN x : FitsBlocks(x[i], q)
  PROVE  /\ Max({Resize(cts[i], q).v : i \in T}) = Max({x[i] : i \in T})
         /\ Max({x[i] : i \in T}) \in Int /\ FitsBlocks(Max({x[i] : i \in T}), q)
<1> DEFINE V == {x[i] : i \in T}
           h == [i \in T |-> x[i]]
<1>1. /\ DOMAIN cts = 1 .. Len(x) /\ DOMAIN x = 1 .. Len(x)
      /\ \A i \in 1 .. Len(x) : cts[i].v = x[i] /\ x[i] \in Int
  BY CarriesIs
<1>2. \A i \in T : Resize(cts[i], q).v = x[i] /\ x[i] \in Int /\ FitsBlocks(x[i], q)
  <2> SUFFICES ASSUME NEW i \in T
               PROVE  Resize(cts[i], q).v = x[i] /\ x[i] \in Int /\ FitsBlocks(x[i], q)
    OBVIOUS
  <2>1. cts[i].v = x[i] /\ x[i] \in Int /\ FitsBlocks(x[i], q)
    BY <1>1
  <2>2. QED
    BY <2>1, ResizeIs
<1>3. {Resize(cts[i], q).v : i \in T} = V
  BY <1>2
<1>4. h \in Surjection(T, V) /\ V \subseteq Int /\ V # {}
  BY <1>2 DEF Surjection
<1> HIDE DEF h, V
<1>5. IsFiniteSet(V)
  BY <1>4, FS_Surjection, Zenon
<1>6. Max(V) \in V
  BY <1>4, <1>5, LargestInteger
<1>7. \A v \in V : v \in Int /\ FitsBlocks(v, q)
  BY <1>2 DEF V
<1>8. QED
  BY <1>3, <1>6, <1>7 DEF V

(* Pooling: the windows hold the values the oracle pools.                  *)
LEMMA PoolCarries ==
  ASSUME NEW op, op.type = "Pool", NEW in, NEW x, NEW b, NEW nb, Given(op, in, x, b, nb),
         NEW ob, ob[1] = OutputBits(op, b)
  PROVE  Yields(op, in, x, b, ob, nb)
<1> DEFINE W == OutputBits(op, b)
           o == ValueBlocks(W, nb)
           X == x[1]
           g == op.geom
           c == TensorBlocks(in[1], b[1], nb)
           n == g.chans * Plane(g)
           at == Positions(g.chans, g)
           v == [i \in DOMAIN in[1] |-> Resize(in[1][i], o).v]
           y == [r \in 1 .. n |-> IF op.mode = "avg" THEN SumFunctionOnSet(X, Window(g, r))
                                                     ELSE Max({X[i] : i \in Window(g, r)})]
           T == TfhePool(op, in[1], o, c)
<1>1. nb \in Nat \ {0} /\ W \in Nat /\ OutArity(op) = 1
  BY GivenIs DEF OutArity
<1>2. RefDefined(op, x) /\ Declared(op) /\ Valid(op)
  BY DEF Given
<1>3. Len(x) = 1 /\ Len(X) = InputLen(g)
  BY <1>2 DEF RefDefined, ShapeOK, Arity
<1>4. g \in Geometries /\ ValidShape(g) /\ g.pad < g.kH /\ g.pad < g.kW
  BY <1>2 DEF Declared, Geometries, Valid, ValidPool
<1>5. X \in Seq(Int) /\ b[1] \in Nat /\ Carries(in[1], X, b[1], nb) /\ Below(X, b[1])
  BY <1>3, GivenIs
<1>6. g.chans \in Nat /\ Plane(g) \in Nat \ {0} /\ n \in Nat
  <2>1. g.chans \in Nat
    BY <1>4 DEF Geometries
  <2>2. Plane(g) \in Nat \ {0}
    BY <1>4, <2>1, PositionsAre
  <2>3. QED
    BY <2>1, <2>2
<1>7. Len(at) = n /\ DOMAIN at = 1 .. n
      /\ \A r \in 1 .. n : at[r] = <<PlaneOf(g, r), RowOf(g, r), ColOf(g, r)>>
  <2>1. Len(at) = n /\ \A r \in 1 .. n : at[r] = <<PlaneOf(g, r), RowOf(g, r), ColOf(g, r)>>
    BY <1>4, <1>6, PositionsAre
  <2>2. at \in Seq((0 .. g.chans - 1) \X (0 .. OutH(g) - 1) \X (0 .. OutW(g) - 1))
    BY <1>4, <1>6, PositionsType
  <2> HIDE DEF at
  <2>3. DOMAIN at = 1 .. Len(at)
    BY <2>2
  <2>4. QED
    BY <2>1, <2>3
<1>8. ASSUME NEW r \in 1 .. n
      PROVE  /\ Window(g, r) = Covered(g, at[r])
             /\ IsFiniteSet(Window(g, r)) /\ Window(g, r) # {} /\ Window(g, r) \subseteq 1 .. Len(X)
  <2>1. at[r] = <<PlaneOf(g, r), RowOf(g, r), ColOf(g, r)>>
    BY <1>7
  <2> HIDE DEF g, at, X
  <2>2. QED
    BY <1>3, <1>4, <2>1, WindowIs
<1>9. RefEval(op, x) = <<y>>
  <2>1. RefEval(op, x) = <<RefPool(op, X)>>
    BY DEF RefEval
  <2>2. RefPool(op, X) = [r \in DOMAIN at |->
           IF op.mode = "avg" THEN SumFunctionOnSet(X, Covered(g, at[r]))
                              ELSE Max({X[i] : i \in Covered(g, at[r])})]
    BY DEF RefPool, Covered
  <2> HIDE DEF at, g, X
  <2>3. RefPool(op, X) = y
    BY <1>7, <1>8, <2>2
  <2>4. QED
    BY <2>1, <2>3
<1>10. TfheEval(op, in, b, ob, nb) = <<T>>
  BY DEF TfheEval
<1>11. InRadix(y, nb) /\ Below(y, W)
  <2>1. InRadix(RefEval(op, x)[1], nb) /\ Below(RefEval(op, x)[1], W)
    BY <1>1, GivenIs
  <2>2. RefEval(op, x)[1] = y
    BY <1>9
  <2>3. QED
    BY <2>1, <2>2
<1>12. DOMAIN y = 1 .. n
  OBVIOUS
<1>13. CASE op.mode = "avg"
  <2> DEFINE u == [r \in 1 .. n |-> SumFunctionOnSet(v, Window(g, r))]
  <2>1. T = [r \in 1 .. n |-> Ct(o, u[r])]
    BY <1>13 DEF TfhePool
  <2>2. \A r \in 1 .. n : y[r] = SumFunctionOnSet(X, Window(g, r)) /\ u[r] = SumFunctionOnSet(v, Window(g, r))
    BY <1>13
  <2>3. o \in Nat \ {0}
    <3> HIDE DEF W
    <3>1. QED
      BY <1>1, ValueBlocksIs
  <2>4. v = [i \in DOMAIN in[1] |-> Resize(in[1][i], o).v]
    OBVIOUS
  <2> HIDE DEF v, y, u, T, X, o, n, g
  <2>5. ASSUME NEW r \in 1 .. n PROVE u[r] \in Int /\ Congruent(u[r], y[r], 2 * Half(o))
    <3> DEFINE A == Window(g, r)
    <3>1. IsFiniteSet(A) /\ A \subseteq 1 .. Len(X) /\ y[r] = SumFunctionOnSet(X, A)
          /\ u[r] = SumFunctionOnSet(v, A)
      BY <1>8, <2>2
    <3> DEFINE cts == in[1]
    <3>2. Carries(cts, X, b[1], nb)
      BY <1>5
    <3>0. Resized(v, cts, o, A)
      <4>1. DOMAIN cts = 1 .. Len(X)
        BY <1>1, <1>5, <3>2, CarriesIs
      <4>2. v = [i \in DOMAIN cts |-> Resize(cts[i], o).v]
        BY <2>4 DEF cts
      <4>3. QED
        BY <3>1, <4>1, <4>2 DEF Resized
    <3> HIDE DEF A, cts
    <3>3. /\ SumFunctionOnSet(v, A) \in Int
          /\ Congruent(SumFunctionOnSet(v, A), SumFunctionOnSet(X, A), 2 * Half(o))
      <4>1. /\ nb \in Nat \ {0} /\ X \in Seq(Int) /\ b[1] \in Nat /\ Carries(cts, X, b[1], nb)
            /\ IsFiniteSet(A) /\ A \subseteq 1 .. Len(X) /\ o \in Nat \ {0}
            /\ Resized(v, cts, o, A)
        BY <1>1, <1>5, <2>3, <3>0, <3>1, <3>2
      <4>2. QED
        BY ONLY <4>1, WindowSum, Zenon
    <3>4. QED
      BY <3>1, <3>3
  <2> HIDE DEF W
  <2>6. Carries(T, y, W, nb)
    BY <1>1, <1>11, <1>12, <2>1, <2>5, ValuesCarry DEF o
  <2>7. QED
    BY <1>1, <1>9, <1>10, <2>6, OneResult DEF W
<1>14. CASE op.mode # "avg"
  <2>1. W = b[1]
    <3>1. OutputBits(op, b) = b[1] + 0
      BY <1>14 DEF OutputBits
    <3>2. QED
      BY <1>5, <3>1
  <2>2. T = [r \in 1 .. n |-> Ct(c, Max({Resize(in[1][i], c).v : i \in Window(g, r)}))]
    BY <1>14 DEF TfhePool
  <2>3. \A r \in 1 .. n : y[r] = Max({X[i] : i \in Window(g, r)})
    BY <1>14
  <2>4. Len(X) # 0
    <3>1. g.chans \in Nat \ {0} /\ g.inH \in Nat \ {0} /\ g.inW \in Nat \ {0}
      BY <1>4 DEF Geometries, ValidShape
    <3>2. g.chans * g.inH \in Nat \ {0}
      BY <3>1
    <3>3. g.chans * g.inH * g.inW \in Nat \ {0}
      BY <3>1, <3>2
    <3>4. QED
      BY <1>3, <3>3 DEF InputLen
  <2>5. c \in 1 .. nb /\ SignedBlocks(b[1], nb) <= c /\ \A i \in DOMAIN X : FitsBlocks(X[i], c)
    <3> HIDE DEF X
    <3>1. QED
      BY <1>1, <1>5, <2>4, TensorBlocksHold
  <2>6. c \in Nat \ {0}
    BY <1>1, <2>5
  <2> HIDE DEF v, y, T, X, c, n, g
  <2>7. ASSUME NEW r \in 1 .. n
        PROVE  /\ Max({Resize(in[1][i], c).v : i \in Window(g, r)}) = y[r]
               /\ y[r] \in Int /\ FitsBlocks(y[r], c)
    <3> DEFINE A == Window(g, r)
    <3>1. IsFiniteSet(A) /\ A # {} /\ A \subseteq 1 .. Len(X) /\ y[r] = Max({X[i] : i \in A})
      BY <1>8, <2>3
    <3> HIDE DEF A
    <3>2. /\ Max({Resize(in[1][i], c).v : i \in A}) = Max({X[i] : i \in A})
          /\ Max({X[i] : i \in A}) \in Int /\ FitsBlocks(Max({X[i] : i \in A}), c)
      BY <1>1, <1>5, <2>5, <2>6, <3>1, WindowMax
    <3>3. QED
      BY <3>1, <3>2 DEF A
  <2>8. T = [r \in DOMAIN y |-> Ct(c, y[r])]
    BY <1>12, <2>2, <2>7
  <2>9. 2 * Half(c) \in Int
    BY <2>6, HalfIs
  <2>10. \A r \in DOMAIN y : y[r] \in Int /\ FitsBlocks(y[r], c) /\ Congruent(y[r], y[r], 2 * Half(c))
    BY <1>12, <2>7, <2>9, CongruentSteps
  <2>11. y \in Seq(Int)
    BY <1>11 DEF Below
  <2> HIDE DEF W
  <2>12. Carries(T, y, W, nb)
    BY <1>1, <2>1, <2>5, <2>8, <2>10, <2>11, CtsCarry
  <2>13. QED
    BY <1>1, <1>9, <1>10, <2>12, OneResult DEF W
<1>15. QED
  BY <1>13, <1>14

(* The sum of a group of inputs is theirs, modulo the accumulator's radix: *)
(* narrower blocks are used only where they hold it.                       *)
LEMMA GroupSumIs ==
  ASSUME NEW nb \in Nat \ {0}, NEW x, NEW b \in Nat, Below(x, b), NEW cts, Carries(cts, x, b, nb),
         NEW G, IsFiniteSet(G), G # {}, G \subseteq 1 .. Len(x), NEW acc \in Nat \ {0}
  PROVE  /\ GroupSum(G, cts, b, acc) \in Int /\ SumFunctionOnSet(x, G) \in Int
         /\ Congruent(GroupSum(G, cts, b, acc), SumFunctionOnSet(x, G), 2 * Half(acc))
<1> DEFINE n == Cardinality(G)
           e == b + CeilLog2(n)
           q == ValueBlocks(e, acc)
           v == [i \in G |-> Resize(cts[i], q).v]
           s == SumFunctionOnSet(v, G)
           t == SumFunctionOnSet(x, G)
<1>1. x \in Seq(Int) /\ \A i \in 1 .. Len(x) : x[i] \in Int /\ Magnitude(x[i]) < 2^b
  BY BelowEntry DEF Below
<1>2. n \in Nat \ {0}
  BY FS_CardinalityType, FS_EmptySet, Zenon
<1>3. CeilLog2(n) \in Nat
  BY <1>2, CeilLog2Holds
<1>4. GroupSum(G, cts, b, acc) = Wrap(s, q)
  BY DEF GroupSum
<1> HIDE DEF n
<1>5. e \in Nat
  BY <1>3
<1> HIDE DEF e
<1>6. q \in Nat \ {0} /\ (q = acc \/ e + 1 <= 2 * q)
  <2>1. ValueBlocks(e, acc) \in 1 .. acc
        /\ (ValueBlocks(e, acc) = acc \/ e + 1 <= 2 * ValueBlocks(e, acc))
    BY ONLY <1>5, acc \in Nat \ {0}, ValueBlocksIs
  <2> HIDE DEF q
  <2>2. q \in 1 .. acc /\ (q = acc \/ e + 1 <= 2 * q)
    BY <2>1 DEF q
  <2>3. QED
    BY <2>2
<1> HIDE DEF q
<1>7. Resized(v, cts, q, G)
  BY DEF Resized
<1> HIDE DEF v
<1>8. s \in Int /\ t \in Int /\ Congruent(s, t, 2 * Half(q))
  <2>1. /\ nb \in Nat \ {0} /\ x \in Seq(Int) /\ b \in Nat /\ Carries(cts, x, b, nb)
        /\ IsFiniteSet(G) /\ G \subseteq 1 .. Len(x) /\ q \in Nat \ {0}
        /\ Resized(v, cts, q, G)
    BY <1>1, <1>6, <1>7
  <2>2. QED
    BY ONLY <2>1, WindowSum, Zenon
<1>9. Magnitude(t) < 2^e
  <2>1. \A i \in G : x[i] \in Int /\ Magnitude(x[i]) < 2^b
    BY <1>1
  <2>2. n <= n /\ Cardinality(G) <= n
    BY <1>2 DEF n
  <2>3. QED
    BY <1>2, <2>1, <2>2, SumOfBelow DEF e
<1> HIDE DEF s, t
<1>10. 2 * Half(acc) \in Int /\ 2 * Half(q) \in Int
  <2>1. acc \in Nat \ {0} /\ q \in Nat \ {0}
    BY <1>6
  <2>2. Half(acc) \in Nat /\ Half(q) \in Nat
    BY ONLY <2>1, HalfIs
  <2> DEFINE g == Half(acc)
             h == Half(q)
  <2> HIDE DEF g, h
  <2>3. 2 * g \in Int /\ 2 * h \in Int
    BY <2>2 DEF g, h
  <2>4. QED
    BY <2>3 DEF g, h
<1>11. Wrap(s, q) \in Int /\ Congruent(Wrap(s, q), t, 2 * Half(acc))
  <2>1. CASE q = acc
    <3>1. Wrap(s, q) \in Int /\ Congruent(Wrap(s, q), s, 2 * Half(q))
      BY <1>6, <1>8, WrapIs
    <3> DEFINE w == Wrap(s, q)
               m == 2 * Half(q)
    <3>2. w \in Int /\ Congruent(w, s, m) /\ Congruent(s, t, m) /\ m \in Int
      BY <1>8, <1>10, <3>1
    <3> HIDE DEF w, m
    <3>3. Congruent(w, t, m)
      BY <1>8, <3>2, CongruentSteps
    <3>4. QED
      BY <2>1, <3>2, <3>3 DEF w, m
  <2>2. CASE e + 1 <= 2 * q
    <3>1. FitsBlocks(t, q)
      BY <1>5, <1>6, <1>8, <1>9, <2>2, FitsBelow
    <3>2. Wrap(s, q) = t
      BY <1>6, <1>8, <3>1, WrapExact
    <3>3. QED
      BY <1>8, <1>10, <3>2, CongruentSteps
  <2>3. QED
    BY <1>6, <2>1, <2>2
<1>12. QED
  BY <1>4, <1>8, <1>11 DEF t

(* What the accumulator is filled with.                                    *)
MacSum(groups, bias, x, ib, acc) ==
  bias + SumFunction([w \in DOMAIN groups |-> w * GroupSum(groups[w], x, ib, acc)])

(* The weights of the entries A, each with the place it multiplies.        *)
TapsOf(A, key, pos) == {<<key[a], pos[a]>> : a \in A}

(* The places of the entries that share a weight.                          *)
LEMMA GroupsAre ==
  ASSUME NEW A, NEW key, NEW pos, NEW taps, taps = TapsOf(A, key, pos)
  PROVE  /\ DOMAIN Groups(taps) = Keys(A, key)
         /\ \A w \in Keys(A, key) : Groups(taps)[w] = Images(pos, Keyed(A, key, w))
<1>0. \A k, p : <<k, p>>[1] = k /\ <<k, p>>[2] = p
  OBVIOUS
<1> DEFINE tap(a) == <<key[a], pos[a]>>
<1>1. taps = {tap(a) : a \in A} /\ \A a : tap(a)[1] = key[a] /\ tap(a)[2] = pos[a]
  BY <1>0 DEF TapsOf
<1> HIDE DEF tap
<1>2. {t[1] : t \in taps} = {key[a] : a \in A}
  BY <1>1
<1>3. Groups(taps) = [w \in Keys(A, key) |-> {t[2] : t \in {s \in taps : s[1] = w}}]
  BY <1>2 DEF Groups, Keys
<1>4. \A w : {t[2] : t \in {s \in taps : s[1] = w}} = Images(pos, Keyed(A, key, w))
  BY <1>1 DEF Images, Keyed
<1>5. QED
  BY <1>3, <1>4

(* A sum of products, with the products of a weight taken together.        *)
LEMMA MacIs ==
  ASSUME NEW nb \in Nat \ {0}, NEW x, NEW b \in Nat, Below(x, b), NEW cts, Carries(cts, x, b, nb),
         NEW A, IsFiniteSet(A), NEW key, NEW pos,
         \A a \in A : key[a] \in Int /\ pos[a] \in 1 .. Len(x),
         \A a, c \in A : pos[a] = pos[c] => a = c,
         NEW taps, taps = TapsOf(A, key, pos),
         NEW f, \A a \in A : f[a] = key[a] * x[pos[a]],
         NEW beta \in Int, NEW acc \in Nat \ {0}
  PROVE  /\ MacSum(Groups(taps), beta, cts, b, acc) \in Int
         /\ SumFunctionOnSet(f, A) + beta \in Int
         /\ Congruent(MacSum(Groups(taps), beta, cts, b, acc), SumFunctionOnSet(f, A) + beta,
                      2 * Half(acc))
<1> DEFINE K == Keys(A, key)
           G(w) == Images(pos, Keyed(A, key, w))
           val == [a \in A |-> x[pos[a]]]
           t == [w \in K |-> w * SumFunctionOnSet(x, G(w))]
           u == [w \in K |-> w * GroupSum(G(w), cts, b, acc)]
           m == 2 * Half(acc)
<1>1. x \in Seq(Int) /\ \A i \in 1 .. Len(x) : x[i] \in Int
  BY DEF Below
<1>2. m \in Int
  BY HalfIs
<1>3. \A a \in A : val[a] \in Int /\ val[a] = x[pos[a]] /\ f[a] = key[a] * val[a] /\ f[a] \in Int
  BY <1>1
<1>4. K \subseteq Int /\ IsFiniteSet(K)
  <2> DEFINE k == [a \in A |-> key[a]]
             KK == {key[a] : a \in A}
  <2>1. k \in Surjection(A, KK)
    BY DEF Surjection
  <2>2. K \in SUBSET KK /\ K \subseteq Int
    BY DEF Keys
  <2> HIDE DEF k, KK, K
  <2>3. IsFiniteSet(KK)
    BY <2>1, FS_Surjection, Zenon
  <2>4. IsFiniteSet(K)
    BY <2>2, <2>3, FS_Subset, Zenon
  <2>5. QED
    BY <2>2, <2>4
<1>5. ASSUME NEW w \in K
      PROVE  /\ IsFiniteSet(G(w)) /\ G(w) # {} /\ G(w) \subseteq 1 .. Len(x)
             /\ SumFunctionOnSet(val, Keyed(A, key, w)) = SumFunctionOnSet(x, G(w))
  <2> DEFINE B == Keyed(A, key, w)
             h == [a \in B |-> pos[a]]
  <2>1. B \in SUBSET A /\ B # {}
    BY DEF Keyed, Keys
  <2>2. G(w) = Images(pos, B)
    OBVIOUS
  <2> HIDE DEF B, val, K, G
  <2>3. IsFiniteSet(B)
    BY <2>1, FS_Subset, Zenon
  <2>4. G(w) # {} /\ G(w) \subseteq 1 .. Len(x)
    BY <2>1, <2>2 DEF Images
  <2>5. h \in Surjection(B, G(w))
    BY <2>2 DEF Surjection, Images
  <2> HIDE DEF h
  <2>6. IsFiniteSet(G(w))
    BY <2>3, <2>5, FS_Surjection, Zenon
  <2>7. \A i \in B : val[i] \in Int /\ val[i] = x[pos[i]]
    BY <1>3, <2>1
  <2>8. \A i, j \in B : pos[i] = pos[j] => i = j
    BY <2>1
  <2>9. SumFunctionOnSet(val, B) = SumFunctionOnSet(x, Images(pos, B))
    BY <2>3, <2>7, <2>8, SumImage
  <2>10. QED
    BY <2>2, <2>4, <2>6, <2>9 DEF B
<1>6. SumFunctionOnSet(t, K) = SumFunctionOnSet(f, A)
  <2>1. \A w \in K : t[w] = w * SumFunctionOnSet(val, Keyed(A, key, w))
    BY <1>5
  <2>2. \A a \in A : key[a] \in Int /\ val[a] \in Int /\ f[a] = key[a] * val[a]
    BY <1>3
  <2> HIDE DEF t, val
  <2>3. QED
    BY ONLY <2>1, <2>2, IsFiniteSet(A), SumOfGroups
<1>7. ASSUME NEW w \in K
      PROVE  u[w] \in Int /\ t[w] \in Int /\ Congruent(u[w], t[w], m)
  <2> DEFINE S == GroupSum(G(w), cts, b, acc)
             R == SumFunctionOnSet(x, G(w))
             H == G(w)
  <2>1. IsFiniteSet(H) /\ H # {} /\ H \subseteq 1 .. Len(x)
    BY <1>5
  <2>2. u[w] = w * S /\ t[w] = w * R /\ w \in Int
    BY <1>4
  <2> HIDE DEF G, H
  <2>3. S \in Int /\ R \in Int /\ Congruent(S, R, m)
    BY <2>1, GroupSumIs DEF H
  <2> HIDE DEF S, R, m, K
  <2>4. w * S \in Int /\ w * R \in Int /\ Congruent(w * S, w * R, m)
    <3>1. w \in Int
      BY <2>2
    <3>2. Congruent(w * S, w * R, m)
      BY ONLY <1>2, <2>3, <3>1, CongruentSteps, Zenon
    <3>3. w * S \in Int /\ w * R \in Int
      BY ONLY <2>3, <3>1
    <3>4. QED
      BY <3>2, <3>3
  <2>5. QED
    BY <2>2, <2>4 DEF m
<1>8. DOMAIN Groups(taps) = K /\ \A w \in K : Groups(taps)[w] = G(w)
  <2>1. taps = TapsOf(A, key, pos)
    OBVIOUS
  <2>2. DOMAIN Groups(taps) = Keys(A, key)
    BY ONLY <2>1, GroupsAre
  <2>3. \A w \in Keys(A, key) : Groups(taps)[w] = Images(pos, Keyed(A, key, w))
    BY ONLY <2>1, GroupsAre
  <2>4. QED
    BY <2>2, <2>3
<1>9. MacSum(Groups(taps), beta, cts, b, acc) = beta + SumFunctionOnSet(u, K)
  <2>1. [w \in DOMAIN Groups(taps) |-> w * GroupSum(Groups(taps)[w], cts, b, acc)] = u
    <3> HIDE DEF K, G
    <3>1. QED
      BY <1>8
  <2>2. DOMAIN u = K
    OBVIOUS
  <2> HIDE DEF u, K
  <2>3. QED
    BY <2>1, <2>2 DEF MacSum, SumFunction
<1> HIDE DEF K, t, u, val, m
<1>10. /\ Congruent(SumFunctionOnSet(u, K), SumFunctionOnSet(t, K), m)
       /\ SumFunctionOnSet(u, K) \in Int /\ SumFunctionOnSet(t, K) \in Int
  <2>1. Congruent(SumFunctionOnSet(u, K), SumFunctionOnSet(t, K), m)
    BY <1>2, <1>4, <1>7, SumCongruent
  <2>2. SumFunctionOnSet(u, K) \in Int /\ SumFunctionOnSet(t, K) \in Int
    BY <1>4, <1>7, SumType
  <2>3. QED
    BY <2>1, <2>2
<1> DEFINE su == SumFunctionOnSet(u, K)
           st == SumFunctionOnSet(t, K)
<1> HIDE DEF su, st
<1>11. su \in Int /\ st \in Int /\ Congruent(su, st, m) /\ Congruent(beta, beta, m)
  BY <1>2, <1>10, CongruentSteps DEF su, st
<1>12. Congruent(su + beta, st + beta, m) /\ su + beta \in Int /\ st + beta \in Int
  <2>1. beta \in Int
    OBVIOUS
  <2>2. QED
    BY ONLY <1>2, <1>11, <2>1, CongruentSteps
<1>13. su + beta = beta + su
  BY <1>11
<1>14. QED
  BY <1>6, <1>9, <1>12, <1>13 DEF su, st, m

(* An accumulator of the width without a sign holds what spares a bit.     *)
LEMMA AccumulatorHolds ==
  ASSUME NEW nb \in Nat \ {0}, NEW W \in Nat \ {0}, NEW y, Below(y, W - 1), InRadix(y, nb)
  PROVE  /\ y \in Seq(Int) /\ SignedBlocks(W, nb) \in 1 .. nb
         /\ \A i \in DOMAIN y : FitsBlocks(y[i], SignedBlocks(W, nb))
<1>1. y \in Seq(Int) /\ \A i \in DOMAIN y : y[i] \in Int /\ Magnitude(y[i]) < 2^(W - 1)
  BY DEF Below
<1>2. \A i \in DOMAIN y : FitsBlocks(y[i], nb)
  BY DEF InRadix
<1>3. SignedBlocks(W, nb) \in 1 .. nb
  BY SignedBlocksIs
<1>4. QED
  BY <1>1, <1>2, <1>3, SignedFits

(* Linear: the weighted inputs of a row, grouped by weight.                *)
LEMMA LinearCarries ==
  ASSUME NEW op, op.type = "Linear", NEW in, NEW x, NEW b, NEW nb, Given(op, in, x, b, nb),
         NEW ob, ob[1] = OutputBits(op, b)
  PROVE  Yields(op, in, x, b, ob, nb)
<1> DEFINE W == OutputBits(op, b)
           X == x[1]
           cts == in[1]
           acc == SignedBlocks(W, nb)
           R == DOMAIN op.weights
           y == [r \in R |-> Dot(op.weights[r], X) + op.bias[r]]
           u == [r \in R |-> MacSum(Groups(LinearTaps(op, r)), op.bias[r], cts, b[1], acc)]
           T == TfheLinear(op, cts, b[1], acc)
<1>1. Declared(op) /\ Valid(op) /\ Bounded(x, b) /\ RefDefined(op, x)
  BY DEF Given
<1>2. nb \in Nat \ {0} /\ OutArity(op) = 1 /\ SparesBit(op, x, b)
  BY <1>1, GivenIs, LinearFits DEF OutArity
<1>3. /\ op.bias \in Seq(Int) /\ op.weights \in Seq(Seq(Int))
      /\ Len(op.weights) = Len(op.bias)
      /\ \A r \in R : Len(op.weights[r]) = Len(op.weights[1])
  BY <1>1 DEF Declared, Valid, ValidMac
<1>4. Len(x) = 1 /\ Len(op.weights[1]) = Len(X)
  BY <1>1 DEF RefDefined, ShapeOK, Arity
<1>5. X \in Seq(Int) /\ b[1] \in Nat /\ Carries(cts, X, b[1], nb) /\ Below(X, b[1])
  <2>1. 1 \in 1 .. Len(x)
    BY <1>4
  <2>2. \A k \in 1 .. Len(x) :
          /\ x[k] \in Seq(Int) /\ b[k] \in Nat /\ Below(x[k], b[k])
          /\ Carries(in[k], x[k], b[k], nb)
    BY GivenIs
  <2>3. QED
    BY <2>1, <2>2
<1>6. RefEval(op, x) = <<y>>
  BY DEF RefEval
<1>7. TfheEval(op, in, b, ob, nb) = <<T>>
  BY DEF TfheEval
<1>8. T = [r \in R |-> Ct(acc, u[r])]
  BY DEF TfheLinear, WeightedMac, MacSum
<1>9. W \in Nat \ {0} /\ Below(y, W - 1) /\ InRadix(y, nb)
  <2>1. InRadix(RefEval(op, x)[1], nb)
    BY <1>2, GivenIs
  <2>2. RefEval(op, x)[1] = y
    BY <1>6
  <2>3. QED
    BY <1>2, <2>1, <2>2 DEF SparesBit
<1>10. DOMAIN y = R
  OBVIOUS
<1>11. \A r \in R : y[r] = Dot(op.weights[r], X) + op.bias[r]
  OBVIOUS
<1>12. \A r \in R : u[r] = MacSum(Groups(LinearTaps(op, r)), op.bias[r], cts, b[1], acc)
  OBVIOUS
<1>13. op.weights[1] \in Seq(Int) \/ R = {}
  BY <1>3
<1> HIDE DEF y, u, T, X, cts, W
<1>14. acc \in Nat \ {0}
  BY <1>2, <1>9, SignedBlocksIs
<1> HIDE DEF acc
<1>15. ASSUME NEW r \in R
       PROVE  u[r] \in Int /\ Congruent(u[r], y[r], 2 * Half(acc))
  <2> DEFINE wts == op.weights[r]
             A == DOMAIN wts
             pos == [i \in A |-> i]
             f == [i \in A |-> wts[i] * X[i]]
             beta == op.bias[r]
             taps == LinearTaps(op, r)
  <2>1. wts \in Seq(Int) /\ beta \in Int /\ Len(wts) = Len(X)
    <3>1. r \in 1 .. Len(op.weights) /\ Len(op.weights) \in Nat /\ r \in 1 .. Len(op.bias)
      BY <1>3
    <3>2. wts \in Seq(Int) /\ beta \in Int
      BY <1>3, <3>1
    <3>3. QED
      BY <1>3, <1>4, <3>2
  <2>2. taps = {<<wts[i], i>> : i \in A}
    BY DEF LinearTaps
  <2>3. taps = TapsOf(A, wts, pos)
    <3>1. \A i \in A : pos[i] = i
      OBVIOUS
    <3> HIDE DEF pos, A, taps, wts
    <3>2. QED
      BY <2>2, <3>1 DEF TapsOf
  <2>4. y[r] = SumFunctionOnSet(f, A) + beta
    <3>1. Dot(wts, X) = SumFunctionOnSet(f, A)
      BY DEF Dot, SumFunction
    <3>2. QED
      BY <1>11, <3>1
  <2>5. u[r] = MacSum(Groups(taps), beta, cts, b[1], acc)
    BY <1>12
  <2> HIDE DEF taps, beta, wts
  <2>6. A = 1 .. Len(X) /\ Len(X) \in Nat /\ \A i \in A : wts[i] \in Int
    BY <1>5, <2>1
  <2>7. IsFiniteSet(A)
    <3>1. 1 \in Int /\ Len(X) \in Int
      BY <2>6
    <3>2. IsFiniteSet(1 .. Len(X))
      BY <3>1, FS_Interval, Zenon
    <3>3. QED
      BY <2>6, <3>2
  <2>8. /\ \A a \in A : pos[a] = a
        /\ \A a \in A : f[a] = wts[a] * X[a]
    OBVIOUS
  <2> HIDE DEF pos, f, A
  <2>9. /\ \A a \in A : wts[a] \in Int /\ pos[a] \in 1 .. Len(X)
        /\ \A a, c \in A : pos[a] = pos[c] => a = c
        /\ \A a \in A : f[a] = wts[a] * X[pos[a]]
    BY <2>6, <2>8
  <2> DEFINE b1 == b[1]
  <2>10. b1 \in Nat /\ Below(X, b1) /\ Carries(cts, X, b1, nb)
    BY <1>5
  <2> HIDE DEF b1
  <2>11. /\ nb \in Nat \ {0} /\ b1 \in Nat /\ Below(X, b1) /\ Carries(cts, X, b1, nb)
         /\ IsFiniteSet(A) /\ taps = TapsOf(A, wts, pos) /\ beta \in Int /\ acc \in Nat \ {0}
    BY <1>2, <1>14, <2>1, <2>3, <2>7, <2>10
  <2>12. /\ MacSum(Groups(taps), beta, cts, b1, acc) \in Int
         /\ SumFunctionOnSet(f, A) + beta \in Int
         /\ Congruent(MacSum(Groups(taps), beta, cts, b1, acc), SumFunctionOnSet(f, A) + beta,
                      2 * Half(acc))
    BY ONLY <2>9, <2>11, MacIs
  <2>13. QED
    BY <2>4, <2>5, <2>12 DEF b1
<1>16. /\ y \in Seq(Int) /\ acc \in 1 .. nb /\ SignedBlocks(W, nb) <= acc
       /\ \A i \in DOMAIN y : FitsBlocks(y[i], acc)
  <2>1. /\ y \in Seq(Int) /\ SignedBlocks(W, nb) \in 1 .. nb
        /\ \A i \in DOMAIN y : FitsBlocks(y[i], SignedBlocks(W, nb))
    BY <1>2, <1>9, AccumulatorHolds
  <2>2. QED
    BY <1>2, <2>1 DEF acc
<1>17. T = [r \in DOMAIN y |-> Ct(acc, u[r])]
  BY <1>8, <1>10
<1>18. \A r \in DOMAIN y : u[r] \in Int /\ Congruent(u[r], y[r], 2 * Half(acc))
  BY <1>10, <1>15
<1>19. Carries(T, y, W, nb)
  <2>1. W \in Nat
    BY <1>9
  <2>2. QED
    BY <1>2, <1>16, <1>17, <1>18, <2>1, CtsCarry
<1>20. QED
  BY <1>2, <1>6, <1>7, <1>19, OneResult DEF W

(* No two offsets of a window read one input.                              *)
LEMMA InputsApart ==
  ASSUME NEW g \in Geometries, NEW oy \in Nat, NEW ox \in Nat,
         NEW c \in 0 .. g.chans - 1, NEW k \in Reached(g, oy, ox),
         NEW d \in 0 .. g.chans - 1, NEW l \in Reached(g, oy, ox),
         InputAt(g, c, oy, ox, k) = InputAt(g, d, oy, ox, l)
  PROVE  c = d /\ k = l
<1> DEFINE Y(j) == oy * g.stride + j[1] - g.pad
           X(j) == ox * g.stride + j[2] - g.pad
<1>1. /\ g.chans \in Nat /\ g.inH \in Nat /\ g.inW \in Nat /\ g.pad \in Int
      /\ oy * g.stride \in Int /\ ox * g.stride \in Int
  BY DEF Geometries
<1>2. ASSUME NEW j \in Reached(g, oy, ox)
      PROVE  /\ Y(j) \in 0 .. g.inH - 1 /\ X(j) \in 0 .. g.inW - 1
             /\ j \in (0 .. g.kH - 1) \X (0 .. g.kW - 1) /\ j[1] \in Int /\ j[2] \in Int
  BY DEF Reached
<1>3. ASSUME NEW j \in Reached(g, oy, ox), NEW e \in 0 .. g.chans - 1
      PROVE  InputAt(g, e, oy, ox, j) = (e * g.inH + Y(j)) * g.inW + X(j) + 1
  <2>0. Y(j) \in 0 .. g.inH - 1 /\ j[1] \in Int /\ j[2] \in Int
    BY <1>2
  <2>1. e * g.inH \in Int
    BY <1>1
  <2>2. e * g.inH + oy * g.stride + j[1] - g.pad = e * g.inH + Y(j)
    BY <1>1, <2>0, <2>1
  <2>3. (e * g.inH + Y(j)) * g.inW \in Int
    BY <1>1, <2>0, <2>1
  <2>4. InputAt(g, e, oy, ox, j) =
          (e * g.inH + Y(j)) * g.inW + ox * g.stride + j[2] - g.pad + 1
    BY <2>2 DEF InputAt
  <2>5. QED
    BY <1>1, <2>0, <2>3, <2>4
<1> DEFINE H == g.inH
           V == g.inW
           Line(e, j) == e * H + Y(j)
<1>4. ASSUME NEW j \in Reached(g, oy, ox), NEW e \in 0 .. g.chans - 1
      PROVE  Line(e, j) \in Nat /\ X(j) \in 0 .. V - 1 /\ Y(j) \in 0 .. H - 1
             /\ H \in Nat \ {0} /\ V \in Nat \ {0} /\ e \in Nat
  <2>1. Y(j) \in 0 .. H - 1 /\ X(j) \in 0 .. V - 1 /\ H \in Nat /\ V \in Nat /\ e \in Nat
    BY <1>1, <1>2
  <2> HIDE DEF X, Y, H, V
  <2>2. e * H \in Nat
    BY <2>1
  <2>3. QED
    BY <2>1, <2>2
<1>5. Line(c, k) * V + X(k) + 1 = Line(d, l) * V + X(l) + 1
  BY <1>3
<1> DEFINE p == Line(c, k)
           q == Line(d, l)
           s == X(k)
           t == X(l)
           yk == Y(k)
           yl == Y(l)
<1>6. /\ p \in Nat /\ q \in Nat /\ s \in 0 .. V - 1 /\ t \in 0 .. V - 1 /\ V \in Nat \ {0}
      /\ yk \in 0 .. H - 1 /\ yl \in 0 .. H - 1 /\ H \in Nat \ {0} /\ c \in Nat /\ d \in Nat
  BY <1>4
<1>7. p = c * H + yk /\ q = d * H + yl
  OBVIOUS
<1>8. p * V + s + 1 = q * V + t + 1
  BY <1>5
<1> HIDE DEF p, q, s, t, V, H, yk, yl
<1>9. p = q /\ s = t
  <2>1. p * V + s = q * V + t
    <3>1. p * V \in Int /\ q * V \in Int /\ s \in Int /\ t \in Int
      BY <1>6
    <3>2. QED
      BY <1>8, <3>1
  <2>2. (p * V + s) \div V = p /\ (p * V + s) % V = s
    BY <1>6, DivisionIs
  <2>3. (q * V + t) \div V = q /\ (q * V + t) % V = t
    BY <1>6, DivisionIs
  <2>4. QED
    BY <2>1, <2>2, <2>3
<1>10. c = d /\ yk = yl
  <2>1. (c * H + yk) \div H = c /\ (c * H + yk) % H = yk
    BY <1>6, DivisionIs
  <2>2. (d * H + yl) \div H = d /\ (d * H + yl) % H = yl
    BY <1>6, DivisionIs
  <2>3. QED
    BY <1>7, <1>9, <2>1, <2>2
<1>11. k[1] = l[1] /\ k[2] = l[2]
  <2>1. k[1] \in Int /\ l[1] \in Int /\ k[2] \in Int /\ l[2] \in Int
    BY <1>2
  <2>2. Y(k) = Y(l) /\ X(k) = X(l)
    BY <1>9, <1>10 DEF s, t, yk, yl
  <2> DEFINE A == oy * g.stride
             B == ox * g.stride
             n == g.pad
             i1 == k[1]
             i2 == k[2]
             j1 == l[1]
             j2 == l[2]
  <2>3. A + i1 - n = A + j1 - n /\ B + i2 - n = B + j2 - n
    BY <2>2
  <2>4. A \in Int /\ B \in Int /\ n \in Int /\ i1 \in Int /\ i2 \in Int /\ j1 \in Int /\ j2 \in Int
    BY <1>1, <2>1
  <2> HIDE DEF A, B, n, i1, i2, j1, j2
  <2>5. i1 = j1 /\ i2 = j2
    BY <2>3, <2>4
  <2>6. QED
    BY <2>5 DEF i1, i2, j1, j2
<1>12. k = l
  <2>1. k \in (0 .. g.kH - 1) \X (0 .. g.kW - 1) /\ l \in (0 .. g.kH - 1) \X (0 .. g.kW - 1)
    BY <1>2
  <2>2. k = <<k[1], k[2]>> /\ l = <<l[1], l[2]>>
    BY <2>1
  <2>3. QED
    BY <1>11, <2>2
<1>13. QED
  BY <1>10, <1>12

(* The taps of output r, by channel and offset.                            *)
Tapped(op, r, A, key, pos) ==
  LET g == op.geom
  IN  /\ A = (0 .. g.chans - 1) \X Reached(g, RowOf(g, r), ColOf(g, r))
      /\ \A a \in A :
           /\ key[a] = op.weights[PlaneOf(g, r) + 1][WeightAt(g, a[1], a[2])]
           /\ pos[a] = InputAt(g, a[1], RowOf(g, r), ColOf(g, r), a[2])

(* They are those the runtime collects.                                    *)
LEMMA ConvTapsAre ==
  ASSUME NEW op, NEW r, NEW A, NEW key, NEW pos, Tapped(op, r, A, key, pos)
  PROVE  ConvTaps(op, r) = TapsOf(A, key, pos)
<1> DEFINE g == op.geom
           C == 0 .. g.chans - 1
           R == Reached(g, RowOf(g, r), ColOf(g, r))
           K(c, k) == op.weights[PlaneOf(g, r) + 1][WeightAt(g, c, k)]
           P(c, k) == InputAt(g, c, RowOf(g, r), ColOf(g, r), k)
           S == {<<K(c, k), P(c, k)>> : c \in C, k \in R}
<1>1. ConvTaps(op, r) = S
  BY DEF ConvTaps
<1>0. /\ A = C \X R
      /\ \A a \in A : key[a] = K(a[1], a[2]) /\ pos[a] = P(a[1], a[2])
  BY DEF Tapped
<1> HIDE DEF C, R
<1>2. \A c \in C, k \in R : <<c, k>> \in A /\ <<c, k>>[1] = c /\ <<c, k>>[2] = k
  BY <1>0
<1>3. \A a \in A : a[1] \in C /\ a[2] \in R
  BY <1>0
<1> HIDE DEF K, P
<1> DEFINE U == TapsOf(A, key, pos)
<1>5. \A t : t \in U <=> \E a \in A : t = <<key[a], pos[a]>>
  BY Zenon DEF TapsOf
<1>6. \A t : t \in S <=> \E c \in C, k \in R : t = <<K(c, k), P(c, k)>>
  BY SMT
<1>7. ASSUME NEW c \in C, NEW k \in R
      PROVE  /\ <<c, k>> \in A /\ key[<<c, k>>] = K(c, k) /\ pos[<<c, k>>] = P(c, k)
  <2> DEFINE a == <<c, k>>
  <2>1. a \in A /\ a[1] = c /\ a[2] = k
    BY <1>2
  <2> HIDE DEF a
  <2>2. key[a] = K(a[1], a[2]) /\ pos[a] = P(a[1], a[2])
    BY <1>0, <2>1
  <2>3. key[a] = K(c, k) /\ pos[a] = P(c, k)
    BY <2>1, <2>2, Zenon
  <2>4. QED
    BY <2>1, <2>3 DEF a
<1>8. \A a \in A : a[1] \in C /\ a[2] \in R /\ key[a] = K(a[1], a[2]) /\ pos[a] = P(a[1], a[2])
  BY <1>3, <1>0, Zenon
<1> HIDE DEF S, U
<1>9. \A t \in U : t \in S
  <2> SUFFICES ASSUME NEW t \in U PROVE t \in S
    OBVIOUS
  <2>1. PICK a \in A : t = <<key[a], pos[a]>>
    BY <1>5, Zenon
  <2>2. QED
    BY <1>6, <1>8, <2>1, Zenon
<1>10. \A t \in S : t \in U
  <2> SUFFICES ASSUME NEW t \in S PROVE t \in U
    OBVIOUS
  <2>1. PICK c \in C, k \in R : t = <<K(c, k), P(c, k)>>
    BY <1>6
  <2>2. /\ <<c, k>> \in A /\ key[<<c, k>>] = K(c, k) /\ pos[<<c, k>>] = P(c, k)
    BY <1>7
  <2>3. t = <<key[<<c, k>>], pos[<<c, k>>]>>
    BY <2>1, <2>2, Zenon
  <2>4. QED
    BY <1>5, <2>2, <2>3, Zenon
<1>11. S = U
  BY <1>9, <1>10
<1>12. QED
  BY <1>1, <1>11 DEF U

(* The inputs under a kernel at output r, and their terms.                 *)
Under(g, r) == (0 .. g.chans - 1) \X Reached(g, RowOf(g, r), ColOf(g, r))

(* The products of a row, one per input it has a weight for.               *)
Terms(op, x, r) ==
  LET g == op.geom
  IN  [a \in Under(g, r) |->
         op.weights[PlaneOf(g, r) + 1][WeightAt(g, a[1], a[2])]
           * x[InputAt(g, a[1], RowOf(g, r), ColOf(g, r), a[2])]]

(* One output of a kernel, with its taps by weight.                        *)
LEMMA ConvRow ==
  ASSUME NEW op, NEW g, g = op.geom, g \in Geometries, ValidShape(g),
         NEW wts \in Seq(Int), Len(wts) = g.chans * g.kH * g.kW, NEW r \in Nat, wts = op.weights[PlaneOf(g, r) + 1],
         RowOf(g, r) \in Nat, ColOf(g, r) \in Nat,
         NEW nb \in Nat \ {0}, NEW X, NEW b \in Nat, Below(X, b), Len(X) = InputLen(g),
         NEW cts, Carries(cts, X, b, nb), NEW beta \in Int, NEW acc \in Nat \ {0}
  PROVE  /\ MacSum(Groups(ConvTaps(op, r)), beta, cts, b, acc) \in Int
         /\ SumFunctionOnSet(Terms(op, X, r), Under(g, r)) + beta \in Int
         /\ Congruent(MacSum(Groups(ConvTaps(op, r)), beta, cts, b, acc),
                      SumFunctionOnSet(Terms(op, X, r), Under(g, r)) + beta, 2 * Half(acc))
<1> DEFINE A == Under(g, r)
           f == Terms(op, X, r)
           C == 0 .. g.chans - 1
           oy == RowOf(g, r)
           ox == ColOf(g, r)
           R == Reached(g, oy, ox)
           key == [a \in A |-> wts[WeightAt(g, a[1], a[2])]]
           pos == [a \in A |-> InputAt(g, a[1], oy, ox, a[2])]
           taps == ConvTaps(op, r)
<1>1. \A a \in A : /\ key[a] = wts[WeightAt(g, a[1], a[2])]
                   /\ pos[a] = InputAt(g, a[1], oy, ox, a[2])
  OBVIOUS
<1>2. /\ A = C \X R
      /\ \A a \in A : f[a] = wts[WeightAt(g, a[1], a[2])] * X[InputAt(g, a[1], oy, ox, a[2])]
  BY DEF Under, Terms
<1> HIDE DEF key, pos, A, f
<1>3. taps = TapsOf(A, key, pos)
  <2>1. Tapped(op, r, A, key, pos)
    BY <1>1, <1>2 DEF Tapped
  <2>2. QED
    BY ONLY <2>1, ConvTapsAre DEF taps
<1>4. \A a \in A : a[1] \in C /\ a[2] \in R /\ a = <<a[1], a[2]>>
  BY <1>2
<1>5. ASSUME NEW a \in A
      PROVE  key[a] \in Int /\ pos[a] \in 1 .. Len(X)
  <2>1. a[1] \in 0 .. g.chans - 1 /\ a[2] \in R
    BY <1>4
  <2>2. a[2] \in (0 .. g.kH - 1) \X (0 .. g.kW - 1)
    BY <2>1 DEF Reached
  <2> DEFINE i == WeightAt(g, a[1], a[2])
             j == InputAt(g, a[1], oy, ox, a[2])
  <2>3. i \in 1 .. Len(wts)
    BY <2>1, <2>2, WeightOfOffset
  <2>4. j \in 1 .. Len(X)
    BY <2>1, ReachedInput
  <2>5. key[a] = wts[i] /\ pos[a] = j
    BY <1>1
  <2> HIDE DEF i, j
  <2>6. QED
    BY <2>3, <2>4, <2>5
<1>6. ASSUME NEW a \in A, NEW c \in A, pos[a] = pos[c] PROVE a = c
  <2>1. /\ a[1] \in 0 .. g.chans - 1 /\ a[2] \in Reached(g, oy, ox)
        /\ c[1] \in 0 .. g.chans - 1 /\ c[2] \in Reached(g, oy, ox)
    BY <1>4
  <2>2. InputAt(g, a[1], oy, ox, a[2]) = InputAt(g, c[1], oy, ox, c[2])
    BY <1>1, <1>6
  <2>3. oy \in Nat /\ ox \in Nat
    OBVIOUS
  <2>4. a[1] = c[1] /\ a[2] = c[2]
    BY <2>1, <2>2, <2>3, InputsApart
  <2>5. QED
    BY <1>4, <2>4
<1>7. IsFiniteSet(A)
  BY <1>2, OffsetsCount
<1>8. \A a \in A : f[a] = key[a] * X[pos[a]]
  BY <1>1, <1>2
<1> HIDE DEF taps, C, R, oy, ox
<1>9. \A a \in A : key[a] \in Int /\ pos[a] \in 1 .. Len(X)
  BY <1>5
<1>10. \A a, c \in A : pos[a] = pos[c] => a = c
  BY <1>6
<1>11. /\ nb \in Nat \ {0} /\ b \in Nat /\ Below(X, b) /\ Carries(cts, X, b, nb)
       /\ beta \in Int /\ acc \in Nat \ {0}
  OBVIOUS
<1>12. /\ MacSum(Groups(taps), beta, cts, b, acc) \in Int
       /\ SumFunctionOnSet(f, A) + beta \in Int
       /\ Congruent(MacSum(Groups(taps), beta, cts, b, acc), SumFunctionOnSet(f, A) + beta,
                    2 * Half(acc))
  BY ONLY <1>3, <1>7, <1>8, <1>9, <1>10, <1>11, MacIs
<1>13. QED
  BY <1>12 DEF taps, A, f

(* The oracle's convolution, by the flat number of the output.             *)
ConvSums(op, x) ==
  LET g == op.geom
  IN  [r \in 1 .. Len(op.weights) * Plane(g) |->
         SumFunctionOnSet(Terms(op, x, r), Under(g, r)) + op.bias[PlaneOf(g, r) + 1]]

(* It sums the same terms.                                                 *)
LEMMA RefConvIs ==
  ASSUME NEW op, op.geom \in Geometries, ValidShape(op.geom), Len(op.weights) \in Nat, NEW x
  PROVE  RefConv(op, x) = ConvSums(op, x)
<1> DEFINE g == op.geom
           m == Len(op.weights)
           n == m * Plane(g)
           at == Positions(m, g)
           S(p) == (0 .. g.chans - 1) \X Reached(g, p[2], p[3])
           F(p) == [ck \in S(p) |-> op.weights[p[1] + 1][WeightAt(g, ck[1], ck[2])]
                                      * x[InputAt(g, ck[1], p[2], p[3], ck[2])]]
           D(p) == SumFunction(F(p)) + op.bias[p[1] + 1]
           E(r) == SumFunctionOnSet(Terms(op, x, r), Under(g, r)) + op.bias[PlaneOf(g, r) + 1]
<1>1. RefConv(op, x) = [r \in DOMAIN at |-> D(at[r])]
  BY DEF RefConv
<1>2. DOMAIN at = 1 .. n /\ \A r \in 1 .. n : at[r] = <<PlaneOf(g, r), RowOf(g, r), ColOf(g, r)>>
  <2>1. Len(at) = n /\ \A r \in 1 .. n : at[r] = <<PlaneOf(g, r), RowOf(g, r), ColOf(g, r)>>
    BY PositionsAre
  <2>2. at \in Seq((0 .. m - 1) \X (0 .. OutH(g) - 1) \X (0 .. OutW(g) - 1))
    BY PositionsType
  <2> HIDE DEF at
  <2>3. DOMAIN at = 1 .. Len(at)
    BY <2>2
  <2>4. QED
    BY <2>1, <2>3
<1>3. ASSUME NEW r \in 1 .. n PROVE D(at[r]) = E(r)
  <2> DEFINE p == at[r]
  <2>1. p[1] = PlaneOf(g, r) /\ p[2] = RowOf(g, r) /\ p[3] = ColOf(g, r)
    BY <1>2
  <2> HIDE DEF p
  <2>2. S(p) = Under(g, r)
    BY <2>1 DEF Under
  <2>3. F(p) = Terms(op, x, r)
    BY <2>1 DEF Terms, Under
  <2>4. DOMAIN F(p) = Under(g, r)
    BY <2>2
  <2>5. SumFunction(F(p)) = SumFunctionOnSet(Terms(op, x, r), Under(g, r))
    BY <2>3, <2>4 DEF SumFunction
  <2>6. QED
    BY <2>1, <2>5 DEF p
<1> HIDE DEF D, E, at, n
<1>4. QED
  BY <1>1, <1>2, <1>3 DEF E, n, ConvSums

(* Conv2d: every output, its taps grouped by weight.                       *)
LEMMA ConvCarries ==
  ASSUME NEW op, op.type = "Conv2d", NEW in, NEW x, NEW b, NEW nb, Given(op, in, x, b, nb),
         NEW ob, ob[1] = OutputBits(op, b)
  PROVE  Yields(op, in, x, b, ob, nb)
<1> DEFINE W == OutputBits(op, b)
           X == x[1]
           cts == in[1]
           g == op.geom
           acc == SignedBlocks(W, nb)
           m == Len(op.weights)
           n == m * Plane(g)
           y == ConvSums(op, X)
           u == [r \in 1 .. n |->
                   MacSum(Groups(ConvTaps(op, r)), op.bias[PlaneOf(g, r) + 1], cts, b[1], acc)]
           T == TfheConv(op, cts, b[1], acc)
<1>1. Declared(op) /\ Valid(op) /\ Bounded(x, b) /\ RefDefined(op, x)
  BY DEF Given
<1>2. nb \in Nat \ {0} /\ OutArity(op) = 1 /\ SparesBit(op, x, b)
  BY <1>1, GivenIs, ConvFits DEF OutArity
<1>3. /\ op.bias \in Seq(Int) /\ op.weights \in Seq(Seq(Int))
      /\ m = Len(op.bias) /\ g \in Geometries /\ ValidShape(g)
      /\ \A r \in DOMAIN op.weights : Len(op.weights[r]) = Len(op.weights[1])
      /\ Len(op.weights[1]) = g.chans * g.kH * g.kW
  BY <1>1 DEF Declared, Valid, ValidConv, ValidMac, Geometries
<1>4. Len(x) = 1 /\ Len(X) = InputLen(g)
  BY <1>1 DEF RefDefined, ShapeOK, Arity
<1>5. X \in Seq(Int) /\ b[1] \in Nat /\ Carries(cts, X, b[1], nb) /\ Below(X, b[1])
  <2>1. 1 \in 1 .. Len(x)
    BY <1>4
  <2>2. \A k \in 1 .. Len(x) :
          /\ x[k] \in Seq(Int) /\ b[k] \in Nat /\ Below(x[k], b[k])
          /\ Carries(in[k], x[k], b[k], nb)
    BY GivenIs
  <2>3. QED
    BY <2>1, <2>2
<1>6. m \in Nat /\ DOMAIN op.weights = 1 .. m /\ DOMAIN op.bias = 1 .. m
  BY <1>3
<1>7. RefEval(op, x) = <<y>>
  <2>1. RefEval(op, x) = <<RefConv(op, X)>>
    BY DEF RefEval
  <2>2. RefConv(op, X) = y
    BY <1>3, <1>6, RefConvIs
  <2>3. QED
    BY <2>1, <2>2
<1>8. TfheEval(op, in, b, ob, nb) = <<T>>
  BY DEF TfheEval
<1>9. T = [r \in 1 .. n |-> Ct(acc, u[r])]
  BY DEF TfheConv, WeightedMac, MacSum
<1>10. W \in Nat \ {0} /\ Below(y, W - 1) /\ InRadix(y, nb)
  <2>1. InRadix(RefEval(op, x)[1], nb)
    BY <1>2, GivenIs
  <2>2. RefEval(op, x)[1] = y
    BY <1>7
  <2>3. QED
    BY <1>2, <2>1, <2>2 DEF SparesBit
<1>11. DOMAIN y = 1 .. n
  BY DEF ConvSums
<1>12. \A r \in 1 .. n :
         /\ y[r] = SumFunctionOnSet(Terms(op, X, r), Under(g, r)) + op.bias[PlaneOf(g, r) + 1]
         /\ u[r] = MacSum(Groups(ConvTaps(op, r)), op.bias[PlaneOf(g, r) + 1], cts, b[1], acc)
  BY DEF ConvSums
<1> HIDE DEF y, u, T, X, cts, W
<1>13. acc \in Nat \ {0}
  BY <1>2, <1>10, SignedBlocksIs
<1> HIDE DEF acc
<1>14. ASSUME NEW r \in 1 .. n
       PROVE  u[r] \in Int /\ Congruent(u[r], y[r], 2 * Half(acc))
  <2> DEFINE wts == op.weights[PlaneOf(g, r) + 1]
             beta == op.bias[PlaneOf(g, r) + 1]
             A == Under(g, r)
             f == Terms(op, X, r)
             b1 == b[1]
  <2>1. /\ PlaneOf(g, r) \in 0 .. m - 1 /\ RowOf(g, r) \in Nat /\ ColOf(g, r) \in Nat
    BY <1>3, <1>6, OutputPlace
  <2>2. PlaneOf(g, r) + 1 \in 1 .. m
    <3> DEFINE pl == PlaneOf(g, r)
    <3>1. pl \in 0 .. m - 1
      BY <2>1
    <3> HIDE DEF pl, m
    <3>2. pl + 1 \in 1 .. m
      BY <1>6, <3>1
    <3>3. QED
      BY <3>2 DEF pl
  <2>3. wts \in Seq(Int) /\ beta \in Int /\ Len(wts) = g.chans * g.kH * g.kW
    <3> DEFINE i == PlaneOf(g, r) + 1
    <3>1. i \in DOMAIN op.weights /\ i \in DOMAIN op.bias
      BY <1>6, <2>2
    <3> HIDE DEF i
    <3>2. op.weights[i] \in Seq(Int) /\ op.bias[i] \in Int
      BY <1>3, <3>1
    <3>3. Len(op.weights[i]) = Len(op.weights[1])
      BY <1>3, <3>1
    <3>4. QED
      BY <1>3, <3>2, <3>3 DEF i
  <2>4. r \in Nat
    OBVIOUS
  <2>7. b1 \in Nat /\ Below(X, b1) /\ Carries(cts, X, b1, nb)
    BY <1>5
  <2>8. wts = op.weights[PlaneOf(g, r) + 1]
    OBVIOUS
  <2>9. y[r] = SumFunctionOnSet(f, A) + beta
        /\ u[r] = MacSum(Groups(ConvTaps(op, r)), beta, cts, b1, acc)
    BY <1>12
  <2>10. g = op.geom
    OBVIOUS
  <2> HIDE DEF wts, beta, A, f, b1, g, m
  <2>11. /\ g = op.geom /\ g \in Geometries /\ ValidShape(g) /\ wts \in Seq(Int)
         /\ Len(wts) = g.chans * g.kH * g.kW /\ r \in Nat /\ wts = op.weights[PlaneOf(g, r) + 1]
         /\ RowOf(g, r) \in Nat /\ ColOf(g, r) \in Nat
    BY <1>3, <2>1, <2>3, <2>4, <2>8, <2>10
  <2>12. /\ nb \in Nat \ {0} /\ b1 \in Nat /\ Below(X, b1) /\ Len(X) = InputLen(g)
         /\ Carries(cts, X, b1, nb) /\ beta \in Int /\ acc \in Nat \ {0}
    BY <1>2, <1>4, <1>13, <2>3, <2>7
  <2>13. /\ MacSum(Groups(ConvTaps(op, r)), beta, cts, b1, acc) \in Int
         /\ SumFunctionOnSet(f, A) + beta \in Int
         /\ Congruent(MacSum(Groups(ConvTaps(op, r)), beta, cts, b1, acc),
                      SumFunctionOnSet(f, A) + beta, 2 * Half(acc))
    BY ONLY <2>11, <2>12, ConvRow DEF A, f
  <2>14. QED
    BY <2>9, <2>13
<1>15. /\ y \in Seq(Int) /\ acc \in 1 .. nb /\ SignedBlocks(W, nb) <= acc
       /\ \A i \in DOMAIN y : FitsBlocks(y[i], acc)
  <2>1. /\ y \in Seq(Int) /\ SignedBlocks(W, nb) \in 1 .. nb
        /\ \A i \in DOMAIN y : FitsBlocks(y[i], SignedBlocks(W, nb))
    BY <1>2, <1>10, AccumulatorHolds
  <2>2. QED
    BY <1>2, <2>1 DEF acc
<1>16. T = [r \in DOMAIN y |-> Ct(acc, u[r])]
  BY <1>9, <1>11
<1>17. \A r \in DOMAIN y : u[r] \in Int /\ Congruent(u[r], y[r], 2 * Half(acc))
  BY <1>11, <1>14
<1>18. Carries(T, y, W, nb)
  <2>1. W \in Nat
    BY <1>10
  <2>2. QED
    BY <1>2, <1>15, <1>16, <1>17, <2>1, CtsCarry
<1>19. QED
  BY <1>2, <1>7, <1>8, <1>18, OneResult DEF W

(* No op loses anything: on ciphertexts that carry its operands it yields  *)
(* ciphertexts that carry what the oracle computes, at the blocks the      *)
(* width of its output calls for.                                          *)
LEMMA OpCarries ==
  ASSUME NEW op, NEW in, NEW x, NEW b, NEW nb, Given(op, in, x, b, nb),
         NEW ob, op.type = "Split" \/ ob[1] = OutputBits(op, b),
         op.type = "Requant" => RescalesInRadix(op, x[1], nb) /\ FloorFits(op, b[1])
  PROVE  Yields(op, in, x, b, ob, nb)
<1>1. CASE op.type = "Linear"
  BY <1>1, LinearCarries
<1>2. CASE op.type = "Conv2d"
  BY <1>2, ConvCarries
<1>3. CASE op.type = "Activation"
  BY <1>3, ActivationCarries
<1>4. CASE op.type = "Requant"
  BY <1>4, RequantCarries
<1>5. CASE op.type = "Pool"
  BY <1>5, PoolCarries
<1>6. CASE op.type = "Add"
  BY <1>6, AddCarries
<1>7. CASE op.type = "Argmax"
  BY <1>7, ArgmaxCarries
<1>8. CASE op.type = "Compare"
  BY <1>8, CompareCarries
<1>9. CASE op.type = "Concat"
  BY <1>9, ConcatCarries
<1>10. CASE op.type = "Split"
  BY <1>10, SplitCarries
<1>11. op.type \in OpTypes
  BY DEF Given, Declared
<1>12. QED
  BY <1>1, <1>2, <1>3, <1>4, <1>5, <1>6, <1>7, <1>8, <1>9, <1>10, <1>11 DEF OpTypes

-----------------------------------------------------------------------------
(* The operands of a node the oracle evaluates, and their widths.          *)
LEMMA OperandsBounded ==
  ASSUME NEW n, HasLists(n), NEW e, Typed(e), RefKnown(n, e),
         NEW w, Wide(w, e), ToSet(n.ins) \subseteq DOMAIN w
  PROVE  Bounded(Operands(n, e), Operands(n, w))
<1> DEFINE in == Operands(n, e)
           b == Operands(n, w)
<1>1. DOMAIN n.ins = 1 .. Len(n.ins) /\ Len(n.ins) \in Nat
  BY DEF HasLists
<1>2. ToSet(n.ins) \subseteq DOMAIN e
  BY DEF RefKnown
<1>3. /\ in \in Seq(Seq(Int)) /\ Len(in) = Len(n.ins) /\ DOMAIN in = DOMAIN n.ins
      /\ \A k \in DOMAIN n.ins : n.ins[k] \in DOMAIN e /\ in[k] = e[n.ins[k]]
  BY <1>2, OperandsTyped
<1>4. \A k \in DOMAIN n.ins : n.ins[k] \in DOMAIN w
  BY DEF ToSet
<1>5. \A k \in DOMAIN n.ins : w[n.ins[k]] \in Nat /\ Below(in[k], w[n.ins[k]])
  BY <1>3, <1>4 DEF Wide
<1>6. b = [k \in 1 .. Len(n.ins) |-> w[n.ins[k]]]
  BY <1>1 DEF Operands
<1>7. \A k \in 1 .. Len(n.ins) : w[n.ins[k]] \in Nat /\ Below(in[k], w[n.ins[k]])
  BY <1>1, <1>5
<1>8. Len(in) = Len(n.ins) /\ DOMAIN in = 1 .. Len(n.ins) /\ in \in Seq(Seq(Int))
  BY <1>1, <1>3
<1> HIDE DEF in, b
<1>9. b \in Seq(Nat) /\ Len(b) = Len(n.ins)
  BY <1>1, <1>6, <1>7
<1>10. \A k \in 1 .. Len(n.ins) : Below(in[k], b[k])
  BY <1>6, <1>7
<1>11. QED
  BY <1>8, <1>9, <1>10 DEF Bounded, in, b

(* The ciphertexts e carries, of the widths w, the values of the oracle.   *)
Carried(e, ref, w, nb) == \A t \in DOMAIN e \cap DOMAIN ref : Carries(e[t], ref[t], w[t], nb)

(* Every value in the radix, and every value a rescale of ns works on.     *)
AllInRadix(ref, nb) == \A t \in DOMAIN ref : InRadix(ref[t], nb)

(* What every Requant of a list works on, in the oracle's values.           *)
Rescales(ns, ref, nb) ==
  \A i \in DOMAIN ns :
    ns[i].op.type = "Requant" /\ ns[i].outs[1] \in DOMAIN ref =>
      RescalesInRadix(ns[i].op, ref[ns[i].ins[1]], nb)

(* One node of the walk, when the op accepts its operands.                 *)
LEMMA EvalCarries ==
  ASSUME NEW n, HasLists(n), IsInjective(n.outs), Valid(n.op), Declared(n.op), Matched(n),
         NEW ref, Typed(ref), Held(n, ref),
         NEW w, Wide(w, ref), ToSet(n.ins) \subseteq DOMAIN w,
         NEW nb \in Nat \ {0}, AllInRadix(ref, nb),
         n.op.type = "Requant" /\ n.outs[1] \in DOMAIN ref =>
           /\ RescalesInRadix(n.op, ref[n.ins[1]], nb)
           /\ FloorFits(n.op, w[n.ins[1]]),
         NEW e, ToSet(n.ins) \subseteq DOMAIN e, DOMAIN e = DOMAIN w,
         TfheDefined(n.op, Operands(n, e), nb), Carried(e, ref, w, nb)
  PROVE  Carried(Bind(e, n.outs, TfheEval(n.op, Operands(n, e), Operands(n, w), OutWidths(n, w), nb)),
                 ref, Widened(n, w), nb)
<1> DEFINE in == Operands(n, e)
           x == Operands(n, ref)
           b == Operands(n, w)
           ob == OutWidths(n, w)
           y == TfheEval(n.op, in, b, ob, nb)
           f == Bind(e, n.outs, y)
           v == Widened(n, w)
<1>1. DOMAIN n.outs = 1 .. OutArity(n.op) /\ DOMAIN n.ins = 1 .. Len(n.ins) /\ Len(n.ins) \in Nat
      /\ Len(n.ins) = Arity(n.op)
  BY DEF HasLists, Matched
<1>2. \A k \in DOMAIN n.outs : ob[k] = OutputBits(n.op, b)
  BY DEF OutWidths
<1>3. /\ DOMAIN f = DOMAIN e \cup ToSet(n.outs)
      /\ \A k \in DOMAIN n.outs : f[n.outs[k]] = y[k]
      /\ \A t \in DOMAIN e \ ToSet(n.outs) : f[t] = e[t]
  <2>1. Binds(Bind(e, n.outs, y), e, n.outs, y)
    BY BindValues
  <2>2. QED
    BY <2>1 DEF Binds
<1>4. /\ DOMAIN v = DOMAIN w \cup ToSet(n.outs)
      /\ \A k \in DOMAIN n.outs : v[n.outs[k]] = ob[k]
      /\ \A t \in DOMAIN w \ ToSet(n.outs) : v[t] = w[t]
  <2>1. Binds(Bind(w, n.outs, ob), w, n.outs, ob)
    BY BindValues
  <2>2. QED
    BY <2>1 DEF Binds, Widened
<1> HIDE DEF f, v, y
<1>5. ASSUME ToSet(n.outs) \cap DOMAIN ref # {}
      PROVE  \A k \in DOMAIN n.outs : Carries(y[k], ref[n.outs[k]], OutputBits(n.op, b), nb)
  <2>1. /\ RefKnown(n, ref)
        /\ \A k \in DOMAIN n.outs : n.outs[k] \in DOMAIN ref /\ ref[n.outs[k]] = RefEval(n.op, x)[k]
    BY <1>5 DEF Held
  <2>2. Bounded(x, b)
    BY <2>1, OperandsBounded
  <2>3. RefDefined(n.op, x) /\ ToSet(n.ins) \subseteq DOMAIN ref
    BY <2>1 DEF RefKnown
  <2>4. /\ DOMAIN x = DOMAIN n.ins
        /\ \A k \in DOMAIN n.ins :
             /\ n.ins[k] \in DOMAIN e /\ n.ins[k] \in DOMAIN ref
             /\ x[k] = ref[n.ins[k]] /\ in[k] = e[n.ins[k]] /\ b[k] = w[n.ins[k]]
    BY <2>3 DEF Operands, ToSet
  <2>5. in = [k \in DOMAIN n.ins |-> in[k]]
    BY DEF Operands
  <2> HIDE DEF in, x, b, ob
  <2>6. Encrypts(in, x, b, nb)
    <3>1. \A k \in DOMAIN n.ins : Carries(e[n.ins[k]], ref[n.ins[k]], w[n.ins[k]], nb)
      BY <2>4 DEF Carried
    <3>2. \A k \in DOMAIN x : Carries(in[k], x[k], b[k], nb)
      BY <2>4, <3>1
    <3>3. in = [k \in DOMAIN x |-> in[k]]
      BY <2>4, <2>5
    <3>4. QED
      BY <3>2, <3>3 DEF Encrypts
  <2>7. \A j \in 1 .. OutArity(n.op) : InRadix(RefEval(n.op, x)[j], nb)
    BY <1>1, <2>1 DEF AllInRadix
  <2>8. TfheDefined(n.op, in, nb)
    BY DEF in
  <2>9. Given(n.op, in, x, b, nb)
    BY <2>2, <2>3, <2>6, <2>7, <2>8 DEF Given
  <2>10. n.op.type = "Split" \/ ob[1] = OutputBits(n.op, b)
    <3>1. n.op.type # "Split" => OutArity(n.op) = 1
      BY DEF OutArity
    <3>2. QED
      BY <1>1, <1>2, <3>1
  <2>11. n.op.type = "Requant" => RescalesInRadix(n.op, x[1], nb) /\ FloorFits(n.op, b[1])
    <3> SUFFICES ASSUME n.op.type = "Requant"
                 PROVE  RescalesInRadix(n.op, x[1], nb) /\ FloorFits(n.op, b[1])
      OBVIOUS
    <3>1. OutArity(n.op) = 1 /\ Arity(n.op) = 1
      BY DEF OutArity, Arity
    <3>2. 1 \in DOMAIN n.outs /\ 1 \in DOMAIN n.ins
      BY <1>1, <3>1
    <3>3. n.outs[1] \in DOMAIN ref /\ x[1] = ref[n.ins[1]] /\ b[1] = w[n.ins[1]]
      BY <2>1, <2>4, <3>2
    <3>4. QED
      BY <3>3
  <2> DEFINE op == n.op
  <2>12. /\ Given(op, in, x, b, nb) /\ (op.type = "Split" \/ ob[1] = OutputBits(op, b))
         /\ (op.type = "Requant" => RescalesInRadix(op, x[1], nb) /\ FloorFits(op, b[1]))
    BY <2>9, <2>10, <2>11
  <2>13. Yields(n.op, in, x, b, ob, nb)
    <3> HIDE DEF op
    <3>1. Yields(op, in, x, b, ob, nb)
      BY ONLY <2>12, OpCarries
    <3>2. QED
      BY <3>1 DEF op
  <2>14. QED
    BY <1>1, <2>1, <2>13 DEF Yields, y
<1> HIDE DEF in, x, b, ob
<1>6. ASSUME NEW t \in DOMAIN f \cap DOMAIN ref
      PROVE  Carries(f[t], ref[t], v[t], nb)
  <2>1. CASE t \in ToSet(n.outs)
    <3>1. PICK k \in DOMAIN n.outs : n.outs[k] = t
      BY <2>1 DEF ToSet
    <3>2. f[t] = y[k] /\ v[t] = OutputBits(n.op, b)
      BY <1>2, <1>3, <1>4, <3>1
    <3>3. Carries(y[k], ref[n.outs[k]], OutputBits(n.op, b), nb)
      BY <1>5, <2>1, <3>1
    <3>4. QED
      BY <3>1, <3>2, <3>3
  <2>2. CASE t \notin ToSet(n.outs)
    <3>1. t \in DOMAIN e /\ f[t] = e[t] /\ v[t] = w[t]
      BY <1>3, <1>4, <2>2
    <3>2. QED
      BY <3>1 DEF Carried
  <2>3. QED
    BY <2>1, <2>2
<1>7. Carried(f, ref, v, nb)
  BY <1>6 DEF Carried
<1>8. QED
  BY <1>7 DEF f, v, y, in, b, ob

(* What InRange says of the forward pass and of the loaded list.           *)
LEMMA InRangeGives ==
  ASSUME NEW ref, InRange(ref)
  PROVE  AllInRadix(ref, model.numBlocks) /\ Rescales(model.nodes, ref, model.numBlocks)
<1>1. AllInRadix(ref, model.numBlocks)
  BY DEF InRange, AllInRadix, InRadix
<1>2. ASSUME NEW n \in DOMAIN model.nodes, model.nodes[n].op.type = "Requant",
             model.nodes[n].outs[1] \in DOMAIN ref
      PROVE  RescalesInRadix(model.nodes[n].op, ref[model.nodes[n].ins[1]], model.numBlocks)
  BY <1>2 DEF InRange, RescalesInRadix
<1>3. QED
  BY <1>1, <1>2 DEF Rescales

(* A rewrite leaves no rescale that was not in the list: what a composed   *)
(* table replaces is its own table, or the whole second rescale.           *)
LEMMA FuseRescales ==
  ASSUME NEW ns, IsNodeList(ns), NEW outputs,
         NEW p \in DOMAIN ns, NEW c \in DOMAIN ns, Fusable(ns, outputs, p, c),
         NEW ref, Holds(ns, ref), NEW nb, Rescales(ns, ref, nb)
  PROVE  Rescales(Fuse(ns, p, c), ref, nb)
<1> DEFINE fs == Fuse(ns, p, c)
           new == FusedNode(ns[p], ns[c])
           S == ToSet(ns)
<1>1. ns \in Seq(S) /\ \A i \in DOMAIN ns : IsNode(ns[i])
  BY DEF IsNodeList
<1> HIDE DEF S
<1>2. DOMAIN ns = 1 .. Len(ns) /\ Len(ns) \in Nat
  BY <1>1
<1>3. Adjacent(ns, outputs, p, c) /\ Composable(ns[p].op, ns[c].op)
  BY DEF Fusable
<1>4. p < c
  BY <1>2, <1>3 DEF Adjacent
<1>5. Layout(S, ns, p, c, fs)
  BY <1>1, <1>2, <1>4, FuseLayout
<1>6. HasLists(ns[p]) /\ HasLists(ns[c])
  BY <1>1 DEF IsNode
<1>7. ns[c].ins[1] = ns[p].outs[1] /\ 1 \in DOMAIN ns[c].ins /\ 1 \in DOMAIN ns[c].outs
      /\ 1 \in DOMAIN ns[p].outs
  <2> DEFINE t == ns[p].outs[1]
  <2>1. DOMAIN ns[c].ins = 1 .. 1 /\ DOMAIN ns[c].outs = 1 .. 1 /\ DOMAIN ns[p].outs = 1 .. 1
    BY <1>3, <1>6 DEF Adjacent, HasLists
  <2>2. t \in ToSet(ns[c].ins)
    BY <1>3, OnlyReader
  <2>3. QED
    BY <2>1, <2>2 DEF ToSet
<1>8. ASSUME ns[c].outs[1] \in DOMAIN ref PROVE ns[p].outs[1] \in DOMAIN ref
  <2>1. ns[c].outs[1] \in ToSet(ns[c].outs)
    BY <1>7 DEF ToSet
  <2>2. Held(ns[c], ref)
    BY DEF Holds
  <2>3. ToSet(ns[c].ins) \subseteq DOMAIN ref
    BY <1>8, <2>1, <2>2 DEF Held, RefKnown
  <2>4. QED
    BY <1>7, <2>3 DEF ToSet
<1>9. /\ new.ins = ns[p].ins /\ new.outs = ns[c].outs /\ new.op = FusedOp(ns[p].op, ns[c].op)
  BY DEF FusedNode
<1>10. ASSUME new.op.type = "Requant", new.outs[1] \in DOMAIN ref
       PROVE  RescalesInRadix(new.op, ref[new.ins[1]], nb)
  <2> DEFINE a == ns[p].op
             b == ns[c].op
             lut == Composed(a, b)
             f == new.op
  <2>1. a.type = "Requant"
    <3> SUFFICES ASSUME a.type # "Requant" PROVE FALSE
      OBVIOUS
    <3>1. b.type = "Activation" /\ f = [b EXCEPT !.lut = lut]
      BY <1>3, <1>9 DEF Composable, FusedOp
    <3>2. f.type = b.type
      <4> HIDE DEF f, lut
      <4>1. QED
        BY <3>1
    <3>3. QED
      BY <1>10, <3>1, <3>2
  <2>2. f = [a EXCEPT !.lut = lut]
    BY <1>9, <2>1 DEF FusedOp
  <2>3. /\ f.clampLo = a.clampLo /\ f.zeroPoint = a.zeroPoint
        /\ f.channel = a.channel /\ f.channelSize = a.channelSize
    <3> HIDE DEF f, lut
    <3>1. QED
      BY <2>2
  <2>4. RescalesInRadix(a, ref[ns[p].ins[1]], nb)
    BY <1>8, <1>9, <1>10, <2>1 DEF Rescales
  <2> HIDE DEF f
  <2>5. RescalesInRadix(f, ref[ns[p].ins[1]], nb)
    BY <2>3, <2>4, Zenon DEF RescalesInRadix, Transient, Channel
  <2>6. QED
    BY <1>9, <2>5 DEF f
<1> HIDE DEF new, fs
<1>11. \A k \in DOMAIN fs : fs[k] = new \/ \E i \in DOMAIN ns : fs[k] = ns[i]
  <2>1. /\ fs \in Seq(S \cup {new})
        /\ \A k \in 1 .. Len(fs) : fs[k] = new \/ \E i \in DOMAIN ns : fs[k] = ns[i]
    BY <1>2, <1>5 DEF Layout, new
  <2>2. DOMAIN fs = 1 .. Len(fs)
    BY <2>1
  <2>3. QED
    BY <2>1, <2>2
<1>12. ASSUME NEW k \in DOMAIN fs, fs[k].op.type = "Requant", fs[k].outs[1] \in DOMAIN ref
       PROVE  RescalesInRadix(fs[k].op, ref[fs[k].ins[1]], nb)
  <2>1. CASE fs[k] = new
    BY <1>10, <1>12, <2>1
  <2>2. CASE fs[k] # new
    <3>1. PICK i \in DOMAIN ns : fs[k] = ns[i]
      BY <1>11, <2>2
    <3>2. QED
      BY <1>12, <3>1 DEF Rescales
  <2>3. QED
    BY <2>1, <2>2
<1>13. QED
  BY <1>12 DEF Rescales, fs

(* The row, encrypted into the whole radix, is carried.                    *)
LEMMA RowCarries ==
  ASSUME NEW nb \in Nat \ {0}, NEW x \in Seq(Int), InRadix(x, nb), NEW b \in Nat,
         NEW T, T = [i \in DOMAIN x |-> Ct(nb, x[i])]
  PROVE  Carries(T, x, b, nb)
<1>1. nb \in 1 .. nb /\ SignedBlocks(b, nb) <= nb
  BY SignedBlocksIs
<1>2. \A i \in DOMAIN x : FitsBlocks(x[i], nb)
  BY DEF InRadix
<1>3. \A i \in DOMAIN x : x[i] \in Int /\ Congruent(x[i], x[i], 2 * Half(nb))
  <2>1. \A i \in DOMAIN x : x[i] \in Int
    OBVIOUS
  <2>2. \A i \in DOMAIN x : Congruent(x[i], x[i], 2 * Half(nb))
    BY <2>1, HalfIs DEF Congruent
  <2>3. QED
    BY <2>1, <2>2
<1>4. QED
  BY <1>1, <1>2, <1>3, CtsCarry

(* The widths the walk derives are those of the whole list.                *)
WidthsKept == phase = "walk" => \A t \in DOMAIN bits : bits[t] = Widths(nodes, model)[t]

(* While no node has failed, what has been evaluated is carried.           *)
Walking == {"walk"} \cup (Ended \ {"rejected", "capped", "unsorted"})

(* While the graph is walked, every tensor known carries the oracle's value. *)
CarryInv ==
  /\ WidthsKept
  /\ InRange(Ref) /\ phase \in {"fuse", "walk"} => Rescales(nodes, Ref, model.numBlocks)
  /\ phase = "fuse" =>
       env = [t \in model.inputs |-> [i \in DOMAIN row |-> Ct(model.numBlocks, row[i])]]
  /\ phase \in Walking => DOMAIN env \subseteq DOMAIN bits
  /\ InRange(Ref) /\ Calibrated /\ phase \in Walking => Carried(env, Ref, bits, model.numBlocks)

(* The forward pass, and the range it is in, depend on the model and the   *)
(* row alone; how the rescales are calibrated on the two node lists.       *)
LEMMA RangeSame ==
  ASSUME UNCHANGED <<model, row>>
  PROVE  Ref' = Ref /\ (InRange(Ref)' <=> InRange(Ref))
<1>1. Ref' = Ref
  BY DEF Ref
<1> DEFINE e == Ref
<1>2. e' = e
  BY <1>1
<1>3. InRange(e)' <=> InRange(e)
  <2> HIDE DEF e
  <2>1. QED
    BY <1>2 DEF InRange
<1>4. QED
  BY <1>1, <1>3

(* It is a property of the model and of the list.                          *)
LEMMA CalibratedSame ==
  ASSUME UNCHANGED <<model, nodes>>
  PROVE  Calibrated' <=> Calibrated
  BY DEF Calibrated

(* It holds at first.                                                      *)
LEMMA CarryInit == Init => CarryInv
  BY DEF Init, CarryInv, WidthsKept, Walking, Ended

(* The row is encrypted into the whole radix.                              *)
LEMMA CarryAdmit == Inv /\ WidthInv /\ CarryInv /\ Admit => CarryInv'
<1> SUFFICES ASSUME Inv, WidthInv, CarryInv, Admit PROVE CarryInv'
  OBVIOUS
<1>1. /\ phase = "load" /\ UNCHANGED <<model, row, nodes, bits>>
      /\ phase' \in {"fuse", "rejected"}
      /\ phase' = "fuse" =>
           env' = [t \in model.inputs |-> [i \in DOMAIN row |-> Ct(model.numBlocks, row[i])]]
  BY DEF Admit
<1>2. nodes = model.nodes
  BY <1>1 DEF Inv, FuseInv
<1>3. Ref' = Ref /\ (InRange(Ref)' <=> InRange(Ref))
  BY <1>1, RangeSame
<1>4. InRange(Ref) => Rescales(nodes, Ref, model.numBlocks)
  BY <1>2, InRangeGives
<1>5. InRange(Ref)' => Rescales(nodes', Ref', model'.numBlocks)
  BY <1>1, <1>3, <1>4
<1>6. phase' \notin Walking' /\ phase' # "walk"
  BY <1>1 DEF Walking, Ended
<1>7. phase' = "fuse" =>
        env' = [t \in model'.inputs |-> [i \in DOMAIN row' |-> Ct(model'.numBlocks, row'[i])]]
  BY <1>1
<1>8. QED
  BY <1>5, <1>6, <1>7 DEF CarryInv, WidthsKept

(* A rewrite brings in no rescale.                                         *)
LEMMA CarryFuse == Inv /\ WidthInv /\ CarryInv /\ FuseStep => CarryInv'
<1> SUFFICES ASSUME Inv, WidthInv, CarryInv, FuseStep PROVE CarryInv'
  OBVIOUS
<1> DEFINE pc == FirstPair(nodes, model.outputs)
<1>1. /\ phase = "fuse" /\ FusablePairs(nodes, model.outputs) # {}
      /\ UNCHANGED <<model, row, env, bits>>
      /\ phase' = "capped" \/ (nodes' = Fuse(nodes, pc[1], pc[2]) /\ phase' = phase)
  BY DEF FuseStep
<1>2. Ref' = Ref /\ (InRange(Ref)' <=> InRange(Ref))
  BY <1>1, RangeSame
<1>3. CASE phase' = "capped"
  <2>1. phase' \notin Walking' /\ phase' \notin {"fuse", "walk"}
    BY <1>3 DEF Walking, Ended
  <2>2. QED
    BY <2>1 DEF CarryInv, WidthsKept
<1>4. CASE nodes' = Fuse(nodes, pc[1], pc[2]) /\ phase' = phase
  <2>1. IsNodeList(nodes)
    BY <1>1 DEF Inv, FuseInv
  <2>2. PICK p, c : p = pc[1] /\ c = pc[2]
    OBVIOUS
  <2>3. p \in DOMAIN nodes /\ c \in DOMAIN nodes /\ Fusable(nodes, model.outputs, p, c)
    BY <1>1, <2>1, <2>2, FirstPairIsFusable
  <2>4. nodes' = Fuse(nodes, p, c)
    BY <1>4, <2>2
  <2> HIDE DEF pc
  <2>5. Holds(nodes, Ref)
    BY <1>1 DEF WidthInv
  <2>6. InRange(Ref) => Rescales(nodes, Ref, model.numBlocks)
    BY <1>1 DEF CarryInv
  <2>7. InRange(Ref) => Rescales(nodes', Ref, model.numBlocks)
    BY <2>1, <2>3, <2>4, <2>5, <2>6, FuseRescales
  <2>8. InRange(Ref)' => Rescales(nodes', Ref', model'.numBlocks)
    BY <1>1, <1>2, <2>7
  <2>9. phase' \notin Walking' /\ phase' # "walk"
    BY <1>1, <1>4 DEF Walking, Ended
  <2>10. env' = [t \in model'.inputs |-> [i \in DOMAIN row' |-> Ct(model'.numBlocks, row'[i])]]
    BY <1>1 DEF CarryInv
  <2>11. QED
    BY <2>8, <2>9, <2>10 DEF CarryInv, WidthsKept
<1>5. QED
  BY <1>1, <1>3, <1>4

(* The walk starts with the row carried at the inputs' declared width.     *)
LEMMA CarryStart == Inv /\ WidthInv /\ CarryInv /\ StartWalk => CarryInv'
<1> SUFFICES ASSUME Inv, WidthInv, CarryInv, StartWalk PROVE CarryInv'
  OBVIOUS
<1>1. /\ phase = "fuse" /\ UNCHANGED <<model, row, nodes, env>>
      /\ \/ phase' = "walk" /\ bits' = InputWidths(model)
         \/ phase' = "unsorted" /\ UNCHANGED bits
  BY DEF StartWalk
<1>2. Ref' = Ref /\ (InRange(Ref)' <=> InRange(Ref))
  BY <1>1, RangeSame
<1>3. CASE phase' = "walk" /\ bits' = InputWidths(model)
  <2>1. /\ model \in Models /\ IsNodeList(nodes) /\ Propagates(nodes, model.inputs)
    BY <1>1 DEF Inv, FuseInv
  <2>2. /\ model.inputBits \in Nat /\ model.inputLen \in Nat /\ model.numBlocks \in Nat \ {0}
    BY <2>1, ModelAssumption
  <2>3. Sortable(nodes, model.inputs)
    BY <2>1 DEF Propagates
  <2>4. DOMAIN bits' = model.inputs /\ \A t \in model.inputs : bits'[t] = model.inputBits
    BY <1>3 DEF InputWidths
  <2>5. \A t \in model.inputs : Widths(nodes, model)[t] = model.inputBits
    BY <2>1, <2>3, WidthsHold DEF IsNodeList
  <2>6. WidthsKept'
    BY <1>1, <2>4, <2>5 DEF WidthsKept
  <2>7. InRange(Ref)' => Rescales(nodes', Ref', model'.numBlocks)
    BY <1>1, <1>2 DEF CarryInv
  <2>8. env = [t \in model.inputs |-> [i \in DOMAIN row |-> Ct(model.numBlocks, row[i])]]
    BY <1>1 DEF CarryInv
  <2>9. DOMAIN env' = DOMAIN bits'
    BY <1>1, <2>4, <2>8
  <2>10. row \in Seq(Int)
    BY <2>2, RowIsBelow DEF WidthInv
  <2>11. \A t \in model.inputs : t \in DOMAIN Ref /\ Ref[t] = row
    BY <1>1 DEF WidthInv
  <2>12. ASSUME InRange(Ref) PROVE Carried(env, Ref, bits', model.numBlocks)
    <3> SUFFICES ASSUME NEW t \in model.inputs
                 PROVE  Carries(env[t], Ref[t], bits'[t], model.numBlocks)
      BY <2>8 DEF Carried
    <3>1. env[t] = [i \in DOMAIN row |-> Ct(model.numBlocks, row[i])]
      BY <2>8
    <3>2. Ref[t] = row /\ t \in DOMAIN Ref /\ bits'[t] = model.inputBits
      BY <2>4, <2>11
    <3>3. InRadix(row, model.numBlocks)
      <4>1. AllInRadix(Ref, model.numBlocks)
        BY <2>12, InRangeGives
      <4>2. QED
        BY <3>2, <4>1 DEF AllInRadix
    <3>4. Carries(env[t], row, model.inputBits, model.numBlocks)
      BY <2>2, <2>10, <3>1, <3>3, RowCarries
    <3>5. QED
      BY <3>2, <3>4
  <2>13. InRange(Ref)' => Carried(env', Ref', bits', model'.numBlocks)
    BY <1>1, <1>2, <2>12
  <2>14. QED
    BY <1>3, <2>6, <2>7, <2>9, <2>13 DEF CarryInv
<1>4. CASE phase' = "unsorted" /\ UNCHANGED bits
  <2>1. phase' \notin Walking' /\ phase' \notin {"fuse", "walk"}
    BY <1>4 DEF Walking, Ended
  <2>2. QED
    BY <2>1 DEF CarryInv, WidthsKept
<1>5. QED
  BY <1>1, <1>3, <1>4

(* The widths of a node are those of the whole list, if its operands' are. *)
LEMMA WidenedAgree ==
  ASSUME NEW n, NEW w, NEW W, ToSet(n.ins) \subseteq DOMAIN w, \A t \in DOMAIN w : w[t] = W[t],
         Sized(n, W), HasLists(n), IsInjective(n.outs)
  PROVE  \A t \in DOMAIN Widened(n, w) : Widened(n, w)[t] = W[t]
<1> DEFINE v == Widened(n, w)
           ob == OutWidths(n, w)
<1>1. \A k \in DOMAIN n.ins : n.ins[k] \in DOMAIN w
  BY DEF ToSet
<1>2. Operands(n, w) = Operands(n, W)
  BY <1>1 DEF Operands
<1>3. \A k \in DOMAIN n.outs : ob[k] = W[n.outs[k]]
  BY <1>2 DEF OutWidths, Sized
<1>4. v = Bind(w, n.outs, ob)
  BY DEF Widened
<1> HIDE DEF v, ob
<1>5. /\ DOMAIN v = DOMAIN w \cup ToSet(n.outs)
      /\ \A k \in DOMAIN n.outs : v[n.outs[k]] = ob[k]
      /\ \A t \in DOMAIN w \ ToSet(n.outs) : v[t] = w[t]
  <2>1. Binds(Bind(w, n.outs, ob), w, n.outs, ob)
    BY BindValues
  <2>2. QED
    BY <1>4, <2>1 DEF Binds
<1>6. ASSUME NEW t \in DOMAIN v PROVE v[t] = W[t]
  <2>1. CASE t \in ToSet(n.outs)
    <3>1. PICK k \in DOMAIN n.outs : n.outs[k] = t
      BY <2>1 DEF ToSet
    <3>2. QED
      BY <1>3, <1>5, <3>1
  <2>2. CASE t \notin ToSet(n.outs)
    BY <1>5, <2>2
  <2>3. QED
    BY <2>1, <2>2
<1>7. QED
  BY <1>6 DEF v

(* One node of the walk.                                                   *)
LEMMA CarryEval == Inv /\ WidthInv /\ CarryInv /\ EvalNode => CarryInv'
<1> SUFFICES ASSUME Inv, WidthInv, CarryInv, EvalNode PROVE CarryInv'
  OBVIOUS
<1> DEFINE i == Head(todo)
           n == nodes[i]
           nb == model.numBlocks
<1>1. phase = "walk" /\ todo # <<>> /\ UNCHANGED <<model, row, nodes>>
  BY DEF EvalNode
<1>2. /\ Ref' = Ref /\ (InRange(Ref)' <=> InRange(Ref)) /\ (Calibrated' <=> Calibrated)
  BY <1>1, RangeSame, CalibratedSame
<1>3. \/ phase' \in {"unread", "panicked"} /\ UNCHANGED <<env, bits>>
      \/ /\ phase' = phase
         /\ ToSet(n.ins) \subseteq DOMAIN bits
         /\ TfheDefined(n.op, Operands(n, env), nb)
         /\ env' = Bind(env, n.outs, TfheEval(n.op, Operands(n, env), Operands(n, bits), OutWidths(n, bits), nb))
         /\ bits' = Bind(bits, n.outs, OutWidths(n, bits))
  BY Zenon DEF EvalNode
<1>4. /\ IsNodeList(nodes) /\ Sortable(nodes, model.inputs) /\ todo \in Seq(DOMAIN nodes)
      /\ DOMAIN env = DOMAIN bits /\ model \in Models
  BY <1>1 DEF Inv, WalkInv
<1>5. /\ InRange(Ref) => Rescales(nodes, Ref, nb)
      /\ InRange(Ref) /\ Calibrated => Carried(env, Ref, bits, nb)
      /\ \A t \in DOMAIN bits : bits[t] = Widths(nodes, model)[t]
  BY <1>1 DEF CarryInv, WidthsKept, Walking
<1>6. CASE phase' \in {"unread", "panicked"} /\ UNCHANGED <<env, bits>>
  <2>1. phase' \notin {"fuse", "walk"} /\ DOMAIN env' \subseteq DOMAIN bits'
    BY <1>4, <1>6
  <2>2. InRange(Ref)' /\ Calibrated' => Carried(env', Ref', bits', model'.numBlocks)
    BY <1>1, <1>2, <1>5, <1>6
  <2>3. QED
    BY <2>1, <2>2 DEF CarryInv, WidthsKept
<1>7. CASE /\ phase' = phase
           /\ ToSet(n.ins) \subseteq DOMAIN bits
           /\ TfheDefined(n.op, Operands(n, env), nb)
           /\ env' = Bind(env, n.outs, TfheEval(n.op, Operands(n, env), Operands(n, bits), OutWidths(n, bits), nb))
           /\ bits' = Bind(bits, n.outs, OutWidths(n, bits))
  <2>1. i \in DOMAIN nodes
    BY <1>1, <1>4
  <2> HIDE DEF i
  <2>2. HasLists(n) /\ IsInjective(n.outs)
    BY <1>4, <2>1 DEF IsNodeList, IsNode, Sortable
  <2>3. /\ Valid(n.op) /\ Declared(n.op) /\ Matched(n)
        /\ Holds(nodes, Ref) /\ Typed(Ref) /\ Wide(bits, Ref)
    BY <1>1, <2>1 DEF WidthInv
  <2>4. Held(n, Ref)
    BY <2>1, <2>3 DEF Holds
  <2>5. nb \in Nat \ {0}
    BY <1>4, ModelAssumption
  <2>6. bits' = Widened(n, bits)
    BY <1>7 DEF Widened
  <2>7. \A t \in DOMAIN bits' : bits'[t] = Widths(nodes, model)[t]
    <3> DEFINE W == Widths(nodes, model)
    <3>1. Sized(n, W)
      BY <1>4, <2>1, WidthsHold DEF IsNodeList
    <3>2. \A t \in DOMAIN bits : bits[t] = W[t]
      BY <1>5
    <3> HIDE DEF W, n
    <3>3. \A t \in DOMAIN Widened(n, bits) : Widened(n, bits)[t] = W[t]
      BY <1>7, <2>2, <3>1, <3>2, WidenedAgree
    <3>4. QED
      BY <2>6, <3>3 DEF W
  <2>8. WidthsKept'
    BY <1>1, <2>7 DEF WidthsKept
  <2>9. DOMAIN env' \subseteq DOMAIN bits'
    <3>1. /\ DOMAIN env' = DOMAIN env \cup ToSet(n.outs)
          /\ DOMAIN bits' = DOMAIN bits \cup ToSet(n.outs)
      BY <1>7, BindDomain, Zenon
    <3>2. QED
      BY <1>4, <3>1
  <2>10. ASSUME InRange(Ref), Calibrated PROVE Carried(env', Ref, bits', nb)
    <3>1. AllInRadix(Ref, nb)
      BY <2>10, InRangeGives
    <3>2. Rescales(nodes, Ref, nb) /\ Carried(env, Ref, bits, nb)
      BY <1>5, <2>10
    <3>3. n.op.type = "Requant" => FloorFits(n.op, bits[n.ins[1]])
      <4> SUFFICES ASSUME n.op.type = "Requant" PROVE FloorFits(n.op, bits[n.ins[1]])
        OBVIOUS
      <4>1. 1 \in DOMAIN n.ins
        <5>1. Len(n.ins) = 1
          BY <2>3 DEF Matched, Arity
        <5>2. QED
          BY <2>2, <5>1 DEF HasLists
      <4>2. bits[n.ins[1]] = Widths(nodes, model)[n.ins[1]]
        BY <1>5, <1>7, <4>1 DEF ToSet
      <4>3. /\ 2 * Magnitude(n.op.clampLo) <= 2^Widths(nodes, model)[n.ins[1]]
            /\ n.op.zeroPoint <= Larger(0, -FloorImage(n.op))
        BY <2>1, <2>10 DEF Calibrated
      <4>4. QED
        BY <4>2, <4>3 DEF FloorFits
    <3>4. n.op.type = "Requant" /\ n.outs[1] \in DOMAIN Ref =>
            RescalesInRadix(n.op, Ref[n.ins[1]], nb)
      BY <2>1, <3>2 DEF Rescales
    <3> DEFINE r == Ref
               w == bits
               e == env
    <3>5. /\ HasLists(n) /\ IsInjective(n.outs) /\ Valid(n.op) /\ Declared(n.op) /\ Matched(n)
          /\ Typed(r) /\ Held(n, r) /\ Wide(w, r) /\ ToSet(n.ins) \subseteq DOMAIN w
          /\ nb \in Nat \ {0} /\ AllInRadix(r, nb)
          /\ (n.op.type = "Requant" /\ n.outs[1] \in DOMAIN r =>
                RescalesInRadix(n.op, r[n.ins[1]], nb) /\ FloorFits(n.op, w[n.ins[1]]))
          /\ ToSet(n.ins) \subseteq DOMAIN e /\ DOMAIN e = DOMAIN w
          /\ TfheDefined(n.op, Operands(n, e), nb) /\ Carried(e, r, w, nb)
      BY <1>4, <1>7, <2>2, <2>3, <2>4, <2>5, <3>1, <3>2, <3>3, <3>4
    <3>6. Carried(Bind(e, n.outs, TfheEval(n.op, Operands(n, e), Operands(n, w), OutWidths(n, w), nb)),
                  r, Widened(n, w), nb)
      <4> HIDE DEF n, nb, r, w, e
      <4>1. QED
        BY ONLY <3>5, EvalCarries
    <3>7. QED
      BY <1>7, <2>6, <3>6
  <2>11. InRange(Ref)' /\ Calibrated' => Carried(env', Ref', bits', model'.numBlocks)
    BY <1>1, <1>2, <2>10
  <2>12. InRange(Ref)' => Rescales(nodes', Ref', model'.numBlocks)
    BY <1>1, <1>2, <1>5
  <2>13. phase' # "fuse"
    BY <1>1, <1>7
  <2>14. QED
    BY <2>8, <2>9, <2>11, <2>12, <2>13 DEF CarryInv
<1>8. QED
  BY <1>3, <1>6, <1>7

(* Every step keeps what was evaluated carried.                            *)
LEMMA CarryStep == Inv /\ WidthInv /\ CarryInv /\ [Next]_vars => CarryInv'
<1> SUFFICES ASSUME Inv, WidthInv, CarryInv, [Next]_vars PROVE CarryInv'
  OBVIOUS
<1>1. CASE Admit
  BY <1>1, CarryAdmit
<1>2. CASE FuseStep
  BY <1>2, CarryFuse
<1>3. CASE StartWalk
  BY <1>3, CarryStart
<1>4. CASE EvalNode
  BY <1>4, CarryEval
<1>5. CASE Finish
  <2>1. phase = "walk" /\ phase' \in {"done", "missing"} /\ UNCHANGED <<model, row, nodes, env, bits>>
    BY <1>5 DEF Finish
  <2>2. /\ Ref' = Ref /\ (InRange(Ref)' <=> InRange(Ref)) /\ (Calibrated' <=> Calibrated)
    BY <2>1, RangeSame, CalibratedSame
  <2>3. /\ DOMAIN env \subseteq DOMAIN bits
        /\ InRange(Ref) /\ Calibrated => Carried(env, Ref, bits, model.numBlocks)
    BY <2>1 DEF CarryInv, Walking
  <2>4. InRange(Ref)' /\ Calibrated' => Carried(env', Ref', bits', model'.numBlocks)
    BY <2>1, <2>2, <2>3
  <2>5. phase' \notin {"fuse", "walk"}
    BY <2>1
  <2>6. QED
    BY <2>1, <2>3, <2>4, <2>5 DEF CarryInv, WidthsKept
<1>6. CASE UNCHANGED vars
  <2>1. UNCHANGED <<model, row, nodes, env, bits, phase>>
    BY <1>6 DEF vars
  <2>2. /\ Ref' = Ref /\ (InRange(Ref)' <=> InRange(Ref)) /\ (Calibrated' <=> Calibrated)
    BY <2>1, RangeSame, CalibratedSame
  <2>3. WidthsKept' /\ Walking' = Walking
    BY <2>1 DEF CarryInv, WidthsKept, Walking, Ended
  <2>4. QED
    BY <2>1, <2>2, <2>3 DEF CarryInv
<1>7. QED
  BY <1>1, <1>2, <1>3, <1>4, <1>5, <1>6 DEF Next, Returned

(* What is carried decrypts to the oracle's values.                        *)
LEMMA LosslessKept == Inv /\ WidthInv /\ CarryInv => Lossless
<1> SUFFICES ASSUME Inv, WidthInv, CarryInv, phase \in Walking, InRange(Ref), Calibrated,
                    NEW t \in DOMAIN env \cap DOMAIN Ref
             PROVE  Clear(env[t]) = Ref[t]
  BY DEF Lossless, Walking
<1>1. Carried(env, Ref, bits, model.numBlocks) /\ t \in DOMAIN bits
  BY DEF CarryInv
<1>2. Wide(bits, Ref) /\ model \in Models
  BY DEF WidthInv, Inv
<1>3. Ref[t] \in Seq(Int) /\ bits[t] \in Nat /\ Carries(env[t], Ref[t], bits[t], model.numBlocks)
  BY <1>1, <1>2 DEF Wide, Below, Carried
<1>4. model.numBlocks \in Nat \ {0}
  BY <1>2, ModelAssumption
<1>5. QED
  BY <1>3, <1>4, CarriesClear

(* Whatever the graph and the row, when a uniform radix would have held    *)
(* the forward pass, every tensor the walk evaluated decrypts to the       *)
(* oracle's value, at the fewer blocks its own width calls for: nothing is *)
(* lost where the TFHE ops trim, extend the sign, sum inputs of one weight *)
(* at their own width or look up one block (width.rs, ops/), after fusion  *)
(* too.                                                                    *)
THEOREM BlocksAreEnough == Spec => []Lossless
  BY LosslessKept, InvInit, InvStep, WidthInit, WidthStep, CarryInit, CarryStep, PTL DEF Spec

(* One rescale, its operand counted with its sign.                         *)
LEMMA RescalesFit ==
  ASSUME NEW op, op.type = "Requant", Valid(op), Declared(op),
         NEW in, RefDefined(op, in), NEW w \in Nat, Below(in[1], w), FloorFits(op, w),
         NEW nb \in Nat \ {0}, RequantPeakBits(op, w + 1) + ZeroPointBits(op) <= Capacity(nb)
  PROVE  RescalesInRadix(op, in[1], nb)
<1> SUFFICES ASSUME NEW i \in DOMAIN in[1]
             PROVE  /\ FitsBlocks(Transient(op, i, in[1][i]), nb)
                    /\ FitsBlocks((Transient(op, i, in[1][i]) \div 2^Channel(op, i).shift) + op.zeroPoint, nb)
  BY DEF RescalesInRadix
<1> DEFINE v == in[1][i]
           B == w + 1
<1>1. in[1] \in Seq(Int) /\ v \in Int /\ Magnitude(v) < 2^w
  BY DEF Below
<1>2. PICK k \in DOMAIN op.channel : Channel(op, i) = op.channel[k]
  BY <1>1, ChannelIs
<1>3. k \in 1 .. Len(op.channel) /\ op.clampLo \in Int
  BY ChannelsAre
<1>4. 2^w \in Nat /\ 2 * Magnitude(op.clampLo) <= 2^w /\ Magnitude(op.clampLo) \in Nat
      /\ op.zeroPoint <= Larger(0, -FloorImage(op))
  BY <1>3, PowerStep, MagnitudeIs DEF FloorFits
<1>5. -(2^w) <= v /\ v < 2^w
  <2> DEFINE F == 2^w
  <2>1. v \in Int /\ Magnitude(v) < F /\ F \in Nat
    BY <1>1, <1>4
  <2> HIDE DEF F, v
  <2>2. -F < v /\ v < F
    BY <2>1, MagnitudeIs
  <2>3. QED
    BY <2>1, <2>2 DEF F
<1>6. B \in Nat \ {0} /\ B - 1 = w
  OBVIOUS
<1>7. RequantPeakBits(op, B) + ZeroPointBits(op) <= 2 * nb
  <2>1. Capacity(nb) = 2 * nb
    BY DEF Capacity, MessageBits
  <2>2. RequantPeakBits(op, B) + ZeroPointBits(op) <= Capacity(nb)
    OBVIOUS
  <2>3. QED
    BY <2>1, <2>2
<1> HIDE DEF B, v
<1>8. /\ -(2^(B - 1)) <= v /\ v < 2^(B - 1) /\ Magnitude(op.clampLo) <= 2^(B - 1)
  BY <1>4, <1>5, <1>6
<1>9. QED
  BY <1>1, <1>3, <1>2, <1>4, <1>6, <1>7, <1>8, RescaleFits DEF v

(* A budget check that counts signs puts the forward pass in range.        *)
LEMMA SpareBitIsEnough ==
  ASSUME model \in Models, WidthInv, SignedBudgetOK, Calibrated
  PROVE  InRange(Ref)
<1> DEFINE ns == model.nodes
           nb == model.numBlocks
           W == Widths(ns, model)
<1>1. /\ IsNodeList(ns) /\ \A i \in DOMAIN ns : Declared(ns[i].op)
      /\ model.inputBits \in Nat /\ model.inputLen \in Nat /\ nb \in Nat \ {0}
  BY ModelAssumption
<1>2. /\ Sortable(ns, model.inputs) /\ \A i \in DOMAIN ns : Valid(ns[i].op) /\ Matched(ns[i])
      /\ \A t \in DOMAIN W : W[t] + 1 <= Capacity(nb)
      /\ \A n \in DOMAIN ns : ns[n].op.type = "Requant" =>
           RequantPeakBits(ns[n].op, W[ns[n].ins[1]] + 1) + ZeroPointBits(ns[n].op) <= Capacity(nb)
  BY DEF SignedBudgetOK, BudgetOK, Propagates
<1>3. row \in Seq(Int) /\ Below(row, model.inputBits)
  BY <1>1, RowIsBelow DEF WidthInv
<1>4. /\ Holds(ns, Ref) /\ Typed(Ref) /\ DOMAIN Ref \subseteq model.inputs \cup Written(ns)
      /\ \A t \in model.inputs : t \in DOMAIN Ref /\ Ref[t] = row
  BY <1>1, <1>2, <1>3, NodesListed, RefHolds, RefFull DEF Ref
<1>5. /\ DOMAIN W = model.inputs \cup Written(ns)
      /\ \A t \in model.inputs : W[t] = model.inputBits
      /\ \A i \in DOMAIN ns : Sized(ns[i], W)
  BY <1>1, <1>2, WidthsHold DEF IsNodeList
<1> DEFINE r == Ref
<1>6. Wide(W, r)
  <2>1. /\ Holds(ns, r) /\ Typed(r) /\ \A t \in model.inputs \cap DOMAIN r : Below(r[t], model.inputBits)
    BY <1>3, <1>4
  <2> HIDE DEF r, W
  <2>2. QED
    BY <1>1, <1>2, <2>1, NodesListed, WidthsAreWide DEF W
<1>c. \A i \in DOMAIN ns : ns[i].op.type = "Requant" => FloorFits(ns[i].op, W[ns[i].ins[1]])
  BY DEF Calibrated, FloorFits
<1> HIDE DEF W
<1>7. \A t \in DOMAIN r : t \in DOMAIN W /\ W[t] \in Nat /\ W[t] + 1 <= 2 * nb /\ Below(r[t], W[t])
  <2> SUFFICES ASSUME NEW t \in DOMAIN r PROVE t \in DOMAIN W /\ W[t] \in Nat /\ W[t] + 1 <= 2 * nb /\ Below(r[t], W[t])
    OBVIOUS
  <2>1. t \in DOMAIN W
    BY <1>4, <1>5
  <2>2. W[t] \in Nat /\ Below(r[t], W[t])
    BY <1>6, <2>1 DEF Wide
  <2>3. W[t] + 1 <= 2 * nb
    <3>1. W[t] + 1 <= Capacity(nb)
      BY <1>2, <2>1
    <3>2. Capacity(nb) = 2 * nb
      BY <1>1 DEF Capacity, MessageBits
    <3>3. QED
      BY <3>1, <3>2
  <2>4. QED
    BY <2>1, <2>2, <2>3
<1>8. AllInRadix(r, nb)
  <2> SUFFICES ASSUME NEW t \in DOMAIN r, NEW i \in DOMAIN r[t] PROVE FitsBlocks(r[t][i], nb)
    BY DEF AllInRadix, InRadix
  <2>1. W[t] \in Nat /\ W[t] + 1 <= 2 * nb /\ Below(r[t], W[t])
    BY <1>7
  <2>2. r[t][i] \in Int /\ Magnitude(r[t][i]) < 2^W[t]
    BY <2>1 DEF Below
  <2> HIDE DEF r, nb
  <2>3. QED
    BY <1>1, <2>1, <2>2, FitsBelow DEF nb
<1>9. Rescales(ns, r, nb)
  <2> SUFFICES ASSUME NEW n \in DOMAIN ns, ns[n].op.type = "Requant", ns[n].outs[1] \in DOMAIN r
               PROVE  RescalesInRadix(ns[n].op, r[ns[n].ins[1]], nb)
    BY DEF Rescales
  <2> DEFINE op == ns[n].op
             in == Operands(ns[n], r)
             b == W[ns[n].ins[1]]
  <2>1. op.type = "Requant" /\ Valid(op) /\ Declared(op) /\ Matched(ns[n]) /\ HasLists(ns[n])
    BY <1>1, <1>2 DEF IsNodeList, IsNode
  <2>2. DOMAIN ns[n].ins = 1 .. 1 /\ DOMAIN ns[n].outs = 1 .. 1
    <3>1. Len(ns[n].ins) = 1 /\ Len(ns[n].outs) = 1
      BY <2>1 DEF Matched, Arity, OutArity
    <3>2. QED
      BY <2>1, <3>1 DEF HasLists
  <2>3. RefKnown(ns[n], r)
    <3>1. ns[n].outs[1] \in ToSet(ns[n].outs)
      BY <2>2 DEF ToSet
    <3>2. Held(ns[n], r)
      BY <1>4 DEF Holds
    <3>3. QED
      BY <3>1, <3>2 DEF Held
  <2>4. RefDefined(op, in) /\ ns[n].ins[1] \in DOMAIN r /\ in[1] = r[ns[n].ins[1]]
    BY <2>2, <2>3 DEF RefKnown, Operands, ToSet
  <2>5. b \in Nat /\ Below(in[1], b)
    BY <1>7, <2>4
  <2>6. FloorFits(op, b)
    BY <1>c, <2>1
  <2>7. RequantPeakBits(op, b + 1) + ZeroPointBits(op) <= Capacity(nb)
    BY <1>2, <2>1
  <2>8. nb \in Nat \ {0}
    BY <1>1
  <2> HIDE DEF op, in, b, nb, r
  <2>9. RescalesInRadix(op, in[1], nb)
    BY <2>1, <2>4, <2>5, <2>6, <2>7, <2>8, RescalesFit
  <2>10. QED
    BY <2>4, <2>9 DEF op
<1>10. QED
  BY <1>8, <1>9 DEF InRange, AllInRadix, InRadix, Rescales, RescalesInRadix

(* The result is what the output was decrypted to.                         *)
OutInv ==
  phase = "done" =>
    model.outputs \subseteq DOMAIN env /\ out = [t \in model.outputs |-> Clear(env[t])]

(* It holds at first, and every step keeps it.                             *)
LEMMA OutInit == Init => OutInv
  BY DEF Init, OutInv

(* Every step keeps it.                                                    *)
LEMMA OutStep == OutInv /\ [Next]_vars => OutInv'
<1> SUFFICES ASSUME OutInv, [Next]_vars PROVE OutInv'
  OBVIOUS
<1>1. CASE Admit
  BY <1>1 DEF Admit, OutInv
<1>2. CASE FuseStep
  BY <1>2 DEF FuseStep, OutInv
<1>3. CASE StartWalk
  BY <1>3 DEF StartWalk, OutInv
<1>4. CASE EvalNode
  <2>1. phase = "walk" /\ (phase' = phase \/ phase' \in {"unread", "panicked"})
    BY <1>4, Zenon DEF EvalNode
  <2>2. QED
    BY <2>1 DEF OutInv
<1>5. CASE Finish
  BY <1>5 DEF Finish, OutInv
<1>6. CASE UNCHANGED vars
  BY <1>6 DEF vars, OutInv
<1>7. QED
  BY <1>1, <1>2, <1>3, <1>4, <1>5, <1>6 DEF Next, Returned

(* For every graph and row: where every tensor's width leaves one bit of   *)
(* the capacity for the sign, and every rescale fits an operand of that    *)
(* signed width with a bit for its zero point if it adds one, no call ever *)
(* returns a value that is not the integer oracle's, in a graph whose      *)
(* rescales are calibrated as the quantizer does it (run_predict,          *)
(* check_graph_bit_width_budget, model.py).  The check as written, which   *)
(* lets a width equal the capacity, does return wrong ones.                *)
THEOREM SpareBitMakesGolden == Spec => []GoldenWithSpareBit
<1>1. Inv /\ WidthInv /\ CarryInv /\ OutInv => GoldenWithSpareBit
  <2> SUFFICES ASSUME Inv, WidthInv, CarryInv, OutInv, phase = "done",
                      SignedBudgetOK, Calibrated, NEW t \in model.outputs \cap DOMAIN Ref
               PROVE  out[t] = Ref[t]
    BY DEF GoldenWithSpareBit, Golden
  <2>1. model \in Models
    BY DEF Inv
  <2>2. InRange(Ref)
    BY <2>1, SpareBitIsEnough
  <2>3. t \in DOMAIN env /\ out[t] = Clear(env[t])
    BY DEF OutInv
  <2>4. Lossless
    BY LosslessKept
  <2>5. QED
    BY <2>2, <2>3, <2>4 DEF Lossless, Ended
<1>2. QED
  BY <1>1, InvInit, InvStep, WidthInit, WidthStep, CarryInit, CarryStep, OutInit, OutStep, PTL DEF Spec

-----------------------------------------------------------------------------
(* What is in the environment.                                             *)

(* Ciphertexts of at most nb blocks, each holding a signed value of its    *)
(* own.                                                                    *)
Ciphertexts(nb) == {ct \in Cts(nb) : FitsBlocks(ct.v, ct.blocks)}

(* What an op is handed: one such tensor per operand, that it accepts, and *)
(* the widths of operands and results.                                     *)
Handed(op, in, b, ob, nb) ==
  /\ Valid(op) /\ Declared(op) /\ nb \in Nat \ {0} /\ TfheDefined(op, in, nb)
  /\ in \in Seq(Seq(Ciphertexts(nb))) /\ Len(in) = Arity(op)
  /\ b \in Seq(Nat) /\ Len(b) = Arity(op)
  /\ op.type # "Split" => ob[1] \in Nat

(* And what it makes of them.                                              *)
Made(op, in, b, ob, nb) ==
  \A j \in 1 .. OutArity(op) : TfheEval(op, in, b, ob, nb)[j] \in Seq(Ciphertexts(nb))

(* A ciphertext holds what is left of an integer in its blocks.            *)
LEMMA CtType ==
  ASSUME NEW nb \in Nat \ {0}, NEW q \in 1 .. nb, NEW v \in Int
  PROVE  Ct(q, v) \in Ciphertexts(nb)
<1>1. Wrap(v, q) \in Int /\ -Half(q) <= Wrap(v, q) /\ Wrap(v, q) < Half(q)
  BY WrapIs
<1>2. Wrap(Wrap(v, q), q) = Wrap(v, q)
  BY <1>1, WrapIs
<1>3. QED
  BY <1>1, <1>2 DEF Ct, Ciphertexts, Cts, FitsBlocks

(* So does a tensor filled with integers.                                  *)
LEMMA FilledType ==
  ASSUME NEW nb \in Nat \ {0}, NEW q \in 1 .. nb, NEW n \in Nat, NEW u, \A i \in 1 .. n : u[i] \in Int,
         NEW T, T = [i \in 1 .. n |-> Ct(q, u[i])]
  PROVE  T \in Seq(Ciphertexts(nb))
<1>1. \A i \in 1 .. n : T[i] \in Ciphertexts(nb)
  BY CtType
<1>2. DOMAIN T = 1 .. n /\ T = [i \in 1 .. n |-> T[i]]
  OBVIOUS
<1>3. QED
  BY <1>1, <1>2

(* What a tensor is, entry by entry.                                       *)
LEMMA TensorIs ==
  ASSUME NEW nb \in Nat \ {0}, NEW x \in Seq(Ciphertexts(nb))
  PROVE  /\ Len(x) \in Nat /\ DOMAIN x = 1 .. Len(x) /\ x \in Seq(Cts(nb))
         /\ \A i \in 1 .. Len(x) : /\ x[i] \in Ciphertexts(nb) /\ x[i].v \in Int
                                   /\ x[i].blocks \in 1 .. nb
                                   /\ \A q \in Nat \ {0} : Resize(x[i], q).v \in Int
<1>1. Len(x) \in Nat /\ DOMAIN x = 1 .. Len(x) /\ \A i \in 1 .. Len(x) : x[i] \in Ciphertexts(nb)
  OBVIOUS
<1>2. \A i \in 1 .. Len(x) : x[i] \in Cts(nb)
  BY <1>1 DEF Ciphertexts
<1>3. \A i \in 1 .. Len(x) : x[i].v \in Int /\ x[i].blocks \in 1 .. nb
  BY <1>2 DEF Cts
<1>4. x \in Seq(Cts(nb))
  BY <1>1, <1>2
<1>5. ASSUME NEW i \in 1 .. Len(x), NEW q \in Nat \ {0} PROVE Resize(x[i], q).v \in Int
  BY <1>3, ResizeIs
<1>6. QED
  BY <1>1, <1>3, <1>4, <1>5

(* The blocks a tensor is trimmed to.                                      *)
LEMMA TensorBlocksType ==
  ASSUME NEW nb \in Nat \ {0}, NEW x \in Seq(Ciphertexts(nb)), NEW b \in Nat, Len(x) # 0
  PROVE  TensorBlocks(x, b, nb) \in 1 .. nb
<1> DEFINE V == ValueBlocks(b, nb)
           n == Len(x)
           f == [i \in 1 .. n |-> Smaller(x[i].blocks, V)]
           S == {f[i] : i \in 1 .. n}
<1>1. n \in Nat \ {0} /\ DOMAIN x = 1 .. n /\ \A i \in 1 .. n : x[i].blocks \in 1 .. nb
  BY TensorIs
<1>2. V \in 1 .. nb
  BY ValueBlocksIs
<1>3. TensorBlocks(x, b, nb) = Max(S)
  <2>1. S = {Min({x[i].blocks, V}) : i \in DOMAIN x}
    BY <1>1 DEF Smaller
  <2>2. QED
    BY <2>1 DEF TensorBlocks
<1> HIDE DEF V, n
<1>4. \A i \in 1 .. n : f[i] \in 1 .. nb
  <2> SUFFICES ASSUME NEW i \in 1 .. n PROVE Smaller(x[i].blocks, V) \in 1 .. nb
    OBVIOUS
  <2>1. x[i].blocks \in 1 .. nb
    BY <1>1
  <2>2. Smaller(x[i].blocks, V) = IF x[i].blocks <= V THEN x[i].blocks ELSE V
    BY <1>2, <2>1, LargerSmaller
  <2>3. QED
    BY <1>2, <2>1, <2>2
<1> HIDE DEF f
<1>5. S \subseteq Int /\ IsFiniteSet(S) /\ S # {}
  <2>1. \A i \in 1 .. n : f[i] \in Int
    BY <1>4
  <2>2. QED
    BY ONLY <1>1, <2>1, SmallSet
<1>6. Max(S) \in S
  <2> HIDE DEF S
  <2>1. QED
    BY <1>5, LargestInteger
<1>7. QED
  BY <1>3, <1>4, <1>6

(* What an op is handed, operand by operand.                               *)
LEMMA HandedIs ==
  ASSUME NEW op, NEW in, NEW b, NEW ob, NEW nb, Handed(op, in, b, ob, nb), op.type # "Concat"
  PROVE  /\ nb \in Nat \ {0} /\ Valid(op) /\ Declared(op) /\ TfheDefined(op, in, nb) /\ ShapeOK(op, in)
         /\ in[1] \in Seq(Ciphertexts(nb)) /\ b[1] \in Nat
         /\ Len(in[1]) \in Nat /\ DOMAIN in[1] = 1 .. Len(in[1])
         /\ op.type # "Split" => /\ ob[1] \in Nat /\ ValueBlocks(ob[1], nb) \in 1 .. nb
                                 /\ OutArity(op) = 1
         /\ op.type = "Add" => in[2] \in Seq(Ciphertexts(nb)) /\ Len(in[2]) = Len(in[1])
<1>1. /\ nb \in Nat \ {0} /\ Valid(op) /\ Declared(op) /\ TfheDefined(op, in, nb)
      /\ in \in Seq(Seq(Ciphertexts(nb))) /\ Len(in) = Arity(op)
      /\ b \in Seq(Nat) /\ Len(b) = Arity(op) /\ (op.type # "Split" => ob[1] \in Nat)
  BY DEF Handed
<1>2. Arity(op) \in Nat \ {0} /\ (op.type = "Add" => Arity(op) = 2)
  BY DEF Arity
<1>3. ShapeOK(op, in)
  BY <1>1 DEF TfheDefined
<1>4. in[1] \in Seq(Ciphertexts(nb)) /\ b[1] \in Nat
  BY <1>1, <1>2
<1>5. op.type = "Add" => in[2] \in Seq(Ciphertexts(nb)) /\ Len(in[2]) = Len(in[1])
  <2> SUFFICES ASSUME op.type = "Add" PROVE in[2] \in Seq(Ciphertexts(nb)) /\ Len(in[2]) = Len(in[1])
    OBVIOUS
  <2>1. in[2] \in Seq(Ciphertexts(nb))
    <3> DEFINE X == Seq(Ciphertexts(nb))
    <3>1. in \in Seq(X) /\ Len(in) = 2
      BY <1>1, <1>2
    <3> HIDE DEF X
    <3>2. in[2] \in X
      BY ONLY <3>1
    <3>3. QED
      BY <3>2 DEF X
  <2>2. Len(in[1]) = Len(in[2])
    BY <1>3 DEF ShapeOK
  <2>3. QED
    BY <2>1, <2>2
<1>6. op.type # "Split" => ValueBlocks(ob[1], nb) \in 1 .. nb /\ OutArity(op) = 1
  BY <1>1, ValueBlocksIs DEF OutArity
<1>7. QED
  BY <1>1, <1>3, <1>4, <1>5, <1>6

(* An op with one result.                                                  *)
LEMMA OneMade ==
  ASSUME NEW op, NEW in, NEW b, NEW ob, NEW nb, OutArity(op) = 1,
         NEW T, TfheEval(op, in, b, ob, nb) = <<T>>, T \in Seq(Ciphertexts(nb))
  PROVE  Made(op, in, b, ob, nb)
  BY DEF Made

(* A table of the message's values.                                        *)
LEMMA LookupType ==
  ASSUME NEW op, NEW in, NEW nb \in Nat \ {0}, op.type \in {"Activation", "Requant"}, Declared(op),
         TfheDefined(op, in, nb), NEW v \in Int
  PROVE  op.lut[(v % 2^MessageBits) + 1] \in Int
<1>1. op.lut \in Seq(Nat) /\ Len(op.lut) = 4
  BY MessageIs DEF Declared, TfheDefined
<1>2. v % 4 \in 0 .. 3
  OBVIOUS
<1> DEFINE k == v % 4
<1>3. k + 1 \in 1 .. 4
  BY <1>2
<1> HIDE DEF k
<1>4. op.lut[k + 1] \in Int
  BY <1>1, <1>3
<1>5. QED
  BY <1>4, MessageValues DEF k

(* An Activation.                                                          *)
LEMMA ActivationMade ==
  ASSUME NEW op, op.type = "Activation", NEW in, NEW b, NEW ob, NEW nb, Handed(op, in, b, ob, nb)
  PROVE  Made(op, in, b, ob, nb)
<1> DEFINE x == in[1]
           o == ValueBlocks(ob[1], nb)
           n == Len(x)
           u == [i \in 1 .. n |-> op.lut[(x[i].v % 2^MessageBits) + 1]]
           T == TfheActivation(op, x, o)
<1>1. /\ nb \in Nat \ {0} /\ Declared(op) /\ TfheDefined(op, in, nb) /\ x \in Seq(Ciphertexts(nb))
      /\ n \in Nat /\ DOMAIN x = 1 .. n /\ o \in 1 .. nb /\ OutArity(op) = 1
  BY HandedIs
<1>2. TfheEval(op, in, b, ob, nb) = <<T>>
  BY DEF TfheEval
<1>3. T = [i \in 1 .. n |-> Ct(o, u[i])]
  BY <1>1 DEF TfheActivation, Lookup
<1>4. ASSUME NEW i \in 1 .. n PROVE u[i] \in Int
  <2>1. x[i].v \in Int
    BY <1>1, TensorIs
  <2> DEFINE v == x[i].v
  <2>2. v \in Int
    BY <2>1
  <2>3. u[i] = op.lut[(v % 2^MessageBits) + 1]
    OBVIOUS
  <2> HIDE DEF v, u
  <2>4. op.lut[(v % 2^MessageBits) + 1] \in Int
    BY <1>1, <2>2, LookupType
  <2>5. QED
    BY <2>3, <2>4
<1> HIDE DEF T, u, o, n
<1>5. T \in Seq(Ciphertexts(nb))
  BY <1>1, <1>3, <1>4, FilledType
<1>6. QED
  BY <1>1, <1>2, <1>5, OneMade

(* The lane of a rescale.                                                  *)
LEMMA LaneType ==
  ASSUME NEW op, op.type = "Requant", Valid(op), Declared(op),
         NEW i, NEW k \in 1 .. Len(op.channel), Channel(op, i) = op.channel[k],
         NEW ct, ct.v \in Int, NEW r \in Nat \ {0}
  PROVE  RescaleLane(op, i, ct, r) \in Int
<1> DEFINE ch == Channel(op, i)
           lo == op.clampLo
           w == Resize(ct, r).v
           L == Larger(w, lo)
           u == L * ch.mult + ch.roundBias
           z == Wrap(u, r)
           d == 2^ch.shift
           s == (z \div d) + op.zeroPoint
           cap == 2^op.outBits - 1
<1>1. lo \in Int /\ op.zeroPoint \in Nat /\ ch \in Channels /\ d \in Nat \ {0}
  BY ChannelsAre
<1>2. w \in Int
  BY ResizeIs
<1>3. RescaleLane(op, i, ct, r) = Smaller(Wrap(s, r), cap)
  BY DEF RescaleLane
<1>4. ch.mult \in Nat /\ ch.roundBias \in Nat
  BY <1>1 DEF Channels
<1>5. cap \in Int
  <2>1. op.outBits \in Nat
    BY DEF Declared
  <2>2. 2^op.outBits \in Nat
    BY <2>1, PowerStep
  <2>3. QED
    BY <2>2
<1> DEFINE mu == ch.mult
           rb == ch.roundBias
           zp == op.zeroPoint
<1>6. u = L * mu + rb /\ s = (z \div d) + zp /\ mu \in Nat /\ rb \in Nat /\ zp \in Nat
  BY <1>1, <1>4
<1> HIDE DEF w, lo, ch, mu, rb, zp, d, cap
<1>7. L \in Int
  BY <1>1, <1>2, LargerSmaller
<1> HIDE DEF L
<1>8. u \in Int
  <2>1. L * mu \in Int
    BY <1>6, <1>7
  <2>2. QED
    BY <1>6, <2>1
<1> HIDE DEF u
<1>9. z \in Int
  BY <1>8, WrapIs
<1> HIDE DEF z
<1>10. s \in Int
  BY <1>1, <1>6, <1>9
<1> HIDE DEF s
<1>11. Wrap(s, r) \in Int
  BY <1>10, WrapIs
<1> DEFINE q == Wrap(s, r)
<1>12. q \in Int
  BY <1>11
<1> HIDE DEF q
<1>13. Smaller(q, cap) \in Int
  BY <1>5, <1>12, LargerSmaller
<1>14. QED
  BY <1>3, <1>13 DEF q

(* A Requant.                                                              *)
LEMMA RequantMade ==
  ASSUME NEW op, op.type = "Requant", NEW in, NEW b, NEW ob, NEW nb, Handed(op, in, b, ob, nb)
  PROVE  Made(op, in, b, ob, nb)
<1> DEFINE x == in[1]
           o == ValueBlocks(ob[1], nb)
           n == Len(x)
           r == RescaleBlocks(op, x, b[1], nb)
           v == [i \in 1 .. n |-> RescaleLane(op, i, x[i], r)]
           u == [i \in 1 .. n |-> op.lut[(v[i] % 2^MessageBits) + 1]]
           T == TfheRequant(op, x, b[1], o, nb)
           y == <<[i \in 1 .. n |-> x[i].v]>>
<1>1. /\ nb \in Nat \ {0} /\ Declared(op) /\ Valid(op) /\ TfheDefined(op, in, nb) /\ ShapeOK(op, in)
      /\ x \in Seq(Ciphertexts(nb)) /\ b[1] \in Nat
      /\ n \in Nat /\ DOMAIN x = 1 .. n /\ o \in 1 .. nb /\ OutArity(op) = 1
  BY HandedIs
<1>2. TfheEval(op, in, b, ob, nb) = <<T>>
  BY DEF TfheEval
<1>3. T = [i \in 1 .. n |-> Ct(o, u[i])]
  BY <1>1 DEF TfheRequant, Lookup
<1>4. \A i \in 1 .. n : x[i].v \in Int
  BY <1>1, TensorIs
<1>5. y[1] \in Seq(Int) /\ Len(y[1]) = n /\ DOMAIN y[1] = 1 .. n /\ Len(y) = 1
  BY <1>1, <1>4
<1>6. RefDefined(op, y)
  <2>1. Len(in) = Arity(op) /\ (op.channelSize # 0 => n = op.channelSize * Len(op.channel))
    BY <1>1 DEF ShapeOK
  <2>2. Arity(op) = 1
    BY DEF Arity
  <2> HIDE DEF y
  <2>3. QED
    BY <1>5, <2>1, <2>2 DEF RefDefined, ShapeOK
<1>7. ASSUME NEW i \in 1 .. n PROVE v[i] \in Int
  <2>0. r \in Nat \ {0}
    <3>1. TensorBlocks(x, b[1], nb) \in 1 .. nb
      <4>1. n # 0
        OBVIOUS
      <4>2. QED
        BY <1>1, <4>1, TensorBlocksType
    <3>2. r \in 1 .. nb
      BY <1>1, <3>1, RescaleBlocksAre
    <3>3. QED
      BY <1>1, <3>2
  <2>1. i \in DOMAIN y[1]
    BY <1>5
  <2> HIDE DEF y
  <2>2. PICK k \in DOMAIN op.channel : Channel(op, i) = op.channel[k]
    BY <1>1, <1>5, <1>6, <2>1, ChannelIs
  <2>3. k \in 1 .. Len(op.channel)
    BY <1>1, ChannelsAre
  <2>4. x[i].v \in Int
    BY <1>4
  <2>5. v[i] = RescaleLane(op, i, x[i], r)
    OBVIOUS
  <2> HIDE DEF v, r
  <2>6. RescaleLane(op, i, x[i], r) \in Int
    BY <1>1, <2>0, <2>2, <2>3, <2>4, LaneType
  <2>7. QED
    BY <2>5, <2>6
<1> HIDE DEF v
<1>8. ASSUME NEW i \in 1 .. n PROVE u[i] \in Int
  <2>1. v[i] \in Int
    BY <1>7
  <2>2. op.lut[(v[i] % 2^MessageBits) + 1] \in Int
    BY <1>1, <2>1, LookupType
  <2>3. QED
    BY <2>2
<1> HIDE DEF T, u, o, n
<1>9. T \in Seq(Ciphertexts(nb))
  BY <1>1, <1>3, <1>8, FilledType
<1>10. QED
  BY <1>1, <1>2, <1>9, OneMade

(* An Add.                                                                 *)
LEMMA AddMade ==
  ASSUME NEW op, op.type = "Add", NEW in, NEW b, NEW ob, NEW nb, Handed(op, in, b, ob, nb)
  PROVE  Made(op, in, b, ob, nb)
<1> DEFINE x == in[1]
           y == in[2]
           o == ValueBlocks(ob[1], nb)
           n == Len(x)
           u == [i \in 1 .. n |-> Resize(x[i], o).v + Resize(y[i], o).v]
           T == TfheAdd(x, y, o)
<1>1. /\ nb \in Nat \ {0} /\ x \in Seq(Ciphertexts(nb)) /\ y \in Seq(Ciphertexts(nb)) /\ Len(y) = n
      /\ n \in Nat /\ DOMAIN x = 1 .. n /\ o \in 1 .. nb /\ OutArity(op) = 1
  BY HandedIs
<1>2. TfheEval(op, in, b, ob, nb) = <<T>>
  BY DEF TfheEval
<1>3. T = [i \in 1 .. n |-> Ct(o, u[i])]
  BY <1>1 DEF TfheAdd
<1>4. ASSUME NEW i \in 1 .. n PROVE u[i] \in Int
  <2>1. o \in Nat \ {0}
    BY <1>1
  <2> HIDE DEF o
  <2>2. Resize(x[i], o).v \in Int /\ Resize(y[i], o).v \in Int
    BY <1>1, <2>1, TensorIs
  <2>3. QED
    BY <2>2
<1> HIDE DEF T, u, o, n
<1>5. T \in Seq(Ciphertexts(nb))
  BY <1>1, <1>3, <1>4, FilledType
<1>6. QED
  BY <1>1, <1>2, <1>5, OneMade

(* A bit.                                                                  *)
LEMMA AtLeastType ==
  ASSUME NEW ct, NEW t, NEW c, NEW nb \in Nat \ {0}, NEW o \in 1 .. nb
  PROVE  AtLeast(ct, t, c, o, nb) \in Ciphertexts(nb)
<1>1. 0 \in Int /\ 1 \in Int
  OBVIOUS
<1>2. Ct(o, 0) \in Ciphertexts(nb) /\ Ct(o, 1) \in Ciphertexts(nb)
  BY <1>1, CtType
<1>3. AtLeast(ct, t, c, o, nb) = Ct(o, 0) \/ AtLeast(ct, t, c, o, nb) = Ct(o, 1)
  BY DEF AtLeast
<1>4. QED
  BY <1>2, <1>3

(* An Argmax.                                                              *)
LEMMA ArgmaxMade ==
  ASSUME NEW op, op.type = "Argmax", NEW in, NEW b, NEW ob, NEW nb, Handed(op, in, b, ob, nb)
  PROVE  Made(op, in, b, ob, nb)
<1> DEFINE x == in[1]
           o == ValueBlocks(ob[1], nb)
           c == TensorBlocks(x, b[1], nb)
           T == TfheArgmax(op, x, c, o, nb)
<1>1. nb \in Nat \ {0} /\ o \in 1 .. nb /\ OutArity(op) = 1
  BY HandedIs
<1>2. TfheEval(op, in, b, ob, nb) = <<T>>
  BY DEF TfheEval
<1>3. T = <<AtLeast(x[1], op.threshold, c, o, nb)>>
  BY DEF TfheArgmax
<1> HIDE DEF T, o, c, x
<1>4. T \in Seq(Ciphertexts(nb))
  <2> DEFINE a == AtLeast(x[1], op.threshold, c, o, nb)
  <2>1. a \in Ciphertexts(nb)
    BY <1>1, AtLeastType
  <2> HIDE DEF a
  <2>2. <<a>> \in Seq(Ciphertexts(nb))
    BY <2>1
  <2>3. QED
    BY <1>3, <2>2 DEF a
<1>5. QED
  BY <1>1, <1>2, <1>4, OneMade

(* A Compare.                                                              *)
LEMMA CompareMade ==
  ASSUME NEW op, op.type = "Compare", NEW in, NEW b, NEW ob, NEW nb, Handed(op, in, b, ob, nb)
  PROVE  Made(op, in, b, ob, nb)
<1> DEFINE x == in[1]
           o == ValueBlocks(ob[1], nb)
           c == TensorBlocks(x, b[1], nb)
           T == TfheCompare(op, x, c, o, nb)
           n == Len(op.indices)
<1>1. nb \in Nat \ {0} /\ Declared(op) /\ o \in 1 .. nb /\ OutArity(op) = 1
  BY HandedIs
<1>2. TfheEval(op, in, b, ob, nb) = <<T>>
  BY DEF TfheEval
<1>3. n \in Nat /\ DOMAIN op.indices = 1 .. n
  BY <1>1 DEF Declared
<1>4. T = [i \in 1 .. n |-> AtLeast(x[op.indices[i]], op.thresholds[i], c, o, nb)]
  BY <1>3 DEF TfheCompare
<1> HIDE DEF T, o, c, x, n
<1>5. \A i \in 1 .. n : T[i] \in Ciphertexts(nb)
  BY <1>1, <1>4, AtLeastType
<1>6. T \in Seq(Ciphertexts(nb))
  BY <1>3, <1>4, <1>5
<1>7. QED
  BY <1>1, <1>2, <1>6, OneMade

(* A Concat.                                                               *)
LEMMA ConcatMade ==
  ASSUME NEW op, op.type = "Concat", NEW in, NEW b, NEW ob, NEW nb, Handed(op, in, b, ob, nb)
  PROVE  Made(op, in, b, ob, nb)
<1> DEFINE o == ValueBlocks(ob[1], nb)
           all == FlattenSeq(in)
           n == Len(all)
           u == [i \in 1 .. n |-> all[i].v]
           T == TfheConcat(in, o)
           C == Ciphertexts(nb)
<1>1. nb \in Nat \ {0} /\ in \in Seq(Seq(C)) /\ ob[1] \in Nat /\ OutArity(op) = 1
  BY DEF Handed, OutArity
<1>2. o \in 1 .. nb
  BY <1>1, ValueBlocksIs
<1>3. all \in Seq(C)
  <2> HIDE DEF C
  <2>1. QED
    BY <1>1, FlattenSeqType, Zenon
<1>4. TfheEval(op, in, b, ob, nb) = <<T>>
  BY DEF TfheEval
<1>5. T = [i \in DOMAIN all |-> Resize(all[i], o)]
  BY DEF TfheConcat
<1> HIDE DEF all, T, o
<1>6. n \in Nat /\ DOMAIN all = 1 .. n /\ \A i \in 1 .. n : u[i] \in Int
  BY <1>1, <1>3, TensorIs
<1>7. T = [i \in 1 .. n |-> Ct(o, u[i])]
  BY <1>5, <1>6 DEF Resize
<1> HIDE DEF n, u, C
<1>8. T \in Seq(Ciphertexts(nb))
  BY <1>1, <1>2, <1>6, <1>7, FilledType
<1>9. QED
  BY <1>1, <1>4, <1>8, OneMade

(* A Split.                                                                *)
LEMMA SplitMade ==
  ASSUME NEW op, op.type = "Split", NEW in, NEW b, NEW ob, NEW nb, Handed(op, in, b, ob, nb)
  PROVE  Made(op, in, b, ob, nb)
<1> DEFINE x == in[1]
           c == TensorBlocks(x, b[1], nb)
           n == Len(x)
           R == [i \in DOMAIN x |-> Resize(x[i], c)]
<1>1. /\ nb \in Nat \ {0} /\ Declared(op) /\ Valid(op) /\ ShapeOK(op, in)
      /\ x \in Seq(Ciphertexts(nb)) /\ b[1] \in Nat /\ n \in Nat /\ DOMAIN x = 1 .. n
  BY HandedIs
<1>2. n = SumFunction(op.sizes)
  BY <1>1 DEF ShapeOK
<1>3. op.sizes \in Seq(Nat) /\ \A i \in DOMAIN op.sizes : op.sizes[i] > 0
  BY <1>1 DEF Declared, Valid
<1>4. TfheEval(op, in, b, ob, nb) = Segments(R, op.sizes)
  BY DEF TfheEval, TfheSplit
<1>5. ASSUME NEW s \in 1 .. OutArity(op)
      PROVE  TfheEval(op, in, b, ob, nb)[s] \in Seq(Ciphertexts(nb))
  <2> DEFINE a == Start(op.sizes, s)
             m == op.sizes[s]
  <2>1. s \in DOMAIN op.sizes /\ m \in Nat \ {0}
    BY <1>3 DEF OutArity
  <2>2. a \in Nat /\ a + m <= n
    BY <1>2, <1>3, <2>1, PartsInside
  <2>3. TfheEval(op, in, b, ob, nb)[s] = SubSeq(R, a + 1, a + m)
    BY <1>4, <2>1 DEF Segments, Segment
  <2>4. c \in 1 .. nb
    <3>1. n # 0
      <4> HIDE DEF a, m
      <4>1. QED
        BY <1>1, <2>1, <2>2
    <3>2. QED
      BY <1>1, <3>1, TensorBlocksType
  <2> DEFINE u == [i \in 1 .. n |-> x[i].v]
  <2>5. R = [i \in 1 .. n |-> Ct(c, u[i])] /\ \A i \in 1 .. n : u[i] \in Int
    BY <1>1, TensorIs DEF Resize
  <2> HIDE DEF R, u, c, n, a, m
  <2>6. R \in Seq(Ciphertexts(nb)) /\ Len(R) = n
    <3>1. R \in Seq(Ciphertexts(nb))
      BY <1>1, <2>4, <2>5, FilledType
    <3>2. DOMAIN R = 1 .. n
      BY <2>5
    <3> DEFINE C == Ciphertexts(nb)
    <3>3. R \in Seq(C)
      BY <3>1
    <3> HIDE DEF C
    <3>4. Len(R) = n
      BY ONLY <3>2, <3>3, <1>1
    <3>5. QED
      BY <3>1, <3>4
  <2>7. SubSeq(R, a + 1, a + m) \in Seq(Ciphertexts(nb))
    BY <1>1, <2>1, <2>2, <2>6
  <2>8. QED
    BY <2>3, <2>7
<1>6. QED
  BY <1>5 DEF Made

(* The sum of a group.                                                     *)
LEMMA GroupSumType ==
  ASSUME NEW nb \in Nat \ {0}, NEW x \in Seq(Ciphertexts(nb)), NEW b \in Nat,
         NEW G, IsFiniteSet(G), G \subseteq 1 .. Len(x), NEW acc \in Nat \ {0}
  PROVE  GroupSum(G, x, b, acc) \in Int
<1> DEFINE n == Cardinality(G)
           e == b + CeilLog2(n)
           q == ValueBlocks(e, acc)
           v == [i \in G |-> Resize(x[i], q).v]
           s == SumFunctionOnSet(v, G)
<1>1. n \in Nat
  BY FS_CardinalityType, Zenon
<1>2. CeilLog2(n) \in Nat
  BY <1>1, CeilLog2Holds
<1>3. GroupSum(G, x, b, acc) = Wrap(s, q)
  BY DEF GroupSum
<1> HIDE DEF n
<1>4. e \in Nat
  BY <1>2
<1> HIDE DEF e
<1>5. q \in Nat \ {0}
  <2>1. ValueBlocks(e, acc) \in 1 .. acc
    BY ONLY <1>4, acc \in Nat \ {0}, ValueBlocksIs
  <2>2. QED
    BY <2>1
<1> HIDE DEF q
<1>6. \A i \in G : v[i] \in Int
  BY <1>5, TensorIs
<1> HIDE DEF v
<1>7. s \in Int
  BY <1>6, SumType
<1> HIDE DEF s
<1>8. QED
  BY <1>3, <1>5, <1>7, WrapIs

(* A sum of products, with the products of a weight taken together.        *)
LEMMA MacSumType ==
  ASSUME NEW nb \in Nat \ {0}, NEW x \in Seq(Ciphertexts(nb)), NEW b \in Nat,
         NEW A, IsFiniteSet(A), NEW key, NEW pos,
         \A a \in A : key[a] \in Int /\ pos[a] \in 1 .. Len(x),
         NEW taps, taps = TapsOf(A, key, pos),
         NEW beta \in Int, NEW acc \in Nat \ {0}
  PROVE  MacSum(Groups(taps), beta, x, b, acc) \in Int
<1> DEFINE K == Keys(A, key)
           G(w) == Images(pos, Keyed(A, key, w))
           u == [w \in K |-> w * GroupSum(G(w), x, b, acc)]
<1>1. K \subseteq Int /\ IsFiniteSet(K)
  <2> DEFINE k == [a \in A |-> key[a]]
             KK == {key[a] : a \in A}
  <2>1. k \in Surjection(A, KK)
    BY DEF Surjection
  <2>2. K \in SUBSET KK /\ K \subseteq Int
    BY DEF Keys
  <2> HIDE DEF k, KK, K
  <2>3. IsFiniteSet(KK)
    BY <2>1, FS_Surjection, Zenon
  <2>4. IsFiniteSet(K)
    BY <2>2, <2>3, FS_Subset, Zenon
  <2>5. QED
    BY <2>2, <2>4
<1>2. ASSUME NEW w \in K PROVE IsFiniteSet(G(w)) /\ G(w) \subseteq 1 .. Len(x)
  <2> DEFINE B == Keyed(A, key, w)
             h == [a \in B |-> pos[a]]
  <2>1. B \in SUBSET A
    BY DEF Keyed
  <2>2. G(w) = Images(pos, B)
    OBVIOUS
  <2> HIDE DEF B, K, G
  <2>3. IsFiniteSet(B)
    BY <2>1, FS_Subset, Zenon
  <2>4. G(w) \subseteq 1 .. Len(x)
    BY <2>1, <2>2 DEF Images
  <2>5. h \in Surjection(B, G(w))
    BY <2>2 DEF Surjection, Images
  <2> HIDE DEF h
  <2>6. IsFiniteSet(G(w))
    BY <2>3, <2>5, FS_Surjection, Zenon
  <2>7. QED
    BY <2>4, <2>6
<1>3. ASSUME NEW w \in K PROVE u[w] \in Int
  <2> DEFINE S == GroupSum(G(w), x, b, acc)
  <2>1. u[w] = w * S /\ w \in Int
    BY <1>1
  <2>2. IsFiniteSet(G(w)) /\ G(w) \subseteq 1 .. Len(x)
    BY <1>2
  <2> HIDE DEF G, K, u
  <2>3. S \in Int
    BY <2>2, GroupSumType
  <2> HIDE DEF S
  <2>4. QED
    BY <2>1, <2>3
<1>4. DOMAIN Groups(taps) = K /\ \A w \in K : Groups(taps)[w] = G(w)
  <2>1. taps = TapsOf(A, key, pos)
    OBVIOUS
  <2>2. DOMAIN Groups(taps) = Keys(A, key)
    BY ONLY <2>1, GroupsAre
  <2>3. \A w \in Keys(A, key) : Groups(taps)[w] = Images(pos, Keyed(A, key, w))
    BY ONLY <2>1, GroupsAre
  <2>4. QED
    BY <2>2, <2>3
<1>5. MacSum(Groups(taps), beta, x, b, acc) = beta + SumFunctionOnSet(u, K)
  <2>1. [w \in DOMAIN Groups(taps) |-> w * GroupSum(Groups(taps)[w], x, b, acc)] = u
    <3> HIDE DEF K, G
    <3>1. QED
      BY <1>4
  <2>2. DOMAIN u = K
    OBVIOUS
  <2> HIDE DEF u, K
  <2>3. QED
    BY <2>1, <2>2 DEF MacSum, SumFunction
<1> HIDE DEF K, u
<1>6. SumFunctionOnSet(u, K) \in Int
  BY <1>1, <1>3, SumType
<1> DEFINE s == SumFunctionOnSet(u, K)
<1> HIDE DEF s
<1>7. beta + s \in Int
  BY <1>6 DEF s
<1>8. QED
  BY <1>5, <1>7 DEF s

(* A Linear.                                                               *)
LEMMA LinearMade ==
  ASSUME NEW op, op.type = "Linear", NEW in, NEW b, NEW ob, NEW nb, Handed(op, in, b, ob, nb)
  PROVE  Made(op, in, b, ob, nb)
<1> DEFINE x == in[1]
           acc == SignedBlocks(ob[1], nb)
           n == Len(op.weights)
           u == [r \in 1 .. n |-> MacSum(Groups(LinearTaps(op, r)), op.bias[r], x, b[1], acc)]
           T == TfheLinear(op, x, b[1], acc)
<1>1. /\ nb \in Nat \ {0} /\ Declared(op) /\ Valid(op) /\ ShapeOK(op, in)
      /\ x \in Seq(Ciphertexts(nb)) /\ b[1] \in Nat /\ Len(x) \in Nat /\ ob[1] \in Nat /\ OutArity(op) = 1
  BY HandedIs
<1>2. /\ op.bias \in Seq(Int) /\ op.weights \in Seq(Seq(Int)) /\ Len(op.weights) = Len(op.bias)
      /\ \A r \in DOMAIN op.weights : Len(op.weights[r]) = Len(op.weights[1])
  BY <1>1 DEF Declared, Valid, ValidMac
<1>3. Len(op.weights[1]) = Len(x)
  BY <1>1 DEF ShapeOK
<1>4. n \in Nat /\ DOMAIN op.weights = 1 .. n /\ DOMAIN op.bias = 1 .. n
  BY <1>2
<1>5. acc \in 1 .. nb
  BY <1>1, SignedBlocksIs
<1>6. TfheEval(op, in, b, ob, nb) = <<T>>
  BY DEF TfheEval
<1>7. T = [r \in 1 .. n |-> Ct(acc, u[r])]
  BY <1>4 DEF TfheLinear, WeightedMac, MacSum
<1>8. ASSUME NEW r \in 1 .. n PROVE u[r] \in Int
  <2> DEFINE wts == op.weights[r]
             A == DOMAIN wts
             pos == [i \in A |-> i]
             taps == LinearTaps(op, r)
             beta == op.bias[r]
             b1 == b[1]
  <2>1. wts \in Seq(Int) /\ Len(wts) = Len(x) /\ beta \in Int
    BY <1>2, <1>3, <1>4
  <2>2. taps = {<<wts[i], i>> : i \in A}
    BY DEF LinearTaps
  <2>3. taps = TapsOf(A, wts, pos)
    <3>1. \A i \in A : pos[i] = i
      OBVIOUS
    <3> HIDE DEF pos, A, taps, wts
    <3>2. QED
      BY <2>2, <3>1 DEF TapsOf
  <2>4. u[r] = MacSum(Groups(taps), beta, x, b1, acc)
    OBVIOUS
  <2>5. \A a \in A : pos[a] = a
    OBVIOUS
  <2>6. acc \in Nat \ {0} /\ b1 \in Nat
    BY <1>1, <1>5
  <2> HIDE DEF taps, beta, wts, u, b1, acc, x
  <2>7. A = 1 .. Len(x) /\ \A i \in A : wts[i] \in Int
    BY <1>1, <2>1
  <2>8. IsFiniteSet(A)
    <3>1. 1 \in Int /\ Len(x) \in Int
      BY <1>1
    <3>2. IsFiniteSet(1 .. Len(x))
      BY <3>1, FS_Interval, Zenon
    <3>3. QED
      BY <2>7, <3>2
  <2> HIDE DEF pos, A
  <2>9. \A a \in A : wts[a] \in Int /\ pos[a] \in 1 .. Len(x)
    BY <2>5, <2>7
  <2>10. MacSum(Groups(taps), beta, x, b1, acc) \in Int
    BY ONLY <1>1, <2>1, <2>3, <2>6, <2>8, <2>9, MacSumType
  <2>11. QED
    BY <2>4, <2>10
<1> HIDE DEF T, u, acc, n
<1>9. T \in Seq(Ciphertexts(nb))
  BY <1>1, <1>4, <1>5, <1>7, <1>8, FilledType
<1>10. QED
  BY <1>1, <1>6, <1>9, OneMade

(* An output of a convolution.                                             *)
LEMMA ConvRowType ==
  ASSUME NEW op, NEW g, g = op.geom, g \in Geometries,
         NEW wts \in Seq(Int), Len(wts) = g.chans * g.kH * g.kW, NEW r \in Nat,
         wts = op.weights[PlaneOf(g, r) + 1], RowOf(g, r) \in Nat, ColOf(g, r) \in Nat,
         NEW nb \in Nat \ {0}, NEW x \in Seq(Ciphertexts(nb)), Len(x) = InputLen(g), NEW b \in Nat,
         NEW beta \in Int, NEW acc \in Nat \ {0}
  PROVE  MacSum(Groups(ConvTaps(op, r)), beta, x, b, acc) \in Int
<1> DEFINE A == Under(g, r)
           C == 0 .. g.chans - 1
           oy == RowOf(g, r)
           ox == ColOf(g, r)
           R == Reached(g, oy, ox)
           key == [a \in A |-> wts[WeightAt(g, a[1], a[2])]]
           pos == [a \in A |-> InputAt(g, a[1], oy, ox, a[2])]
           taps == ConvTaps(op, r)
<1>1. \A a \in A : /\ key[a] = wts[WeightAt(g, a[1], a[2])]
                   /\ pos[a] = InputAt(g, a[1], oy, ox, a[2])
  OBVIOUS
<1>2. A = C \X R
  BY DEF Under
<1> HIDE DEF key, pos, A
<1>3. taps = TapsOf(A, key, pos)
  <2>1. Tapped(op, r, A, key, pos)
    BY <1>1, <1>2 DEF Tapped
  <2>2. QED
    BY ONLY <2>1, ConvTapsAre DEF taps
<1>4. \A a \in A : a[1] \in C /\ a[2] \in R
  BY <1>2
<1>5. ASSUME NEW a \in A
      PROVE  key[a] \in Int /\ pos[a] \in 1 .. Len(x)
  <2>1. a[1] \in 0 .. g.chans - 1 /\ a[2] \in R
    BY <1>4
  <2>2. a[2] \in (0 .. g.kH - 1) \X (0 .. g.kW - 1)
    BY <2>1 DEF Reached
  <2> DEFINE i == WeightAt(g, a[1], a[2])
             j == InputAt(g, a[1], oy, ox, a[2])
  <2>3. i \in 1 .. Len(wts)
    BY <2>1, <2>2, WeightOfOffset
  <2>4. j \in 1 .. Len(x)
    BY <2>1, ReachedInput
  <2>5. key[a] = wts[i] /\ pos[a] = j
    BY <1>1
  <2> HIDE DEF i, j
  <2>6. QED
    BY <2>3, <2>4, <2>5
<1>6. IsFiniteSet(A)
  BY <1>2, OffsetsCount
<1> HIDE DEF taps, C, R, oy, ox
<1>7. \A a \in A : key[a] \in Int /\ pos[a] \in 1 .. Len(x)
  BY <1>5
<1>8. nb \in Nat \ {0} /\ x \in Seq(Ciphertexts(nb)) /\ b \in Nat /\ beta \in Int /\ acc \in Nat \ {0}
  OBVIOUS
<1>9. MacSum(Groups(taps), beta, x, b, acc) \in Int
  BY ONLY <1>3, <1>6, <1>7, <1>8, MacSumType
<1>10. QED
  BY <1>9 DEF taps

(* A Conv2d.                                                               *)
LEMMA ConvMade ==
  ASSUME NEW op, op.type = "Conv2d", NEW in, NEW b, NEW ob, NEW nb, Handed(op, in, b, ob, nb)
  PROVE  Made(op, in, b, ob, nb)
<1> DEFINE x == in[1]
           g == op.geom
           acc == SignedBlocks(ob[1], nb)
           m == Len(op.weights)
           n == m * Plane(g)
           u == [r \in 1 .. n |->
                   MacSum(Groups(ConvTaps(op, r)), op.bias[PlaneOf(g, r) + 1], x, b[1], acc)]
           T == TfheConv(op, x, b[1], acc)
<1>1. /\ nb \in Nat \ {0} /\ Declared(op) /\ Valid(op) /\ ShapeOK(op, in)
      /\ x \in Seq(Ciphertexts(nb)) /\ b[1] \in Nat /\ ob[1] \in Nat /\ OutArity(op) = 1
  BY HandedIs
<1>2. /\ op.bias \in Seq(Int) /\ op.weights \in Seq(Seq(Int))
      /\ m = Len(op.bias) /\ g \in Geometries /\ ValidShape(g)
      /\ \A r \in DOMAIN op.weights : Len(op.weights[r]) = Len(op.weights[1])
      /\ Len(op.weights[1]) = g.chans * g.kH * g.kW
  BY <1>1 DEF Declared, Valid, ValidConv, ValidMac, Geometries
<1>3. Len(x) = InputLen(g)
  BY <1>1 DEF ShapeOK
<1>4. m \in Nat /\ DOMAIN op.weights = 1 .. m /\ DOMAIN op.bias = 1 .. m
  BY <1>2
<1>5. acc \in 1 .. nb
  BY <1>1, SignedBlocksIs
<1>6. TfheEval(op, in, b, ob, nb) = <<T>>
  BY DEF TfheEval
<1>7. T = [r \in 1 .. n |-> Ct(acc, u[r])]
  BY DEF TfheConv, WeightedMac, MacSum
<1>8. n \in Nat
  <2> DEFINE p == Plane(g)
  <2>1. p \in Nat
    <3>1. g.chans \in Nat
      BY <1>2 DEF Geometries
    <3>2. QED
      BY <1>2, <3>1, PositionsAre
  <2> HIDE DEF p, m
  <2>2. m * p \in Nat
    BY <1>4, <2>1
  <2>3. QED
    BY <2>2 DEF p
<1>9. ASSUME NEW r \in 1 .. n PROVE u[r] \in Int
  <2> DEFINE wts == op.weights[PlaneOf(g, r) + 1]
             beta == op.bias[PlaneOf(g, r) + 1]
             b1 == b[1]
  <2>1. PlaneOf(g, r) \in 0 .. m - 1 /\ RowOf(g, r) \in Nat /\ ColOf(g, r) \in Nat
    BY <1>2, <1>4, OutputPlace
  <2>2. PlaneOf(g, r) + 1 \in 1 .. m
    <3> DEFINE pl == PlaneOf(g, r)
    <3>1. pl \in 0 .. m - 1
      BY <2>1
    <3> HIDE DEF pl, m
    <3>2. pl + 1 \in 1 .. m
      BY <1>4, <3>1
    <3>3. QED
      BY <3>2 DEF pl
  <2>3. wts \in Seq(Int) /\ beta \in Int /\ Len(wts) = g.chans * g.kH * g.kW
    <3> DEFINE i == PlaneOf(g, r) + 1
    <3>1. i \in DOMAIN op.weights /\ i \in DOMAIN op.bias
      BY <1>4, <2>2
    <3> HIDE DEF i
    <3>2. op.weights[i] \in Seq(Int) /\ op.bias[i] \in Int
      BY <1>2, <3>1
    <3>3. Len(op.weights[i]) = Len(op.weights[1])
      BY <1>2, <3>1
    <3>4. QED
      BY <1>2, <3>2, <3>3 DEF i
  <2>4. /\ u[r] = MacSum(Groups(ConvTaps(op, r)), beta, x, b1, acc)
        /\ r \in Nat /\ wts = op.weights[PlaneOf(g, r) + 1] /\ g = op.geom /\ b1 \in Nat
        /\ acc \in Nat \ {0}
    BY <1>1, <1>5
  <2> HIDE DEF wts, beta, b1, g, u, m, x, acc, n
  <2>5. MacSum(Groups(ConvTaps(op, r)), beta, x, b1, acc) \in Int
    BY ONLY <1>1, <1>2, <1>3, <2>1, <2>3, <2>4, ConvRowType
  <2>6. QED
    BY <2>4, <2>5
<1> HIDE DEF T, u, acc, n
<1>10. T \in Seq(Ciphertexts(nb))
  BY <1>1, <1>5, <1>7, <1>8, <1>9, FilledType
<1>11. QED
  BY <1>1, <1>6, <1>10, OneMade

(* A Pool: sums at the blocks of its output, or the largest at those of    *)
(* its input.                                                              *)
LEMMA PoolMade ==
  ASSUME NEW op, op.type = "Pool", NEW in, NEW b, NEW ob, NEW nb, Handed(op, in, b, ob, nb)
  PROVE  Made(op, in, b, ob, nb)
<1> DEFINE x == in[1]
           g == op.geom
           o == ValueBlocks(ob[1], nb)
           c == TensorBlocks(x, b[1], nb)
           n == g.chans * Plane(g)
           v == [i \in DOMAIN x |-> Resize(x[i], o).v]
           T == TfhePool(op, x, o, c)
<1>1. /\ nb \in Nat \ {0} /\ Declared(op) /\ Valid(op) /\ ShapeOK(op, in)
      /\ x \in Seq(Ciphertexts(nb)) /\ b[1] \in Nat /\ Len(x) \in Nat /\ DOMAIN x = 1 .. Len(x)
      /\ o \in 1 .. nb /\ OutArity(op) = 1
  BY HandedIs
<1>2. g \in Geometries /\ ValidShape(g) /\ g.pad < g.kH /\ g.pad < g.kW
  BY <1>1 DEF Declared, Geometries, Valid, ValidPool
<1>3. Len(x) = InputLen(g)
  BY <1>1 DEF ShapeOK
<1>4. n \in Nat
  <2>1. g.chans \in Nat
    BY <1>2 DEF Geometries
  <2>2. Plane(g) \in Nat \ {0}
    BY <1>2, <2>1, PositionsAre
  <2>3. QED
    BY <2>1, <2>2
<1>5. TfheEval(op, in, b, ob, nb) = <<T>>
  BY DEF TfheEval
<1>6. ASSUME NEW r \in 1 .. n
      PROVE  IsFiniteSet(Window(g, r)) /\ Window(g, r) # {} /\ Window(g, r) \subseteq 1 .. Len(x)
  <2> HIDE DEF g, x
  <2>1. QED
    BY <1>2, <1>3, WindowIs
<1>7. CASE op.mode = "avg"
  <2> DEFINE u == [r \in 1 .. n |-> SumFunctionOnSet(v, Window(g, r))]
  <2>1. T = [r \in 1 .. n |-> Ct(o, u[r])]
    BY <1>7 DEF TfhePool
  <2>2. \A i \in 1 .. Len(x) : v[i] \in Int
    <3>1. o \in Nat \ {0}
      BY <1>1
    <3> HIDE DEF o
    <3>2. QED
      BY <1>1, <3>1, TensorIs
  <2> HIDE DEF v, n, g, x
  <2>3. ASSUME NEW r \in 1 .. n PROVE u[r] \in Int
    <3> DEFINE W == Window(g, r)
    <3>1. IsFiniteSet(W) /\ \A i \in W : v[i] \in Int
      BY <1>6, <2>2
    <3>2. u[r] = SumFunctionOnSet(v, W)
      OBVIOUS
    <3> HIDE DEF W, u
    <3>3. QED
      BY <3>1, <3>2, SumType
  <2> HIDE DEF T, u, o
  <2>4. T \in Seq(Ciphertexts(nb))
    BY <1>1, <1>4, <2>1, <2>3, FilledType
  <2>5. QED
    BY <1>1, <1>5, <2>4, OneMade
<1>8. CASE op.mode # "avg"
  <2> DEFINE u == [r \in 1 .. n |-> Max({Resize(x[i], c).v : i \in Window(g, r)})]
  <2>1. T = [r \in 1 .. n |-> Ct(c, u[r])]
    BY <1>8 DEF TfhePool
  <2>2. Len(x) # 0
    <3>1. g.chans \in Nat \ {0} /\ g.inH \in Nat \ {0} /\ g.inW \in Nat \ {0}
      BY <1>2 DEF Geometries, ValidShape
    <3>2. g.chans * g.inH \in Nat \ {0}
      BY <3>1
    <3>3. g.chans * g.inH * g.inW \in Nat \ {0}
      BY <3>1, <3>2
    <3>4. QED
      BY <1>3, <3>3 DEF InputLen
  <2>3. c \in 1 .. nb
    BY <1>1, <2>2, TensorBlocksType
  <2>4. c \in Nat \ {0}
    BY <1>1, <2>3
  <2> HIDE DEF c, n, g
  <2>5. \A i \in 1 .. Len(x) : Resize(x[i], c).v \in Int
    BY <1>1, <2>4, TensorIs
  <2>6. ASSUME NEW r \in 1 .. n PROVE u[r] \in Int
    <3> DEFINE W == Window(g, r)
               S == {Resize(x[i], c).v : i \in W}
               h == [i \in W |-> Resize(x[i], c).v]
    <3>1. u[r] = Max(S)
      OBVIOUS
    <3>2. IsFiniteSet(W) /\ W # {} /\ W \subseteq 1 .. Len(x)
      BY <1>6
    <3> HIDE DEF W, u, x
    <3>3. h \in Surjection(W, S)
      BY DEF Surjection
    <3>4. S \subseteq Int /\ S # {}
      BY <2>5, <3>2
    <3> HIDE DEF S, h
    <3>5. IsFiniteSet(S)
      BY <3>2, <3>3, FS_Surjection, Zenon
    <3>6. QED
      BY <3>1, <3>4, <3>5, LargestInteger
  <2> HIDE DEF T, u
  <2>7. T \in Seq(Ciphertexts(nb))
    BY <1>1, <1>4, <2>1, <2>3, <2>6, FilledType
  <2>8. QED
    BY <1>1, <1>5, <2>7, OneMade
<1>9. QED
  BY <1>7, <1>8

(* Every op makes ciphertexts of its operands.                             *)
LEMMA OpMade ==
  ASSUME NEW op, NEW in, NEW b, NEW ob, NEW nb, Handed(op, in, b, ob, nb)
  PROVE  Made(op, in, b, ob, nb)
<1>1. op.type \in {"Linear", "Conv2d", "Activation", "Requant", "Pool", "Add", "Argmax", "Compare",
                   "Concat", "Split"}
  BY DEF Handed, Declared, OpTypes
<1>2. CASE op.type \in {"Linear", "Conv2d", "Activation"}
  BY <1>2, LinearMade, ConvMade, ActivationMade
<1>3. CASE op.type \in {"Requant", "Pool", "Add", "Argmax"}
  BY <1>3, RequantMade, PoolMade, AddMade, ArgmaxMade
<1>4. CASE op.type \in {"Compare", "Concat", "Split"}
  BY <1>4, CompareMade, ConcatMade, SplitMade
<1>5. QED
  BY <1>1, <1>2, <1>3, <1>4

(* Every tensor at hand is one of ciphertexts, every width a number.       *)
Encrypted(e, nb) == \A t \in DOMAIN e : e[t] \in Seq(Ciphertexts(nb))

Counted(w) == \A t \in DOMAIN w : w[t] \in Nat

(* One node of the walk keeps that.                                        *)
LEMMA EvalTyped ==
  ASSUME NEW n, HasLists(n), IsInjective(n.outs), Valid(n.op), Declared(n.op), Matched(n),
         NEW nb \in Nat \ {0}, NEW e, Encrypted(e, nb), NEW w, Counted(w),
         ToSet(n.ins) \subseteq DOMAIN e \cap DOMAIN w, TfheDefined(n.op, Operands(n, e), nb)
  PROVE  /\ Encrypted(Bind(e, n.outs, TfheEval(n.op, Operands(n, e), Operands(n, w), OutWidths(n, w), nb)), nb)
         /\ Counted(Bind(w, n.outs, OutWidths(n, w)))
<1> DEFINE op == n.op
           in == Operands(n, e)
           b == Operands(n, w)
           ob == OutWidths(n, w)
           y == TfheEval(op, in, b, ob, nb)
           f == Bind(e, n.outs, y)
           v == Bind(w, n.outs, ob)
<1>1. /\ DOMAIN n.outs = 1 .. OutArity(op) /\ DOMAIN n.ins = 1 .. Len(n.ins) /\ Len(n.ins) \in Nat
      /\ Len(n.ins) = Arity(op)
  BY DEF HasLists, Matched
<1>2. \A k \in 1 .. Len(n.ins) : in[k] \in Seq(Ciphertexts(nb)) /\ b[k] \in Nat
  BY <1>1 DEF Operands, ToSet, Encrypted, Counted
<1>3. in = [k \in 1 .. Len(n.ins) |-> in[k]] /\ b = [k \in 1 .. Len(n.ins) |-> b[k]]
  BY <1>1 DEF Operands
<1>4. \A k \in DOMAIN n.outs : ob[k] = OutputBits(op, b)
  BY DEF OutWidths
<1>5. TfheDefined(op, in, nb) /\ Valid(op) /\ Declared(op)
  OBVIOUS
<1>6. /\ DOMAIN f = DOMAIN e \cup ToSet(n.outs)
      /\ \A k \in DOMAIN n.outs : f[n.outs[k]] = y[k]
      /\ \A t \in DOMAIN e \ ToSet(n.outs) : f[t] = e[t]
  <2>1. Binds(Bind(e, n.outs, y), e, n.outs, y)
    BY BindValues
  <2>2. QED
    BY <2>1 DEF Binds
<1>7. /\ DOMAIN v = DOMAIN w \cup ToSet(n.outs)
      /\ \A k \in DOMAIN n.outs : v[n.outs[k]] = ob[k]
      /\ \A t \in DOMAIN w \ ToSet(n.outs) : v[t] = w[t]
  <2>1. Binds(Bind(w, n.outs, ob), w, n.outs, ob)
    BY BindValues
  <2>2. QED
    BY <2>1 DEF Binds
<1> HIDE DEF in, b, ob, y, f, v
<1>8. in \in Seq(Seq(Ciphertexts(nb))) /\ Len(in) = Arity(op)
  <2> DEFINE X == Seq(Ciphertexts(nb))
             l == Len(n.ins)
  <2>1. l \in Nat /\ in = [k \in 1 .. l |-> in[k]] /\ \A k \in 1 .. l : in[k] \in X
    BY <1>1, <1>2, <1>3
  <2>2. l = Arity(op)
    BY <1>1
  <2> HIDE DEF X, l
  <2>3. in \in Seq(X) /\ Len(in) = l
    BY ONLY <2>1
  <2>4. QED
    BY <2>2, <2>3 DEF X
<1>9. b \in Seq(Nat) /\ Len(b) = Arity(op)
  <2> DEFINE l == Len(n.ins)
  <2>1. l \in Nat /\ b = [k \in 1 .. l |-> b[k]] /\ \A k \in 1 .. l : b[k] \in Nat
    BY <1>1, <1>2, <1>3
  <2>2. l = Arity(op)
    BY <1>1
  <2> HIDE DEF l
  <2>3. b \in Seq(Nat) /\ Len(b) = l
    BY ONLY <2>1
  <2>4. QED
    BY <2>2, <2>3
<1> HIDE DEF op
<1>10. OutputBits(op, b) \in Nat
  BY <1>5, <1>9, OutputBitsType
<1>11. Handed(op, in, b, ob, nb)
  <2>1. op.type # "Split" => ob[1] \in Nat
    BY <1>1, <1>4, <1>10 DEF OutArity
  <2>2. QED
    BY <1>5, <1>8, <1>9, <2>1 DEF Handed
<1>12. \A k \in DOMAIN n.outs : y[k] \in Seq(Ciphertexts(nb))
  <2>1. Made(op, in, b, ob, nb)
    BY <1>11, OpMade
  <2>2. QED
    BY <1>1, <2>1 DEF Made, y
<1>13. Encrypted(f, nb)
  <2> SUFFICES ASSUME NEW t \in DOMAIN f PROVE f[t] \in Seq(Ciphertexts(nb))
    BY DEF Encrypted
  <2>1. CASE t \in ToSet(n.outs)
    <3>1. PICK k \in DOMAIN n.outs : n.outs[k] = t
      BY <2>1 DEF ToSet
    <3>2. QED
      BY <1>6, <1>12, <3>1
  <2>2. CASE t \notin ToSet(n.outs)
    BY <1>6, <2>2 DEF Encrypted
  <2>3. QED
    BY <2>1, <2>2
<1>14. Counted(v)
  <2> SUFFICES ASSUME NEW t \in DOMAIN v PROVE v[t] \in Nat
    BY DEF Counted
  <2>1. CASE t \in ToSet(n.outs)
    <3>1. PICK k \in DOMAIN n.outs : n.outs[k] = t
      BY <2>1 DEF ToSet
    <3>2. QED
      BY <1>4, <1>7, <1>10, <3>1
  <2>2. CASE t \notin ToSet(n.outs)
    BY <1>7, <2>2 DEF Counted
  <2>3. QED
    BY <2>1, <2>2
<1>15. QED
  BY <1>13, <1>14 DEF f, v, y, in, b, ob, op

(* How far the call is, and what it has of each kind.                      *)
TypeInv ==
  /\ phase \in {"load", "fuse", "walk"} \cup Ended
  /\ fused \in 0 .. Len(model.nodes) /\ Len(nodes) = Len(model.nodes) - fused
  /\ todo \in Seq(DOMAIN nodes) /\ (phase \in {"load", "fuse"} => todo = <<>>)
  /\ Encrypted(env, model.numBlocks)
  /\ Counted(bits)

(* It holds at first.                                                      *)
LEMMA TypeInit == Init => TypeInv
<1> SUFFICES ASSUME Init PROVE TypeInv
  OBVIOUS
<1>1. /\ model \in Models /\ phase = "load" /\ nodes = model.nodes /\ fused = 0 /\ todo = <<>>
      /\ env = <<>> /\ bits = <<>>
  BY DEF Init
<1>2. Len(model.nodes) \in Nat
  BY <1>1, ModelAssumption DEF IsNodeList
<1>3. todo \in Seq(DOMAIN nodes)
  BY <1>1
<1>4. fused \in 0 .. Len(model.nodes) /\ Len(nodes) = Len(model.nodes) - fused
  BY <1>1, <1>2
<1>5. Encrypted(env, model.numBlocks) /\ Counted(bits)
  BY <1>1 DEF Encrypted, Counted
<1>6. QED
  BY <1>1, <1>3, <1>4, <1>5 DEF TypeInv

(* The row is encrypted at the radix's blocks.                             *)
LEMMA TypeAdmit == Inv /\ WidthInv /\ TypeInv /\ Admit => TypeInv'
<1> SUFFICES ASSUME Inv, WidthInv, TypeInv, Admit PROVE TypeInv'
  OBVIOUS
<1> DEFINE nb == model.numBlocks
           x == [i \in DOMAIN row |-> Ct(nb, row[i])]
<1>1. /\ phase = "load" /\ UNCHANGED <<model, row, nodes, fused, todo, bits>>
      /\ \/ phase' = "fuse" /\ env' = [t \in model.inputs |-> x]
         \/ phase' = "rejected" /\ env' = env
  BY DEF Admit
<1>2. /\ fused' \in 0 .. Len(model'.nodes) /\ Len(nodes') = Len(model'.nodes) - fused'
      /\ todo' \in Seq(DOMAIN nodes') /\ todo' = <<>> /\ Counted(bits')
      /\ Encrypted(env, nb)
  BY <1>1 DEF TypeInv, Counted
<1>3. Encrypted(env', nb)
  <2>1. x \in Seq(Ciphertexts(nb))
    <3>1. /\ model.inputLen \in Nat /\ model.inputBits \in Nat /\ nb \in Nat \ {0}
      BY ModelAssumption DEF Inv
    <3>2. DOMAIN row = 1 .. model.inputLen /\ \A i \in DOMAIN row : row[i] \in Int
      BY DEF WidthInv
    <3>3. nb \in 1 .. nb
      BY <3>1
    <3>4. x = [i \in 1 .. model.inputLen |-> Ct(nb, row[i])]
      BY <3>2
    <3> HIDE DEF nb, x
    <3>5. QED
      BY <3>1, <3>2, <3>3, <3>4, FilledType
  <2> HIDE DEF x
  <2>2. QED
    BY <1>1, <1>2, <2>1 DEF Encrypted
<1>4. model' = model
  BY <1>1
<1>5. Encrypted(env', model'.numBlocks)
  BY <1>3, <1>4
<1>6. phase' \in {"fuse", "rejected"}
  BY <1>1
<1>7. QED
  BY <1>2, <1>5, <1>6 DEF TypeInv, Ended

(* A turn of the rewriting loop takes a node away.                         *)
LEMMA TypeFuse == Inv /\ Inv' /\ TypeInv /\ FuseStep => TypeInv'
<1> SUFFICES ASSUME Inv, Inv', TypeInv, FuseStep PROVE TypeInv'
  OBVIOUS
<1>1. /\ phase = "fuse" /\ UNCHANGED <<model, row, todo, env, bits>>
      /\ \/ phase' = "fuse"
         \/ phase' = "capped" /\ UNCHANGED <<nodes, fused>>
  BY DEF FuseStep
<1>2. todo' = <<>> /\ Encrypted(env', model'.numBlocks) /\ Counted(bits')
  BY <1>1 DEF TypeInv, Encrypted, Counted
<1>3. fused' \in 0 .. Len(model'.nodes) /\ Len(nodes') = Len(model'.nodes) - fused'
  <2>1. CASE phase' = "fuse"
    <3>1. /\ IsNodeList(nodes)' /\ fused' \in Nat /\ Len(nodes') + fused' = Len(model'.nodes)
      BY <2>1 DEF Inv, FuseInv
    <3>2. Len(nodes') \in Nat
      BY <3>1 DEF IsNodeList
    <3>3. QED
      BY <3>1, <3>2
  <2>2. CASE phase' = "capped" /\ UNCHANGED <<nodes, fused>>
    BY <1>1, <2>2 DEF TypeInv
  <2>3. QED
    BY <1>1, <2>1, <2>2
<1>4. todo' \in Seq(DOMAIN nodes')
  BY <1>2
<1>5. phase' \in {"fuse", "capped"}
  BY <1>1
<1>6. QED
  BY <1>2, <1>3, <1>4, <1>5 DEF TypeInv, Ended

(* What is left is sorted.                                                 *)
LEMMA TypeStart == Inv /\ Inv' /\ TypeInv /\ StartWalk => TypeInv'
<1> SUFFICES ASSUME Inv, Inv', TypeInv, StartWalk PROVE TypeInv'
  OBVIOUS
<1>1. /\ phase = "fuse" /\ UNCHANGED <<model, nodes, fused, env>>
      /\ \/ phase' = "walk" /\ bits' = InputWidths(model)
         \/ phase' = "unsorted" /\ UNCHANGED <<todo, bits>>
  BY DEF StartWalk
<1>2. /\ fused' \in 0 .. Len(model'.nodes) /\ Len(nodes') = Len(model'.nodes) - fused'
      /\ Encrypted(env', model'.numBlocks)
  BY <1>1 DEF TypeInv, Encrypted
<1>3. todo' \in Seq(DOMAIN nodes')
  <2>1. CASE phase' = "walk"
    BY <2>1 DEF Inv, WalkInv
  <2>2. CASE phase' = "unsorted" /\ UNCHANGED <<todo, bits>>
    BY <1>1, <2>2 DEF TypeInv
  <2>3. QED
    BY <1>1, <2>1, <2>2
<1>4. Counted(bits')
  <2>1. model.inputBits \in Nat
    BY ModelAssumption DEF Inv
  <2>2. QED
    BY <1>1, <2>1 DEF TypeInv, Counted, InputWidths
<1>5. phase' \in {"walk", "unsorted"}
  BY <1>1
<1>6. QED
  BY <1>2, <1>3, <1>4, <1>5 DEF TypeInv, Ended

(* A node is evaluated.                                                    *)
LEMMA TypeEval == Inv /\ Inv' /\ WidthInv /\ TypeInv /\ EvalNode => TypeInv'
<1> SUFFICES ASSUME Inv, Inv', WidthInv, TypeInv, EvalNode PROVE TypeInv'
  OBVIOUS
<1> DEFINE i == Head(todo)
           n == nodes[i]
           nb == model.numBlocks
<1>1. phase = "walk" /\ todo # <<>> /\ UNCHANGED <<model, nodes, fused>>
  BY DEF EvalNode
<1>2. \/ phase' \in {"unread", "panicked"} /\ UNCHANGED <<todo, env, bits>>
      \/ /\ phase' = phase
         /\ ToSet(n.ins) \subseteq DOMAIN env \cap DOMAIN bits
         /\ TfheDefined(n.op, Operands(n, env), nb)
         /\ env' = Bind(env, n.outs, TfheEval(n.op, Operands(n, env), Operands(n, bits), OutWidths(n, bits), nb))
         /\ bits' = Bind(bits, n.outs, OutWidths(n, bits))
  BY Zenon DEF EvalNode
<1>3. fused' \in 0 .. Len(model'.nodes) /\ Len(nodes') = Len(model'.nodes) - fused'
  BY <1>1 DEF TypeInv
<1>4. Encrypted(env, nb) /\ Counted(bits) /\ todo \in Seq(DOMAIN nodes)
  BY DEF TypeInv
<1>5. CASE phase' \in {"unread", "panicked"} /\ UNCHANGED <<todo, env, bits>>
  <2>1. /\ Encrypted(env', model'.numBlocks) /\ Counted(bits') /\ todo' \in Seq(DOMAIN nodes')
    BY <1>1, <1>4, <1>5
  <2>2. QED
    BY <1>3, <1>5, <2>1 DEF TypeInv, Ended
<1>6. CASE /\ phase' = phase
           /\ ToSet(n.ins) \subseteq DOMAIN env \cap DOMAIN bits
           /\ TfheDefined(n.op, Operands(n, env), nb)
           /\ env' = Bind(env, n.outs, TfheEval(n.op, Operands(n, env), Operands(n, bits), OutWidths(n, bits), nb))
           /\ bits' = Bind(bits, n.outs, OutWidths(n, bits))
  <2>1. i \in DOMAIN nodes
    BY <1>1, <1>4
  <2> HIDE DEF i
  <2>2. HasLists(n) /\ IsInjective(n.outs)
    BY <1>1, <2>1 DEF Inv, WalkInv, IsNodeList, IsNode, Sortable
  <2>3. Valid(n.op) /\ Declared(n.op) /\ Matched(n)
    BY <1>1, <2>1 DEF WidthInv
  <2>4. nb \in Nat \ {0}
    BY ModelAssumption DEF Inv
  <2> DEFINE e == env
             w == bits
  <2>5. /\ Encrypted(Bind(e, n.outs, TfheEval(n.op, Operands(n, e), Operands(n, w), OutWidths(n, w), nb)), nb)
        /\ Counted(Bind(w, n.outs, OutWidths(n, w)))
    <3>1. /\ Encrypted(e, nb) /\ Counted(w) /\ ToSet(n.ins) \subseteq DOMAIN e \cap DOMAIN w
          /\ TfheDefined(n.op, Operands(n, e), nb)
      BY <1>4, <1>6
    <3> HIDE DEF n, nb, e, w
    <3>2. QED
      BY ONLY <2>2, <2>3, <2>4, <3>1, EvalTyped
  <2>6. Encrypted(env', model'.numBlocks) /\ Counted(bits')
    BY <1>1, <1>6, <2>5
  <2>7. todo' \in Seq(DOMAIN nodes')
    BY <1>1, <1>6 DEF Inv, WalkInv
  <2>8. phase' = "walk"
    BY <1>1, <1>6
  <2>9. QED
    BY <1>3, <2>6, <2>7, <2>8 DEF TypeInv
<1>7. QED
  BY <1>2, <1>5, <1>6

(* Every step keeps the types.                                             *)
LEMMA TypeStep == Inv /\ Inv' /\ WidthInv /\ TypeInv /\ [Next]_vars => TypeInv'
<1> SUFFICES ASSUME Inv, Inv', WidthInv, TypeInv, [Next]_vars PROVE TypeInv'
  OBVIOUS
<1>1. CASE Admit
  BY <1>1, TypeAdmit
<1>2. CASE FuseStep
  BY <1>2, TypeFuse
<1>3. CASE StartWalk
  BY <1>3, TypeStart
<1>4. CASE EvalNode
  BY <1>4, TypeEval
<1>5. CASE Finish
  <2>1. /\ UNCHANGED <<model, row, nodes, fused, todo, env, bits>>
        /\ phase' \in {"done", "missing"}
    BY <1>5 DEF Finish
  <2>2. QED
    BY <2>1 DEF TypeInv, Encrypted, Counted, Ended
<1>6. CASE UNCHANGED vars
  BY <1>6 DEF vars, TypeInv, Encrypted, Counted
<1>7. QED
  BY <1>1, <1>2, <1>3, <1>4, <1>5, <1>6 DEF Next, Returned

(* What the run checks.                                                    *)
LEMMA TypesFromInv == TypeInv => TypeOK
<1> SUFFICES ASSUME TypeInv PROVE TypeOK
  OBVIOUS
<1>1. IsTensor(env)
  <2> SUFFICES ASSUME NEW t \in DOMAIN env, NEW i \in DOMAIN env[t]
               PROVE  /\ env[t][i].blocks \in 1 .. model.numBlocks
                      /\ FitsBlocks(env[t][i].v, env[t][i].blocks)
    BY DEF IsTensor
  <2>1. env[t] \in Seq(Ciphertexts(model.numBlocks))
    BY DEF TypeInv, Encrypted
  <2>2. env[t][i] \in Ciphertexts(model.numBlocks)
    BY <2>1
  <2>3. QED
    BY <2>2 DEF Ciphertexts, Cts
<1>2. QED
  BY <1>1 DEF TypeInv, TypeOK, Counted

(* Every tensor of an evaluation is one of ciphertexts of at most the      *)
(* model's blocks, each with a value its blocks hold, whatever the graph   *)
(* and its row; a fusion takes one node away, and the walk is over what    *)
(* is left.                                                                *)
THEOREM CiphertextsAreWhole == Spec => []TypeOK
<1>1. Inv /\ WidthInv /\ TypeInv => TypeOK
  BY TypesFromInv
<1>2. QED
  BY <1>1, InvInit, InvStep, WidthInit, WidthStep, TypeInit, TypeStep, PTL DEF Spec
=============================================================================
