----------------------------- MODULE GraphEval ------------------------------
(***************************************************************************)
(* One row through a model, as run_predict drives it                       *)
(* (crates/penumbra-py/src/session.rs): the budget check, encryption, then *)
(* evaluate_graph (crates/penumbra-core/src/eval.rs) with the TFHE ops:    *)
(* fuse to a fixed point, sort, and walk the nodes with an environment of  *)
(* ciphertexts and one of derived widths; last, decrypt the output.        *)
(***************************************************************************)
EXTENDS Fusion, GraphWalk

CONSTANT Models        \* graphs: nodes, inputs, outputs, inputBits, numBlocks, and
                       \* the length of the input tensor

ASSUME ModelAssumption ==
  \A m \in Models :
    /\ IsNodeList(m.nodes) /\ \A i \in DOMAIN m.nodes : Declared(m.nodes[i].op)
    /\ m.inputBits \in Nat /\ m.inputLen \in Nat /\ m.numBlocks \in Nat \ {0}

VARIABLES model,        \* the graph as loaded
          row,          \* the quantized input
          phase,        \* where the call is, or how it ended
          nodes,        \* the node list being rewritten, then walked
          fused,        \* iters: fusions done
          todo,         \* the rest of the topological order
          env,          \* tensor name -> ciphertexts
          bits,         \* bits_env: tensor name -> derived width
          out           \* the decrypted output

vars == <<model, row, phase, nodes, fused, todo, env, bits, out>>

-----------------------------------------------------------------------------
Ended == {"rejected", "capped", "unsorted", "unread", "panicked", "missing", "done"}

Init ==
  /\ model \in Models
  /\ row \in [1 .. model.inputLen -> 0 .. 2^model.inputBits - 1]
  /\ phase = "load"
  /\ nodes = model.nodes
  /\ fused = 0
  /\ todo = <<>>
  /\ env = <<>>
  /\ bits = <<>>
  /\ out = <<>>

(* run_predict's checks, the budget check and the encryption of the row. *)
Admit ==
  /\ phase = "load"
  /\ IF Cardinality(model.inputs) = 1 /\ Cardinality(model.outputs) = 1 /\ BudgetOK(model)
     THEN /\ phase' = "fuse"
          /\ env' = [t \in model.inputs |->
                       [i \in DOMAIN row |-> Ct(model.numBlocks, row[i])]]
     ELSE phase' = "rejected" /\ UNCHANGED env
  /\ UNCHANGED <<model, row, nodes, fused, todo, bits, out>>

(* One turn of optimize_graph's loop that rewrites. *)
FuseStep ==
  /\ phase = "fuse"
  /\ FusablePairs(nodes, model.outputs) # {}
  /\ IF fused + 1 > Len(model.nodes)
     THEN phase' = "capped" /\ UNCHANGED <<nodes, fused>>
     ELSE LET pc == FirstPair(nodes, model.outputs)
          IN  /\ nodes' = Fuse(nodes, pc[1], pc[2])
              /\ fused' = fused + 1
              /\ UNCHANGED phase
  /\ UNCHANGED <<model, row, todo, env, bits, out>>

(* The turn that finds no rule to apply; a rewritten graph has its widths  *)
(* propagated again; evaluation then sorts the nodes.                      *)
StartWalk ==
  /\ phase = "fuse"
  /\ FusablePairs(nodes, model.outputs) = {}
  /\ IF IF fused > 0 THEN Propagates(nodes, model.inputs) ELSE Sortable(nodes, model.inputs)
     THEN /\ phase' = "walk"
          /\ todo' = StableOrder(nodes)
          /\ bits' = InputWidths(model)
     ELSE phase' = "unsorted" /\ UNCHANGED <<todo, bits>>
  /\ UNCHANGED <<model, row, nodes, fused, env, out>>

(* One node of the walk.  A tensor not in the environment is reported; a   *)
(* node the op refuses at this point is a panic.                           *)
EvalNode ==
  /\ phase = "walk"
  /\ todo # <<>>
  /\ LET node == nodes[Head(todo)]
         nb   == model.numBlocks
         in   == Operands(node, env)
         ib   == Operands(node, bits)
         ob   == OutWidths(node, bits)
     IN  IF ~ ToSet(node.ins) \subseteq (DOMAIN env \cap DOMAIN bits)
         THEN phase' = "unread" /\ UNCHANGED <<todo, env, bits>>
         ELSE IF ~ Matched(node) \/ ~ TfheDefined(node.op, in, nb)
         THEN phase' = "panicked" /\ UNCHANGED <<todo, env, bits>>
         ELSE /\ env' = Bind(env, node.outs, TfheEval(node.op, in, ib, ob, nb))
              /\ bits' = Bind(bits, node.outs, ob)
              /\ todo' = Tail(todo)
              /\ UNCHANGED phase
  /\ UNCHANGED <<model, row, nodes, fused, out>>

(* Collect the declared output, with every node evaluated, and decrypt it. *)
Finish ==
  /\ phase = "walk"
  /\ todo = <<>>
  /\ IF model.outputs \subseteq DOMAIN env
     THEN phase' = "done" /\ out' = [t \in model.outputs |-> Clear(env[t])]
     ELSE phase' = "missing" /\ UNCHANGED out
  /\ UNCHANGED <<model, row, nodes, fused, todo, env, bits>>

(* A call that has ended stays as it is; any other state must have a step. *)
Returned == phase \in Ended /\ UNCHANGED vars

Next == Admit \/ FuseStep \/ StartWalk \/ EvalNode \/ Finish \/ Returned

Spec == Init /\ [][Next]_vars

-----------------------------------------------------------------------------
IsTensor(f) == \A t \in DOMAIN f : \A i \in DOMAIN f[t] :
                 /\ f[t][i].blocks \in 1 .. model.numBlocks
                 /\ FitsBlocks(f[t][i].v, f[t][i].blocks)

TypeOK ==
  /\ phase \in {"load", "fuse", "walk"} \cup Ended
  /\ fused \in 0 .. Len(model.nodes) /\ Len(nodes) = Len(model.nodes) - fused
  /\ todo \in Seq(DOMAIN nodes)
  /\ IsTensor(env)
  /\ \A t \in DOMAIN bits : bits[t] \in Nat

Ref == RefEnv(model.nodes, model, row)

(* The growth rules never under-count: whatever the weights and tables do, *)
(* every value of the forward pass has a magnitude below 2^bits for the    *)
(* width evaluation derives for it, after fusion too (bitwidth.rs:42).     *)
WidthSound ==
  LET ref == Ref IN
    \A t \in DOMAIN bits \cap DOMAIN ref : \A i \in DOMAIN ref[t] :
      Magnitude(ref[t][i]) < 2^bits[t]

(* Every value of the forward pass, and every value a rescale multiplies   *)
(* up, is in the signed range of a radix of num_blocks blocks.             *)
InRange(ref) ==
  /\ \A t \in DOMAIN ref : \A i \in DOMAIN ref[t] : FitsBlocks(ref[t][i], model.numBlocks)
  /\ \A n \in DOMAIN model.nodes :
       LET node == model.nodes[n]
       IN  node.op.type = "Requant" /\ node.outs[1] \in DOMAIN ref =>
             \A i \in DOMAIN ref[node.ins[1]] :
               LET peak == Transient(node.op, i, ref[node.ins[1]][i])
               IN  /\ FitsBlocks(peak, model.numBlocks)
                   /\ FitsBlocks((peak \div 2^Channel(node.op, i).shift) + node.op.zeroPoint,
                                 model.numBlocks)

(* The floor of every Requant is a signed integer of its operand's width,  *)
(* and its zero point no more than lifts the floor's image to 0, as        *)
(* calibration chooses them (model.py:630); in the graph as loaded and as  *)
(* fused, since a rewrite may change a declared width.                     *)
Calibrated ==
  \A ns \in {model.nodes, nodes} :
    LET w == Widths(ns, model)
    IN  \A n \in DOMAIN ns :
          ns[n].op.type = "Requant" =>
            /\ 2 * Magnitude(ns[n].op.clampLo) <= 2^w[ns[n].ins[1]]
            /\ ns[n].op.zeroPoint <= Larger(0, -FloorImage(ns[n].op))

(* Giving each tensor only the blocks its width calls for loses nothing:   *)
(* when a uniform radix would have held the whole forward pass, every      *)
(* tensor decrypts to the oracle's value, whatever was fused, trimmed,     *)
(* sign-extended or summed at a narrower width on the way (width.rs:10).   *)
Lossless ==
  phase \in {"walk"} \cup (Ended \ {"rejected", "capped", "unsorted"}) =>
    LET ref == Ref IN
      InRange(ref) /\ Calibrated =>
        \A t \in DOMAIN env \cap DOMAIN ref : Clear(env[t]) = ref[t]

(* A result is returned with the wrong value only if the oracle has none.  *)
Golden ==
  phase = "done" =>
    LET ref == Ref IN
      \A t \in model.outputs \cap DOMAIN ref : out[t] = ref[t]

(* What adding a zero point to a rescaled value can take. *)
ZeroPointBits(op) == IF op.type = "Requant" /\ op.zeroPoint # 0 THEN 1 ELSE 0

(* The budget check, were it to count signs: a tensor of width w needs     *)
(* w + 1 bits, and a rescale is given an operand of that many; and were it *)
(* to count the zero point added last.                                     *)
SignedBudgetOK ==
  /\ BudgetOK(model)
  /\ LET w   == Widths(model.nodes, model)
         cap == Capacity(model.numBlocks)
     IN  /\ \A t \in DOMAIN w : w[t] + 1 <= cap
         /\ \A n \in DOMAIN model.nodes :
              LET op == model.nodes[n].op
              IN  op.type = "Requant" =>
                    RequantPeakBits(op, w[model.nodes[n].ins[1]] + 1) + ZeroPointBits(op) <= cap

(* One spare bit per tensor is enough for that: a width of one less than   *)
(* the capacity, as 3 bits have at two blocks, never gives a wrong result  *)
(* (bitwidth.rs:321 allows it to be equal).                                *)
GoldenWithSpareBit == phase = "done" => (SignedBudgetOK /\ Calibrated => Golden)

(* Fusing keeps the graph one that can be sorted and walked: the loop ends *)
(* before its cap, and after the budget check no node ever lacks an        *)
(* operand or a width; what can still fail is a length nobody declared.    *)
FusionKeepsSound == phase \notin {"capped", "unsorted", "unread"}

(* A rewrite changes no value the graph returns, and no tensor that is     *)
(* still in the graph: fusing is exact, and defined on the same rows.      *)
FusionExact ==
  [][ nodes' # nodes =>
        LET before == RefEnv(nodes, model, row)
            after  == RefEnv(nodes', model, row)
        IN  /\ model.outputs \cap DOMAIN before = model.outputs \cap DOMAIN after
            /\ \A t \in DOMAIN after : t \in DOMAIN before /\ after[t] = before[t] ]_vars
=============================================================================
