------------------------------- MODULE Fusion -------------------------------
(***************************************************************************)
(* The graph-fusion pass, crates/penumbra-core/src/optimize.rs: one call   *)
(* of step_fuse replaces a producer and its only consumer, both table      *)
(* lookups, by one node.  A node is [op, ins, outs], a node list a         *)
(* sequence; outputs is the set of names the graph returns.                *)
(***************************************************************************)
EXTENDS Ops

(* The entries of node input lists that name t: who, and at which place. *)
Readers(nodes, t) ==
  UNION {{<<i, k>> : k \in {k \in DOMAIN nodes[i].ins : nodes[i].ins[k] = t}} :
           i \in DOMAIN nodes}

(* Seeded fault: others may read the producer's output too. *)
AdjacentAmongOthers(nodes, outputs, p, c) ==
  /\ Len(nodes[p].outs) = 1
  /\ nodes[p].outs[1] \notin outputs
  /\ <<c, 1>> \in Readers(nodes, nodes[p].outs[1])
  /\ c > p
  /\ Len(nodes[c].ins) = 1 /\ Len(nodes[c].outs) = 1

(* p and c are a producer and the one node that reads its one output. *)
Adjacent(nodes, outputs, p, c) ==
  /\ Len(nodes[p].outs) = 1
  /\ nodes[p].outs[1] \notin outputs
  /\ Readers(nodes, nodes[p].outs[1]) = {<<c, 1>>}
  /\ c > p
  /\ Len(nodes[c].ins) = 1 /\ Len(nodes[c].outs) = 1

(* A composed table may replace a Requant's when its entries fit a block   *)
(* and the width the producer declares.                                    *)
FitsTable(lut, outBits) ==
  /\ \A i \in DOMAIN lut : lut[i] \in Message
  /\ MagnitudeBits(Max({0} \cup {lut[i] : i \in DOMAIN lut})) <= outBits

(* Where the second Requant sends the entry u of the first one's table. *)
SecondIndex(op, u) ==
  Smaller((u * op.channel[1].mult + op.channel[1].roundBias) \div 2^op.channel[1].shift,
          2^op.outBits - 1) + 1

(* Seeded fault: a floor and an offset are fused away. *)
PerTensorRequant(op) == op.channelSize = 0

PlainRequant(op) == op.channelSize = 0 /\ op.clampLo = 0 /\ op.zeroPoint = 0

(* The tables the three rules compose: index of the second table per entry *)
(* of the first.                                                           *)
Index(first, second, u) == IF second.type = "Requant" THEN SecondIndex(second, u) ELSE u + 1

Composable(first, second) ==
  /\ \/ first.type = "Requant" /\ second.type = "Activation"
     \/ first.type = "Activation" /\ second.type = "Activation"
     \/ first.type = "Requant" /\ second.type = "Requant" /\ PlainRequant(second)
  /\ \A i \in DOMAIN first.lut : Index(first, second, first.lut[i]) \in DOMAIN second.lut

Composed(first, second) ==
  [i \in DOMAIN first.lut |-> second.lut[Index(first, second, first.lut[i])]]

(* R1 and R3 keep every field of the producing Requant but its table; R2   *)
(* keeps the consumer's declared width.                                    *)
FusedOp(first, second) ==
  IF first.type = "Requant"
  THEN [first EXCEPT !.lut = Composed(first, second)]
  ELSE [second EXCEPT !.lut = Composed(first, second)]

Fusable(nodes, outputs, p, c) ==
  LET first == nodes[p].op  second == nodes[c].op
  IN  /\ Adjacent(nodes, outputs, p, c)
      /\ Composable(first, second)
      /\ first.type = "Requant" => FitsTable(Composed(first, second), first.outBits)

FusablePairs(nodes, outputs) ==
  {pc \in (DOMAIN nodes) \X (DOMAIN nodes) : Fusable(nodes, outputs, pc[1], pc[2])}

(* step_fuse scans producers in list order and rewrites the first pair. *)
FirstPair(nodes, outputs) ==
  CHOOSE pc \in FusablePairs(nodes, outputs) :
    \A qd \in FusablePairs(nodes, outputs) : pc[1] <= qd[1]

(* The node that replaces the two: it reads what the producer read and     *)
(* writes what the consumer wrote.                                         *)
FusedNode(first, second) ==
  [op |-> FusedOp(first.op, second.op), ins |-> first.ins, outs |-> second.outs]

Fuse(nodes, p, c) == RemoveAt([nodes EXCEPT ![p] = FusedNode(nodes[p], nodes[c])], c)
=============================================================================
