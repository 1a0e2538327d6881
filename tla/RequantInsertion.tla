-------------------------- MODULE RequantInsertion --------------------------
(***************************************************************************)
(* The compile pass that splices a Requant behind every accumulator that   *)
(* feeds an op in need of a narrow value (python/penumbra/compile.py,      *)
(* insert_requants), driven as the model facade and the tests drive it:    *)
(* once on a roomy radix, again on the same layers with the smallest radix *)
(* that holds the first result (model.py, _compile), and once more on its  *)
(* own result.  One action per turn of the pass's loop over the nodes.     *)
(*                                                                         *)
(* A layer's calibration is looked up by its name; here a layer is named   *)
(* by the tensor it writes.                                                *)
(***************************************************************************)
EXTENDS GraphWalk

CONSTANTS Cases         \* what is compiled: graph, calib, outBits, rowLength

Counts(f) == \A t \in DOMAIN f : f[t] \in Nat

(* What a layer's entries are where it has any: what RequantSpec can hold. *)
Calibration(cal) ==
  /\ Counts(cal.mults) /\ Counts(cal.shifts) /\ Counts(cal.roundBiases) /\ Counts(cal.zeroPoints)
  /\ \A t \in DOMAIN cal.clampLos : cal.clampLos[t] \in Int
  /\ \A t \in DOMAIN cal.perChannel :
       cal.perChannel[t] \in Seq([mult : Nat, shift : Nat, roundBias : Nat])

ASSUME CaseAssumption ==
  \A c \in Cases :
    /\ {"nodes", "inputs", "outputs", "inputBits", "numBlocks"} \subseteq DOMAIN c.graph
    /\ IsNodeList(c.graph.nodes)
    /\ \A i \in DOMAIN c.graph.nodes : Declared(c.graph.nodes[i].op)
    /\ c.graph.inputBits \in Nat /\ c.graph.numBlocks \in Nat \ {0}
    /\ Calibration(c.calib)
    /\ c.outBits \in 1 .. MessageBits /\ c.rowLength \in Nat \ {0}

VARIABLES case,         \* the layers and their calibration
          pass,         \* which call this is: probe, sized or again
          phase,        \* where the call is, or how it ended
          source,       \* its argument: graph
          todo,         \* the rest of topological_nodes(graph)
          built,        \* new_nodes
          widths,       \* running_widths
          rewire        \* rewire: wide tensor -> narrowed tensor

vars == <<case, pass, phase, source, todo, built, widths, rewire>>

-----------------------------------------------------------------------------
AccumulatorOps == {"Conv2d", "Linear"}
WideInputOps   == {"Argmax"}

(* The name of the narrowed tensor: out_name with "__rq" behind it. *)
Rq(t) == <<t, "__rq">>

(* dict.get. *)
Get(f, key, default) == IF key \in DOMAIN f THEN f[key] ELSE default

ReadBy(ns, Ops) == UNION {ToSet(ns[i].ins) : i \in {j \in DOMAIN ns : ns[j].op.type \in Ops}}

ConsumedByNarrow ==
  UNION {ToSet(source.nodes[i].ins) :
           i \in {j \in DOMAIN source.nodes : source.nodes[j].op.type \notin WideInputOps}}

AlreadyRequantized == ReadBy(source.nodes, {"Requant"})

(* Seeded fault: only the first operand is rewired. *)
RewiredFirst(node) ==
  IF node.op.type \in WideInputOps THEN node
  ELSE [node EXCEPT !.ins = [k \in DOMAIN node.ins |->
          IF k = 1 THEN Get(rewire, node.ins[k], node.ins[k]) ELSE node.ins[k]]]

(* Seeded fault: a decision is rewired like any other reader. *)
RewiredAlways(node) ==
  [node EXCEPT !.ins = [k \in DOMAIN node.ins |-> Get(rewire, node.ins[k], node.ins[k])]]

Rewired(node) ==
  IF node.op.type \in WideInputOps THEN node
  ELSE [node EXCEPT !.ins = [k \in DOMAIN node.ins |-> Get(rewire, node.ins[k], node.ins[k])]]

Current == Rewired(source.nodes[Head(todo)])

(* Seeded fault: widths of the operands the node had before it was rewired. *)
WithOutputsUnrewired(node) ==
  LET before == source.nodes[Head(todo)]
  IN  Bind(widths, before.outs, OutWidths(before, widths))

WithOutputs(node) == Bind(widths, node.outs, OutWidths(node, widths))

(* Seeded fault: a second pass is not noticed. *)
NeedsRequantAgain(node) ==
  /\ node.op.type \in AccumulatorOps
  /\ node.outs[1] \in ConsumedByNarrow \ source.outputs

NeedsRequant(node) ==
  /\ node.op.type \in AccumulatorOps
  /\ node.outs[1] \in ConsumedByNarrow \ source.outputs
  /\ node.outs[1] \notin AlreadyRequantized

(* Seeded fault: an accumulator that fills the radix is refused. *)
OverflowsAtCapacity(bits) == bits >= Capacity(source.numBlocks)

Overflows(bits) == bits > Capacity(source.numBlocks)

-----------------------------------------------------------------------------
(* Seeded fault: the stride of a convolution's channel without its padding. *)
ChannelSizeUnpadded(op) ==
  IF op.type = "Linear" THEN 1 ELSE Plane([op.geom EXCEPT !.pad = 0])

ChannelSize(op) == IF op.type = "Linear" THEN 1 ELSE Plane(op.geom)

ClampLut(outBits) == [v \in 1 .. 2^MessageBits |-> Smaller(v - 1, 2^outBits - 1)]

(* Seeded fault: the fallback shift looks at the layer's input. *)
FallbackShiftOfInput(node) == Larger(0, widths[node.ins[1]] - case.outBits)

(* The shift when there is no calibrated one. *)
FallbackShift(node) == Larger(0, WithOutputs(node)[node.outs[1]] - case.outBits)

PerChannel(node) == node.outs[1] \in DOMAIN case.calib.perChannel

RequantFor(node) ==
  LET name == node.outs[1]
      cal  == case.calib
      one  == [mult      |-> Get(cal.mults, name, 1),
               shift     |-> Get(cal.shifts, name, FallbackShift(node)),
               roundBias |-> Get(cal.roundBiases, name, 0)]
  IN  [type        |-> "Requant",
       channel     |-> IF PerChannel(node) THEN cal.perChannel[name] ELSE <<one>>,
       channelSize |-> IF PerChannel(node) THEN ChannelSize(node.op) ELSE 0,
       clampLo     |-> Get(cal.clampLos, name, 0),
       zeroPoint   |-> Get(cal.zeroPoints, name, 0),
       outBits     |-> case.outBits,
       lut         |-> ClampLut(case.outBits)]

(* One entry per output channel, and what RequantSpec accepts. *)
Calibrated(node) ==
  /\ PerChannel(node) => Len(case.calib.perChannel[node.outs[1]]) = Len(node.op.weights)
  /\ ValidRequant(RequantFor(node))

Result == [source EXCEPT !.nodes = built]

-----------------------------------------------------------------------------
Errors == {"invalid", "overflow", "miscalibrated", "rejected"}

Init ==
  /\ case \in Cases
  /\ pass = "probe"
  /\ phase = "start"
  /\ source = case.graph
  /\ todo = <<>>
  /\ built = <<>>
  /\ widths = <<>>
  /\ rewire = <<>>

(* Seeded fault: the rewiring of the call before is kept. *)
BeginRewired ==
  /\ phase = "start"
  /\ phase' = "loop"
  /\ todo' = StableOrder(source.nodes)
  /\ widths' = InputWidths(source)
  /\ built' = <<>>
  /\ UNCHANGED <<case, pass, source, rewire>>

(* The widths of the input graph must exist; the loop starts. *)
Begin ==
  /\ phase = "start"
  /\ IF Propagates(source.nodes, source.inputs)
     THEN /\ phase' = "loop"
          /\ todo' = StableOrder(source.nodes)
          /\ widths' = InputWidths(source)
     ELSE phase' = "invalid" /\ UNCHANGED <<todo, widths>>
  /\ built' = <<>>
  /\ rewire' = <<>>
  /\ UNCHANGED <<case, pass, source>>

(* A turn that appends the node alone. *)
Keep ==
  /\ phase = "loop" /\ todo # <<>>
  /\ ~ NeedsRequant(Current)
  /\ built' = Append(built, Current)
  /\ widths' = WithOutputs(Current)
  /\ todo' = Tail(todo)
  /\ UNCHANGED <<case, pass, phase, source, rewire>>

(* A turn that narrows the node's output for every later reader. *)
Insert ==
  /\ phase = "loop" /\ todo # <<>>
  /\ NeedsRequant(Current)
  /\ ~ Overflows(WithOutputs(Current)[Current.outs[1]])
  /\ Calibrated(Current)
  /\ LET wide   == Current.outs[1]
         narrow == [op |-> RequantFor(Current), ins |-> <<wide>>, outs |-> <<Rq(wide)>>]
     IN  /\ built' = built \o <<Current, narrow>>
         /\ widths' = Bind(WithOutputs(Current), <<Rq(wide)>>, <<case.outBits>>)
         /\ rewire' = Bind(rewire, <<wide>>, <<Rq(wide)>>)
  /\ todo' = Tail(todo)
  /\ UNCHANGED <<case, pass, phase, source>>

(* A turn that raises. *)
Refuse ==
  /\ phase = "loop" /\ todo # <<>>
  /\ NeedsRequant(Current)
  /\ phase' = IF Overflows(WithOutputs(Current)[Current.outs[1]]) THEN "overflow"
              ELSE "miscalibrated"
  /\ Overflows(WithOutputs(Current)[Current.outs[1]]) \/ ~ Calibrated(Current)
  /\ UNCHANGED <<case, pass, source, todo, built, widths, rewire>>

(* The final gate: check_bit_width_budget(out_graph). *)
Return ==
  /\ phase = "loop" /\ todo = <<>>
  /\ phase' = IF PyBudgetOK(Result) THEN "returned" ELSE "rejected"
  /\ UNCHANGED <<case, pass, source, todo, built, widths, rewire>>

(* The next call: on the same layers with the radix sized, then on its own *)
(* result.                                                                 *)
NextCall ==
  /\ phase = "returned"
  /\ \/ /\ pass = "probe"
        /\ pass' = "sized"
        /\ source' = [case.graph EXCEPT !.numBlocks = MinimalBlocks(Result)]
     \/ /\ pass = "sized"
        /\ pass' = "again"
        /\ source' = Result
  /\ phase' = "start"
  /\ UNCHANGED <<case, todo, built, widths, rewire>>

Done ==
  /\ phase \in Errors \/ (phase = "returned" /\ pass = "again")
  /\ UNCHANGED vars

Next == Begin \/ Keep \/ Insert \/ Refuse \/ Return \/ NextCall \/ Done

Spec == Init /\ [][Next]_vars

-----------------------------------------------------------------------------
TypeOK ==
  /\ pass \in {"probe", "sized", "again"}
  /\ phase \in {"start", "loop", "returned"} \cup Errors
  /\ todo \in Seq(DOMAIN source.nodes)
  /\ \A t \in DOMAIN widths : widths[t] \in Nat
  /\ \A t \in DOMAIN rewire : rewire[t] = Rq(t) /\ {t, Rq(t)} \subseteq DOMAIN widths

(* No layer's narrowed tensor has a name the graph already uses. *)
FreshNames ==
  \A i \in DOMAIN source.nodes :
    NeedsRequant(source.nodes[i]) =>
      Rq(source.nodes[i].outs[1]) \notin source.inputs \cup Written(source.nodes)

(* The widths kept along the way, from which fallback shifts are taken,    *)
(* are those the finished prefix propagates (compile.py:219).              *)
WidthsAgree ==
  phase = "loop" /\ FreshNames =>
    LET w == Widths(built, source) IN
      DOMAIN w = DOMAIN widths /\ \A t \in DOMAIN w : w[t] = widths[t]

(* In a graph the pass returns, no op that needs a narrow value reads an   *)
(* accumulator, but for a graph output and for one a Requant of the        *)
(* argument already narrowed (compile.py:229).                             *)
Narrowed ==
  phase = "returned" =>
    LET Accumulators == {built[i].outs[1] : i \in {j \in DOMAIN built :
                                                    built[j].op.type \in AccumulatorOps}}
    IN  \A i \in DOMAIN built :
          built[i].op.type \notin WideInputOps \cup {"Requant"} =>
            ToSet(built[i].ins) \cap Accumulators
              \subseteq source.outputs \cup AlreadyRequantized

Inserted(node) == \E t \in DOMAIN rewire : node.outs = <<Rq(t)>>

(* The tensor a node read before it was rewired. *)
Original(t) == IF \E u \in DOMAIN rewire : t = Rq(u) THEN t[1] ELSE t

Bypassed(node) ==
  IF node.op.type \in WideInputOps THEN node
  ELSE [node EXCEPT !.ins = [k \in DOMAIN node.ins |-> Original(node.ins[k])]]

Kept == {j \in DOMAIN built : ~ Inserted(built[j])}

Rank(j) == Cardinality({i \in Kept : i <= j})

(* Bypassing what was inserted gives back the argument's nodes, in the     *)
(* order of the sort; decisions read the wide value still, and the graph's *)
(* outputs are still written by the nodes that wrote them (compile.py:215). *)
SplicedOnly ==
  phase = "returned" =>
    LET order == StableOrder(source.nodes)
    IN  /\ Cardinality(Kept) = Len(order)
        /\ \A j \in Kept : Bypassed(built[j]) = source.nodes[order[Rank(j)]]
        /\ source.outputs \cap Written(source.nodes) \cap {Rq(t) : t \in DOMAIN rewire} = {}

Rows == [1 .. case.rowLength -> 0 .. 2^case.graph.inputBits - 1]

(* The fallback shift is "exactness-safe" (compile.py:26): a Requant that  *)
(* has it never cuts a value off, on any row.                              *)
FallbackNeverClips ==
  phase = "returned" /\ pass = "probe" /\ DOMAIN case.calib.shifts = {}
                     /\ DOMAIN case.calib.mults = {} /\ DOMAIN case.calib.roundBiases = {} =>
    \A x \in Rows :
      LET ref == RefEnv(built, source, x) IN
        \A i \in DOMAIN built :
          /\ built[i].op.type = "Requant"
          /\ built[i].ins[1] \in DOMAIN rewire \ DOMAIN case.calib.perChannel
          /\ built[i].ins[1] \in DOMAIN ref
          => \A k \in DOMAIN ref[built[i].ins[1]] :
               Transient(built[i].op, k, ref[built[i].ins[1]][k])
                 \div 2^Channel(built[i].op, k).shift <= 2^case.outBits - 1

(* A graph the pass returns never hands a table a value outside the        *)
(* table's domain, on any row: not one too large, and not a negative one   *)
(* (bitwidth.py:252).                                                      *)
LookupsInDomain ==
  phase = "returned" /\ pass = "sized" =>
    \A x \in Rows :
      LET ref == RefEnv(built, source, x) IN
        \A i \in DOMAIN built :
          built[i].op.type = "Activation" /\ built[i].ins[1] \in DOMAIN ref =>
            ToSet(ref[built[i].ins[1]]) \subseteq Message

(* Run on its own result, with the same calibration, the pass neither      *)
(* fails nor changes anything (compile.py:28).                             *)
Idempotent ==
  pass = "again" => /\ phase \notin Errors
                    /\ phase = "returned" => built = source.nodes

(* A graph that fits its radix still does with Requants in it, whatever    *)
(* reads what, as long as no calibration asks for more and every table     *)
(* reads a tensor that is narrow or will be narrowed (compile.py:295).     *)
FitsStill ==
  LET w == Widths(source.nodes, source)
      Narrowable(t) == \/ w[t] <= MessageBits
                       \/ \E i \in DOMAIN source.nodes :
                            NeedsRequant(source.nodes[i]) /\ source.nodes[i].outs[1] = t
  IN  /\ phase \in Errors \ {"invalid"}
      /\ case.calib.mults = <<>> /\ case.calib.roundBiases = <<>>
      /\ case.calib.clampLos = <<>> /\ case.calib.perChannel = <<>>
      /\ FreshNames
      /\ \A i \in DOMAIN source.nodes :
           source.nodes[i].op.type = "Activation" => Narrowable(source.nodes[i].ins[1])
      => ~ BudgetOK(source)

(* The radix sized on the probe's result is admitted by the second pass,   *)
(* and a smaller one is too small for the result or for the graph's inputs *)
(* (bitwidth.py:268, model.py:698).                                        *)
SizedExactly ==
  pass = "sized" =>
    /\ phase \notin Errors
    /\ phase = "returned" /\ source.numBlocks > 2 =>
         \/ source.inputBits > Capacity(source.numBlocks - 1)
         \/ ~ BudgetOK([Result EXCEPT !.numBlocks = source.numBlocks - 1])

(* A per-channel Requant covers its layer's output, and rescales each      *)
(* value with the entry of the channel the runtime's layout puts it in.    *)
Covers(rq, conv) ==
  LET plane == IF conv.type = "Conv2d" THEN Plane(conv.geom) ELSE 1
  IN  /\ rq.channelSize * Len(rq.channel) = Len(conv.weights) * plane
      /\ \A r \in 1 .. Len(conv.weights) * plane :
           Channel(rq, r) =
             rq.channel[IF conv.type = "Conv2d" THEN PlaneOf(conv.geom, r) + 1 ELSE r]

LanesFit(ns) ==
  \A i, j \in DOMAIN ns :
    /\ ns[i].op.type \in AccumulatorOps
    /\ ns[j].op.type = "Requant" /\ ns[j].op.channelSize # 0
    /\ ns[j].ins[1] = ns[i].outs[1]
    => Covers(ns[j].op, ns[i].op)

(* So it is with every Requant of a returned graph, if the layers had none *)
(* that did not (compile.py:119, requant.rs:196, conv2d.rs:195).           *)
LanesOfChannels ==
  phase = "returned" /\ LanesFit(case.graph.nodes) => LanesFit(built)
=============================================================================
