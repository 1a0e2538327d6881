----------------------- MODULE RequantInsertionProofs -----------------------
(***************************************************************************)
(* Splicing in Requants, for every graph and every calibration: the types  *)
(* of what is built, that nothing but Requants is spliced in, what a       *)
(* returned graph's narrow ops read, that a second run on the result is    *)
(* accepted and changes nothing, that every table of a returned graph is   *)
(* read inside its domain, that a fallback shift only shifts, that every   *)
(* lane has its own channel's entry, that the radix sized on the probe's   *)
(* result is admitted and the least, and that Requants nobody calibrated   *)
(* make no graph too wide.                                                 *)
(***************************************************************************)
EXTENDS RequantInsertion, WalkProofs

Order == StableOrder(source.nodes)

Turns == Len(Order) - Len(todo)

(* The k-th node of the argument, in the order of the pass.                *)
Nth(k) == source.nodes[Order[k]]

(* The argument of every call can be sorted, and the loop has had so many  *)
(* turns in that order.                                                    *)
SourceInv ==
  /\ case \in Cases /\ pass \in {"probe", "sized", "again"}
  /\ {"nodes", "inputs", "outputs", "numBlocks"} \subseteq DOMAIN source
  /\ source.nodes \in Seq(ToSet(source.nodes))
  /\ \A i \in DOMAIN source.nodes : HasLists(source.nodes[i])
  /\ phase \in {"loop", "returned"} =>
       /\ Propagates(source.nodes, source.inputs)
       /\ todo \in Seq(DOMAIN source.nodes)
       /\ Len(todo) <= Len(Order)
       /\ \A k \in 1 .. Len(todo) : todo[k] = Order[Turns + k]
  /\ phase = "returned" => todo = <<>> /\ PyBudgetOK(Result)

BuiltType ==
  /\ built \in Seq(ToSet(built))
  /\ \A j \in DOMAIN built : HasLists(built[j])

(* Every node that has had its turn is in the new list, reading what it    *)
(* read unless that was narrowed.                                          *)
Copied ==
  \A k \in 1 .. Turns : \E j \in DOMAIN built :
    /\ built[j].op = Nth(k).op /\ built[j].outs = Nth(k).outs
    /\ \A x \in ToSet(Nth(k).ins) : x \in DOMAIN rewire \/ x \in ToSet(built[j].ins)

(* Every node of the new list reads inputs and outputs of earlier nodes.   *)
ReadsBack ==
  \A j \in DOMAIN built : \A x \in ToSet(built[j].ins) :
    x \in source.inputs \/ \E i \in 1 .. j-1 : x \in ToSet(built[i].outs)

(* What is rewired is an accumulator's output a narrow op reads, that the  *)
(* graph does not return and nobody had narrowed, and its Requant is there.*)
RewireInv ==
  \A u \in DOMAIN rewire :
    /\ rewire[u] = Rq(u)
    /\ u \in ConsumedByNarrow /\ u \notin AlreadyRequantized /\ u \notin source.outputs
    /\ \E i \in DOMAIN built : built[i].op.type \in AccumulatorOps /\ u \in ToSet(built[i].outs)
    /\ \E j \in DOMAIN built : /\ built[j].op.type = "Requant"
                               /\ built[j].ins = <<u>> /\ built[j].outs = <<Rq(u)>>

Narrow == {Rq(u) : u \in DOMAIN rewire}

(* An accumulator that was not narrowed needed none.                       *)
AccumulatorsSeen ==
  \A i \in DOMAIN built :
    built[i].op.type \in AccumulatorOps =>
      built[i].outs[1] \in source.outputs \cup AlreadyRequantized \cup DOMAIN rewire
        \/ built[i].outs[1] \notin ConsumedByNarrow

(* Ops that need narrow values read what such ops read before, or what was *)
(* narrowed.                                                               *)
ReadsKnown ==
  \A j \in DOMAIN built : built[j].op.type \notin WideInputOps =>
    ToSet(built[j].ins) \subseteq ConsumedByNarrow \cup Narrow

(* Whoever still reads a narrowed tensor wide came before its writer: no   *)
(* list that can be sorted has such a reader.                              *)
WideReadersEarly ==
  \A j \in DOMAIN built : built[j].op.type \notin WideInputOps \cup {"Requant"} =>
    \A x \in ToSet(built[j].ins) \cap DOMAIN rewire :
      x \in Narrow \/ \E i \in DOMAIN built : i >= j /\ x \in ToSet(built[i].outs)

LoopInv ==
  phase \in {"loop", "returned"} =>
    /\ BuiltType /\ Copied /\ ReadsBack /\ RewireInv
    /\ AccumulatorsSeen /\ ReadsKnown /\ WideReadersEarly

(* What the second run on a result finds: a graph that fits, listed in an  *)
(* order of its own, with nothing left to narrow; it goes through it as it *)
(* is.                                                                     *)
Settled ==
  pass = "again" =>
    /\ PyBudgetOK(source) /\ [source EXCEPT !.nodes = source.nodes] = source
    /\ \A i \in DOMAIN source.nodes :
         /\ ~ NeedsRequant(source.nodes[i])
         /\ \A p \in Producers(source.nodes, i) : p < i
    /\ phase \notin Errors
    /\ phase \in {"loop", "returned"} =>
         /\ DOMAIN rewire = {} /\ Len(built) = Turns
         /\ \A k \in 1 .. Turns : built[k] = source.nodes[k]

Inv == SourceInv /\ LoopInv /\ Settled

-----------------------------------------------------------------------------
(* The invariant holds at first.                                           *)
LEMMA InitInv == Init => Inv
  BY CaseAssumption DEF Init, Inv, SourceInv, LoopInv, Settled, IsNodeList, IsNode

(* What binding one name does to an environment.                           *)
OneMore(f, e, u, v) ==
  /\ DOMAIN f = DOMAIN e \cup {u}
  /\ f[u] = v
  /\ \A t \in DOMAIN e \ {u} : f[t] = e[t]

(* Binding one name does that.                                             *)
LEMMA BindOne == \A e, u, v : OneMore(Bind(e, <<u>>, <<v>>), e, u, v)
<1> TAKE e, u, v
<1>1. ToSet(<<u>>) = {u}
  BY DEF ToSet
<1>2. PlaceOf(<<u>>, u) = 1
  BY DEF PlaceOf
<1>3. <<v>>[PlaceOf(<<u>>, u)] = v
  BY <1>2
<1>4. Bind(e, <<u>>, <<v>>) =
        [t \in DOMAIN e \cup ToSet(<<u>>) |->
           IF t \in ToSet(<<u>>) THEN <<v>>[PlaceOf(<<u>>, t)] ELSE e[t]]
  BY DEF Bind
<1>5. QED
  BY <1>1, <1>3, <1>4 DEF OneMore

(* The node whose turn it is, the names in its lists, and where its        *)
(* operands come from.                                                     *)
LEMMA CurrentNode ==
  ASSUME SourceInv, LoopInv, phase = "loop", todo # <<>>
  PROVE  /\ Turns \in Nat /\ Turns + 1 \in 1 .. Len(Order)
         /\ Head(todo) = Order[Turns + 1] /\ Head(todo) \in DOMAIN source.nodes
         /\ \A p \in Producers(source.nodes, Head(todo)) : \E k \in 1 .. Turns : Order[k] = p
         /\ Tail(todo) \in Seq(DOMAIN source.nodes) /\ Len(Tail(todo)) = Len(todo) - 1
         /\ \A k \in 1 .. Len(todo) - 1 : Tail(todo)[k] = Order[(Turns + 1) + k]
<1>1. /\ source.nodes \in Seq(ToSet(source.nodes))
      /\ todo \in Seq(DOMAIN source.nodes)
      /\ Len(todo) <= Len(Order)
      /\ \A k \in 1 .. Len(todo) : todo[k] = Order[Turns + k]
  BY DEF SourceInv
<1>2. ProducersFirst(source.nodes, Order)
  BY <1>1, OrderIsSound DEF Order
<1>3. Len(Order) \in Nat
  BY <1>2 DEF ProducersFirst
<1>4. /\ Len(todo) \in Nat /\ Len(todo) >= 1 /\ Head(todo) = todo[1]
      /\ Head(todo) \in DOMAIN source.nodes
      /\ Tail(todo) \in Seq(DOMAIN source.nodes) /\ Len(Tail(todo)) = Len(todo) - 1
      /\ \A k \in 1 .. Len(todo) - 1 : Tail(todo)[k] = todo[k + 1]
  BY <1>1
<1>5. Turns = Len(Order) - Len(todo)
  BY DEF Turns
<1>6. Turns \in Nat /\ Turns + 1 \in 1 .. Len(Order)
  BY <1>1, <1>3, <1>4, <1>5
<1>7. Head(todo) = Order[Turns + 1]
  BY <1>1, <1>4
<1>8. \A p \in Producers(source.nodes, Head(todo)) : \E k \in 1 .. Turns : Order[k] = p
  <2> SUFFICES ASSUME NEW p \in Producers(source.nodes, Head(todo))
               PROVE  \E k \in 1 .. Turns : Order[k] = p
    OBVIOUS
  <2>1. PICK k \in 1 .. (Turns + 1) - 1 : Order[k] = p
    BY <1>2, <1>6, <1>7 DEF ProducersFirst
  <2>2. k \in 1 .. Turns
    BY <1>6
  <2>3. QED
    BY <2>1, <2>2
<1>9. \A k \in 1 .. Len(todo) - 1 : Tail(todo)[k] = Order[(Turns + 1) + k]
  <2> SUFFICES ASSUME NEW k \in 1 .. Len(todo) - 1 PROVE Tail(todo)[k] = Order[(Turns + 1) + k]
    OBVIOUS
  <2>1. Tail(todo)[k] = todo[k + 1] /\ k + 1 \in 1 .. Len(todo)
    BY <1>4
  <2>2. todo[k + 1] = Order[Turns + (k + 1)] /\ Turns + (k + 1) = (Turns + 1) + k
    BY <1>1, <1>6, <2>1
  <2>3. QED
    BY <2>1, <2>2
<1>10. QED
  BY <1>4, <1>6, <1>7, <1>8, <1>9

(* What the pass makes of that node: the same op writing the same names,   *)
(* and reading, unless it is a decision, the narrowed tensor of whatever   *)
(* was narrowed so far.                                                    *)
RewiredReads(node, ins) ==
  \A x \in ToSet(ins) : \E y \in ToSet(node.ins) :
    IF node.op.type \notin WideInputOps /\ y \in DOMAIN rewire THEN x = Rq(y) ELSE x = y

(* That node keeps its op and its outputs, and still reads whatever was    *)
(* not narrowed.                                                           *)
LEMMA CurrentRewired ==
  ASSUME SourceInv, LoopInv, phase = "loop", todo # <<>>
  PROVE  LET node == source.nodes[Head(todo)]
         IN  /\ HasLists(Current) /\ Current.op = node.op /\ Current.outs = node.outs
             /\ RewiredReads(node, Current.ins) /\ Len(Current.ins) = Len(node.ins)
             /\ \A x \in ToSet(node.ins) : x \in DOMAIN rewire \/ x \in ToSet(Current.ins)
             /\ node.op.type \in AccumulatorOps =>
                  Len(node.outs) = 1 /\ node.outs[1] \in ToSet(node.outs)
<1> DEFINE node == source.nodes[Head(todo)]
<1>1. Head(todo) \in DOMAIN source.nodes
  BY CurrentNode
<1>2. /\ node = [op |-> node.op, ins |-> node.ins, outs |-> node.outs]
      /\ node.ins \in Seq(ToSet(node.ins)) /\ node.outs \in Seq(ToSet(node.outs))
  BY <1>1 DEF SourceInv, HasLists
<1>3. \A u \in DOMAIN rewire : rewire[u] = Rq(u)
  BY DEF LoopInv, RewireInv
<1>4. Current = Rewired(node)
  BY DEF Current
<1>5. node.op.type \in AccumulatorOps => Len(node.outs) = 1 /\ node.outs[1] \in ToSet(node.outs)
  <2> SUFFICES ASSUME node.op.type \in AccumulatorOps
               PROVE  Len(node.outs) = 1 /\ node.outs[1] \in ToSet(node.outs)
    OBVIOUS
  <2>1. Matched(node)
    BY <1>1 DEF SourceInv, Propagates
  <2>2. Len(node.outs) = OutArity(node.op)
    BY <2>1 DEF Matched
  <2>3. OutArity(node.op) = 1
    BY DEF OutArity, AccumulatorOps
  <2>4. Len(node.outs) = 1 /\ 1 \in DOMAIN node.outs
    BY <1>2, <2>2, <2>3
  <2>5. QED
    BY <2>4, Zenon DEF ToSet
<1> HIDE DEF node
<1>6. CASE node.op.type \in WideInputOps
  <2>1. Current = node
    BY <1>4, <1>6 DEF Rewired
  <2>2. QED
    BY <1>2, <1>5, <1>6, <2>1 DEF HasLists, RewiredReads, node
<1>7. CASE node.op.type \notin WideInputOps
  <2> DEFINE ins == [k \in DOMAIN node.ins |-> Get(rewire, node.ins[k], node.ins[k])]
  <2>1. Current = [node EXCEPT !.ins = ins]
    BY <1>4, <1>7 DEF Rewired
  <2>2. \A k \in DOMAIN node.ins :
          ins[k] = IF node.ins[k] \in DOMAIN rewire THEN Rq(node.ins[k]) ELSE node.ins[k]
    BY <1>3 DEF Get
  <2>3. DOMAIN node.ins = 1 .. Len(node.ins) /\ Len(node.ins) \in Nat
    BY <1>2
  <2>4. DOMAIN ins = 1 .. Len(node.ins)
    BY <2>3
  <2>5. ins \in Seq({ins[k] : k \in DOMAIN node.ins}) /\ Len(ins) = Len(node.ins)
    BY <2>3
  <2> HIDE DEF ins
  <2>6. ins \in Seq(ToSet(ins))
    BY <2>5, ListOfMembers
  <2>7. /\ Current.ins = ins /\ Current.op = node.op /\ Current.outs = node.outs
        /\ Current = [op |-> Current.op, ins |-> Current.ins, outs |-> Current.outs]
    <3> DEFINE r == [op |-> node.op, ins |-> node.ins, outs |-> node.outs]
    <3>1. [r EXCEPT !.ins = ins] = [op |-> node.op, ins |-> ins, outs |-> node.outs]
      OBVIOUS
    <3>2. node = r
      BY <1>2
    <3> HIDE DEF r
    <3>3. Current = [op |-> node.op, ins |-> ins, outs |-> node.outs]
      BY <2>1, <3>1, <3>2, Zenon
    <3>4. QED
      BY <3>3
  <2>8. HasLists(Current)
    BY <1>2, <2>6, <2>7 DEF HasLists
  <2>9. RewiredReads(node, ins)
    <3> SUFFICES ASSUME NEW x \in ToSet(ins)
                 PROVE  \E y \in ToSet(node.ins) : IF y \in DOMAIN rewire THEN x = Rq(y) ELSE x = y
      BY <1>7 DEF RewiredReads
    <3>1. PICK k \in DOMAIN node.ins : x = ins[k]
      BY <2>3, <2>4 DEF ToSet
    <3>2. node.ins[k] \in ToSet(node.ins)
      BY DEF ToSet
    <3>3. QED
      BY <2>2, <3>1, <3>2
  <2>10. ASSUME NEW x \in ToSet(node.ins), x \notin DOMAIN rewire
         PROVE  x \in ToSet(ins)
    <3>1. PICK k \in DOMAIN node.ins : x = node.ins[k]
      BY <2>10 DEF ToSet
    <3>2. ins[k] = x /\ k \in DOMAIN ins
      BY <2>2, <2>3, <2>4, <2>10, <3>1
    <3>3. QED
      BY <3>2 DEF ToSet
  <2>11. QED
    BY <1>5, <2>5, <2>7, <2>8, <2>9, <2>10 DEF node
<1>8. QED
  BY <1>6, <1>7

(* Where the operands of the rewired node come from, and what they are.    *)
LEMMA CurrentReads ==
  ASSUME SourceInv, LoopInv, phase = "loop", todo # <<>>
  PROVE  /\ \A x \in ToSet(Current.ins) :
              x \in source.inputs \/ \E i \in DOMAIN built : x \in ToSet(built[i].outs)
         /\ Current.op.type \notin WideInputOps =>
              /\ ToSet(Current.ins) \subseteq ConsumedByNarrow \cup Narrow
              /\ ToSet(Current.ins) \cap DOMAIN rewire \subseteq Narrow
<1> DEFINE i    == Head(todo)
           node == source.nodes[i]
<1>1. /\ i \in DOMAIN source.nodes
      /\ \A p \in Producers(source.nodes, i) : \E k \in 1 .. Turns : Order[k] = p
  BY CurrentNode
<1>2. Current.op = node.op /\ RewiredReads(node, Current.ins)
  BY CurrentRewired
<1>3. Copied /\ RewireInv
  BY DEF LoopInv
<1>4. \A u \in DOMAIN rewire : \E j \in DOMAIN built : Rq(u) \in ToSet(built[j].outs)
  <2> SUFFICES ASSUME NEW u \in DOMAIN rewire
               PROVE  \E j \in DOMAIN built : Rq(u) \in ToSet(built[j].outs)
    OBVIOUS
  <2>1. PICK j \in DOMAIN built : built[j].outs = <<Rq(u)>>
    BY <1>3 DEF RewireInv
  <2>2. Rq(u) \in ToSet(<<Rq(u)>>)
    BY DEF ToSet
  <2>3. QED
    BY <2>1, <2>2
<1>5. ASSUME NEW y \in ToSet(node.ins)
      PROVE  y \in source.inputs \/ \E j \in DOMAIN built : y \in ToSet(built[j].outs)
  <2> SUFFICES ASSUME y \notin source.inputs
               PROVE  \E j \in DOMAIN built : y \in ToSet(built[j].outs)
    OBVIOUS
  <2>1. y \in Written(source.nodes)
    BY <1>1 DEF SourceInv, Propagates, Sortable
  <2>2. PICK p \in DOMAIN source.nodes : y \in ToSet(source.nodes[p].outs)
    BY <2>1 DEF Written
  <2>3. p \in Producers(source.nodes, i)
    BY <2>2 DEF Producers
  <2>4. PICK k \in 1 .. Turns : Order[k] = p
    BY <1>1, <2>3
  <2>5. PICK j \in DOMAIN built : built[j].outs = Nth(k).outs
    BY <1>3 DEF Copied
  <2>6. QED
    BY <2>2, <2>4, <2>5 DEF Nth
<1>6. node.op.type \notin WideInputOps => ToSet(node.ins) \subseteq ConsumedByNarrow
  BY <1>1 DEF ConsumedByNarrow
<1> HIDE DEF node, i
<1>7. ASSUME NEW x \in ToSet(Current.ins)
      PROVE  /\ x \in source.inputs \/ \E j \in DOMAIN built : x \in ToSet(built[j].outs)
             /\ node.op.type \notin WideInputOps =>
                  /\ x \in ConsumedByNarrow \cup Narrow
                  /\ x \in DOMAIN rewire => x \in Narrow
  <2>1. PICK y \in ToSet(node.ins) :
          IF node.op.type \notin WideInputOps /\ y \in DOMAIN rewire THEN x = Rq(y) ELSE x = y
    BY <1>2, <1>7 DEF RewiredReads
  <2>2. QED
    BY <1>4, <1>5, <1>6, <2>1 DEF Narrow
<1>8. QED
  BY <1>2, <1>7

-----------------------------------------------------------------------------
(* A turn: the node is appended, and behind it, if it needs one, a Requant *)
(* that every later reader but the decisions will read.                    *)
Turn ==
  /\ phase = "loop" /\ todo # <<>> /\ phase' = phase /\ todo' = Tail(todo)
  /\ UNCHANGED <<case, pass, source>>
  /\ \A j \in DOMAIN built : built'[j] = built[j]
  /\ built'[Len(built) + 1] = Current
  /\ \/ /\ ~ NeedsRequant(Current)
        /\ DOMAIN built' = 1 .. Len(built) + 1
        /\ rewire' = rewire
     \/ /\ NeedsRequant(Current)
        /\ DOMAIN built' = 1 .. Len(built) + 2
        /\ built'[Len(built) + 2].op.type = "Requant"
        /\ built'[Len(built) + 2].ins = <<Current.outs[1]>>
        /\ built'[Len(built) + 2].outs = <<Rq(Current.outs[1])>>
        /\ DOMAIN rewire' = DOMAIN rewire \cup {Current.outs[1]}
        /\ \A u \in DOMAIN rewire' : rewire'[u] = Rq(u)

(* A turn that appends the node alone is one.                              *)
LEMMA KeepIsTurn ==
  SourceInv /\ LoopInv /\ Keep => Turn /\ BuiltType'
<1> SUFFICES ASSUME SourceInv, LoopInv, Keep PROVE Turn /\ BuiltType'
  OBVIOUS
<1>1. /\ phase = "loop" /\ todo # <<>> /\ ~ NeedsRequant(Current)
      /\ built' = Append(built, Current) /\ todo' = Tail(todo)
      /\ UNCHANGED <<case, pass, phase, source, rewire>>
  BY DEF Keep
<1>2. /\ built \in Seq(ToSet(built))
      /\ \A j \in DOMAIN built : HasLists(built[j])
  BY <1>1 DEF LoopInv, BuiltType
<1>3. HasLists(Current)
  BY <1>1, CurrentRewired
<1> DEFINE S == ToSet(built) \cup {Current}
<1>4. built \in Seq(S) /\ Current \in S
  BY <1>2
<1> HIDE DEF S
<1>5. /\ built' \in Seq(S) /\ DOMAIN built' = 1 .. Len(built) + 1
      /\ DOMAIN built = 1 .. Len(built) /\ Len(built) \in Nat
      /\ \A j \in DOMAIN built : built'[j] = built[j]
      /\ built'[Len(built) + 1] = Current
  BY <1>1, <1>4
<1>6. built' \in Seq(ToSet(built'))
  BY <1>5, ListOfMembers
<1>7. \A j \in DOMAIN built' : HasLists(built'[j])
  BY <1>2, <1>3, <1>5
<1>8. QED
  BY <1>1, <1>5, <1>6, <1>7 DEF Turn, BuiltType

(* So is one that narrows its output.                                      *)
LEMMA InsertIsTurn ==
  SourceInv /\ LoopInv /\ Insert => Turn /\ BuiltType'
<1> SUFFICES ASSUME SourceInv, LoopInv, Insert PROVE Turn /\ BuiltType'
  OBVIOUS
<1> DEFINE wide   == Current.outs[1]
           narrow == [op |-> RequantFor(Current), ins |-> <<wide>>, outs |-> <<Rq(wide)>>]
<1>1. /\ phase = "loop" /\ todo # <<>> /\ NeedsRequant(Current)
      /\ built' = built \o <<Current, narrow>>
      /\ rewire' = Bind(rewire, <<wide>>, <<Rq(wide)>>)
      /\ todo' = Tail(todo)
      /\ UNCHANGED <<case, pass, phase, source>>
  BY DEF Insert
<1>2. /\ built \in Seq(ToSet(built))
      /\ \A j \in DOMAIN built : HasLists(built[j])
      /\ \A u \in DOMAIN rewire : rewire[u] = Rq(u)
  BY <1>1 DEF LoopInv, BuiltType, RewireInv
<1>3. HasLists(Current)
  BY <1>1, CurrentRewired
<1>4. /\ narrow.op = RequantFor(Current) /\ narrow.ins = <<wide>> /\ narrow.outs = <<Rq(wide)>>
      /\ DOMAIN narrow = {"op", "ins", "outs"}
  OBVIOUS
<1>5. narrow.op.type = "Requant"
  BY <1>4 DEF RequantFor
<1>6. HasLists(narrow)
  <2>1. \A x : <<x>> \in Seq(ToSet(<<x>>))
    <3> TAKE x
    <3>1. <<x>> \in Seq({x})
      OBVIOUS
    <3>2. QED
      BY <3>1, ListOfMembers
  <2>2. QED
    BY <1>4, <2>1 DEF HasLists
<1> HIDE DEF narrow, wide
<1> DEFINE S == ToSet(built) \cup {Current, narrow}
<1>7. built \in Seq(S) /\ <<Current, narrow>> \in Seq(S)
  BY <1>2
<1> HIDE DEF S
<1>8. /\ built' \in Seq(S) /\ DOMAIN built' = 1 .. Len(built) + 2
      /\ DOMAIN built = 1 .. Len(built) /\ Len(built) \in Nat
      /\ \A j \in DOMAIN built : built'[j] = built[j]
      /\ built'[Len(built) + 1] = Current
      /\ built'[Len(built) + 2] = narrow
  BY <1>1, <1>7
<1>9. built' \in Seq(ToSet(built'))
  BY <1>8, ListOfMembers
<1>10. \A j \in DOMAIN built' : HasLists(built'[j])
  <2>1. \A j \in DOMAIN built' : j \in DOMAIN built \/ j = Len(built) + 1 \/ j = Len(built) + 2
    BY <1>8
  <2>2. QED
    BY <1>2, <1>3, <1>6, <1>8, <2>1
<1>11. DOMAIN rewire' = DOMAIN rewire \cup {wide} /\ \A u \in DOMAIN rewire' : rewire'[u] = Rq(u)
  <2>1. OneMore(Bind(rewire, <<wide>>, <<Rq(wide)>>), rewire, wide, Rq(wide))
    BY BindOne, Zenon
  <2>2. OneMore(rewire', rewire, wide, Rq(wide))
    BY <1>1, <2>1, Zenon
  <2>3. QED
    BY <1>2, <2>2 DEF OneMore
<1>12. QED
  BY <1>1, <1>4, <1>5, <1>8, <1>9, <1>10, <1>11 DEF Turn, BuiltType, wide

(* A turn goes on in the order of the sort.                                *)
LEMMA TurnKeepsSource ==
  SourceInv /\ LoopInv /\ Turn =>
    SourceInv' /\ Turns' = Turns + 1 /\ Turns \in Nat /\ Order' = Order
<1> SUFFICES ASSUME SourceInv, LoopInv, Turn
             PROVE  SourceInv' /\ Turns' = Turns + 1 /\ Turns \in Nat /\ Order' = Order
  OBVIOUS
<1>1. /\ phase = "loop" /\ todo # <<>> /\ phase' = phase /\ todo' = Tail(todo)
      /\ case' = case /\ pass' = pass /\ source' = source
  BY DEF Turn
<1>2. /\ Turns \in Nat /\ Turns + 1 \in 1 .. Len(Order)
      /\ Tail(todo) \in Seq(DOMAIN source.nodes) /\ Len(Tail(todo)) = Len(todo) - 1
      /\ \A k \in 1 .. Len(todo) - 1 : Tail(todo)[k] = Order[(Turns + 1) + k]
  BY <1>1, CurrentNode
<1>3. Order' = Order
  BY <1>1 DEF Order
<1>4. Len(todo) \in Nat
  BY <1>1 DEF SourceInv
<1>5. Turns' = Turns + 1
  <2>1. Turns = Len(Order) - Len(todo) /\ Turns' = Len(Order) - (Len(todo) - 1)
    BY <1>1, <1>2, <1>3 DEF Turns
  <2>2. Len(Order) \in Int
    <3>1. ProducersFirst(source.nodes, Order)
      BY OrderIsSound DEF SourceInv, Order
    <3>2. QED
      BY <3>1 DEF ProducersFirst
  <2>3. QED
    BY <1>4, <2>1, <2>2
<1>6. \A k \in 1 .. Len(todo') : todo'[k] = Order'[Turns' + k]
  BY <1>1, <1>2, <1>3, <1>5
<1>7. Len(todo') <= Len(Order')
  <2>1. Len(todo) <= Len(Order)
    BY <1>1 DEF SourceInv
  <2>2. Len(Order) \in Int
    BY <1>2, <1>4 DEF Turns
  <2>3. QED
    BY <1>1, <1>2, <1>3, <1>4, <2>1, <2>2
<1>8. SourceInv'
  BY <1>1, <1>2, <1>6, <1>7 DEF SourceInv
<1>9. QED
  BY <1>2, <1>3, <1>5, <1>8

(* Both kinds of turn keep what the loop relies on.                        *)
LEMMA TurnKeepsLoop ==
  SourceInv /\ LoopInv /\ Turn /\ BuiltType' => LoopInv'
<1> SUFFICES ASSUME SourceInv, LoopInv, Turn, BuiltType' PROVE LoopInv'
  OBVIOUS
<1> DEFINE n == Len(built)
           wide == Current.outs[1]
           needs == NeedsRequant(Current)
           node == source.nodes[Head(todo)]
<1>1. /\ phase = "loop" /\ todo # <<>> /\ phase' = phase /\ source' = source
      /\ \A j \in DOMAIN built : built'[j] = built[j]
      /\ built'[n + 1] = Current
  BY DEF Turn
<1>2. /\ Copied /\ ReadsBack /\ RewireInv /\ AccumulatorsSeen /\ ReadsKnown /\ WideReadersEarly
      /\ built \in Seq(ToSet(built))
  BY <1>1 DEF LoopInv, BuiltType
<1>3. DOMAIN built = 1 .. n /\ n \in Nat
  BY <1>2
<1>4. ConsumedByNarrow' = ConsumedByNarrow /\ AlreadyRequantized' = AlreadyRequantized
  BY <1>1 DEF ConsumedByNarrow, AlreadyRequantized
<1>5. /\ Turns' = Turns + 1 /\ Turns \in Nat /\ Order' = Order /\ Nth(Turns + 1) = node
      /\ \A k : Nth(k)' = Nth(k)
  <2>1. Head(todo) = Order[Turns + 1]
    BY <1>1, CurrentNode
  <2>2. QED
    BY <1>1, <2>1, TurnKeepsSource DEF Nth
<1>6. /\ HasLists(Current) /\ Current.op = node.op /\ Current.outs = node.outs
      /\ \A x \in ToSet(node.ins) : x \in DOMAIN rewire \/ x \in ToSet(Current.ins)
      /\ node.op.type \in AccumulatorOps =>
           Len(node.outs) = 1 /\ node.outs[1] \in ToSet(node.outs)
  BY <1>1, CurrentRewired
<1>7. /\ \A x \in ToSet(Current.ins) :
           x \in source.inputs \/ \E i \in DOMAIN built : x \in ToSet(built[i].outs)
      /\ Current.op.type \notin WideInputOps =>
           /\ ToSet(Current.ins) \subseteq ConsumedByNarrow \cup Narrow
           /\ ToSet(Current.ins) \cap DOMAIN rewire \subseteq Narrow
  BY <1>1, CurrentReads
<1>8. needs => /\ Current.op.type \in AccumulatorOps
               /\ wide \in ConsumedByNarrow /\ wide \notin source.outputs
               /\ wide \notin AlreadyRequantized /\ wide \in ToSet(Current.outs)
  BY <1>6 DEF NeedsRequant
<1>9. ~ needs /\ Current.op.type \in AccumulatorOps =>
        wide \in source.outputs \cup AlreadyRequantized \/ wide \notin ConsumedByNarrow
  BY DEF NeedsRequant
<1>10. needs => /\ built'[n + 2].op.type = "Requant"
                /\ built'[n + 2].ins = <<wide>> /\ built'[n + 2].outs = <<Rq(wide)>>
                /\ DOMAIN built' = 1 .. n + 2
                /\ DOMAIN rewire' = DOMAIN rewire \cup {wide}
                /\ \A u \in DOMAIN rewire' : rewire'[u] = Rq(u)
  BY DEF Turn
<1>11. ~ needs => DOMAIN built' = 1 .. n + 1 /\ rewire' = rewire
  BY DEF Turn
<1>12. ToSet(<<wide>>) = {wide}
  BY DEF ToSet
<1> HIDE DEF n, wide, needs, node
<1>13. /\ \A j \in DOMAIN built' : j \in 1 .. n \/ j = n + 1 \/ (needs /\ j = n + 2)
       /\ 1 .. n \subseteq DOMAIN built' /\ n + 1 \in DOMAIN built'
       /\ needs => n + 2 \in DOMAIN built'
  BY <1>3, <1>10, <1>11
<1>14. /\ DOMAIN rewire \subseteq DOMAIN rewire'
       /\ \A u \in DOMAIN rewire' : u \in DOMAIN rewire \/ (needs /\ u = wide)
  BY <1>10, <1>11
<1>15. Narrow \subseteq Narrow'
  BY <1>14 DEF Narrow
<1>16. Copied'
  <2> SUFFICES ASSUME NEW k \in 1 .. Turns'
               PROVE  \E j \in DOMAIN built' :
                        /\ built'[j].op = Nth(k).op /\ built'[j].outs = Nth(k).outs
                        /\ \A x \in ToSet(Nth(k).ins) :
                             x \in DOMAIN rewire' \/ x \in ToSet(built'[j].ins)
    BY <1>5 DEF Copied
  <2>1. CASE k = Turns + 1
    BY <1>1, <1>5, <1>6, <1>13, <1>14, <2>1
  <2>2. CASE k \in 1 .. Turns
    <3>1. PICK j \in DOMAIN built :
            /\ built[j].op = Nth(k).op /\ built[j].outs = Nth(k).outs
            /\ \A x \in ToSet(Nth(k).ins) : x \in DOMAIN rewire \/ x \in ToSet(built[j].ins)
      BY <1>2, <2>2 DEF Copied
    <3>2. j \in DOMAIN built' /\ built'[j] = built[j]
      BY <1>1, <1>3, <1>13
    <3>3. QED
      BY <1>14, <3>1, <3>2
  <2>3. QED
    BY <1>5, <2>1, <2>2
<1>17. ReadsBack'
  <2> SUFFICES ASSUME NEW j \in DOMAIN built', NEW x \in ToSet(built'[j].ins)
               PROVE  x \in source.inputs \/ \E i \in 1 .. j-1 : x \in ToSet(built'[i].outs)
    BY <1>1 DEF ReadsBack
  <2>1. CASE j \in 1 .. n
    <3>1. x \in source.inputs \/ \E i \in 1 .. j-1 : x \in ToSet(built[i].outs)
      BY <1>1, <1>2, <1>3, <2>1 DEF ReadsBack
    <3>2. \A i \in 1 .. j-1 : i \in DOMAIN built
      BY <1>3, <2>1
    <3>3. QED
      BY <1>1, <3>1, <3>2
  <2>2. CASE j = n + 1
    <3>1. x \in source.inputs \/ \E i \in DOMAIN built : x \in ToSet(built[i].outs)
      BY <1>1, <1>7, <2>2
    <3>2. \A i \in DOMAIN built : i \in 1 .. j-1
      BY <1>3, <2>2
    <3>3. QED
      BY <1>1, <3>1, <3>2
  <2>3. CASE needs /\ j = n + 2
    <3>1. x = wide /\ x \in ToSet(built'[n + 1].outs)
      BY <1>1, <1>8, <1>10, <1>12, <2>3 DEF wide
    <3>2. n + 1 \in 1 .. j-1
      BY <1>3, <2>3
    <3>3. QED
      BY <3>1, <3>2
  <2>4. QED
    BY <1>13, <2>1, <2>2, <2>3
<1>18. RewireInv'
  <2> SUFFICES ASSUME NEW u \in DOMAIN rewire'
               PROVE  /\ rewire'[u] = Rq(u)
                      /\ u \in ConsumedByNarrow /\ u \notin AlreadyRequantized
                      /\ u \notin source.outputs
                      /\ \E i \in DOMAIN built' : /\ built'[i].op.type \in AccumulatorOps
                                                  /\ u \in ToSet(built'[i].outs)
                      /\ \E j \in DOMAIN built' : /\ built'[j].op.type = "Requant"
                                                  /\ built'[j].ins = <<u>>
                                                  /\ built'[j].outs = <<Rq(u)>>
    BY <1>1, <1>4 DEF RewireInv
  <2>1. CASE u \in DOMAIN rewire
    <3>1. /\ u \in ConsumedByNarrow /\ u \notin AlreadyRequantized /\ u \notin source.outputs
          /\ rewire[u] = Rq(u)
      BY <1>2, <2>1 DEF RewireInv
    <3>2. PICK i \in DOMAIN built : built[i].op.type \in AccumulatorOps /\ u \in ToSet(built[i].outs)
      BY <1>2, <2>1 DEF RewireInv
    <3>3. PICK j \in DOMAIN built : /\ built[j].op.type = "Requant"
                                    /\ built[j].ins = <<u>> /\ built[j].outs = <<Rq(u)>>
      BY <1>2, <2>1 DEF RewireInv
    <3>4. /\ i \in DOMAIN built' /\ built'[i] = built[i]
          /\ j \in DOMAIN built' /\ built'[j] = built[j]
      BY <1>1, <1>3, <1>13
    <3>5. rewire'[u] = Rq(u)
      BY <1>10, <1>11, <3>1
    <3>6. QED
      BY <3>1, <3>2, <3>3, <3>4, <3>5
  <2>2. CASE needs /\ u = wide
    <3>1. rewire'[u] = Rq(u)
      BY <1>10, <2>2
    <3>2. QED
      BY <1>1, <1>8, <1>10, <1>13, <2>2, <3>1 DEF wide
  <2>3. QED
    BY <1>14, <2>1, <2>2
<1>19. AccumulatorsSeen'
  <2> SUFFICES ASSUME NEW i \in DOMAIN built', built'[i].op.type \in AccumulatorOps
               PROVE  built'[i].outs[1] \in source.outputs \cup AlreadyRequantized \cup DOMAIN rewire'
                        \/ built'[i].outs[1] \notin ConsumedByNarrow
    BY <1>1, <1>4 DEF AccumulatorsSeen
  <2>1. CASE i \in 1 .. n
    BY <1>1, <1>2, <1>3, <1>14, <2>1 DEF AccumulatorsSeen
  <2>2. CASE i = n + 1
    BY <1>1, <1>9, <1>10, <2>2 DEF wide
  <2>3. CASE needs /\ i = n + 2
    BY <1>10, <2>3 DEF AccumulatorOps
  <2>4. QED
    BY <1>13, <2>1, <2>2, <2>3
<1>20. ReadsKnown'
  <2> SUFFICES ASSUME NEW j \in DOMAIN built', built'[j].op.type \notin WideInputOps,
                      NEW x \in ToSet(built'[j].ins)
               PROVE  x \in ConsumedByNarrow \cup Narrow'
    BY <1>4 DEF ReadsKnown
  <2>1. CASE j \in 1 .. n
    BY <1>1, <1>2, <1>3, <1>15, <2>1 DEF ReadsKnown
  <2>2. CASE j = n + 1
    BY <1>1, <1>7, <1>15, <2>2
  <2>3. CASE needs /\ j = n + 2
    BY <1>8, <1>10, <1>12, <2>3
  <2>4. QED
    BY <1>13, <2>1, <2>2, <2>3
<1>21. WideReadersEarly'
  <2> SUFFICES ASSUME NEW j \in DOMAIN built',
                      built'[j].op.type \notin WideInputOps \cup {"Requant"},
                      NEW x \in ToSet(built'[j].ins) \cap DOMAIN rewire'
               PROVE  x \in Narrow' \/ \E i \in DOMAIN built' : i >= j /\ x \in ToSet(built'[i].outs)
    BY DEF WideReadersEarly
  <2>1. j \in 1 .. n \/ j = n + 1
    BY <1>10, <1>13
  <2>2. CASE needs /\ x = wide
    <3>1. n + 1 >= j
      BY <1>3, <2>1
    <3>2. x \in ToSet(built'[n + 1].outs)
      BY <1>1, <1>8, <2>2
    <3>3. QED
      BY <1>13, <3>1, <3>2
  <2>3. CASE x \in DOMAIN rewire /\ j = n + 1
    BY <1>1, <1>7, <1>15, <2>3
  <2>4. CASE x \in DOMAIN rewire /\ j \in 1 .. n
    <3>1. j \in DOMAIN built /\ built'[j] = built[j]
      BY <1>1, <1>3, <2>4
    <3>2. x \in Narrow \/ \E i \in DOMAIN built : i >= j /\ x \in ToSet(built[i].outs)
      BY <1>2, <2>4, <3>1 DEF WideReadersEarly
    <3>3. \A i \in DOMAIN built : i \in DOMAIN built' /\ built'[i] = built[i]
      BY <1>1, <1>3, <1>13
    <3>4. QED
      BY <1>15, <3>2, <3>3
  <2>5. QED
    BY <1>14, <2>1, <2>2, <2>3, <2>4
<1>22. QED
  BY <1>16, <1>17, <1>18, <1>19, <1>20, <1>21 DEF LoopInv

-----------------------------------------------------------------------------
(* A graph that was returned can be sorted: no name has two writers.       *)
LEMMA OneWriter ==
  ASSUME SourceInv, phase = "returned"
  PROVE  /\ Result.nodes = built /\ Result.inputs = source.inputs
         /\ Result.outputs = source.outputs
         /\ Propagates(built, source.inputs)
         /\ \A i, j \in DOMAIN built : \A x \in ToSet(built[i].outs) :
              /\ x \notin source.inputs
              /\ x \in ToSet(built[j].outs) => i = j
<1>1. /\ Result.nodes = built /\ Result.inputs = source.inputs
      /\ Result.outputs = source.outputs
  BY DEF SourceInv, Result
<1>2. PyBudgetOK(Result)
  BY DEF SourceInv
<1> HIDE DEF Result
<1>3. Propagates(built, source.inputs)
  BY <1>1, <1>2 DEF PyBudgetOK, BudgetOK
<1>4. Sortable(built, source.inputs)
  BY <1>3 DEF Propagates
<1>5. ASSUME NEW i \in DOMAIN built, NEW j \in DOMAIN built, NEW x \in ToSet(built[i].outs)
      PROVE  x \notin source.inputs /\ (x \in ToSet(built[j].outs) => i = j)
  BY <1>4 DEF Sortable
<1>6. QED
  BY <1>1, <1>3, <1>5

(* The tensor an accumulator of the returned graph writes.                 *)
LEMMA AccumulatorWrites ==
  ASSUME SourceInv, LoopInv, phase = "returned",
         NEW i \in DOMAIN built, built[i].op.type \in AccumulatorOps
  PROVE  built[i].outs[1] \in ToSet(built[i].outs) /\ built[i].outs[1] \notin Narrow
<1>1. built[i].outs[1] \in ToSet(built[i].outs)
  <2>1. Matched(built[i]) /\ HasLists(built[i])
    BY OneWriter DEF Propagates, LoopInv, BuiltType
  <2>2. Len(built[i].outs) = 1
    BY <2>1 DEF Matched, OutArity, AccumulatorOps
  <2>3. QED
    BY <2>1, <2>2 DEF HasLists, ToSet
<1>2. ASSUME built[i].outs[1] \in Narrow PROVE FALSE
  <2>1. PICK u \in DOMAIN rewire : built[i].outs[1] = Rq(u)
    BY <1>2 DEF Narrow
  <2>2. PICK j \in DOMAIN built : built[j].op.type = "Requant" /\ built[j].outs = <<Rq(u)>>
    BY DEF LoopInv, RewireInv
  <2>3. Rq(u) \in ToSet(<<Rq(u)>>)
    BY DEF ToSet
  <2>4. i = j
    BY <1>1, <2>1, <2>2, <2>3, OneWriter
  <2>5. QED
    BY <2>2, <2>4 DEF AccumulatorOps
<1>3. QED
  BY <1>1, <1>2

(* A reader of an accumulator that was narrowed came before it, which a    *)
(* graph that can be sorted does not have.                                 *)
LEMMA NarrowedFromInv == Inv => Narrowed
<1> SUFFICES ASSUME Inv, phase = "returned",
                    NEW i \in DOMAIN built,
                    built[i].op.type \notin WideInputOps \cup {"Requant"},
                    NEW j \in DOMAIN built, built[j].op.type \in AccumulatorOps,
                    built[j].outs[1] \in ToSet(built[i].ins)
             PROVE  built[j].outs[1] \in source.outputs \cup AlreadyRequantized
  BY DEF Narrowed
<1> DEFINE x == built[j].outs[1]
<1>1. /\ BuiltType /\ ReadsBack /\ AccumulatorsSeen /\ ReadsKnown /\ WideReadersEarly
      /\ SourceInv /\ LoopInv
  BY DEF Inv, LoopInv
<1>2. x \in ToSet(built[j].outs) /\ x \notin Narrow
  BY <1>1, AccumulatorWrites
<1>3. x \in ConsumedByNarrow
  BY <1>1, <1>2 DEF ReadsKnown
<1>4. ASSUME x \in DOMAIN rewire PROVE FALSE
  <2>1. PICK k \in DOMAIN built : k >= i /\ x \in ToSet(built[k].outs)
    BY <1>1, <1>2, <1>4 DEF WideReadersEarly
  <2>2. PICK m \in 1 .. i-1 : x \in ToSet(built[m].outs)
    BY <1>1, <1>2, OneWriter DEF ReadsBack
  <2>3. i \in Int /\ i <= Len(built) /\ DOMAIN built = 1 .. Len(built) /\ Len(built) \in Nat
    BY <1>1 DEF BuiltType
  <2>4. m \in DOMAIN built
    BY <2>3
  <2>5. m = k
    BY <1>1, <2>1, <2>2, <2>4, OneWriter
  <2>6. QED
    BY <2>1, <2>3, <2>5
<1>5. QED
  BY <1>1, <1>3, <1>4 DEF AccumulatorsSeen

-----------------------------------------------------------------------------
(* A result asks for no Requant that is not in it: what the first run      *)
(* narrowed is read by a Requant now, and nothing else came to be read.    *)
LEMMA NothingLeft ==
  ASSUME Inv, phase = "returned", NEW i \in DOMAIN built,
         built[i].op.type \in AccumulatorOps,
         built[i].outs[1] \notin source.outputs,
         NEW j \in DOMAIN built, built[j].op.type \notin WideInputOps,
         built[i].outs[1] \in ToSet(built[j].ins)
  PROVE  built[i].outs[1] \in ReadBy(built, {"Requant"})
<1> DEFINE x == built[i].outs[1]
<1>1. /\ SourceInv /\ LoopInv
      /\ Copied /\ RewireInv /\ AccumulatorsSeen /\ ReadsKnown
  BY DEF Inv, LoopInv
<1>2. x \in ToSet(built[i].outs) /\ x \notin Narrow
  BY <1>1, AccumulatorWrites
<1>3. x \in AlreadyRequantized \cup DOMAIN rewire
  BY <1>1, <1>2 DEF AccumulatorsSeen, ReadsKnown
<1>4. ASSUME NEW k \in DOMAIN built, built[k].op.type = "Requant", x \in ToSet(built[k].ins)
      PROVE  x \in ReadBy(built, {"Requant"})
  BY <1>4 DEF ReadBy
<1>5. CASE x \in DOMAIN rewire
  <2>1. PICK k \in DOMAIN built : built[k].op.type = "Requant" /\ built[k].ins = <<x>>
    BY <1>1, <1>5 DEF RewireInv
  <2>2. x \in ToSet(<<x>>)
    BY DEF ToSet
  <2>3. QED
    BY <1>4, <2>1, <2>2
<1>6. CASE x \in AlreadyRequantized
  <2>1. PICK p \in DOMAIN source.nodes :
          source.nodes[p].op.type = "Requant" /\ x \in ToSet(source.nodes[p].ins)
    BY <1>6 DEF AlreadyRequantized, ReadBy
  <2>2. /\ source.nodes \in Seq(ToSet(source.nodes)) /\ Len(Order) = Len(source.nodes)
        /\ Turns = Len(Order)
    <3>1. Propagates(source.nodes, source.inputs) /\ todo = <<>>
      BY <1>1 DEF SourceInv
    <3>2. source.nodes \in Seq(ToSet(source.nodes))
      BY <1>1 DEF SourceInv
    <3>3. Len(Order) = Len(source.nodes)
      BY <3>1 DEF Propagates, Sortable, Order
    <3>4. QED
      BY <3>1, <3>2, <3>3 DEF Turns
  <2>3. p \in ToSet(Order) /\ Order \in Seq(DOMAIN source.nodes)
    BY <2>2, OrderIsSound DEF Order, ProducersFirst
  <2>4. PICK k \in 1 .. Turns : Order[k] = p
    BY <2>2, <2>3 DEF ToSet
  <2>5. PICK m \in DOMAIN built :
          /\ built[m].op = Nth(k).op
          /\ \A y \in ToSet(Nth(k).ins) : y \in DOMAIN rewire \/ y \in ToSet(built[m].ins)
    BY <1>1 DEF Copied
  <2>6. Nth(k) = source.nodes[p]
    BY <2>4 DEF Nth
  <2>7. x \in DOMAIN rewire \/ x \in ToSet(built[m].ins)
    BY <2>1, <2>5, <2>6
  <2>8. x \notin DOMAIN rewire
    BY <1>1, <1>6 DEF RewireInv
  <2>9. QED
    BY <1>4, <2>1, <2>5, <2>6, <2>7, <2>8
<1>7. QED
  BY <1>3, <1>5, <1>6

(* The layers of the next call, the result among them, can be its          *)
(* argument.                                                               *)
LEMMA NextCallStep == Inv /\ NextCall => Inv'
<1> SUFFICES ASSUME Inv, NextCall PROVE Inv'
  OBVIOUS
<1>1. /\ phase = "returned" /\ phase' = "start" /\ case' = case
      /\ SourceInv /\ LoopInv
  BY DEF NextCall, Inv
<1>2. LoopInv'
  BY <1>1 DEF LoopInv
<1>3. CASE /\ pass = "probe" /\ pass' = "sized"
           /\ source' = [case.graph EXCEPT !.numBlocks = MinimalBlocks(Result)]
  <2>1. /\ {"nodes", "inputs", "outputs", "numBlocks"} \subseteq DOMAIN case.graph
        /\ IsNodeList(case.graph.nodes)
    BY <1>1, CaseAssumption DEF SourceInv
  <2>2. /\ DOMAIN source' = DOMAIN case.graph
        /\ source'.nodes = case.graph.nodes
    BY <1>3, <2>1
  <2>3. SourceInv'
    BY <1>1, <1>3, <2>1, <2>2 DEF SourceInv, IsNodeList, IsNode
  <2>4. QED
    BY <1>2, <1>3, <2>3 DEF Inv, Settled
<1>4. CASE pass = "sized" /\ pass' = "again" /\ source' = Result
  <2>1. /\ {"nodes", "inputs", "outputs", "numBlocks"} \subseteq DOMAIN source
        /\ PyBudgetOK(Result)
    BY <1>1 DEF SourceInv
  <2>2. /\ DOMAIN source' = DOMAIN source
        /\ source'.nodes = built /\ source'.outputs = source.outputs
        /\ [source' EXCEPT !.nodes = source'.nodes] = source'
    BY <1>4, <2>1 DEF Result
  <2>3. BuiltType /\ ReadsBack
    BY <1>1 DEF LoopInv
  <2>4. SourceInv'
    BY <1>1, <1>4, <2>1, <2>2, <2>3 DEF SourceInv, BuiltType
  <2>5. ASSUME NEW i \in DOMAIN built, NEW p \in Producers(built, i) PROVE p < i
    <3>1. PICK x \in ToSet(built[i].ins) : x \in ToSet(built[p].outs)
      BY DEF Producers
    <3>2. p \in DOMAIN built
      BY DEF Producers
    <3>3. PICK m \in 1 .. i-1 : x \in ToSet(built[m].outs)
      BY <1>1, <2>3, <3>1, <3>2, OneWriter DEF ReadsBack
    <3>4. i \in Int /\ DOMAIN built = 1 .. Len(built) /\ Len(built) \in Nat
      BY <2>3 DEF BuiltType
    <3>5. m \in DOMAIN built /\ m < i
      BY <3>4
    <3>6. p = m
      BY <1>1, <3>1, <3>2, <3>3, <3>5, OneWriter
    <3>7. QED
      BY <3>5, <3>6
  <2>6. ASSUME NEW i \in DOMAIN built, NeedsRequant(built[i])' PROVE FALSE
    <3>1. built' = built
      BY DEF NextCall
    <3>2. /\ built[i].op.type \in AccumulatorOps
          /\ built[i].outs[1] \in ConsumedByNarrow' /\ built[i].outs[1] \notin source'.outputs
          /\ built[i].outs[1] \notin AlreadyRequantized'
      BY <2>6, <3>1 DEF NeedsRequant
    <3>3. PICK j \in DOMAIN built : /\ built[j].op.type \notin WideInputOps
                                    /\ built[i].outs[1] \in ToSet(built[j].ins)
      BY <2>2, <3>2 DEF ConsumedByNarrow
    <3>4. built[i].outs[1] \in ReadBy(built, {"Requant"})
      BY <1>1, <2>2, <3>2, <3>3, NothingLeft
    <3>5. AlreadyRequantized' = ReadBy(built, {"Requant"})
      BY <2>2 DEF AlreadyRequantized
    <3>6. QED
      BY <3>2, <3>4, <3>5
  <2>7. built' = built
    BY DEF NextCall
  <2>8. \A i \in DOMAIN source'.nodes : ~ NeedsRequant(source.nodes[i])'
    BY <2>2, <2>6, <2>7 DEF NeedsRequant
  <2>9. \A i \in DOMAIN source'.nodes : \A p \in Producers(source'.nodes, i) : p < i
    BY <2>2, <2>5
  <2>10. PyBudgetOK(source)'
    BY <1>4, <2>1
  <2>11. Settled'
    BY <1>1, <2>2, <2>8, <2>9, <2>10 DEF Settled, Errors
  <2>12. QED
    BY <1>2, <2>4, <2>11 DEF Inv
<1>5. QED
  BY <1>3, <1>4 DEF NextCall

-----------------------------------------------------------------------------
(* On the second run the node whose turn it is goes through as it is.      *)
LEMMA CurrentIsNode ==
  ASSUME Inv, pass = "again", phase = "loop", todo # <<>>
  PROVE  /\ Current = source.nodes[Turns + 1] /\ ~ NeedsRequant(Current)
         /\ Order = [k \in 1 .. Len(source.nodes) |-> k]
<1>1. /\ SourceInv /\ LoopInv /\ DOMAIN rewire = {}
      /\ \A i \in DOMAIN source.nodes :
           /\ ~ NeedsRequant(source.nodes[i])
           /\ \A p \in Producers(source.nodes, i) : p < i
  BY DEF Inv, Settled
<1>2. /\ source.nodes \in Seq(ToSet(source.nodes))
      /\ \A i \in DOMAIN source.nodes : HasLists(source.nodes[i])
  BY <1>1 DEF SourceInv
<1>3. Order = [k \in 1 .. Len(source.nodes) |-> k]
  BY <1>1, <1>2, ListedOrder DEF Order
<1>4. /\ Turns \in Nat /\ Turns + 1 \in 1 .. Len(Order)
      /\ Head(todo) = Order[Turns + 1] /\ Head(todo) \in DOMAIN source.nodes
  BY <1>1, CurrentNode
<1>5. Head(todo) = Turns + 1
  <2>1. Len(Order) = Len(source.nodes)
    <3>1. Len(source.nodes) \in Nat
      BY <1>2
    <3>2. QED
      BY <1>3, <3>1
  <2>2. QED
    BY <1>3, <1>4, <2>1
<1> DEFINE node == source.nodes[Head(todo)]
<1>6. /\ node = [op |-> node.op, ins |-> node.ins, outs |-> node.outs]
      /\ node.ins \in Seq(ToSet(node.ins))
  BY <1>2, <1>4 DEF HasLists
<1>7. Current = node
  <2>1. Current = Rewired(node)
    BY DEF Current
  <2> HIDE DEF node
  <2>2. [k \in DOMAIN node.ins |-> Get(rewire, node.ins[k], node.ins[k])] = node.ins
    <3>1. \A k \in DOMAIN node.ins : Get(rewire, node.ins[k], node.ins[k]) = node.ins[k]
      BY <1>1 DEF Get
    <3>2. node.ins = [k \in DOMAIN node.ins |-> node.ins[k]]
      BY <1>6
    <3>3. QED
      BY <3>1, <3>2
  <2>3. [node EXCEPT !.ins = node.ins] = node
    <3> DEFINE r == [op |-> node.op, ins |-> node.ins, outs |-> node.outs]
    <3>1. [r EXCEPT !.ins = node.ins] = r
      OBVIOUS
    <3>2. node = r
      BY <1>6
    <3> HIDE DEF r
    <3>3. QED
      BY <3>1, <3>2, Zenon
  <2>4. QED
    BY <2>1, <2>2, <2>3 DEF Rewired
<1>8. QED
  BY <1>1, <1>3, <1>4, <1>5, <1>7

(* Every turn keeps the invariant.                                         *)
LEMMA TurnStep == Inv /\ Turn /\ BuiltType' => Inv'
<1> SUFFICES ASSUME Inv, Turn, BuiltType' PROVE Inv'
  OBVIOUS
<1>1. /\ SourceInv /\ LoopInv
      /\ phase = "loop" /\ todo # <<>> /\ phase' = phase /\ source' = source /\ pass' = pass
      /\ \A j \in DOMAIN built : built'[j] = built[j]
      /\ built'[Len(built) + 1] = Current
  BY DEF Inv, Turn
<1>2. /\ SourceInv' /\ Turns' = Turns + 1 /\ Turns \in Nat /\ LoopInv'
  BY <1>1, TurnKeepsSource, TurnKeepsLoop
<1>3. ASSUME pass = "again" PROVE Settled'
  <2>1. /\ PyBudgetOK(source) /\ [source EXCEPT !.nodes = source.nodes] = source
        /\ \A i \in DOMAIN source.nodes :
             /\ ~ NeedsRequant(source.nodes[i])
             /\ \A p \in Producers(source.nodes, i) : p < i
        /\ DOMAIN rewire = {} /\ Len(built) = Turns
        /\ \A k \in 1 .. Turns : built[k] = source.nodes[k]
    BY <1>1, <1>3 DEF Inv, Settled
  <2>2. Current = source.nodes[Turns + 1] /\ ~ NeedsRequant(Current)
    BY <1>1, <1>3, CurrentIsNode
  <2>3. DOMAIN built' = 1 .. Turns + 1 /\ rewire' = rewire
    BY <2>1, <2>2 DEF Turn
  <2>4. Len(built') = Turns'
    <3>1. Len(built') \in Nat /\ DOMAIN built' = 1 .. Len(built')
      BY DEF BuiltType
    <3>2. QED
      BY <1>2, <2>3, <3>1
  <2>5. \A k \in 1 .. Turns' : built'[k] = source'.nodes[k]
    <3> SUFFICES ASSUME NEW k \in 1 .. Turns' PROVE built'[k] = source.nodes[k]
      BY <1>1
    <3>1. k \in 1 .. Turns \/ k = Turns + 1
      BY <1>2
    <3>2. DOMAIN built = 1 .. Turns
      BY <1>1, <2>1 DEF LoopInv, BuiltType
    <3>3. QED
      BY <1>1, <2>1, <2>2, <3>1, <3>2
  <2>6. /\ PyBudgetOK(source)' /\ [source' EXCEPT !.nodes = source'.nodes] = source'
        /\ phase' \notin Errors
    BY <1>1, <2>1 DEF Errors
  <2>7. \A i \in DOMAIN source'.nodes :
          /\ ~ NeedsRequant(source.nodes[i])'
          /\ \A p \in Producers(source'.nodes, i) : p < i
    <3>1. ConsumedByNarrow' = ConsumedByNarrow /\ AlreadyRequantized' = AlreadyRequantized
      BY <1>1 DEF ConsumedByNarrow, AlreadyRequantized
    <3>2. QED
      BY <1>1, <2>1, <3>1 DEF NeedsRequant
  <2>8. QED
    BY <2>1, <2>3, <2>4, <2>5, <2>6, <2>7 DEF Settled
<1>4. pass # "again" => Settled'
  BY <1>1 DEF Settled
<1>5. QED
  BY <1>2, <1>3, <1>4 DEF Inv

(* A call starts with nothing built, and on a result is not refused.       *)
LEMMA BeginStep == Inv /\ Begin => Inv'
<1> SUFFICES ASSUME Inv, Begin PROVE Inv'
  OBVIOUS
<1>1. /\ phase = "start" /\ built' = <<>> /\ rewire' = <<>>
      /\ case' = case /\ pass' = pass /\ source' = source
  BY DEF Begin
<1>2. /\ case \in Cases /\ pass \in {"probe", "sized", "again"}
      /\ {"nodes", "inputs", "outputs", "numBlocks"} \subseteq DOMAIN source
      /\ source.nodes \in Seq(ToSet(source.nodes))
      /\ \A i \in DOMAIN source.nodes : HasLists(source.nodes[i])
  BY DEF Inv, SourceInv
<1>3. pass = "again" =>
        /\ PyBudgetOK(source) /\ [source EXCEPT !.nodes = source.nodes] = source
        /\ \A i \in DOMAIN source.nodes :
             /\ ~ NeedsRequant(source.nodes[i])
             /\ \A p \in Producers(source.nodes, i) : p < i
  BY DEF Inv, Settled
<1>4. \A i \in DOMAIN source.nodes :
        NeedsRequant(source.nodes[i])' <=> NeedsRequant(source.nodes[i])
  BY <1>1 DEF NeedsRequant, ConsumedByNarrow, AlreadyRequantized
<1>5. CASE ~ Propagates(source.nodes, source.inputs)
  <2>1. phase' = "invalid"
    BY <1>5 DEF Begin
  <2>2. SourceInv' /\ LoopInv'
    BY <1>1, <1>2, <2>1 DEF SourceInv, LoopInv
  <2>3. ~ PyBudgetOK(source)
    BY <1>5 DEF PyBudgetOK, BudgetOK
  <2>4. QED
    BY <1>1, <1>3, <2>2, <2>3 DEF Inv, Settled
<1>6. CASE Propagates(source.nodes, source.inputs)
  <2>1. phase' = "loop" /\ todo' = Order
    BY <1>6 DEF Begin, Order
  <2>2. Order \in Seq(DOMAIN source.nodes)
    BY <1>2, OrderIsSound DEF Order, ProducersFirst
  <2>3. Order' = Order /\ Turns' = 0
    <3>1. Order' = Order
      BY <1>1 DEF Order
    <3>2. QED
      BY <2>1, <2>2, <3>1 DEF Turns
  <2>4. SourceInv'
    <3>1. \A k \in 1 .. Len(Order) : Order[k] = Order[0 + k]
      OBVIOUS
    <3>2. Len(Order) \in Nat
      BY <2>2
    <3>3. QED
      BY <1>1, <1>2, <1>6, <2>1, <2>2, <2>3, <3>1, <3>2 DEF SourceInv
  <2>5. LoopInv'
    <3>1. DOMAIN built' = {} /\ DOMAIN rewire' = {} /\ built' \in Seq({})
      BY <1>1
    <3>2. built' \in Seq(ToSet(built'))
      BY <3>1, ListOfMembers
    <3>3. 1 .. Turns' = {}
      BY <2>3
    <3>4. Copied'
      BY <3>3 DEF Copied
    <3>5. BuiltType' /\ ReadsBack' /\ RewireInv' /\ AccumulatorsSeen' /\ ReadsKnown' /\ WideReadersEarly'
      BY <3>1, <3>2
      DEF BuiltType, ReadsBack, RewireInv, AccumulatorsSeen, ReadsKnown, WideReadersEarly
    <3>6. QED
      BY <3>4, <3>5 DEF LoopInv
  <2>6. Settled'
    <3>1. DOMAIN rewire' = {} /\ Len(built') = Turns' /\ 1 .. Turns' = {}
      BY <1>1, <2>3
    <3>2. QED
      BY <1>1, <1>3, <1>4, <2>1, <3>1 DEF Settled, Errors
  <2>7. QED
    BY <2>4, <2>5, <2>6 DEF Inv
<1>7. QED
  BY <1>5, <1>6

(* On the second run no turn raises.                                       *)
LEMMA RefuseStep == Inv /\ Refuse => Inv'
<1> SUFFICES ASSUME Inv, Refuse PROVE Inv'
  OBVIOUS
<1>1. /\ phase = "loop" /\ todo # <<>> /\ NeedsRequant(Current)
      /\ phase' \in {"overflow", "miscalibrated"}
      /\ case' = case /\ pass' = pass /\ source' = source
  BY DEF Refuse
<1>2. pass # "again"
  BY <1>1, CurrentIsNode
<1>3. SourceInv'
  BY <1>1 DEF Inv, SourceInv
<1>4. QED
  BY <1>1, <1>2, <1>3 DEF Inv, LoopInv, Settled

(* What the invariant says of the lists, where the lists stay as they are. *)
LEMMA LoopUnchanged ==
  LoopInv /\ phase \in {"loop", "returned"} /\ UNCHANGED <<source, todo, built, rewire>> => LoopInv'
<1> SUFFICES ASSUME LoopInv, phase \in {"loop", "returned"},
                    UNCHANGED <<source, todo, built, rewire>>
             PROVE  LoopInv'
  OBVIOUS
<1>1. /\ BuiltType /\ Copied /\ ReadsBack /\ RewireInv
      /\ AccumulatorsSeen /\ ReadsKnown /\ WideReadersEarly
  BY DEF LoopInv
<1>2. /\ source' = source /\ todo' = todo /\ built' = built /\ rewire' = rewire
  OBVIOUS
<1>3. ConsumedByNarrow' = ConsumedByNarrow /\ AlreadyRequantized' = AlreadyRequantized
  BY <1>2 DEF ConsumedByNarrow, AlreadyRequantized
<1>4. Narrow' = Narrow /\ Turns' = Turns /\ \A k : Nth(k)' = Nth(k)
  BY <1>2 DEF Narrow, Turns, Nth, Order
<1>5. BuiltType' /\ Copied' /\ ReadsBack'
  BY <1>1, <1>2, <1>4 DEF BuiltType, Copied, ReadsBack
<1>6. RewireInv' /\ AccumulatorsSeen'
  BY <1>1, <1>2, <1>3 DEF RewireInv, AccumulatorsSeen
<1>7. ReadsKnown' /\ WideReadersEarly'
  BY <1>1, <1>2, <1>3, <1>4 DEF ReadsKnown, WideReadersEarly
<1>8. QED
  BY <1>5, <1>6, <1>7 DEF LoopInv

(* On the second run the list is complete, and fits as it did.             *)
LEMMA ReturnStep == Inv /\ Return => Inv'
<1> SUFFICES ASSUME Inv, Return PROVE Inv'
  OBVIOUS
<1>1. /\ phase = "loop" /\ todo = <<>>
      /\ phase' = IF PyBudgetOK(Result) THEN "returned" ELSE "rejected"
      /\ UNCHANGED <<case, pass, source, todo, built, widths, rewire>>
      /\ SourceInv /\ LoopInv
  BY DEF Return, Inv
<1>2. Result' = Result /\ Order' = Order /\ Turns' = Turns
  BY <1>1 DEF Result, Order, Turns
<1>3. PyBudgetOK(Result)' <=> PyBudgetOK(Result)
  BY <1>2
<1>4. SourceInv'
  <2>1. /\ case \in Cases /\ pass \in {"probe", "sized", "again"}
        /\ {"nodes", "inputs", "outputs", "numBlocks"} \subseteq DOMAIN source
        /\ source.nodes \in Seq(ToSet(source.nodes))
        /\ \A i \in DOMAIN source.nodes : HasLists(source.nodes[i])
        /\ Propagates(source.nodes, source.inputs)
        /\ todo \in Seq(DOMAIN source.nodes)
        /\ Len(todo) <= Len(Order)
        /\ \A k \in 1 .. Len(todo) : todo[k] = Order[Turns + k]
    BY <1>1 DEF SourceInv
  <2>2. phase' = "returned" => todo' = <<>> /\ PyBudgetOK(Result)'
    BY <1>1, <1>3
  <2>3. QED
    BY <1>1, <1>2, <2>1, <2>2 DEF SourceInv
<1>5. LoopInv'
  BY <1>1, LoopUnchanged
<1>6. ASSUME pass = "again" PROVE Settled'
  <2>1. /\ PyBudgetOK(source) /\ [source EXCEPT !.nodes = source.nodes] = source
        /\ \A i \in DOMAIN source.nodes :
             /\ ~ NeedsRequant(source.nodes[i])
             /\ \A p \in Producers(source.nodes, i) : p < i
        /\ DOMAIN rewire = {} /\ Len(built) = Turns
        /\ \A k \in 1 .. Turns : built[k] = source.nodes[k]
    BY <1>1, <1>6 DEF Inv, Settled
  <2>2. /\ source.nodes \in Seq(ToSet(source.nodes)) /\ built \in Seq(ToSet(built))
        /\ Len(Order) = Len(source.nodes)
    BY <1>1 DEF SourceInv, LoopInv, BuiltType, Propagates, Sortable, Order
  <2>3. Turns = Len(source.nodes)
    BY <1>1, <2>2 DEF Turns
  <2>4. built = source.nodes
    BY <2>1, <2>2, <2>3
  <2>5. Result = source
    BY <2>1, <2>4 DEF Result
  <2>6. phase' = "returned"
    BY <1>1, <2>1, <2>5
  <2>7. \A i \in DOMAIN source.nodes :
          NeedsRequant(source.nodes[i])' <=> NeedsRequant(source.nodes[i])
    BY <1>1 DEF NeedsRequant, ConsumedByNarrow, AlreadyRequantized
  <2>8. QED
    BY <1>1, <1>2, <2>1, <2>6, <2>7 DEF Settled, Errors
<1>7. pass # "again" => Settled'
  BY <1>1 DEF Settled
<1>8. QED
  BY <1>4, <1>5, <1>6, <1>7 DEF Inv

(* Nothing changes where nothing is done.                                  *)
LEMMA Stutter == Inv /\ UNCHANGED vars => Inv'
<1> SUFFICES ASSUME Inv, UNCHANGED vars PROVE Inv'
  OBVIOUS
<1>1. /\ case' = case /\ pass' = pass /\ phase' = phase /\ source' = source
      /\ todo' = todo /\ built' = built /\ widths' = widths /\ rewire' = rewire
  BY DEF vars
<1>2. Result' = Result /\ Order' = Order /\ Turns' = Turns
  BY <1>1 DEF Result, Order, Turns
<1>3. SourceInv'
  BY <1>1, <1>2 DEF Inv, SourceInv
<1>4. LoopInv'
  BY <1>1, LoopUnchanged DEF Inv, LoopInv
<1>5. \A i \in DOMAIN source.nodes :
        NeedsRequant(source.nodes[i])' <=> NeedsRequant(source.nodes[i])
  BY <1>1 DEF NeedsRequant, ConsumedByNarrow, AlreadyRequantized
<1>6. Settled'
  BY <1>1, <1>2, <1>5 DEF Inv, Settled
<1>7. QED
  BY <1>3, <1>4, <1>6 DEF Inv

(* Every step keeps the invariant.                                         *)
LEMMA InvStep == Inv /\ [Next]_vars => Inv'
<1> SUFFICES ASSUME Inv, [Next]_vars PROVE Inv'
  OBVIOUS
<1>0. SourceInv /\ LoopInv
  BY DEF Inv
<1>1. CASE Begin
  BY <1>1, BeginStep
<1>2. CASE Keep
  BY <1>0, <1>2, KeepIsTurn, TurnStep
<1>3. CASE Insert
  BY <1>0, <1>3, InsertIsTurn, TurnStep
<1>4. CASE Refuse
  BY <1>4, RefuseStep
<1>5. CASE Return
  BY <1>5, ReturnStep
<1>6. CASE NextCall
  BY <1>6, NextCallStep
<1>7. CASE Done \/ UNCHANGED vars
  BY <1>7, Stutter DEF Done
<1>8. QED
  BY <1>1, <1>2, <1>3, <1>4, <1>5, <1>6, <1>7 DEF Next

(* It holds in every state.                                                *)
LEMMA AlwaysInv == Spec => []Inv
<1>1. Init => Inv
  BY InitInv
<1>2. Inv /\ [Next]_vars => Inv'
  BY InvStep
<1>3. QED
  BY <1>1, <1>2, PTL DEF Spec

(* A second run that returns has been through the whole list.              *)
LEMMA IdempotentFromInv == Inv => Idempotent
<1> SUFFICES ASSUME Inv, pass = "again", phase = "returned" PROVE built = source.nodes
  BY DEF Idempotent, Inv, Settled
<1>1. /\ Len(built) = Turns
      /\ \A k \in 1 .. Turns : built[k] = source.nodes[k]
  BY DEF Inv, Settled
<1>2. /\ source.nodes \in Seq(ToSet(source.nodes)) /\ built \in Seq(ToSet(built))
      /\ Len(Order) = Len(source.nodes) /\ todo = <<>>
  BY DEF Inv, SourceInv, LoopInv, BuiltType, Propagates, Sortable, Order
<1>3. Turns = Len(source.nodes)
  BY <1>2 DEF Turns
<1>4. QED
  BY <1>1, <1>2, <1>3

-----------------------------------------------------------------------------
(* Whatever the layers, however they read each other and whatever the      *)
(* calibration: in a graph that is returned no op that needs a narrow      *)
(* value reads an accumulator, but for graph outputs and what a Requant of *)
(* the argument narrowed.                                                  *)
THEOREM ReturnsNarrowed == Spec => []Narrowed
<1>1. Inv => Narrowed
  BY NarrowedFromInv
<1>2. QED
  BY <1>1, AlwaysInv, PTL

(* A second run on the result of the first is accepted, and gives back the *)
(* nodes it was given, in their order.                                     *)
THEOREM SecondRunChangesNothing == Spec => []Idempotent
<1>1. Inv => Idempotent
  BY IdempotentFromInv
<1>2. QED
  BY <1>1, AlwaysInv, PTL

-----------------------------------------------------------------------------
(* What the new list's nodes write is written by a node that has had its   *)
(* turn, or is the narrowed tensor of one that needed it.                  *)
Origins ==
  /\ \A j \in DOMAIN built : \/ \E k \in 1 .. Turns : built[j].outs = Nth(k).outs
                             \/ \E u \in DOMAIN rewire : built[j].outs = <<Rq(u)>>
  /\ \A u \in DOMAIN rewire : \E k \in 1 .. Turns : NeedsRequant(Nth(k)) /\ u = Nth(k).outs[1]

(* If no narrowed tensor takes a name in use, the running widths are the   *)
(* widths of the new list, and still are when it is returned.              *)
Agreed ==
  phase \in {"loop", "returned"} =>
    Origins /\ (FreshNames => Consistent(built, source.inputs, source.inputBits, widths))

(* A turn widens the node, and then the Requant behind it.                 *)
Widening ==
  /\ ~ NeedsRequant(Current) => widths' = Widened(Current, widths)
  /\ NeedsRequant(Current) =>
       widths' = Widened(built'[Len(built) + 2], Widened(Current, widths))

(* A turn that appends the node alone does.                                *)
LEMMA KeepWidens == Keep => Widening
  BY DEF Keep, Widening, WithOutputs, Widened

(* So does one that narrows its output: a Requant is as wide as it was     *)
(* asked to be.                                                            *)
LEMMA InsertWidens == SourceInv /\ LoopInv /\ Insert => Widening
<1> SUFFICES ASSUME SourceInv, LoopInv, Insert PROVE Widening
  OBVIOUS
<1> DEFINE wide   == Current.outs[1]
           narrow == [op |-> RequantFor(Current), ins |-> <<wide>>, outs |-> <<Rq(wide)>>]
           W      == Widened(Current, widths)
<1>1. /\ NeedsRequant(Current) /\ built' = built \o <<Current, narrow>>
      /\ widths' = Bind(WithOutputs(Current), <<Rq(wide)>>, <<case.outBits>>)
      /\ built \in Seq(ToSet(built))
  BY DEF Insert, LoopInv, BuiltType
<1>2. narrow.op.type = "Requant" /\ narrow.op.outBits = case.outBits /\ narrow.outs = <<Rq(wide)>>
  BY DEF RequantFor
<1>3. WithOutputs(Current) = W
  BY DEF WithOutputs, Widened
<1> HIDE DEF narrow, wide, W
<1>4. OutWidths(narrow, W) = <<case.outBits>>
  <2>1. OutputBits(narrow.op, Operands(narrow, W)) = case.outBits
    BY <1>2 DEF OutputBits
  <2>2. DOMAIN narrow.outs = 1 .. 1
    BY <1>2
  <2>3. OutWidths(narrow, W) = [k \in 1 .. 1 |-> case.outBits]
    BY <2>1, <2>2 DEF OutWidths
  <2>4. QED
    BY <2>3
<1>5. Widened(narrow, W) = Bind(W, <<Rq(wide)>>, <<case.outBits>>)
  BY <1>2, <1>4 DEF Widened
<1>6. built'[Len(built) + 2] = narrow
  <2> DEFINE S == ToSet(built) \cup {Current, narrow}
  <2>1. built \in Seq(S) /\ <<Current, narrow>> \in Seq(S)
    BY <1>1
  <2> HIDE DEF S
  <2>2. QED
    BY <1>1, <2>1
<1>7. QED
  BY <1>1, <1>3, <1>5, <1>6 DEF Widening, W

(* A node that has had its turn, and one that has it now, write different  *)
(* tensors, and neither an input.                                          *)
LEMMA CurrentWrites ==
  ASSUME SourceInv, LoopInv, phase = "loop", todo # <<>>
  PROVE  /\ Current.outs = Nth(Turns + 1).outs /\ Current.op = Nth(Turns + 1).op
         /\ Turns \in Nat
         /\ \A k \in 1 .. Turns + 1 :
              /\ Order[k] \in DOMAIN source.nodes
              /\ ToSet(Nth(k).outs) \subseteq Written(source.nodes)
              /\ ToSet(Nth(k).outs) \cap source.inputs = {}
         /\ IsInjective(Current.outs)
         /\ \A k \in 1 .. Turns : ToSet(Nth(k).outs) \cap ToSet(Current.outs) = {}
         /\ \A k \in 1 .. Turns + 1 :
              Nth(k).op.type \in AccumulatorOps =>
                Nth(k).outs[1] \in ToSet(Nth(k).outs) /\ Nth(k).outs = <<Nth(k).outs[1]>>
<1> DEFINE i == Head(todo)
           T == Turns + 1
<1>1. Turns \in Nat /\ T \in 1 .. Len(Order) /\ i = Order[T] /\ i \in DOMAIN source.nodes
  BY CurrentNode
<1>2. Current.op = source.nodes[i].op /\ Current.outs = source.nodes[i].outs
  BY CurrentRewired
<1>3. ProducersFirst(source.nodes, Order)
  BY OrderIsSound DEF SourceInv, Order
<1>4. Order \in Seq(DOMAIN source.nodes) /\ \A a, c \in 1 .. Len(Order) : Order[a] = Order[c] => a = c
  BY <1>3 DEF ProducersFirst
<1>5. \A a \in DOMAIN source.nodes :
        /\ IsInjective(source.nodes[a].outs) /\ ToSet(source.nodes[a].outs) \cap source.inputs = {}
        /\ \A c \in DOMAIN source.nodes \ {a} :
             ToSet(source.nodes[a].outs) \cap ToSet(source.nodes[c].outs) = {}
        /\ Matched(source.nodes[a]) /\ HasLists(source.nodes[a])
  BY DEF SourceInv, Propagates, Sortable
<1> HIDE DEF i, T
<1>6. \A k \in 1 .. T : k \in 1 .. Len(Order) /\ Order[k] \in DOMAIN source.nodes
  BY <1>1, <1>4
<1>7. \A k \in 1 .. T : /\ ToSet(Nth(k).outs) \subseteq Written(source.nodes)
                        /\ ToSet(Nth(k).outs) \cap source.inputs = {}
  BY <1>5, <1>6 DEF Nth, Written
<1>8. T \in 1 .. T /\ \A k \in 1 .. Turns : k \in 1 .. T /\ k # T
  BY <1>1 DEF T
<1>9. ASSUME NEW k \in 1 .. Turns PROVE ToSet(Nth(k).outs) \cap ToSet(Current.outs) = {}
  <2>1. Order[k] \in DOMAIN source.nodes /\ Order[k] # i
    BY <1>1, <1>4, <1>6, <1>8
  <2>2. QED
    BY <1>1, <1>2, <1>5, <2>1 DEF Nth
<1>10. ASSUME NEW k \in 1 .. T, Nth(k).op.type \in AccumulatorOps
       PROVE  Nth(k).outs[1] \in ToSet(Nth(k).outs) /\ Nth(k).outs = <<Nth(k).outs[1]>>
  <2> DEFINE n == Nth(k)
  <2>1. Matched(n) /\ HasLists(n) /\ n.op.type \in AccumulatorOps
    BY <1>5, <1>6, <1>10 DEF Nth
  <2> HIDE DEF n
  <2>2. Len(n.outs) = 1 /\ n.outs \in Seq(ToSet(n.outs))
    BY <2>1 DEF Matched, HasLists, OutArity, AccumulatorOps
  <2>3. n.outs = <<n.outs[1]>> /\ 1 \in DOMAIN n.outs
    BY <2>2
  <2>4. n.outs[1] \in ToSet(n.outs)
    BY <2>3 DEF ToSet
  <2>5. QED
    BY <2>3, <2>4 DEF n
<1>11. IsInjective(Current.outs)
  BY <1>1, <1>2, <1>5
<1>12. Current.outs = Nth(T).outs /\ Current.op = Nth(T).op
  BY <1>1, <1>2 DEF Nth
<1>13. QED
  BY <1>1, <1>6, <1>7, <1>9, <1>10, <1>11, <1>12 DEF T

(* Every turn adds to the origins.                                         *)
LEMMA TurnOrigins ==
  SourceInv /\ LoopInv /\ Origins /\ Turn => Origins'
<1> SUFFICES ASSUME SourceInv, LoopInv, Origins, Turn PROVE Origins'
  OBVIOUS
<1>1. /\ phase = "loop" /\ todo # <<>> /\ source' = source
      /\ \A j \in DOMAIN built : built'[j] = built[j]
      /\ built'[Len(built) + 1] = Current
      /\ DOMAIN built = 1 .. Len(built) /\ Len(built) \in Nat
  BY DEF Turn, LoopInv, BuiltType
<1>2. Turns' = Turns + 1 /\ Turns \in Nat /\ Order' = Order
  BY TurnKeepsSource
<1>3. \A k : Nth(k)' = Nth(k) /\ (NeedsRequant(Nth(k))' <=> NeedsRequant(Nth(k)))
  BY <1>1, <1>2 DEF Nth, NeedsRequant, ConsumedByNarrow, AlreadyRequantized
<1>4. Current.outs = Nth(Turns + 1).outs /\ (NeedsRequant(Current) => NeedsRequant(Nth(Turns + 1)))
  BY <1>1, CurrentWrites DEF NeedsRequant
<1>5. \A k \in 1 .. Turns : k \in 1 .. Turns'
  BY <1>2
<1>6. Turns + 1 \in 1 .. Turns'
  BY <1>2
<1>7. DOMAIN rewire \subseteq DOMAIN rewire'
  BY DEF Turn
<1>8. ASSUME NEW j \in DOMAIN built
      PROVE  \/ \E k \in 1 .. Turns' : built[j].outs = Nth(k).outs
             \/ \E u \in DOMAIN rewire' : built[j].outs = <<Rq(u)>>
  BY <1>5, <1>7 DEF Origins
<1>9. ASSUME NEW j \in DOMAIN built'
      PROVE  \/ \E k \in 1 .. Turns' : built'[j].outs = Nth(k)'.outs
             \/ \E u \in DOMAIN rewire' : built'[j].outs = <<Rq(u)>>
  <2>1. CASE j \in DOMAIN built
    BY <1>1, <1>3, <1>8, <2>1
  <2>2. CASE j = Len(built) + 1
    BY <1>1, <1>3, <1>4, <1>6, <2>2
  <2>3. CASE j \notin DOMAIN built /\ j # Len(built) + 1
    <3>1. NeedsRequant(Current) /\ DOMAIN built' = 1 .. Len(built) + 2
      BY <1>1, <2>3 DEF Turn
    <3>2. j = Len(built) + 2
      BY <1>1, <2>3, <3>1
    <3>3. built'[j].outs = <<Rq(Current.outs[1])>> /\ Current.outs[1] \in DOMAIN rewire'
      BY <3>1, <3>2 DEF Turn
    <3>4. QED
      BY <3>3
  <2>4. QED
    BY <2>1, <2>2, <2>3
<1>10. ASSUME NEW u \in DOMAIN rewire'
       PROVE  \E k \in 1 .. Turns' : NeedsRequant(Nth(k))' /\ u = Nth(k)'.outs[1]
  <2>1. CASE u \in DOMAIN rewire
    <3>1. PICK k \in 1 .. Turns : NeedsRequant(Nth(k)) /\ u = Nth(k).outs[1]
      BY <2>1 DEF Origins
    <3>2. QED
      BY <1>3, <1>5, <3>1
  <2>2. CASE u \notin DOMAIN rewire
    <3>1. NeedsRequant(Current) /\ u = Current.outs[1]
      BY <2>2 DEF Turn
    <3>2. QED
      BY <1>3, <1>4, <1>6, <3>1
  <2>3. QED
    BY <2>1, <2>2
<1>11. QED
  BY <1>9, <1>10 DEF Origins

(* Its name is one nobody has written, and so is that of its narrowed      *)
(* tensor.                                                                 *)
LEMMA CurrentIsNew ==
  ASSUME SourceInv, LoopInv, Origins, FreshNames, phase = "loop", todo # <<>>
  PROVE  /\ IsInjective(Current.outs)
         /\ ToSet(Current.outs) \cap (source.inputs \cup Written(built)) = {}
         /\ ToSet(Current.ins) \subseteq source.inputs \cup Written(built)
         /\ NeedsRequant(Current) =>
              /\ Current.outs[1] \in ToSet(Current.outs)
              /\ Rq(Current.outs[1]) \notin source.inputs \cup Written(built) \cup ToSet(Current.outs)
<1>1. /\ Current.outs = Nth(Turns + 1).outs /\ Current.op = Nth(Turns + 1).op
      /\ Turns \in Nat
      /\ \A k \in 1 .. Turns + 1 :
           /\ Order[k] \in DOMAIN source.nodes
           /\ ToSet(Nth(k).outs) \subseteq Written(source.nodes)
           /\ ToSet(Nth(k).outs) \cap source.inputs = {}
      /\ IsInjective(Current.outs)
      /\ \A k \in 1 .. Turns : ToSet(Nth(k).outs) \cap ToSet(Current.outs) = {}
  BY CurrentWrites
<1>2. \A k \in 1 .. Turns + 1 : NeedsRequant(Nth(k)) => Nth(k).outs[1] \in ToSet(Nth(k).outs)
  BY CurrentWrites DEF NeedsRequant
<1>3. \A k \in 1 .. Turns + 1 :
        NeedsRequant(Nth(k)) => Rq(Nth(k).outs[1]) \notin source.inputs \cup Written(source.nodes)
  BY <1>1 DEF FreshNames, Nth
<1>4. NeedsRequant(Current) => NeedsRequant(Nth(Turns + 1))
  BY <1>1 DEF NeedsRequant
<1>5. Turns + 1 \in 1 .. Turns + 1 /\ \A k \in 1 .. Turns : k \in 1 .. Turns + 1
  BY <1>1
<1>6. \A x \in ToSet(Current.ins) : x \in source.inputs \/ \E i \in DOMAIN built : x \in ToSet(built[i].outs)
  BY CurrentReads
<1>7. ToSet(Current.ins) \subseteq source.inputs \cup Written(built)
  BY <1>6 DEF Written
<1>8. ASSUME NEW t \in Written(built)
      PROVE  \/ \E k \in 1 .. Turns : t \in ToSet(Nth(k).outs)
             \/ \E k \in 1 .. Turns : NeedsRequant(Nth(k)) /\ t = Rq(Nth(k).outs[1])
  <2>1. PICK j \in DOMAIN built : t \in ToSet(built[j].outs)
    BY <1>8 DEF Written
  <2>2. CASE \E k \in 1 .. Turns : built[j].outs = Nth(k).outs
    BY <2>1, <2>2
  <2>3. CASE \E u \in DOMAIN rewire : built[j].outs = <<Rq(u)>>
    <3>1. PICK u \in DOMAIN rewire : built[j].outs = <<Rq(u)>>
      BY <2>3
    <3>2. t = Rq(u)
      BY <2>1, <3>1 DEF ToSet
    <3>3. QED
      BY <3>2 DEF Origins
  <2>4. QED
    BY <2>2, <2>3 DEF Origins
<1>9. ASSUME NEW t \in ToSet(Current.outs) PROVE t \notin Written(built)
  <2> SUFFICES ASSUME t \in Written(built) PROVE FALSE
    OBVIOUS
  <2>1. t \in Written(source.nodes)
    BY <1>1, <1>5, <1>9
  <2>2. ~ \E k \in 1 .. Turns : t \in ToSet(Nth(k).outs)
    BY <1>1, <1>9
  <2>3. PICK k \in 1 .. Turns : NeedsRequant(Nth(k)) /\ t = Rq(Nth(k).outs[1])
    BY <1>8, <2>2
  <2>4. QED
    BY <1>3, <1>5, <2>1, <2>3
<1>10. ASSUME NeedsRequant(Current)
       PROVE  /\ Current.outs[1] \in ToSet(Current.outs)
              /\ Rq(Current.outs[1]) \notin source.inputs \cup Written(built) \cup ToSet(Current.outs)
  <2> DEFINE u == Current.outs[1]
  <2>1. u \in ToSet(Current.outs) /\ Rq(u) \notin source.inputs \cup Written(source.nodes)
    BY <1>1, <1>2, <1>3, <1>4, <1>5, <1>10
  <2>2. Rq(u) \notin ToSet(Current.outs)
    BY <1>1, <1>5, <2>1
  <2> HIDE DEF u
  <2>3. ASSUME Rq(u) \in Written(built) PROVE FALSE
    <3>1. ~ \E k \in 1 .. Turns : Rq(u) \in ToSet(Nth(k).outs)
      BY <1>1, <1>5, <2>1
    <3>2. PICK k \in 1 .. Turns : NeedsRequant(Nth(k)) /\ Rq(u) = Rq(Nth(k).outs[1])
      BY <1>8, <2>3, <3>1
    <3>3. u = Nth(k).outs[1]
      BY <3>2 DEF Rq
    <3>4. u \in ToSet(Nth(k).outs)
      BY <1>2, <1>5, <3>2, <3>3
    <3>5. QED
      BY <1>1, <2>1, <3>4
  <2>4. QED
    BY <2>1, <2>2, <2>3 DEF u
<1>11. QED
  BY <1>1, <1>5, <1>7, <1>9, <1>10

(* Every turn keeps the widths in step with the list.                      *)
LEMMA TurnWidens ==
  SourceInv /\ LoopInv /\ Agreed /\ Turn /\ Widening => Agreed'
<1> SUFFICES ASSUME SourceInv, LoopInv, Agreed, Turn, Widening
             PROVE  Origins' /\ (FreshNames => Consistent(built, source.inputs, source.inputBits, widths))'
  BY DEF Agreed
<1>1. /\ phase = "loop" /\ todo # <<>> /\ source' = source
      /\ \A j \in DOMAIN built : built'[j] = built[j]
      /\ built'[Len(built) + 1] = Current
      /\ DOMAIN built = 1 .. Len(built) /\ Len(built) \in Nat
  BY DEF Turn, LoopInv, BuiltType
<1>2. Origins /\ Origins'
  BY <1>1, TurnOrigins DEF Agreed
<1>3. FreshNames' <=> FreshNames
  BY <1>1 DEF FreshNames, NeedsRequant, ConsumedByNarrow, AlreadyRequantized
<1> DEFINE ins == source.inputs
           b   == source.inputBits
           n   == Current
           k   == Len(built)
           W   == Widened(n, widths)
<1>4. ASSUME FreshNames PROVE Consistent(built', ins, b, widths')
  <2>1. Consistent(built, ins, b, widths)
    BY <1>1, <1>4 DEF Agreed
  <2>2. /\ IsInjective(n.outs)
        /\ ToSet(n.outs) \cap (ins \cup Written(built)) = {}
        /\ ToSet(n.ins) \subseteq ins \cup Written(built)
        /\ NeedsRequant(n) =>
             /\ n.outs[1] \in ToSet(n.outs)
             /\ Rq(n.outs[1]) \notin ins \cup Written(built) \cup ToSet(n.outs)
    BY <1>1, <1>2, <1>4, CurrentIsNew
  <2>3. k \in Nat /\ DOMAIN built = 1 .. k
    BY <1>1
  <2>4. \A i \in 1 .. k : built'[i] = built[i]
    BY <1>1
  <2>5. built'[k + 1] = n
    BY <1>1
  <2>6. CASE ~ NeedsRequant(n)
    <3>1. DOMAIN built' = 1 .. k + 1 /\ widths' = W
      BY <2>6 DEF Turn, Widening
    <3> HIDE DEF n, k, ins, b
    <3>2. Consistent(built', ins, b, Widened(n, widths))
      BY ONLY <2>1, <2>2, <2>3, <2>4, <2>5, <3>1, ConsistentMore
    <3>3. QED
      BY <3>1, <3>2
  <2>7. CASE NeedsRequant(n)
    <3> DEFINE mid == [i \in 1 .. k + 1 |-> built'[i]]
               r   == built'[k + 2]
               u   == n.outs[1]
    <3>1. /\ DOMAIN built' = 1 .. k + 2 /\ r.ins = <<u>> /\ r.outs = <<Rq(u)>>
          /\ widths' = Widened(r, W)
      BY <2>7 DEF Turn, Widening
    <3>2. DOMAIN mid = 1 .. k + 1 /\ (\A i \in 1 .. k : mid[i] = built[i]) /\ mid[k + 1] = n
      BY <2>3, <2>4, <2>5
    <3>3. k + 1 \in Nat /\ (k + 1) + 1 = k + 2 /\ \A i \in 1 .. k + 1 : built'[i] = mid[i]
      BY <2>3
    <3> HIDE DEF mid, r
    <3>4. Consistent(mid, ins, b, W) /\ Written(mid) = Written(built) \cup ToSet(n.outs)
      <4> HIDE DEF n, k, ins, b
      <4>1. QED
        BY ONLY <2>1, <2>2, <2>3, <3>2, ConsistentMore DEF W
    <3>5. /\ IsInjective(r.outs) /\ ToSet(r.outs) \cap (ins \cup Written(mid)) = {}
          /\ ToSet(r.ins) \subseteq ins \cup Written(mid)
      <4>1. ToSet(r.outs) = {Rq(u)} /\ ToSet(r.ins) = {u} /\ IsInjective(r.outs)
        BY <3>1 DEF ToSet, IsInjective
      <4>2. u \in ToSet(n.outs) /\ Rq(u) \notin ins \cup Written(built) \cup ToSet(n.outs)
        BY <2>2, <2>7
      <4> HIDE DEF u, n, ins
      <4>3. QED
        BY <3>4, <4>1, <4>2
    <3>6. DOMAIN built' = 1 .. (k + 1) + 1 /\ built'[(k + 1) + 1] = r
      BY <3>1, <3>3 DEF r
    <3> HIDE DEF n, k, ins, b, W
    <3>7. Consistent(built', ins, b, Widened(r, W))
      BY ONLY <3>2, <3>3, <3>4, <3>5, <3>6, ConsistentMore
    <3>8. QED
      BY <3>1, <3>7
  <2>8. QED
    BY <2>6, <2>7
<1>5. QED
  BY <1>1, <1>2, <1>3, <1>4

(* The loop starts with the inputs.                                        *)
LEMMA BeginWidens == Begin => Agreed'
<1> SUFFICES ASSUME Begin, phase' \in {"loop", "returned"}
             PROVE  Origins' /\ Consistent(built', source'.inputs, source'.inputBits, widths')
  BY DEF Agreed
<1>1. built' = <<>> /\ rewire' = <<>> /\ widths' = InputWidths(source) /\ source' = source
  BY DEF Begin
<1>2. DOMAIN built' = {} /\ DOMAIN rewire' = {}
  BY <1>1
<1>3. Origins'
  BY <1>2 DEF Origins
<1>4. Written(built') = {}
  BY <1>2 DEF Written
<1>5. DOMAIN widths' = source.inputs /\ \A t \in source.inputs : widths'[t] = source.inputBits
  BY <1>1 DEF InputWidths
<1>6. Consistent(built', source.inputs, source.inputBits, widths')
  BY <1>2, <1>4, <1>5 DEF Consistent
<1>7. QED
  BY <1>1, <1>3, <1>6

(* Nothing else happens to a list that is being built or returned.         *)
LEMMA AgreedUnchanged ==
  ASSUME Agreed, UNCHANGED <<source, todo, built, widths, rewire>>,
         phase' = phase \/ phase = "loop"
  PROVE  Agreed'
<1>1. /\ source' = source /\ todo' = todo /\ built' = built /\ widths' = widths
      /\ rewire' = rewire /\ (phase' = phase \/ phase = "loop")
  OBVIOUS
<1>2. Turns' = Turns /\ Order' = Order /\ \A k : Nth(k)' = Nth(k)
  BY <1>1 DEF Turns, Order, Nth
<1>3. (FreshNames' <=> FreshNames) /\ \A k : NeedsRequant(Nth(k))' <=> NeedsRequant(Nth(k))
  BY <1>1, <1>2 DEF FreshNames, NeedsRequant, ConsumedByNarrow, AlreadyRequantized
<1>4. Origins' <=> Origins
  BY <1>1, <1>2, <1>3 DEF Origins
<1>5. Consistent(built', source'.inputs, source'.inputBits, widths')
        <=> Consistent(built, source.inputs, source.inputBits, widths)
  BY <1>1
<1>6. QED
  BY <1>1, <1>3, <1>4, <1>5 DEF Agreed

(* Every step keeps it.                                                    *)
LEMMA AgreedStep == Inv /\ Agreed /\ [Next]_vars => Agreed'
<1> SUFFICES ASSUME Inv, Agreed, [Next]_vars PROVE Agreed'
  OBVIOUS
<1>0. SourceInv /\ LoopInv
  BY DEF Inv
<1>1. CASE Begin
  BY <1>1, BeginWidens
<1>2. CASE Keep
  BY <1>0, <1>2, KeepIsTurn, KeepWidens, TurnWidens
<1>3. CASE Insert
  BY <1>0, <1>3, InsertIsTurn, InsertWidens, TurnWidens
<1>4. CASE Refuse
  BY <1>4, AgreedUnchanged DEF Refuse
<1>5. CASE Return
  BY <1>5, AgreedUnchanged DEF Return
<1>6. CASE NextCall
  BY <1>6 DEF NextCall, Agreed
<1>7. CASE Done \/ UNCHANGED vars
  BY <1>7, AgreedUnchanged DEF Done, vars
<1>8. QED
  BY <1>1, <1>2, <1>3, <1>4, <1>5, <1>6, <1>7 DEF Next

(* The widths kept along the way are those the finished prefix propagates. *)
LEMMA WidthsAgreeFromInv == Inv /\ Agreed => WidthsAgree
<1> SUFFICES ASSUME Inv, Agreed, phase = "loop", FreshNames
             PROVE  LET w == Widths(built, source) IN
                      DOMAIN w = DOMAIN widths /\ \A t \in DOMAIN w : w[t] = widths[t]
  BY DEF WidthsAgree
<1>1. built \in Seq(ToSet(built))
  BY DEF Inv, LoopInv, BuiltType
<1>2. Consistent(built, source.inputs, source.inputBits, widths)
  BY DEF Agreed
<1>3. QED
  BY <1>1, <1>2, ConsistentWidths

(* Whatever the layers and the calibration: the width the pass carries for *)
(* a tensor while it walks is the width a fresh computation on the list it *)
(* has built so far gives that tensor, so long as no narrowed tensor takes *)
(* a name that is in use.                                                  *)
THEOREM RunningWidthsAgree == Spec => []WidthsAgree
<1>1. Init => Agreed
  BY DEF Init, Agreed
<1>2. Inv /\ Agreed => WidthsAgree
  BY WidthsAgreeFromInv
<1>3. QED
  BY <1>1, <1>2, AlwaysInv, AgreedStep, PTL DEF Spec

-----------------------------------------------------------------------------
(* Types: what is built is made of ops that declare themselves, and every  *)
(* tensor at hand has a width.                                             *)
Typing ==
  /\ phase \in {"start", "loop", "returned"} \cup Errors
  /\ "inputBits" \in DOMAIN source
  /\ source.inputBits = case.graph.inputBits /\ source.inputBits \in Nat
  /\ \A i \in DOMAIN source.nodes : Declared(source.nodes[i].op)
  /\ todo \in Seq(DOMAIN source.nodes) /\ (phase = "start" => todo = <<>>)
  /\ \A t \in DOMAIN widths : widths[t] \in Nat
  /\ \A t \in DOMAIN rewire : rewire[t] = Rq(t) /\ {t, Rq(t)} \subseteq DOMAIN widths
  /\ phase \in {"loop", "returned"} =>
       /\ DOMAIN widths = source.inputs \cup Written(built)
       /\ \A j \in DOMAIN built : Declared(built[j].op)

(* Widening adds widths.                                                   *)
LEMMA WidenedType ==
  ASSUME NEW n, HasLists(n), Valid(n.op), Declared(n.op), Len(n.ins) = Arity(n.op),
         NEW w, \A t \in DOMAIN w : w[t] \in Nat, ToSet(n.ins) \subseteq DOMAIN w
  PROVE  /\ DOMAIN Widened(n, w) = DOMAIN w \cup ToSet(n.outs)
         /\ \A t \in DOMAIN Widened(n, w) : Widened(n, w)[t] \in Nat
<1> DEFINE v == Widened(n, w)
           b == Operands(n, w)
<1>1. v = Bind(w, n.outs, OutWidths(n, w))
  BY DEF Widened
<1>2. v = [t \in DOMAIN w \cup ToSet(n.outs) |->
             IF t \in ToSet(n.outs) THEN OutWidths(n, w)[PlaceOf(n.outs, t)] ELSE w[t]]
  BY <1>1 DEF Bind
<1>3. b \in Seq(Nat) /\ Len(b) = Arity(n.op)
  <2>1. \A k \in DOMAIN n.ins : n.ins[k] \in DOMAIN w
    BY DEF ToSet
  <2>2. DOMAIN n.ins = 1 .. Len(n.ins) /\ Len(n.ins) \in Nat
    BY DEF HasLists
  <2>3. b = [k \in 1 .. Len(n.ins) |-> w[n.ins[k]]]
    BY <2>2 DEF Operands
  <2>4. \A k \in 1 .. Len(n.ins) : w[n.ins[k]] \in Nat
    BY <2>1, <2>2
  <2> HIDE DEF b
  <2>5. QED
    BY <2>2, <2>3, <2>4
<1> HIDE DEF v, b
<1>4. OutputBits(n.op, b) \in Nat
  BY <1>3, OutputBitsType
<1>5. \A k \in DOMAIN n.outs : OutWidths(n, w)[k] \in Nat
  BY <1>4 DEF OutWidths, b
<1>6. ASSUME NEW t \in DOMAIN v PROVE v[t] \in Nat
  <2>1. CASE t \in ToSet(n.outs)
    <3>1. PlaceOf(n.outs, t) \in DOMAIN n.outs
      BY <2>1 DEF ToSet, PlaceOf
    <3>2. QED
      BY <1>2, <1>5, <2>1, <3>1
  <2>2. CASE t \notin ToSet(n.outs)
    BY <1>2, <2>2
  <2>3. QED
    BY <2>1, <2>2
<1>7. QED
  BY <1>2, <1>6 DEF v

(* The table every Requant gets.                                           *)
LEMMA ClampLutType ==
  ASSUME NEW ob \in Nat
  PROVE  ClampLut(ob) \in Seq(Nat) /\ Below(ClampLut(ob), ob)
<1> DEFINE lut == ClampLut(ob)
           N == 2^MessageBits
           P == 2^ob
<1>1. N \in Nat /\ P \in Nat \ {0}
  <2>1. 2^ob \in Nat /\ 1 <= 2^ob /\ 2^MessageBits \in Nat
    BY PowerStep, PowerBounds DEF MessageBits
  <2>2. QED
    BY <2>1
<1>2. lut = [v \in 1 .. N |-> Smaller(v - 1, P - 1)]
  BY DEF ClampLut
<1> HIDE DEF N, P, lut
<1>3. ASSUME NEW v \in 1 .. N
      PROVE  lut[v] \in Nat /\ Magnitude(lut[v]) < P
  <2>1. v - 1 \in Int /\ P - 1 \in Int /\ v - 1 \in Nat /\ P - 1 \in Nat /\ P - 1 < P
    BY <1>1
  <2> DEFINE a == v - 1
             c == P - 1
  <2>2. lut[v] = Smaller(a, c)
    BY <1>2
  <2> HIDE DEF a, c
  <2>3. Smaller(a, c) = IF a <= c THEN a ELSE c
    BY <2>1, LargerSmaller DEF a, c
  <2>4. a \in Nat /\ c \in Nat /\ c < P
    BY <2>1 DEF a, c
  <2>5. lut[v] \in Nat /\ lut[v] < P
    BY <1>1, <2>2, <2>3, <2>4
  <2>6. QED
    BY <2>5 DEF Magnitude
<1>4. DOMAIN lut = 1 .. N /\ lut = [v \in 1 .. N |-> lut[v]]
  BY <1>2
<1>5. lut \in Seq(Nat)
  BY <1>1, <1>3, <1>4
<1>6. lut \in Seq(Int)
  BY <1>5
<1>7. Below(lut, ob)
  BY <1>3, <1>4, <1>6 DEF Below, P
<1>8. QED
  BY <1>5, <1>7 DEF lut

(* A count that calibration gives, or a default.                           *)
LEMMA GetCount ==
  ASSUME NEW f, Counts(f), NEW key, NEW default \in Nat
  PROVE  Get(f, key, default) \in Nat
  BY DEF Get, Counts

(* A Requant that is spliced in declares itself.                           *)
LEMMA RequantDeclared ==
  ASSUME case \in Cases, NEW node, node.op.type \in AccumulatorOps,
         Valid(node.op), Declared(node.op), FallbackShift(node) \in Nat
  PROVE  Declared(RequantFor(node))
<1> DEFINE name == node.outs[1]
           cal  == case.calib
           Ch   == [mult : Nat, shift : Nat, roundBias : Nat]
           one  == [mult      |-> Get(cal.mults, name, 1),
                    shift     |-> Get(cal.shifts, name, FallbackShift(node)),
                    roundBias |-> Get(cal.roundBiases, name, 0)]
           rq   == RequantFor(node)
<1>1. case.outBits \in Nat /\ Calibration(cal)
  BY CaseAssumption
<1>2. /\ Counts(cal.mults) /\ Counts(cal.shifts) /\ Counts(cal.roundBiases) /\ Counts(cal.zeroPoints)
      /\ \A t \in DOMAIN cal.clampLos : cal.clampLos[t] \in Int
      /\ \A t \in DOMAIN cal.perChannel : cal.perChannel[t] \in Seq(Ch)
  BY <1>1 DEF Calibration
<1>3. /\ rq.type = "Requant"
      /\ rq.channel = IF PerChannel(node) THEN cal.perChannel[name] ELSE <<one>>
      /\ rq.channelSize = IF PerChannel(node) THEN ChannelSize(node.op) ELSE 0
      /\ rq.clampLo = Get(cal.clampLos, name, 0)
      /\ rq.zeroPoint = Get(cal.zeroPoints, name, 0)
      /\ rq.outBits = case.outBits /\ rq.lut = ClampLut(case.outBits)
  BY DEF RequantFor
<1>4. PerChannel(node) => name \in DOMAIN cal.perChannel
  BY DEF PerChannel
<1> HIDE DEF rq, cal, name
<1>5. one \in Ch
  <2>1. Get(cal.mults, name, 1) \in Nat /\ Get(cal.roundBiases, name, 0) \in Nat
        /\ Get(cal.shifts, name, FallbackShift(node)) \in Nat
    BY <1>2, GetCount
  <2>2. QED
    BY <2>1
<1> HIDE DEF one, Ch
<1>6. rq.channel \in Seq(Ch)
  BY <1>2, <1>3, <1>4, <1>5
<1>7. rq.channelSize \in Nat
  <2>1. ChannelSize(node.op) \in Nat
    <3>1. CASE node.op.type = "Linear"
      BY <3>1 DEF ChannelSize
    <3>2. CASE node.op.type = "Conv2d"
      <4> DEFINE g == node.op.geom
      <4>1. g \in Geometries /\ ValidShape(g)
        BY <3>2 DEF Declared, Geometries, Valid, ValidConv
      <4>2. ChannelSize(node.op) = OutH(g) * OutW(g)
        BY <3>2 DEF ChannelSize, Plane
      <4> HIDE DEF g
      <4>3. OutH(g) \in Nat /\ OutW(g) \in Nat
        BY <4>1, OutMap
      <4>4. QED
        BY <4>2, <4>3
    <3>3. QED
      BY <3>1, <3>2 DEF AccumulatorOps
  <2>2. QED
    BY <1>3, <2>1
<1>8. rq.clampLo \in Int
  BY <1>2, <1>3 DEF Get
<1>9. rq.zeroPoint \in Nat
  BY <1>2, <1>3, GetCount
<1>10. rq.outBits \in Nat /\ rq.lut \in Seq(Nat) /\ Below(rq.lut, rq.outBits)
  BY <1>1, <1>3, ClampLutType
<1>11. Declared(rq)
  BY <1>3, <1>6, <1>7, <1>8, <1>9, <1>10 DEF Declared, OpTypes, Ch
<1>12. QED
  BY <1>11 DEF rq

(* What the node whose turn it is declares, and its operands' widths.      *)
LEMMA CurrentTyped ==
  ASSUME SourceInv, LoopInv, Typing, phase = "loop", todo # <<>>
  PROVE  /\ HasLists(Current) /\ Valid(Current.op) /\ Declared(Current.op)
         /\ Len(Current.ins) = Arity(Current.op) /\ ToSet(Current.ins) \subseteq DOMAIN widths
         /\ Current.op.type \in AccumulatorOps => Current.outs[1] \in ToSet(Current.outs)
<1> DEFINE node == source.nodes[Head(todo)]
<1>1. Head(todo) \in DOMAIN source.nodes
  BY CurrentNode
<1>2. /\ HasLists(Current) /\ Current.op = node.op /\ Current.outs = node.outs
      /\ Len(Current.ins) = Len(node.ins)
      /\ node.op.type \in AccumulatorOps => node.outs[1] \in ToSet(node.outs)
  BY CurrentRewired
<1>3. Valid(node.op) /\ Matched(node) /\ Declared(node.op)
  BY <1>1 DEF SourceInv, Propagates, Typing
<1>4. \A x \in ToSet(Current.ins) : x \in source.inputs \/ \E i \in DOMAIN built : x \in ToSet(built[i].outs)
  BY CurrentReads
<1>5. DOMAIN widths = source.inputs \cup Written(built)
  BY DEF Typing
<1> HIDE DEF node
<1>6. ToSet(Current.ins) \subseteq DOMAIN widths
  BY <1>4, <1>5 DEF Written
<1>7. QED
  BY <1>2, <1>3, <1>6 DEF Matched

(* The fallback shift of the node whose turn it is.                        *)
LEMMA FallbackShiftIs ==
  ASSUME SourceInv, LoopInv, Typing, phase = "loop", todo # <<>>, NeedsRequant(Current)
  PROVE  LET w == Widened(Current, widths)[Current.outs[1]]
         IN  /\ w \in Nat /\ case.outBits \in Nat
             /\ FallbackShift(Current) = Larger(0, w - case.outBits)
             /\ FallbackShift(Current) \in Nat
<1> DEFINE v == Widened(Current, widths)
           w == v[Current.outs[1]]
           s == w - case.outBits
<1>1. /\ HasLists(Current) /\ Valid(Current.op) /\ Declared(Current.op)
      /\ Len(Current.ins) = Arity(Current.op) /\ ToSet(Current.ins) \subseteq DOMAIN widths
      /\ Current.outs[1] \in ToSet(Current.outs)
  BY CurrentTyped DEF NeedsRequant
<1>2. \A t \in DOMAIN widths : widths[t] \in Nat
  BY DEF Typing
<1>3. case.outBits \in Nat
  BY CaseAssumption DEF SourceInv
<1>4. FallbackShift(Current) = Larger(0, s)
  BY DEF FallbackShift, WithOutputs, Widened
<1>5. w \in Nat
  BY <1>1, <1>2, WidenedType
<1>6. s \in Int
  BY <1>3, <1>5
<1> HIDE DEF v, w, s
<1>7. Larger(0, s) = IF 0 >= s THEN 0 ELSE s
  BY <1>6, LargerSmaller
<1>8. Larger(0, s) \in Nat
  BY <1>6, <1>7
<1>9. QED
  BY <1>3, <1>4, <1>5, <1>8 DEF v, w, s

(* What an insertion splices in.                                           *)
LEMMA InsertSplices ==
  SourceInv /\ LoopInv /\ Insert =>
    /\ built'[Len(built) + 2].op = RequantFor(Current)
    /\ Calibrated(Current)
<1> SUFFICES ASSUME SourceInv, LoopInv, Insert
             PROVE  /\ built'[Len(built) + 2].op = RequantFor(Current)
                    /\ Calibrated(Current)
  OBVIOUS
<1> DEFINE wide   == Current.outs[1]
           narrow == [op |-> RequantFor(Current), ins |-> <<wide>>, outs |-> <<Rq(wide)>>]
           S      == ToSet(built) \cup {Current, narrow}
<1>1. built' = built \o <<Current, narrow>> /\ Calibrated(Current)
  BY DEF Insert
<1>2. built \in Seq(ToSet(built))
  BY DEF Insert, LoopInv, BuiltType
<1>3. narrow.op = RequantFor(Current)
  OBVIOUS
<1> HIDE DEF narrow
<1>4. built \in Seq(S) /\ <<Current, narrow>> \in Seq(S)
  BY <1>2
<1> HIDE DEF S
<1>5. built'[Len(built) + 2] = narrow
  BY <1>1, <1>4
<1>6. QED
  BY <1>1, <1>3, <1>5

(* A list that grows by one node writes what that node writes too.         *)
LEMMA WrittenMore ==
  ASSUME NEW ns, NEW ms, NEW k \in Nat, DOMAIN ns = 1 .. k, DOMAIN ms = 1 .. k + 1,
         \A i \in 1 .. k : ms[i] = ns[i]
  PROVE  Written(ms) = Written(ns) \cup ToSet(ms[k + 1].outs)
<1>1. \A i \in 1 .. k + 1 : i \in 1 .. k \/ i = k + 1
  OBVIOUS
<1>2. k + 1 \in 1 .. k + 1 /\ \A i \in 1 .. k : i \in 1 .. k + 1
  OBVIOUS
<1>3. QED
  BY <1>1, <1>2 DEF Written

(* Every turn keeps the types.                                             *)
LEMMA TurnTypes ==
  ASSUME SourceInv, LoopInv, Typing, Turn, Widening, BuiltType',
         NeedsRequant(Current) => /\ Declared(built'[Len(built) + 2].op)
                                  /\ Valid(built'[Len(built) + 2].op)
  PROVE  Typing'
<1> DEFINE k == Len(built)
           n == Current
           W == Widened(n, widths)
<1>1. /\ phase = "loop" /\ todo # <<>> /\ phase' = phase /\ todo' = Tail(todo)
      /\ source' = source /\ case' = case
      /\ \A j \in 1 .. k : built'[j] = built[j]
      /\ built'[k + 1] = n
      /\ DOMAIN built = 1 .. k /\ k \in Nat
  BY DEF Turn, LoopInv, BuiltType
<1>2. /\ source.inputBits = case.graph.inputBits /\ source.inputBits \in Nat
      /\ "inputBits" \in DOMAIN source
      /\ \A i \in DOMAIN source.nodes : Declared(source.nodes[i].op)
      /\ \A t \in DOMAIN widths : widths[t] \in Nat
      /\ \A t \in DOMAIN rewire : rewire[t] = Rq(t) /\ {t, Rq(t)} \subseteq DOMAIN widths
      /\ DOMAIN widths = source.inputs \cup Written(built)
      /\ \A j \in 1 .. k : Declared(built[j].op)
  BY <1>1 DEF Typing
<1>3. /\ HasLists(n) /\ Valid(n.op) /\ Declared(n.op)
      /\ Len(n.ins) = Arity(n.op) /\ ToSet(n.ins) \subseteq DOMAIN widths
      /\ n.op.type \in AccumulatorOps => n.outs[1] \in ToSet(n.outs)
  BY <1>1, CurrentTyped
<1>4. todo' \in Seq(DOMAIN source.nodes)
  BY <1>1, CurrentNode
<1>5. /\ DOMAIN W = DOMAIN widths \cup ToSet(n.outs)
      /\ \A t \in DOMAIN W : W[t] \in Nat
  BY <1>2, <1>3, WidenedType
<1>6. SUFFICES /\ \A t \in DOMAIN widths' : widths'[t] \in Nat
               /\ \A t \in DOMAIN rewire' : rewire'[t] = Rq(t) /\ {t, Rq(t)} \subseteq DOMAIN widths'
               /\ DOMAIN widths' = source.inputs \cup Written(built')
               /\ \A j \in DOMAIN built' : Declared(built'[j].op)
  BY <1>1, <1>2, <1>4 DEF Typing
<1>7. CASE ~ NeedsRequant(n)
  <2>1. DOMAIN built' = 1 .. k + 1 /\ widths' = W /\ rewire' = rewire
    BY <1>7 DEF Turn, Widening
  <2> HIDE DEF k, n, W
  <2>2. Written(built') = Written(built) \cup ToSet(n.outs)
    <3>1. Written(built') = Written(built) \cup ToSet(built'[k + 1].outs)
      BY <1>1, <2>1, WrittenMore
    <3>2. QED
      BY <1>1, <3>1
  <2>3. \A j \in 1 .. k + 1 : Declared(built'[j].op)
    <3>1. \A j \in 1 .. k + 1 : j \in 1 .. k \/ j = k + 1
      BY <1>1
    <3>2. QED
      BY <1>1, <1>2, <1>3, <3>1
  <2>4. \A t \in DOMAIN rewire' : rewire'[t] = Rq(t) /\ {t, Rq(t)} \subseteq DOMAIN widths'
    BY <1>2, <1>5, <2>1
  <2>5. QED
    BY <1>2, <1>5, <2>1, <2>2, <2>3, <2>4
<1>8. CASE NeedsRequant(n)
  <2> DEFINE r == built'[k + 2]
             u == n.outs[1]
             mid == [i \in 1 .. k + 1 |-> built'[i]]
  <2>1. /\ DOMAIN built' = 1 .. k + 2 /\ r.op.type = "Requant"
        /\ r.ins = <<u>> /\ r.outs = <<Rq(u)>>
        /\ DOMAIN rewire' = DOMAIN rewire \cup {u} /\ \A t \in DOMAIN rewire' : rewire'[t] = Rq(t)
        /\ widths' = Widened(r, W)
    BY <1>8 DEF Turn, Widening
  <2>2. Declared(r.op) /\ Valid(r.op)
    BY <1>8
  <2>3. HasLists(r)
    <3>1. k + 2 \in 1 .. k + 2
      BY <1>1
    <3>2. QED
      BY <2>1, <3>1 DEF BuiltType
  <2>4. u \in ToSet(n.outs)
    BY <1>3, <1>8 DEF NeedsRequant
  <2> HIDE DEF n, W
  <2>5. DOMAIN mid = 1 .. k + 1 /\ (\A i \in 1 .. k : mid[i] = built[i]) /\ mid[k + 1] = n
    BY <1>1
  <2>6. (k + 1) + 1 = k + 2 /\ k + 1 \in Nat /\ \A i \in 1 .. k + 1 : built'[i] = mid[i]
    BY <1>1
  <2> HIDE DEF mid, r, k, u
  <2>7. ToSet(r.outs) = {Rq(u)} /\ ToSet(r.ins) = {u} /\ Len(r.ins) = Arity(r.op)
    BY <2>1 DEF ToSet, Arity
  <2>8. Written(mid) = Written(built) \cup ToSet(n.outs)
    <3>1. Written(mid) = Written(built) \cup ToSet(mid[k + 1].outs)
      BY <1>1, <2>5, WrittenMore
    <3>2. QED
      BY <2>5, <3>1
  <2>9. Written(built') = Written(mid) \cup {Rq(u)}
    <3> DEFINE K == k + 1
    <3>1. K \in Nat /\ DOMAIN mid = 1 .. K /\ \A i \in 1 .. K : built'[i] = mid[i]
      BY <2>5, <2>6
    <3>2. DOMAIN built' = 1 .. K + 1 /\ built'[K + 1] = r
      BY <2>1, <2>6 DEF r
    <3> HIDE DEF K
    <3>3. Written(built') = Written(mid) \cup ToSet(built'[K + 1].outs)
      BY ONLY <3>1, <3>2, WrittenMore
    <3>4. QED
      BY <2>7, <3>2, <3>3
  <2>10. /\ DOMAIN widths' = DOMAIN W \cup {Rq(u)}
         /\ \A t \in DOMAIN widths' : widths'[t] \in Nat
    <3>1. ToSet(r.ins) \subseteq DOMAIN W
      BY <1>5, <2>4, <2>7
    <3>2. /\ DOMAIN Widened(r, W) = DOMAIN W \cup ToSet(r.outs)
          /\ \A t \in DOMAIN Widened(r, W) : Widened(r, W)[t] \in Nat
      BY <1>5, <2>2, <2>3, <2>7, <3>1, WidenedType
    <3>3. QED
      BY <2>1, <2>7, <3>2
  <2>11. \A j \in DOMAIN built' : Declared(built'[j].op)
    <3>1. \A j \in 1 .. k + 2 : j \in 1 .. k \/ j = k + 1 \/ j = k + 2
      BY <1>1
    <3>2. built'[k + 2] = r
      BY DEF r
    <3>3. QED
      BY <1>1, <1>2, <1>3, <2>1, <2>2, <3>1, <3>2
  <2>12. \A t \in DOMAIN rewire' : rewire'[t] = Rq(t) /\ {t, Rq(t)} \subseteq DOMAIN widths'
    BY <1>2, <1>5, <2>1, <2>4, <2>10
  <2>13. QED
    BY <1>2, <1>5, <2>8, <2>9, <2>10, <2>11, <2>12
<1>9. QED
  BY <1>7, <1>8

(* Every step does.                                                        *)
LEMMA TypingStep == Inv /\ Typing /\ [Next]_vars => Typing'
<1> SUFFICES ASSUME Inv, Typing, [Next]_vars PROVE Typing'
  OBVIOUS
<1>0. SourceInv /\ LoopInv
  BY DEF Inv
<1>1. CASE Begin
  <2>1. /\ phase = "start" /\ case' = case /\ source' = source /\ built' = <<>> /\ rewire' = <<>>
        /\ \/ /\ phase' = "loop" /\ todo' = Order /\ widths' = InputWidths(source)
           \/ phase' = "invalid" /\ todo' = todo /\ widths' = widths
    BY <1>1 DEF Begin, Order
  <2>2. DOMAIN built' = {} /\ DOMAIN rewire' = {} /\ Written(built') = {}
    BY <2>1 DEF Written
  <2>3. Order \in Seq(DOMAIN source.nodes)
    <3>1. ProducersFirst(source.nodes, Order)
      BY <1>0, OrderIsSound DEF SourceInv, Order
    <3>2. QED
      BY <3>1 DEF ProducersFirst
  <2>4. /\ DOMAIN InputWidths(source) = source.inputs
        /\ \A t \in DOMAIN InputWidths(source) : InputWidths(source)[t] \in Nat
    BY DEF InputWidths, Typing
  <2>5. /\ "inputBits" \in DOMAIN source /\ source.inputBits = case.graph.inputBits
        /\ source.inputBits \in Nat
        /\ \A i \in DOMAIN source.nodes : Declared(source.nodes[i].op)
        /\ todo \in Seq(DOMAIN source.nodes) /\ \A t \in DOMAIN widths : widths[t] \in Nat
    BY DEF Typing
  <2>6. CASE phase' = "loop" /\ todo' = Order /\ widths' = InputWidths(source)
    BY <2>1, <2>2, <2>3, <2>4, <2>5, <2>6 DEF Typing
  <2>7. CASE phase' = "invalid" /\ todo' = todo /\ widths' = widths
    BY <2>1, <2>2, <2>5, <2>7 DEF Typing, Errors
  <2>8. QED
    BY <2>1, <2>6, <2>7
<1>2. CASE Keep
  <2>1. ~ NeedsRequant(Current)
    BY <1>2 DEF Keep
  <2>2. QED
    BY <1>0, <1>2, <2>1, KeepIsTurn, KeepWidens, TurnTypes
<1>3. CASE Insert
  <2>1. NeedsRequant(Current) /\ phase = "loop" /\ todo # <<>>
    BY <1>3 DEF Insert
  <2>2. built'[Len(built) + 2].op = RequantFor(Current) /\ Calibrated(Current)
    BY <1>0, <1>3, InsertSplices
  <2>3. Declared(RequantFor(Current))
    <3>1. Valid(Current.op) /\ Declared(Current.op) /\ Current.op.type \in AccumulatorOps
      BY <1>0, <2>1, CurrentTyped DEF NeedsRequant
    <3>2. FallbackShift(Current) \in Nat /\ case \in Cases
      BY <1>0, <2>1, FallbackShiftIs DEF SourceInv
    <3>3. QED
      BY <3>1, <3>2, RequantDeclared
  <2>4. Valid(RequantFor(Current))
    <3>1. ValidRequant(RequantFor(Current)) /\ RequantFor(Current).type = "Requant"
      BY <2>2 DEF Calibrated, RequantFor
    <3>2. QED
      BY <3>1 DEF Valid
  <2>5. QED
    BY <1>0, <1>3, <2>2, <2>3, <2>4, InsertIsTurn, InsertWidens, TurnTypes
<1>4. CASE Refuse
  BY <1>4 DEF Refuse, Typing, Errors
<1>5. CASE Return
  BY <1>5 DEF Return, Typing, Errors
<1>6. CASE NextCall
  <2>1. /\ phase = "returned" /\ phase' = "start" /\ case' = case /\ todo' = todo
        /\ widths' = widths /\ rewire' = rewire
    BY <1>6 DEF NextCall
  <2>2. todo = <<>> /\ todo' \in Seq(DOMAIN source'.nodes)
    BY <1>0, <2>1 DEF SourceInv
  <2>3. CASE source' = [case.graph EXCEPT !.numBlocks = MinimalBlocks(Result)]
    <3>1. /\ {"nodes", "inputs", "outputs", "inputBits", "numBlocks"} \subseteq DOMAIN case.graph
          /\ \A i \in DOMAIN case.graph.nodes : Declared(case.graph.nodes[i].op)
          /\ case.graph.inputBits \in Nat
      BY <1>0, CaseAssumption DEF SourceInv
    <3>2. /\ DOMAIN source' = DOMAIN case.graph /\ source'.nodes = case.graph.nodes
          /\ source'.inputBits = case.graph.inputBits
      BY <2>3, <3>1
    <3>3. QED
      BY <2>1, <2>2, <3>1, <3>2 DEF Typing
  <2>4. CASE source' = Result
    <3>1. /\ {"nodes", "inputs", "outputs", "numBlocks"} \subseteq DOMAIN source
          /\ "inputBits" \in DOMAIN source
      BY <1>0 DEF SourceInv, Typing
    <3>2. /\ DOMAIN source' = DOMAIN source /\ source'.nodes = built
          /\ source'.inputBits = source.inputBits
      BY <2>4, <3>1 DEF Result
    <3>3. QED
      BY <2>1, <2>2, <3>1, <3>2 DEF Typing
  <2>5. QED
    BY <1>6, <2>3, <2>4 DEF NextCall
<1>7. CASE Done \/ UNCHANGED vars
  BY <1>7 DEF Done, vars, Typing
<1>8. QED
  BY <1>1, <1>2, <1>3, <1>4, <1>5, <1>6, <1>7 DEF Next

(* What is returned types as well as what is asked.                        *)
LEMMA AlwaysTyped == Spec => [](Inv /\ Agreed /\ Typing)
<1>1. Init => Inv /\ Agreed /\ Typing
  <2>1. Init => Agreed
    BY DEF Init, Agreed
  <2>2. Init => Typing
    BY CaseAssumption DEF Init, Typing
  <2>3. QED
    BY <2>1, <2>2, InitInv
<1>2. QED
  BY <1>1, InvStep, AgreedStep, TypingStep, PTL DEF Spec

(* Whatever the layers and the calibration: the running widths are counts, *)
(* and every tensor a reader is pointed to, as well as the one it read     *)
(* before, has one.                                                        *)
THEOREM TypeCorrect == Spec => []TypeOK
<1>1. Inv /\ Typing => TypeOK
  BY DEF Inv, SourceInv, Typing, TypeOK
<1>2. QED
  BY <1>1, AlwaysTyped, PTL

-----------------------------------------------------------------------------
(* What a returned graph computes.                                         *)

(* A row of the model: values of inputBits bits, none negative.            *)
LEMMA RowIsUnsigned ==
  ASSUME case \in Cases, NEW x \in Rows
  PROVE  /\ x \in Seq(Int) /\ Below(x, case.graph.inputBits)
         /\ Unsigned(x, case.graph.inputBits)
<1> DEFINE P == 2^case.graph.inputBits
           L == case.rowLength
<1>1. L \in Nat /\ P \in Nat
  <2>1. case.rowLength \in Nat /\ case.graph.inputBits \in Nat
    BY CaseAssumption
  <2>2. QED
    BY <2>1, PowerStep
<1>2. x \in [1 .. L -> 0 .. P - 1]
  BY DEF Rows
<1> HIDE DEF L
<1>3. DOMAIN x = 1 .. L /\ x = [i \in 1 .. L |-> x[i]]
  BY <1>2
<1>4. \A i \in 1 .. L : x[i] \in Int /\ x[i] >= 0 /\ x[i] < P
  <2> HIDE DEF P
  <2>1. QED
    BY <1>1, <1>2
<1>5. x \in Seq(Int)
  BY <1>1, <1>3, <1>4
<1>6. \A i \in 1 .. L : Magnitude(x[i]) < P
  BY <1>4 DEF Magnitude
<1>7. Below(x, case.graph.inputBits)
  BY <1>3, <1>5, <1>6 DEF Below
<1>8. QED
  BY <1>3, <1>4, <1>5, <1>7 DEF Unsigned

(* The oracle's forward pass of a returned graph, within the widths of its *)
(* tensors.                                                                *)
LEMMA ReturnedHolds ==
  ASSUME Inv, Typing, phase = "returned", NEW x \in Rows, NEW m,
         m.inputs = source.inputs, m.inputBits = source.inputBits
  PROVE  LET e == RefEnv(built, source, x)
             w == Widths(built, m)
         IN  /\ Wide(w, e) /\ NarrowUnsigned(w, e)
             /\ DOMAIN w = source.inputs \cup Written(built)
             /\ \A i \in DOMAIN built : /\ Valid(built[i].op) /\ Declared(built[i].op)
                                        /\ Matched(built[i]) /\ HasLists(built[i])
                                        /\ ToSet(built[i].ins) \subseteq DOMAIN w
<1> DEFINE e == RefEnv(built, source, x)
           w == Widths(built, m)
<1>1. /\ built \in Seq(ToSet(built)) /\ Listed(built)
      /\ \A i \in DOMAIN built : HasLists(built[i])
  BY DEF Inv, LoopInv, BuiltType, Listed
<1>2. Propagates(built, source.inputs)
  <2>1. {"nodes", "inputs", "outputs", "numBlocks"} \subseteq DOMAIN source /\ PyBudgetOK(Result)
    BY DEF Inv, SourceInv
  <2>2. Result.nodes = built /\ Result.inputs = source.inputs
    BY <2>1 DEF Result
  <2>3. Propagates(Result.nodes, Result.inputs)
    BY <2>1 DEF PyBudgetOK, BudgetOK
  <2>4. QED
    BY <2>2, <2>3
<1>3. /\ Sortable(built, source.inputs)
      /\ \A i \in DOMAIN built : Valid(built[i].op) /\ Matched(built[i])
      /\ \A i \in DOMAIN built : ToSet(built[i].ins) \subseteq source.inputs \cup Written(built)
  BY <1>2 DEF Propagates, Sortable
<1>4. \A i \in DOMAIN built : Declared(built[i].op)
  BY DEF Typing
<1>5. /\ source.inputBits \in Nat /\ x \in Seq(Int)
      /\ Below(x, source.inputBits) /\ Unsigned(x, source.inputBits)
  BY RowIsUnsigned DEF Inv, SourceInv, Typing
<1>6. \A i \in DOMAIN built : Valid(built[i].op) /\ Declared(built[i].op) /\ Matched(built[i])
  BY <1>3, <1>4
<1>7. /\ Holds(built, e) /\ Typed(e)
      /\ \A t \in source.inputs : t \in DOMAIN e /\ e[t] = x
  BY <1>1, <1>3, <1>5, <1>6, RefHolds
<1> HIDE DEF e
<1>8. \A t \in m.inputs \cap DOMAIN e : Below(e[t], m.inputBits) /\ Unsigned(e[t], m.inputBits)
  BY <1>5, <1>7
<1>9. Sortable(built, m.inputs) /\ m.inputBits \in Nat
  BY <1>3, <1>5
<1>10. Wide(w, e)
  <2>1. \A t \in m.inputs \cap DOMAIN e : Below(e[t], m.inputBits)
    BY <1>8
  <2>2. QED
    BY <1>1, <1>6, <1>7, <1>9, <2>1, WidthsAreWide
<1>11. NarrowUnsigned(w, e)
  BY <1>1, <1>6, <1>7, <1>8, <1>9, NarrowHolds
<1>12. DOMAIN w = source.inputs \cup Written(built)
  BY <1>1, <1>9, WidthsHold
<1>13. QED
  BY <1>1, <1>3, <1>6, <1>10, <1>11, <1>12 DEF e

(* A value of a tensor narrow enough for a table is in the table's domain. *)
LEMMA NarrowIsMessage ==
  ASSUME NEW x, NEW b \in Nat, b <= MessageBits, Below(x, b), Unsigned(x, b)
  PROVE  ToSet(x) \subseteq Message
<1>1. 2^b \in Nat /\ 2^b <= 2^MessageBits /\ 2^MessageBits \in Nat
  BY PowerStep, PowerBounds DEF MessageBits
<1>2. ASSUME NEW i \in DOMAIN x PROVE x[i] \in Message
  <2>1. x[i] \in Int /\ Magnitude(x[i]) < 2^b /\ x[i] >= 0
    BY DEF Below, Unsigned
  <2> DEFINE v == x[i]
             P == 2^b
             Q == 2^MessageBits
  <2>2. v \in Int /\ Magnitude(v) < P /\ v >= 0 /\ P <= Q /\ P \in Nat /\ Q \in Nat
    BY <1>1, <2>1
  <2> HIDE DEF v, P, Q
  <2>3. v \in 0 .. Q - 1
    BY <2>2 DEF Magnitude
  <2>4. QED
    BY <2>3 DEF Message, v, Q
<1>3. QED
  BY <1>2 DEF ToSet

(* The tables of a returned graph are only asked for what they hold.       *)
LEMMA LookupsFromInv == Inv /\ Typing => LookupsInDomain
<1> SUFFICES ASSUME Inv, Typing, phase = "returned", NEW x \in Rows, NEW i \in DOMAIN built,
                    built[i].op.type = "Activation",
                    built[i].ins[1] \in DOMAIN RefEnv(built, source, x)
             PROVE  ToSet(RefEnv(built, source, x)[built[i].ins[1]]) \subseteq Message
  BY DEF LookupsInDomain
<1> DEFINE e == RefEnv(built, source, x)
           w == Widths(built, Result)
           t == built[i].ins[1]
<1>1. /\ {"nodes", "inputs", "outputs", "numBlocks"} \subseteq DOMAIN source /\ PyBudgetOK(Result)
  BY DEF Inv, SourceInv
<1>2. Result.nodes = built /\ Result.inputs = source.inputs /\ Result.inputBits = source.inputBits
  <2>1. "inputBits" \in DOMAIN source
    BY DEF Typing
  <2>2. QED
    BY <1>1, <2>1 DEF Result
<1>3. w[t] <= MessageBits
  BY <1>1, <1>2 DEF PyBudgetOK
<1>4. /\ Wide(w, e) /\ NarrowUnsigned(w, e)
      /\ Matched(built[i]) /\ HasLists(built[i]) /\ ToSet(built[i].ins) \subseteq DOMAIN w
  BY <1>2, ReturnedHolds
<1>5. t \in ToSet(built[i].ins)
  <2>1. Len(built[i].ins) = 1
    BY <1>4 DEF Matched, Arity
  <2>2. built[i].ins \in Seq(ToSet(built[i].ins))
    BY <1>4 DEF HasLists
  <2>3. 1 \in DOMAIN built[i].ins
    BY <2>1, <2>2
  <2>4. QED
    BY <2>3, Zenon DEF ToSet
<1>6. t \in DOMAIN w \cap DOMAIN e
  BY <1>4, <1>5
<1> HIDE DEF w, e, t
<1>7. w[t] \in Nat /\ Below(e[t], w[t]) /\ Unsigned(e[t], w[t])
  BY <1>4, <1>6 DEF Wide, NarrowUnsigned
<1>8. ToSet(e[t]) \subseteq Message
  BY <1>3, <1>7, NarrowIsMessage
<1>9. QED
  BY <1>8 DEF e, t

(* Whatever the layers, the calibration and the row: where the oracle's    *)
(* forward pass of a graph the pass returns reaches a table, it hands it   *)
(* values the table has entries for, neither too large nor negative.       *)
THEOREM TablesAreSafe == Spec => []LookupsInDomain
<1>1. Inv /\ Typing => LookupsInDomain
  BY LookupsFromInv
<1>2. QED
  BY <1>1, AlwaysTyped, PTL

-----------------------------------------------------------------------------
(* Fallback shifts.                                                        *)

(* No layer has a calibration of its own, but perhaps per channel.         *)
Uncalibrated ==
  DOMAIN case.calib.shifts = {} /\ DOMAIN case.calib.mults = {} /\ DOMAIN case.calib.roundBiases = {}

(* An op that does nothing but shift an operand of w bits into range.      *)
ShiftsOnly(op, w) ==
  /\ op.channelSize = 0 /\ op.clampLo <= 0
  /\ op.channel[1].mult = 1 /\ op.channel[1].roundBias = 0
  /\ op.channel[1].shift = Larger(0, w - case.outBits)

(* The Requants spliced in without calibration are such, for the widths at *)
(* hand, if no narrowed tensor takes a name in use.                        *)
Fallbacks ==
  phase \in {"loop", "returned"} =>
    /\ \A j \in DOMAIN built : built[j].op.type = "Requant" => Len(built[j].ins) = 1
    /\ FreshNames /\ Uncalibrated =>
         \A j \in DOMAIN built :
           /\ built[j].op.type = "Requant"
           /\ built[j].ins[1] \in DOMAIN rewire \ DOMAIN case.calib.perChannel
           => ShiftsOnly(built[j].op, widths[built[j].ins[1]])

(* Widening leaves the other widths alone.                                 *)
LEMMA WidenedKeeps ==
  ASSUME NEW n, NEW w, NEW t \in DOMAIN w, t \notin ToSet(n.outs)
  PROVE  Widened(n, w)[t] = w[t]
<1>1. Widened(n, w) = [u \in DOMAIN w \cup ToSet(n.outs) |->
         IF u \in ToSet(n.outs) THEN OutWidths(n, w)[PlaceOf(n.outs, u)] ELSE w[u]]
  BY DEF Widened, Bind
<1>2. QED
  BY <1>1

(* A node of the argument that is a Requant reads no narrowed tensor.      *)
LEMMA CurrentRequant ==
  ASSUME SourceInv, LoopInv, Typing, Origins, FreshNames, phase = "loop", todo # <<>>,
         Current.op.type = "Requant"
  PROVE  Len(Current.ins) = 1 /\ Current.ins[1] \notin DOMAIN rewire
<1>1. Len(Current.ins) = 1 /\ HasLists(Current)
  BY CurrentTyped DEF Arity
<1> DEFINE t == Current.ins[1]
<1>2. t \in ToSet(Current.ins)
  <2>1. Current.ins \in Seq(ToSet(Current.ins))
    BY <1>1 DEF HasLists
  <2>2. 1 \in DOMAIN Current.ins
    BY <1>1, <2>1
  <2>3. QED
    BY <2>2, Zenon DEF ToSet
<1> HIDE DEF t
<1>3. ASSUME t \in DOMAIN rewire PROVE FALSE
  <2>1. t \in Narrow
    BY <1>2, <1>3, CurrentReads DEF WideInputOps
  <2>2. PICK y \in DOMAIN rewire : t = Rq(y)
    BY <2>1 DEF Narrow
  <2>3. PICK k \in 1 .. Turns : NeedsRequant(Nth(k)) /\ y = Nth(k).outs[1]
    BY DEF Origins
  <2>4. PICK l \in 1 .. Turns : NeedsRequant(Nth(l)) /\ t = Nth(l).outs[1]
    BY <1>3 DEF Origins
  <2>5. /\ Turns \in Nat
        /\ \A i \in 1 .. Turns + 1 :
             /\ Order[i] \in DOMAIN source.nodes
             /\ ToSet(Nth(i).outs) \subseteq Written(source.nodes)
             /\ Nth(i).op.type \in AccumulatorOps => Nth(i).outs[1] \in ToSet(Nth(i).outs)
    BY CurrentWrites
  <2>6. k \in 1 .. Turns + 1 /\ l \in 1 .. Turns + 1
    BY <2>5
  <2>7. t \in Written(source.nodes)
    BY <2>4, <2>5, <2>6 DEF NeedsRequant
  <2>8. Rq(y) \notin Written(source.nodes)
    BY <2>3, <2>5, <2>6 DEF FreshNames, Nth
  <2>9. QED
    BY <2>2, <2>7, <2>8
<1>4. QED
  BY <1>1, <1>3 DEF t

(* Every turn keeps them so.                                               *)
LEMMA TurnFallbacks ==
  ASSUME SourceInv, LoopInv, Typing, Agreed, Fallbacks, Turn, Widening,
         NeedsRequant(Current) /\ Uncalibrated
           /\ Current.outs[1] \notin DOMAIN case.calib.perChannel =>
             ShiftsOnly(built'[Len(built) + 2].op, Widened(Current, widths)[Current.outs[1]])
  PROVE  Fallbacks'
<1> DEFINE k == Len(built)
           n == Current
           W == Widened(n, widths)
           u == n.outs[1]
           r == built'[k + 2]
<1>1. /\ phase = "loop" /\ todo # <<>> /\ source' = source /\ case' = case
      /\ \A j \in 1 .. k : built'[j] = built[j]
      /\ built'[k + 1] = n
      /\ DOMAIN built = 1 .. k /\ k \in Nat
  BY DEF Turn, LoopInv, BuiltType
<1>2. /\ ~ NeedsRequant(n) => DOMAIN built' = 1 .. k + 1 /\ widths' = W /\ rewire' = rewire
      /\ NeedsRequant(n) =>
           /\ DOMAIN built' = 1 .. k + 2 /\ r.ins = <<u>> /\ r.outs = <<Rq(u)>>
           /\ DOMAIN rewire' = DOMAIN rewire \cup {u}
           /\ widths' = Widened(r, W)
  BY DEF Turn, Widening
<1>3. n.op.type = "Requant" => ~ NeedsRequant(n) /\ Len(n.ins) = 1
  BY <1>1, CurrentTyped DEF NeedsRequant, AccumulatorOps, Arity
<1>4. \A j \in 1 .. k : built[j].op.type = "Requant" => Len(built[j].ins) = 1
  BY <1>1 DEF Fallbacks
<1> HIDE DEF k, n, W, u, r
<1>5. \A j \in DOMAIN built' : j \in 1 .. k \/ j = k + 1 \/ (NeedsRequant(n) /\ j = k + 2)
  BY <1>1, <1>2
<1>6. \A j \in DOMAIN built' : built'[j].op.type = "Requant" => Len(built'[j].ins) = 1
  <2>1. NeedsRequant(n) => Len(r.ins) = 1
    <3>1. NeedsRequant(n) => r.ins = <<u>>
      BY <1>2
    <3>2. Len(<<u>>) = 1
      OBVIOUS
    <3>3. QED
      BY <3>1, <3>2
  <2>2. QED
    BY <1>1, <1>3, <1>4, <1>5, <2>1 DEF r
<1>7. /\ FreshNames' <=> FreshNames
      /\ Uncalibrated' <=> Uncalibrated
      /\ case.calib.perChannel' = case.calib.perChannel
      /\ \A op, w : ShiftsOnly(op, w)' <=> ShiftsOnly(op, w)
  BY <1>1 DEF FreshNames, NeedsRequant, ConsumedByNarrow, AlreadyRequantized, Uncalibrated, ShiftsOnly
<1>8. ASSUME FreshNames, Uncalibrated, NEW j \in DOMAIN built', built'[j].op.type = "Requant",
             built'[j].ins[1] \in DOMAIN rewire' \ DOMAIN case.calib.perChannel
      PROVE  ShiftsOnly(built'[j].op, widths'[built'[j].ins[1]])
  <2> DEFINE t == built'[j].ins[1]
  <2>1. Origins
    BY <1>1 DEF Agreed
  <2>2. /\ ToSet(n.outs) \cap (source.inputs \cup Written(built)) = {}
        /\ NeedsRequant(n) =>
             /\ u \in ToSet(n.outs)
             /\ Rq(u) \notin source.inputs \cup Written(built) \cup ToSet(n.outs)
    BY <1>1, <1>8, <2>1, CurrentIsNew DEF n, u
  <2>3. DOMAIN widths = source.inputs \cup Written(built)
    BY <1>1 DEF Typing
  <2>4. NeedsRequant(n) => ToSet(r.outs) = {Rq(u)}
    BY <1>2 DEF ToSet
  <2>5. CASE j \in 1 .. k
    <3>1. built'[j] = built[j] /\ t = built[j].ins[1] /\ j \in DOMAIN built
      BY <1>1, <2>5
    <3>2. Len(built[j].ins) = 1 /\ HasLists(built[j])
      BY <1>1, <1>4, <1>8, <2>5, <3>1 DEF LoopInv, BuiltType
    <3>3. built[j].ins[1] \in ToSet(built[j].ins)
      <4>1. built[j].ins \in Seq(ToSet(built[j].ins))
        BY <3>2 DEF HasLists
      <4>2. 1 \in DOMAIN built[j].ins
        BY <3>2, <4>1
      <4>3. QED
        BY <4>2, Zenon DEF ToSet
    <3>4. ReadsBack /\ \A i \in 1 .. j-1 : i \in DOMAIN built
      BY <1>1, <2>5 DEF LoopInv
    <3>5. t \in source.inputs \cup Written(built)
      BY <3>1, <3>3, <3>4 DEF ReadsBack, Written
    <3>6. t \notin ToSet(n.outs) /\ t \in DOMAIN widths
      BY <2>2, <2>3, <3>5
    <3> HIDE DEF t
    <3>7. W[t] = widths[t] /\ t \in DOMAIN W
      <4>1. Widened(n, widths)[t] = widths[t]
        BY <3>6, WidenedKeeps
      <4>2. t \in DOMAIN Widened(n, widths)
        BY <3>6, BindDomain DEF Widened
      <4>3. QED
        BY <4>1, <4>2 DEF W
    <3>8. widths'[t] = widths[t] /\ t \in DOMAIN rewire
      <4>1. CASE ~ NeedsRequant(n)
        BY <1>2, <1>8, <3>7, <4>1 DEF t
      <4>2. CASE NeedsRequant(n)
        <5>1. t \notin ToSet(r.outs) /\ t # u
          BY <2>2, <2>4, <3>5, <3>6, <4>2
        <5>2. Widened(r, W)[t] = W[t]
          BY <3>7, <5>1, WidenedKeeps
        <5>3. t \in DOMAIN rewire
          BY <1>2, <1>8, <4>2, <5>1 DEF t
        <5>4. QED
          BY <1>2, <3>7, <4>2, <5>2, <5>3
      <4>3. QED
        BY <4>1, <4>2
    <3>9. t \notin DOMAIN case.calib.perChannel
      BY <1>8 DEF t
    <3>10. ShiftsOnly(built[j].op, widths[t])
      BY <1>1, <1>8, <3>1, <3>8, <3>9 DEF Fallbacks
    <3>11. QED
      BY <3>1, <3>8, <3>10 DEF t
  <2>6. CASE j = k + 1
    <3>1. built'[j] = n /\ n.op.type = "Requant" /\ rewire' = rewire
      BY <1>1, <1>2, <1>3, <1>8, <2>6
    <3>2. n.ins[1] \notin DOMAIN rewire
      BY <1>1, <1>8, <2>1, <3>1, CurrentRequant DEF n
    <3>3. QED
      BY <1>8, <3>1, <3>2
  <2>7. CASE NeedsRequant(n) /\ j = k + 2
    <3>1. built'[j] = r /\ t = u
      BY <1>2, <2>7 DEF r
    <3>2. u \in DOMAIN W
      <4>1. u \in DOMAIN Widened(n, widths)
        BY <2>2, <2>7, BindDomain DEF Widened
      <4>2. QED
        BY <4>1 DEF W
    <3>3. u \notin ToSet(r.outs)
      BY <2>2, <2>4, <2>7
    <3>4. widths'[u] = W[u]
      BY <1>2, <2>7, <3>2, <3>3, WidenedKeeps
    <3>5. u \notin DOMAIN case.calib.perChannel
      BY <1>8, <3>1
    <3>6. ShiftsOnly(r.op, W[u])
      BY <1>8, <2>7, <3>5 DEF n, u, r, W, k
    <3>7. QED
      BY <3>1, <3>4, <3>6
  <2>8. QED
    BY <1>5, <2>5, <2>6, <2>7
<1>9. FreshNames' /\ Uncalibrated' =>
        \A j \in DOMAIN built' :
          /\ built'[j].op.type = "Requant"
          /\ built'[j].ins[1] \in DOMAIN rewire' \ DOMAIN case.calib.perChannel
          => ShiftsOnly(built'[j].op, widths'[built'[j].ins[1]])
  BY <1>7, <1>8
<1>10. QED
  BY <1>1, <1>6, <1>7, <1>9 DEF Fallbacks, ShiftsOnly

(* What an insertion without calibration splices in is such a Requant.     *)
LEMMA InsertFallback ==
  ASSUME SourceInv, LoopInv, Typing, Insert, Uncalibrated,
         Current.outs[1] \notin DOMAIN case.calib.perChannel
  PROVE  ShiftsOnly(built'[Len(built) + 2].op, Widened(Current, widths)[Current.outs[1]])
<1> DEFINE op  == RequantFor(Current)
           cal == case.calib
           u   == Current.outs[1]
           w   == Widened(Current, widths)[u]
<1>1. phase = "loop" /\ todo # <<>> /\ NeedsRequant(Current)
  BY DEF Insert
<1>2. built'[Len(built) + 2].op = op /\ ValidRequant(op)
  BY InsertSplices DEF Calibrated
<1>3. FallbackShift(Current) = Larger(0, w - case.outBits)
  BY <1>1, FallbackShiftIs
<1>4. ~ PerChannel(Current)
  BY DEF PerChannel
<1>5. /\ Get(cal.mults, u, 1) = 1 /\ Get(cal.roundBiases, u, 0) = 0
      /\ Get(cal.shifts, u, FallbackShift(Current)) = FallbackShift(Current)
  BY DEF Uncalibrated, Get
<1>6. op.channelSize = 0
      /\ op.channel = <<[mult      |-> Get(cal.mults, u, 1),
                         shift     |-> Get(cal.shifts, u, FallbackShift(Current)),
                         roundBias |-> Get(cal.roundBiases, u, 0)]>>
  BY <1>4 DEF RequantFor
<1>7. op.clampLo <= 0
  BY <1>2 DEF ValidRequant
<1> HIDE DEF op, cal, u, w
<1>8. /\ op.channel[1].mult = 1 /\ op.channel[1].roundBias = 0
      /\ op.channel[1].shift = FallbackShift(Current)
  BY <1>5, <1>6
<1>9. ShiftsOnly(op, w)
  BY <1>3, <1>6, <1>7, <1>8 DEF ShiftsOnly
<1>10. QED
  BY <1>2, <1>9 DEF w, u

(* Every step keeps them so.                                               *)
LEMMA FallbacksStep == Inv /\ Agreed /\ Typing /\ Fallbacks /\ [Next]_vars => Fallbacks'
<1> SUFFICES ASSUME Inv, Agreed, Typing, Fallbacks, [Next]_vars PROVE Fallbacks'
  OBVIOUS
<1>0. SourceInv /\ LoopInv
  BY DEF Inv
<1>1. CASE Begin
  <2>1. DOMAIN built' = {}
    BY <1>1 DEF Begin
  <2>2. QED
    BY <2>1 DEF Fallbacks
<1>2. CASE Keep
  <2>1. ~ NeedsRequant(Current)
    BY <1>2 DEF Keep
  <2>2. QED
    BY <1>0, <1>2, <2>1, KeepIsTurn, KeepWidens, TurnFallbacks
<1>3. CASE Insert
  <2>1. Uncalibrated /\ Current.outs[1] \notin DOMAIN case.calib.perChannel =>
          ShiftsOnly(built'[Len(built) + 2].op, Widened(Current, widths)[Current.outs[1]])
    BY <1>0, <1>3, InsertFallback
  <2>2. QED
    BY <1>0, <1>3, <2>1, InsertIsTurn, InsertWidens, TurnFallbacks
<1>4. CASE Refuse
  BY <1>4 DEF Refuse, Fallbacks
<1>5. ASSUME UNCHANGED <<case, source, built, widths, rewire>>, phase' = phase \/ phase = "loop"
      PROVE  Fallbacks'
  <2>1. /\ FreshNames' <=> FreshNames
        /\ Uncalibrated' <=> Uncalibrated
        /\ \A op, w : ShiftsOnly(op, w)' <=> ShiftsOnly(op, w)
        /\ case' = case /\ built' = built /\ widths' = widths /\ rewire' = rewire
    BY <1>5 DEF FreshNames, NeedsRequant, ConsumedByNarrow, AlreadyRequantized, Uncalibrated, ShiftsOnly
  <2>2. QED
    BY <1>5, <2>1 DEF Fallbacks, ShiftsOnly
<1>6. CASE Return
  BY <1>5, <1>6 DEF Return
<1>7. CASE NextCall
  BY <1>7 DEF NextCall, Fallbacks
<1>8. CASE Done \/ UNCHANGED vars
  BY <1>5, <1>8 DEF Done, vars
<1>9. QED
  BY <1>1, <1>2, <1>3, <1>4, <1>6, <1>7, <1>8 DEF Next

(* A graph the pass returns has none of the narrowed names in use: its     *)
(* tensors have one writer each.                                           *)
LEMMA ReturnedFresh ==
  ASSUME SourceInv, LoopInv, phase = "returned"
  PROVE  FreshNames
<1> SUFFICES ASSUME NEW i \in DOMAIN source.nodes, NeedsRequant(source.nodes[i])
             PROVE  Rq(source.nodes[i].outs[1]) \notin source.inputs \cup Written(source.nodes)
  BY DEF FreshNames
<1> DEFINE u == source.nodes[i].outs[1]
<1>1. Copied /\ RewireInv /\ AccumulatorsSeen
  BY DEF LoopInv
<1>2. \A p \in DOMAIN source.nodes : \E k \in 1 .. Turns : Order[k] = p
  <2>1. ProducersFirst(source.nodes, Order) /\ (Len(Order) = Len(source.nodes) => ToSet(Order) = DOMAIN source.nodes)
    BY OrderIsSound DEF SourceInv, Order
  <2>2. ToSet(Order) = DOMAIN source.nodes
    BY <2>1 DEF SourceInv, Propagates, Sortable, Order
  <2>3. Turns = Len(Order) /\ DOMAIN Order = 1 .. Len(Order)
    <3>1. todo = <<>> /\ Len(Order) \in Nat /\ Order \in Seq(DOMAIN source.nodes)
      BY <2>1 DEF SourceInv, ProducersFirst
    <3>2. QED
      BY <3>1 DEF Turns
  <2>4. QED
    BY <2>2, <2>3 DEF ToSet
<1>3. \A p \in DOMAIN source.nodes : \E j \in DOMAIN built :
        /\ built[j].op = source.nodes[p].op /\ built[j].outs = source.nodes[p].outs
        /\ \A x \in ToSet(source.nodes[p].ins) : x \in DOMAIN rewire \/ x \in ToSet(built[j].ins)
  BY <1>1, <1>2 DEF Copied, Nth
<1>4. u \in DOMAIN rewire
  <2>1. PICK j \in DOMAIN built : built[j].op = source.nodes[i].op /\ built[j].outs = source.nodes[i].outs
    BY <1>3
  <2>2. QED
    BY <1>1, <2>1 DEF AccumulatorsSeen, NeedsRequant
<1> HIDE DEF u
<1>5. u \notin AlreadyRequantized
  BY <1>1, <1>4 DEF RewireInv
<1>6. PICK j \in DOMAIN built : /\ built[j].op.type = "Requant"
                                /\ built[j].ins = <<u>> /\ built[j].outs = <<Rq(u)>>
  BY <1>1, <1>4 DEF RewireInv
<1>7. Rq(u) \in ToSet(built[j].outs) /\ ToSet(built[j].ins) = {u}
  BY <1>6 DEF ToSet
<1>8. Rq(u) \notin source.inputs
  BY <1>7, OneWriter
<1>9. ASSUME Rq(u) \in Written(source.nodes) PROVE FALSE
  <2>1. PICK p \in DOMAIN source.nodes : Rq(u) \in ToSet(source.nodes[p].outs)
    BY <1>9 DEF Written
  <2>2. PICK l \in DOMAIN built :
          /\ built[l].op = source.nodes[p].op /\ built[l].outs = source.nodes[p].outs
          /\ \A x \in ToSet(source.nodes[p].ins) : x \in DOMAIN rewire \/ x \in ToSet(built[l].ins)
    BY <1>3
  <2>3. l = j
    BY <1>7, <2>1, <2>2, OneWriter
  <2>4. source.nodes[p].op.type = "Requant"
    BY <1>6, <2>2, <2>3
  <2>5. \E x : x \in ToSet(source.nodes[p].ins)
    <3>1. Matched(source.nodes[p]) /\ HasLists(source.nodes[p])
      BY DEF SourceInv, Propagates
    <3>2. Len(source.nodes[p].ins) = 1
      BY <2>4, <3>1 DEF Matched, Arity
    <3>3. source.nodes[p].ins \in Seq(ToSet(source.nodes[p].ins))
      BY <3>1 DEF HasLists
    <3>4. 1 \in DOMAIN source.nodes[p].ins
      BY <3>2, <3>3
    <3>5. QED
      BY <3>4, Zenon DEF ToSet
  <2>6. PICK x \in ToSet(source.nodes[p].ins) : TRUE
    BY <2>5
  <2>7. x \in AlreadyRequantized
    BY <2>4, <2>6 DEF AlreadyRequantized, ReadBy
  <2>8. x \in DOMAIN rewire \/ x = u
    BY <1>7, <2>2, <2>3, <2>6
  <2>9. QED
    BY <1>1, <1>5, <2>7, <2>8 DEF RewireInv
<1>10. QED
  BY <1>8, <1>9 DEF u

(* The fallback shift is enough for its width.                             *)
LEMMA ShiftIsEnough ==
  ASSUME NEW w \in Nat, NEW ob \in Nat, NEW v \in Int, v < 2^w
  PROVE  v \div 2^Larger(0, w - ob) <= 2^ob - 1
<1> DEFINE d == w - ob
<1>1. d \in Int /\ Larger(0, d) = IF 0 >= d THEN 0 ELSE d
  <2>1. d \in Int
    OBVIOUS
  <2> HIDE DEF d
  <2>2. QED
    BY <2>1, LargerSmaller
<1>2. 2^ob \in Nat /\ 2^w \in Nat
  BY PowerStep
<1>3. CASE w <= ob
  <2>1. Larger(0, d) = 0 /\ 2^0 = 1
    BY <1>1, <1>3, PowerStep
  <2>2. 2^w <= 2^ob
    BY <1>3, PowerBounds
  <2> HIDE DEF d
  <2> DEFINE P == 2^ob
             Q == 2^w
  <2>3. v < Q /\ Q <= P /\ P \in Nat /\ Q \in Nat
    BY <1>2, <2>2
  <2> HIDE DEF P, Q
  <2>4. v \div 1 = v
    OBVIOUS
  <2>5. v \div 1 <= P - 1
    BY <2>3, <2>4
  <2>6. QED
    BY <2>1, <2>5 DEF P, d
<1>4. CASE w > ob
  <2>1. d \in Nat /\ Larger(0, d) = d /\ w = ob + d
    BY <1>1, <1>4
  <2>2. 2^w = 2^ob * 2^d /\ 2^d \in Nat /\ 1 <= 2^d
    BY <2>1, PowerOfSum, PowerStep, PowerBounds
  <2> HIDE DEF d
  <2> DEFINE P == 2^ob
             D == 2^d
             q == v \div D
  <2>3. P \in Nat /\ D \in Nat \ {0} /\ v < P * D
    BY <1>2, <2>2
  <2> HIDE DEF P, D
  <2>4. q \in Int /\ q * D <= v
    BY <2>3
  <2> HIDE DEF q
  <2>5. q < P
    <3>1. SUFFICES ASSUME P <= q PROVE FALSE
      BY <2>3, <2>4
    <3>2. PICK e \in Nat : q = P + e
      <4>1. q - P \in Nat /\ q = P + (q - P)
        BY <2>3, <2>4, <3>1
      <4>2. QED
        BY <4>1
    <3>3. q * D = P * D + e * D /\ e * D \in Nat /\ P * D \in Nat
      BY <2>3, <3>2
    <3>4. QED
      BY <2>3, <2>4, <3>3
  <2>6. q <= P - 1
    BY <2>3, <2>4, <2>5
  <2>7. QED
    BY <2>1, <2>6 DEF P, D, q, d
<1>5. QED
  BY <1>3, <1>4

(* A Requant with the fallback shift cuts nothing off.                     *)
LEMMA FallbackFromInv == Inv /\ Agreed /\ Typing /\ Fallbacks => FallbackNeverClips
<1> SUFFICES ASSUME Inv, Agreed, Typing, Fallbacks,
                    phase = "returned", Uncalibrated,
                    NEW x \in Rows, NEW i \in DOMAIN built,
                    built[i].op.type = "Requant",
                    built[i].ins[1] \in DOMAIN rewire \ DOMAIN case.calib.perChannel,
                    built[i].ins[1] \in DOMAIN RefEnv(built, source, x),
                    NEW k \in DOMAIN RefEnv(built, source, x)[built[i].ins[1]]
             PROVE  Transient(built[i].op, k, RefEnv(built, source, x)[built[i].ins[1]][k])
                      \div 2^Channel(built[i].op, k).shift <= 2^case.outBits - 1
  BY DEF FallbackNeverClips, Uncalibrated
<1> DEFINE e  == RefEnv(built, source, x)
           w  == Widths(built, source)
           op == built[i].op
           t  == built[i].ins[1]
           v  == e[t][k]
<1>1. SourceInv /\ LoopInv
  BY DEF Inv
<1>2. FreshNames
  BY <1>1, ReturnedFresh
<1>3. ShiftsOnly(op, widths[t])
  BY <1>2 DEF Fallbacks
<1>4. DOMAIN w = DOMAIN widths /\ \A u \in DOMAIN w : w[u] = widths[u]
  <2>1. built \in Seq(ToSet(built))
    BY <1>1 DEF LoopInv, BuiltType
  <2>2. Consistent(built, source.inputs, source.inputBits, widths)
    BY <1>2 DEF Agreed
  <2>3. QED
    BY <2>1, <2>2, ConsistentWidths
<1>5. Wide(w, e) /\ Declared(op)
  BY ReturnedHolds
<1>6. t \in DOMAIN widths
  BY DEF Typing
<1>7. case.outBits \in Nat
  BY <1>1, CaseAssumption DEF SourceInv
<1>8. op.clampLo \in Int
  BY <1>5 DEF Declared
<1> HIDE DEF w, e, op, t
<1>9. widths[t] \in Nat /\ Below(e[t], widths[t])
  <2>1. t \in DOMAIN w \cap DOMAIN e
    BY <1>4, <1>6 DEF t, e
  <2>2. QED
    BY <1>4, <1>5, <2>1 DEF Wide
<1>10. v \in Int /\ Magnitude(v) < 2^widths[t]
  BY <1>9 DEF Below, e, t
<1> DEFINE b == widths[t]
           P == 2^b
           m == Larger(v, op.clampLo)
           ch == op.channel[1]
<1>11. Channel(op, k) = ch /\ ch.mult = 1 /\ ch.roundBias = 0 /\ ch.shift = Larger(0, b - case.outBits)
       /\ op.clampLo <= 0
  BY <1>3 DEF ShiftsOnly, Channel
<1>12. P \in Nat /\ 1 <= P /\ b \in Nat
  BY <1>9, PowerStep, PowerBounds
<1>13. Transient(op, k, v) = m * ch.mult + ch.roundBias
  BY <1>11 DEF Transient
<1>14. m = IF v >= op.clampLo THEN v ELSE op.clampLo
  BY <1>8, <1>10, LargerSmaller
<1>15. Magnitude(v) < P
  BY <1>10
<1> HIDE DEF b, v, m, ch
<1>16. m \in Int /\ m < P
  <2> HIDE DEF P
  <2>1. v < P
    BY <1>10, <1>12, <1>15 DEF Magnitude
  <2>2. QED
    BY <1>8, <1>10, <1>11, <1>12, <1>14, <2>1
<1>17. Transient(op, k, v) = m
  BY <1>11, <1>13, <1>16
<1>18. m \div 2^Larger(0, b - case.outBits) <= 2^case.outBits - 1
  BY <1>7, <1>12, <1>16, ShiftIsEnough
<1>19. Transient(op, k, v) \div 2^Channel(op, k).shift <= 2^case.outBits - 1
  BY <1>11, <1>17, <1>18
<1>20. QED
  BY <1>19 DEF v, op, e, t

(* Whatever the layers and the row: a Requant spliced in for a layer that  *)
(* has no calibration shifts far enough that no value is cut off above.    *)
THEOREM FallbackIsExact == Spec => []FallbackNeverClips
<1>1. Init => Fallbacks
  BY DEF Init, Fallbacks
<1>2. Inv /\ Agreed /\ Typing /\ Fallbacks => FallbackNeverClips
  BY FallbackFromInv
<1>3. QED
  BY <1>1, <1>2, AlwaysTyped, FallbacksStep, PTL DEF Spec

-----------------------------------------------------------------------------
(* Where the nodes of the argument are in the new list.                    *)

(* A node as it was, but for operands that have been narrowed.             *)
Rewires(new, old, rw) ==
  /\ new.op = old.op /\ new.outs = old.outs
  /\ Len(new.ins) = Len(old.ins)
  /\ \A k \in DOMAIN old.ins :
       \/ new.ins[k] = old.ins[k]
       \/ /\ old.op.type \notin WideInputOps
          /\ old.ins[k] \in DOMAIN rw /\ new.ins[k] = Rq(old.ins[k])

(* A Requant that narrows a node's output, with an entry per channel or    *)
(* one for all.                                                            *)
Narrows(new, old, rw) ==
  /\ old.op.type \in AccumulatorOps
  /\ old.outs[1] \in DOMAIN rw
  /\ new.op.type = "Requant" /\ new.ins = <<old.outs[1]>> /\ new.outs = <<Rq(old.outs[1])>>
  /\ new.op.channelSize # 0 => /\ new.op.channelSize = ChannelSize(old.op)
                               /\ Len(new.op.channel) = Len(old.op.weights)

(* The nodes that had their turn are at these places of a list, and all    *)
(* others narrow one.                                                      *)
Laid(at, n, ns, rw) ==
  /\ at \in [1 .. n -> DOMAIN ns]
  /\ \A k, l \in 1 .. n : k < l => at[k] < at[l]
  /\ \A k \in 1 .. n : Rewires(ns[at[k]], Nth(k), rw)
  /\ \A j \in DOMAIN ns :
       (\E k \in 1 .. n : j = at[k]) \/ (\E l \in 1 .. n : Narrows(ns[j], Nth(l), rw))

LayoutInv == phase \in {"loop", "returned"} => \E at : Laid(at, Turns, built, rewire)

(* The operands of the node whose turn it is, one by one.                  *)
LEMMA CurrentRewires ==
  ASSUME SourceInv, LoopInv, phase = "loop", todo # <<>>
  PROVE  Rewires(Current, Nth(Turns + 1), rewire)
<1> DEFINE node == source.nodes[Head(todo)]
<1>1. /\ Current.op = node.op /\ Current.outs = node.outs
      /\ Len(Current.ins) = Len(node.ins)
  BY CurrentRewired
<1>2. node = Nth(Turns + 1)
  BY CurrentNode DEF Nth
<1>3. \A u \in DOMAIN rewire : rewire[u] = Rq(u)
  BY DEF LoopInv, RewireInv
<1>4. Current = Rewired(node)
  BY DEF Current
<1> HIDE DEF node
<1>5. ASSUME NEW k \in DOMAIN node.ins
      PROVE  \/ Current.ins[k] = node.ins[k]
             \/ /\ node.op.type \notin WideInputOps
                /\ node.ins[k] \in DOMAIN rewire /\ Current.ins[k] = Rq(node.ins[k])
  <2>1. CASE node.op.type \in WideInputOps
    BY <1>4, <2>1 DEF Rewired
  <2>2. CASE node.op.type \notin WideInputOps
    <3> DEFINE ins == [l \in DOMAIN node.ins |-> Get(rewire, node.ins[l], node.ins[l])]
    <3>1. Current = [node EXCEPT !.ins = ins]
      BY <1>4, <2>2 DEF Rewired
    <3>2. "ins" \in DOMAIN node
      <4>1. HasLists(node)
        BY CurrentNode DEF SourceInv, node
      <4>2. QED
        BY <4>1 DEF HasLists
    <3>3. Current.ins = ins
      BY <3>1, <3>2
    <3>4. Current.ins[k] = Get(rewire, node.ins[k], node.ins[k])
      BY <3>3
    <3>5. QED
      BY <1>3, <2>2, <3>4 DEF Get
  <2>3. QED
    BY <2>1, <2>2
<1>6. QED
  BY <1>1, <1>2, <1>5 DEF Rewires

(* More is rewired as the loop goes on.                                    *)
LEMMA LaidMore ==
  ASSUME NEW new, NEW old, NEW rw, NEW rx, DOMAIN rw \subseteq DOMAIN rx
  PROVE  /\ Rewires(new, old, rw) => Rewires(new, old, rx)
         /\ Narrows(new, old, rw) => Narrows(new, old, rx)
  BY DEF Rewires, Narrows

(* A turn that inserts a node puts it in to narrow the one before.         *)
LEMMA InsertNarrows ==
  SourceInv /\ LoopInv /\ Insert => Narrows(built'[Len(built) + 2], Nth(Turns + 1), rewire')
<1> SUFFICES ASSUME SourceInv, LoopInv, Insert
             PROVE  Narrows(built'[Len(built) + 2], Nth(Turns + 1), rewire')
  OBVIOUS
<1> DEFINE new == built'[Len(built) + 2]
           old == Nth(Turns + 1)
<1>1. /\ phase = "loop" /\ todo # <<>> /\ NeedsRequant(Current) /\ Turn
  BY InsertIsTurn DEF Insert
<1>2. new.op = RequantFor(Current) /\ Calibrated(Current)
  BY InsertSplices
<1>3. Current.op = old.op /\ Current.outs = old.outs
  BY <1>1, CurrentWrites
<1>4. /\ new.op.type = "Requant" /\ new.ins = <<Current.outs[1]>>
      /\ new.outs = <<Rq(Current.outs[1])>> /\ Current.outs[1] \in DOMAIN rewire'
  BY <1>1 DEF Turn
<1>5. Current.op.type \in AccumulatorOps
  BY <1>1 DEF NeedsRequant
<1> HIDE DEF new, old
<1>6. /\ new.op.channelSize = IF PerChannel(Current) THEN ChannelSize(Current.op) ELSE 0
      /\ PerChannel(Current) => new.op.channel = case.calib.perChannel[Current.outs[1]]
  BY <1>2 DEF RequantFor
<1>7. PerChannel(Current) => Len(new.op.channel) = Len(Current.op.weights)
  BY <1>2, <1>6 DEF Calibrated
<1>8. QED
  BY <1>3, <1>4, <1>5, <1>6, <1>7 DEF Narrows, new, old

(* A turn lays its node behind all others.                                 *)
LEMMA TurnLays ==
  ASSUME SourceInv, LoopInv, Turn, LayoutInv,
         NeedsRequant(Current) => Narrows(built'[Len(built) + 2], Nth(Turns + 1), rewire')
  PROVE  LayoutInv'
<1>1. /\ phase = "loop" /\ todo # <<>> /\ source' = source
      /\ \A j \in DOMAIN built : built'[j] = built[j]
      /\ built'[Len(built) + 1] = Current
      /\ DOMAIN built = 1 .. Len(built) /\ Len(built) \in Nat
  BY DEF Turn, LoopInv, BuiltType
<1>2. Turns' = Turns + 1 /\ Turns \in Nat /\ Order' = Order
  BY TurnKeepsSource
<1>3. \A k : Nth(k)' = Nth(k)
  BY <1>1, <1>2 DEF Nth
<1>4. Rewires(Current, Nth(Turns + 1), rewire)
  BY <1>1, CurrentRewires
<1>5. DOMAIN rewire \subseteq DOMAIN rewire'
  BY DEF Turn
<1>6. PICK at : Laid(at, Turns, built, rewire)
  BY <1>1 DEF LayoutInv
<1> DEFINE c == Turns + 1
           b == Len(built)
           nodes == built'
           to == [k \in 1 .. c |-> IF k = c THEN b + 1 ELSE at[k]]
<1>7. /\ at \in [1 .. Turns -> DOMAIN built]
      /\ \A k, l \in 1 .. Turns : k < l => at[k] < at[l]
      /\ \A k \in 1 .. Turns : Rewires(built[at[k]], Nth(k), rewire)
      /\ \A j \in DOMAIN built : \/ \E k \in 1 .. Turns : j = at[k]
                                 \/ \E k \in 1 .. Turns : Narrows(built[j], Nth(k), rewire)
  BY <1>6 DEF Laid
<1>8. /\ c \in Nat /\ b \in Nat /\ c \in 1 .. c
      /\ \A k \in 1 .. c : k # c => k \in 1 .. Turns
      /\ \A k \in 1 .. Turns : k \in 1 .. c /\ k # c
  BY <1>1, <1>2
<1>9. /\ to[c] = b + 1
      /\ \A k \in 1 .. Turns : to[k] = at[k]
  BY <1>8
<1>10. /\ DOMAIN nodes = 1 .. b + 1 \/ DOMAIN nodes = 1 .. b + 2
       /\ DOMAIN nodes = 1 .. b + 2 => NeedsRequant(Current)
  <2>1. 1 .. b + 1 # 1 .. b + 2
    <3>1. b + 2 \in 1 .. b + 2 /\ b + 2 \notin 1 .. b + 1
      BY <1>8
    <3>2. QED
      BY <3>1
  <2>2. QED
    BY <2>1 DEF Turn
<1>11. /\ DOMAIN built \subseteq DOMAIN nodes /\ b + 1 \in DOMAIN nodes
       /\ \A j \in DOMAIN nodes : j \in DOMAIN built \/ j = b + 1 \/ j = b + 2
       /\ b + 2 \in DOMAIN nodes => DOMAIN nodes = 1 .. b + 2
  BY <1>1, <1>10
<1> HIDE DEF nodes
<1>12. to \in [1 .. c -> DOMAIN nodes]
  <2>1. \A k \in 1 .. c : to[k] \in DOMAIN nodes
    BY <1>7, <1>8, <1>9, <1>11
  <2>2. to = [k \in 1 .. c |-> to[k]]
    OBVIOUS
  <2> HIDE DEF to
  <2>3. QED
    BY <2>1, <2>2
<1> HIDE DEF to
<1>13. \A k, l \in 1 .. c : k < l => to[k] < to[l]
  <2> SUFFICES ASSUME NEW k \in 1 .. c, NEW l \in 1 .. c, k < l PROVE to[k] < to[l]
    OBVIOUS
  <2>1. k # c
    BY <1>8
  <2>2. k \in 1 .. Turns /\ at[k] \in 1 .. b
    BY <1>1, <1>7, <1>8, <2>1
  <2>3. CASE l = c
    BY <1>8, <1>9, <2>2, <2>3
  <2>4. CASE l # c
    BY <1>7, <1>8, <1>9, <2>2, <2>4
  <2>5. QED
    BY <2>3, <2>4
<1>14. nodes[b + 1] = Current /\ \A j \in DOMAIN built : nodes[j] = built[j]
  BY <1>1 DEF nodes
<1>15. \A k \in 1 .. c : Rewires(nodes[to[k]], Nth(k), rewire')
  <2> SUFFICES ASSUME NEW k \in 1 .. c PROVE Rewires(nodes[to[k]], Nth(k), rewire')
    OBVIOUS
  <2>1. CASE k = c
    <3>1. Rewires(nodes[to[k]], Nth(k), rewire)
      BY <1>4, <1>9, <1>14, <2>1
    <3>2. QED
      BY <1>5, <3>1, LaidMore
  <2>2. CASE k # c
    <3>1. k \in 1 .. Turns /\ at[k] \in DOMAIN built
      BY <1>7, <1>8, <2>2
    <3>2. Rewires(nodes[to[k]], Nth(k), rewire)
      BY <1>7, <1>9, <1>14, <3>1
    <3>3. QED
      BY <1>5, <3>2, LaidMore
  <2>3. QED
    BY <2>1, <2>2
<1>16. \A j \in DOMAIN nodes : \/ \E k \in 1 .. c : j = to[k]
                               \/ \E k \in 1 .. c : Narrows(nodes[j], Nth(k), rewire')
  <2> SUFFICES ASSUME NEW j \in DOMAIN nodes
               PROVE  \/ \E k \in 1 .. c : j = to[k]
                      \/ \E k \in 1 .. c : Narrows(nodes[j], Nth(k), rewire')
    OBVIOUS
  <2>1. CASE j \in DOMAIN built
    <3>1. CASE \E k \in 1 .. Turns : j = at[k]
      BY <1>8, <1>9, <3>1
    <3>2. CASE \E k \in 1 .. Turns : Narrows(built[j], Nth(k), rewire)
      <4>1. PICK k \in 1 .. Turns : Narrows(built[j], Nth(k), rewire)
        BY <3>2
      <4>2. Narrows(nodes[j], Nth(k), rewire')
        BY <1>5, <1>14, <2>1, <4>1, LaidMore
      <4>3. QED
        BY <1>8, <4>2
    <3>3. QED
      BY <1>7, <2>1, <3>1, <3>2
  <2>2. CASE j = b + 1
    BY <1>8, <1>9, <2>2
  <2>3. CASE j = b + 2
    <3>1. NeedsRequant(Current)
      BY <1>10, <1>11, <2>3
    <3>2. QED
      BY <1>8, <2>3, <3>1 DEF nodes
  <2>4. QED
    BY <1>11, <2>1, <2>2, <2>3
<1>17. Laid(to, c, nodes, rewire')
  BY <1>12, <1>13, <1>15, <1>16 DEF Laid
<1>18. PICK g : Laid(g, c, nodes, rewire')
  BY <1>17
<1>19. Laid(g, Turns, built, rewire)'
  BY <1>2, <1>3, <1>18 DEF Laid, nodes
<1>20. QED
  BY <1>19 DEF LayoutInv

(* The list that is walked and the list that is built, from call to call.  *)
LEMMA LayoutStep == Inv /\ LayoutInv /\ [Next]_vars => LayoutInv'
<1> SUFFICES ASSUME Inv, LayoutInv, [Next]_vars PROVE LayoutInv'
  OBVIOUS
<1>1. CASE Begin
  <2>1. /\ phase = "start" /\ built' = <<>> /\ rewire' = <<>> /\ source' = source
        /\ (phase' = "loop" /\ todo' = StableOrder(source.nodes)) \/ phase' = "invalid"
    BY <1>1 DEF Begin
  <2> SUFFICES ASSUME phase' = "loop" PROVE LayoutInv'
    BY <2>1 DEF LayoutInv
  <2>2. Order' = Order /\ todo' = Order
    BY <2>1 DEF Order
  <2>3. Len(Order) \in Nat
    <3>1. ProducersFirst(source.nodes, Order)
      BY OrderIsSound DEF SourceInv, Order, Inv
    <3>2. QED
      BY <3>1 DEF ProducersFirst
  <2>4. Turns' = 0
    BY <2>2, <2>3 DEF Turns
  <2> DEFINE none == [k \in 1 .. 0 |-> 0]
  <2>5. Laid(none, 0, <<>>, <<>>)
    BY DEF Laid
  <2>6. Laid(none, Turns, built, rewire)'
    BY <2>1, <2>4, <2>5 DEF Laid
  <2>7. QED
    BY <2>6 DEF LayoutInv
<1>2. CASE Keep
  <2>1. Turn /\ ~ NeedsRequant(Current)
    BY <1>2, KeepIsTurn DEF Inv, Keep
  <2>2. QED
    BY <2>1, TurnLays DEF Inv
<1>3. CASE Insert
  <2>1. Turn /\ Narrows(built'[Len(built) + 2], Nth(Turns + 1), rewire')
    BY <1>3, InsertIsTurn, InsertNarrows DEF Inv
  <2>2. QED
    BY <2>1, TurnLays DEF Inv
<1>4. CASE Refuse \/ NextCall
  <2>1. phase' \notin {"loop", "returned"}
    BY <1>4 DEF Refuse, NextCall
  <2>2. QED
    BY <2>1 DEF LayoutInv
<1>5. CASE Return \/ Done \/ UNCHANGED vars
  <2>1. /\ source' = source /\ todo' = todo /\ built' = built /\ rewire' = rewire
        /\ phase' \in {"loop", "returned"} => phase \in {"loop", "returned"}
    BY <1>5 DEF Return, Done, vars
  <2>2. Order' = Order /\ \A k : Nth(k)' = Nth(k)
    BY <2>1 DEF Order, Nth
  <2>3. Turns' = Turns
    BY <2>1, <2>2 DEF Turns
  <2> SUFFICES ASSUME phase' \in {"loop", "returned"} PROVE LayoutInv'
    BY DEF LayoutInv
  <2>4. PICK g : Laid(g, Turns, built, rewire)
    BY <2>1 DEF LayoutInv
  <2>5. Laid(g, Turns, built, rewire)'
    BY <2>1, <2>2, <2>3, <2>4 DEF Laid
  <2>6. QED
    BY <2>5 DEF LayoutInv
<1>6. QED
  BY <1>1, <1>2, <1>3, <1>4, <1>5 DEF Next

(* It always holds.                                                        *)
LEMMA AlwaysLaid == Spec => []LayoutInv
<1>1. Init => LayoutInv
  BY DEF Init, LayoutInv
<1>2. QED
  BY <1>1, AlwaysInv, LayoutStep, PTL DEF Spec
-----------------------------------------------------------------------------
(* What is left when the inserted nodes are bypassed.                      *)

(* In an increasing list of numbers the k-th is the k-th.                  *)
LEMMA RankOfPlace ==
  ASSUME NEW n \in Nat, NEW at \in [1 .. n -> Nat],
         \A k, l \in 1 .. n : k < l => at[k] < at[l],
         NEW k \in 1 .. n
  PROVE  Cardinality({i \in {at[l] : l \in 1 .. n} : i <= at[k]}) = k
<1> DEFINE S == {i \in {at[l] : l \in 1 .. n} : i <= at[k]}
           f == [l \in 1 .. k |-> at[l]]
<1>1. k \in Nat /\ \A l \in 1 .. k : l \in 1 .. n /\ l \in Nat
  OBVIOUS
<1>2. \A l \in 1 .. k : at[l] <= at[k] /\ at[l] \in Nat
  OBVIOUS
<1>3. f \in [1 .. k -> S]
  BY <1>1, <1>2
<1>4. \A l, m \in 1 .. k : f[l] = f[m] => l = m
  <2> SUFFICES ASSUME NEW l \in 1 .. k, NEW m \in 1 .. k, l < m PROVE f[l] # f[m]
    BY <1>1
  <2>1. at[l] < at[m] /\ at[l] \in Nat /\ at[m] \in Nat
    BY <1>1, <1>2
  <2>2. QED
    BY <2>1
<1>5. \A i \in S : \E l \in 1 .. k : f[l] = i
  <2> SUFFICES ASSUME NEW i \in S PROVE \E l \in 1 .. k : f[l] = i
    OBVIOUS
  <2>1. PICK l \in 1 .. n : i = at[l] /\ at[l] <= at[k]
    OBVIOUS
  <2>2. l <= k
    <3> SUFFICES ASSUME k < l PROVE FALSE
      BY <1>1
    <3>1. at[k] < at[l] /\ at[k] \in Nat /\ at[l] \in Nat
      OBVIOUS
    <3>2. QED
      BY <2>1, <3>1
  <2>3. l \in 1 .. k
    BY <2>2
  <2>4. QED
    BY <2>1, <2>3
<1> HIDE DEF S, f
<1>6. f \in Bijection(1 .. k, S)
  BY <1>3, <1>4, <1>5 DEF Bijection, Injection, Surjection, IsInjective
<1>7. ExistsBijection(1 .. k, S)
  BY <1>6 DEF ExistsBijection
<1>8. Cardinality(S) = k
  BY <1>1, <1>7, FS_CountingElements, Zenon
<1>9. QED
  BY <1>8 DEF S

(* There are as many of them.                                              *)
LEMMA CountOfPlaces ==
  ASSUME NEW n \in Nat, NEW at \in [1 .. n -> Nat],
         \A k, l \in 1 .. n : k < l => at[k] < at[l]
  PROVE  Cardinality({at[l] : l \in 1 .. n}) = n
<1> DEFINE S == {at[l] : l \in 1 .. n}
<1>1. CASE n = 0
  <2>1. S = {}
    BY <1>1
  <2>2. Cardinality({}) = 0
    BY FS_EmptySet
  <2>3. QED
    BY <1>1, <2>1, <2>2
<1>2. CASE n # 0
  <2>1. n \in 1 .. n
    BY <1>2
  <2>2. \A l \in 1 .. n : at[l] <= at[n]
    OBVIOUS
  <2>3. {i \in S : i <= at[n]} = S
    BY <2>2
  <2>4. Cardinality({i \in S : i <= at[n]}) = n
    BY <2>1, RankOfPlace
  <2>5. QED
    BY <2>3, <2>4
<1>3. QED
  BY <1>1, <1>2

(* No inserted name is one of the argument's.                              *)
LEMMA ReturnedNames ==
  ASSUME SourceInv, LoopInv, Origins, phase = "returned"
  PROVE  /\ Turns = Len(Order) /\ Len(Order) \in Nat
         /\ \A k \in 1 .. Turns : Order[k] \in DOMAIN source.nodes
         /\ \A t \in DOMAIN rewire : Rq(t) \notin source.inputs \cup Written(source.nodes)
<1>1. ProducersFirst(source.nodes, Order)
  BY OrderIsSound DEF SourceInv, Order
<1>2. Len(Order) \in Nat /\ \A k \in 1 .. Len(Order) : Order[k] \in DOMAIN source.nodes
  BY <1>1 DEF ProducersFirst
<1>3. todo = <<>>
  BY DEF SourceInv
<1>4. Turns = Len(Order)
  BY <1>2, <1>3 DEF Turns
<1>5. FreshNames
  BY ReturnedFresh
<1>6. ASSUME NEW t \in DOMAIN rewire
      PROVE  Rq(t) \notin source.inputs \cup Written(source.nodes)
  <2>1. PICK k \in 1 .. Turns : NeedsRequant(Nth(k)) /\ t = Nth(k).outs[1]
    BY DEF Origins
  <2>2. QED
    BY <1>2, <1>4, <1>5, <2>1 DEF FreshNames, Nth
<1>7. QED
  BY <1>2, <1>4, <1>6

(* A node that was rewired, bypassed.                                      *)
LEMMA BypassRewires ==
  ASSUME NEW new, NEW old, HasLists(new), HasLists(old), Rewires(new, old, rewire),
         \A x \in ToSet(old.ins) : \A u \in DOMAIN rewire : x # Rq(u)
  PROVE  Bypassed(new) = old
<1>1. /\ new = [op |-> new.op, ins |-> new.ins, outs |-> new.outs]
      /\ old = [op |-> old.op, ins |-> old.ins, outs |-> old.outs]
      /\ new.ins \in Seq(ToSet(new.ins)) /\ old.ins \in Seq(ToSet(old.ins))
  BY DEF HasLists
<1>2. /\ new.op = old.op /\ new.outs = old.outs /\ Len(new.ins) = Len(old.ins)
      /\ \A k \in DOMAIN old.ins :
           \/ new.ins[k] = old.ins[k]
           \/ /\ old.op.type \notin WideInputOps
              /\ old.ins[k] \in DOMAIN rewire /\ new.ins[k] = Rq(old.ins[k])
  BY DEF Rewires
<1>3. DOMAIN new.ins = DOMAIN old.ins
  BY <1>1, <1>2
<1>4. CASE old.op.type \in WideInputOps
  <2>1. \A k \in DOMAIN old.ins : new.ins[k] = old.ins[k]
    BY <1>2, <1>4
  <2> DEFINE a == new.ins
             b == old.ins
  <2>2. a \in Seq(ToSet(a)) /\ b \in Seq(ToSet(b)) /\ DOMAIN a = DOMAIN b
        /\ \A k \in DOMAIN b : a[k] = b[k]
    BY <1>1, <1>3, <2>1
  <2>3. a = b
    <3> HIDE DEF a, b
    <3>1. QED
      BY <2>2
  <2>4. new = old
    BY <1>1, <1>2, <2>3
  <2>5. QED
    BY <1>2, <1>4, <2>4 DEF Bypassed
<1>5. CASE old.op.type \notin WideInputOps
  <2> DEFINE g == [k \in DOMAIN new.ins |-> Original(new.ins[k])]
             b == old.ins
  <2>1. Bypassed(new) = [new EXCEPT !.ins = g]
    BY <1>2, <1>5 DEF Bypassed
  <2>2. ASSUME NEW k \in DOMAIN old.ins PROVE Original(new.ins[k]) = old.ins[k]
    <3>1. old.ins[k] \in ToSet(old.ins)
      BY DEF ToSet
    <3>2. CASE new.ins[k] = old.ins[k]
      BY <3>1, <3>2 DEF Original
    <3>3. CASE old.ins[k] \in DOMAIN rewire /\ new.ins[k] = Rq(old.ins[k])
      <4>1. Original(new.ins[k]) = Rq(old.ins[k])[1]
        BY <3>3 DEF Original
      <4>2. QED
        BY <4>1 DEF Rq
    <3>4. QED
      BY <1>2, <3>2, <3>3
  <2>3. g = b
    <3>1. DOMAIN g = DOMAIN b /\ \A k \in DOMAIN b : g[k] = b[k]
      BY <1>3, <2>2
    <3>2. b \in Seq(ToSet(b)) /\ g = [k \in DOMAIN g |-> g[k]]
      BY <1>1
    <3> HIDE DEF g, b
    <3>3. QED
      BY <3>1, <3>2
  <2> HIDE DEF g
  <2>4. [new EXCEPT !.ins = g] = [op |-> new.op, ins |-> g, outs |-> new.outs]
    <3> DEFINE o == new.op
               i == new.ins
               w == new.outs
               r == [op |-> o, ins |-> i, outs |-> w]
    <3>1. new = r
      BY <1>1
    <3> HIDE DEF o, i, w
    <3>2. [r EXCEPT !.ins = g] = [op |-> o, ins |-> g, outs |-> w]
      OBVIOUS
    <3> HIDE DEF r
    <3>3. QED
      BY <3>1, <3>2, Zenon DEF o, w
  <2>5. QED
    BY <1>1, <1>2, <2>1, <2>3, <2>4
<1>6. QED
  BY <1>4, <1>5

(* The list returned is the argument's, with the Requants in it.           *)
LEMMA SplicedFromInv == Inv /\ Agreed /\ LayoutInv => SplicedOnly
<1> SUFFICES ASSUME Inv, Agreed, LayoutInv, phase = "returned"
             PROVE  /\ Cardinality(Kept) = Len(Order)
                    /\ \A j \in Kept : Bypassed(built[j]) = source.nodes[Order[Rank(j)]]
                    /\ source.outputs \cap Written(source.nodes) \cap {Rq(t) : t \in DOMAIN rewire} = {}
  BY DEF SplicedOnly, Order
<1>1. SourceInv /\ LoopInv /\ Origins
  BY DEF Inv, Agreed
<1>2. /\ Turns = Len(Order) /\ Len(Order) \in Nat
      /\ \A k \in 1 .. Turns : Order[k] \in DOMAIN source.nodes
      /\ \A t \in DOMAIN rewire : Rq(t) \notin source.inputs \cup Written(source.nodes)
  BY <1>1, ReturnedNames
<1>3. PICK at : Laid(at, Turns, built, rewire)
  BY DEF LayoutInv
<1> DEFINE n == Turns
<1>4. /\ n \in Nat /\ at \in [1 .. n -> DOMAIN built] /\ DOMAIN built \subseteq Nat
      /\ \A k, l \in 1 .. n : k < l => at[k] < at[l]
      /\ \A k \in 1 .. n : Rewires(built[at[k]], Nth(k), rewire)
      /\ \A j \in DOMAIN built : \/ \E k \in 1 .. n : j = at[k]
                                 \/ \E l \in 1 .. n : Narrows(built[j], Nth(l), rewire)
  BY <1>1, <1>2, <1>3 DEF Laid, LoopInv, BuiltType
<1>5. \A k \in 1 .. n : /\ Nth(k) = source.nodes[Order[k]] /\ HasLists(Nth(k))
                        /\ HasLists(built[at[k]])
  BY <1>1, <1>2, <1>4 DEF Nth, SourceInv, LoopInv, BuiltType
<1> HIDE DEF n
<1>6. ASSUME NEW k \in 1 .. n PROVE ~ Inserted(built[at[k]])
  <2> SUFFICES ASSUME NEW t \in DOMAIN rewire, built[at[k]].outs = <<Rq(t)>> PROVE FALSE
    BY DEF Inserted
  <2>1. Nth(k).outs = <<Rq(t)>>
    BY <1>4 DEF Rewires
  <2>2. Rq(t) \in ToSet(Nth(k).outs)
    <3>1. \A x : x \in ToSet(<<x>>)
      BY DEF ToSet
    <3>2. QED
      BY <2>1, <3>1
  <2>3. Rq(t) \in Written(source.nodes)
    BY <1>2, <1>5, <2>2 DEF Written, n
  <2>4. QED
    BY <1>2, <2>3
<1>7. ASSUME NEW j \in DOMAIN built, NEW l \in 1 .. n, Narrows(built[j], Nth(l), rewire)
      PROVE  Inserted(built[j])
  BY <1>7 DEF Narrows, Inserted
<1>8. Kept = {at[l] : l \in 1 .. n}
  <2>1. \A j \in Kept : j \in {at[l] : l \in 1 .. n}
    BY <1>4, <1>7 DEF Kept
  <2>2. \A l \in 1 .. n : at[l] \in Kept
    BY <1>4, <1>6 DEF Kept
  <2>3. QED
    BY <2>1, <2>2
<1>9. Cardinality(Kept) = n
  <2>1. at \in [1 .. n -> Nat]
    BY <1>4
  <2>2. QED
    BY <1>4, <1>8, <2>1, CountOfPlaces
<1>10. ASSUME NEW k \in 1 .. n PROVE Rank(at[k]) = k
  <2>1. at \in [1 .. n -> Nat]
    BY <1>4
  <2>2. Cardinality({i \in {at[l] : l \in 1 .. n} : i <= at[k]}) = k
    BY <1>4, <2>1, RankOfPlace
  <2>3. QED
    BY <1>8, <2>2 DEF Rank
<1>11. ASSUME NEW k \in 1 .. n PROVE Bypassed(built[at[k]]) = Nth(k)
  <2>1. \A x \in ToSet(Nth(k).ins) : x \in source.inputs \cup Written(source.nodes)
    <3>1. Sortable(source.nodes, source.inputs)
      BY <1>1 DEF SourceInv, Propagates
    <3>2. QED
      BY <1>2, <1>5, <3>1 DEF Sortable, n
  <2>2. QED
    BY <1>2, <1>4, <1>5, <2>1, BypassRewires
<1>12. \A j \in Kept : Bypassed(built[j]) = source.nodes[Order[Rank(j)]]
  BY <1>5, <1>8, <1>10, <1>11
<1>13. source.outputs \cap Written(source.nodes) \cap {Rq(t) : t \in DOMAIN rewire} = {}
  BY <1>2
<1>14. QED
  BY <1>2, <1>9, <1>12, <1>13 DEF n

(* Whatever reads what, a returned list is the argument's once the         *)
(* inserted nodes are bypassed, and its outputs are written as they were.  *)
THEOREM OnlySplices == Spec => []SplicedOnly
<1>1. Inv /\ Agreed /\ LayoutInv => SplicedOnly
  BY SplicedFromInv
<1>2. QED
  BY <1>1, AlwaysTyped, AlwaysLaid, PTL

-----------------------------------------------------------------------------
(* The lanes of a per-channel rescale.                                     *)

(* A stride of a plane each, an entry per channel.                         *)
LEMMA StrideCovers ==
  ASSUME NEW conv, conv.type \in AccumulatorOps, Valid(conv), Declared(conv), NEW rq,
         rq.channelSize # 0, rq.channelSize = ChannelSize(conv), Len(rq.channel) = Len(conv.weights)
  PROVE  Covers(rq, conv)
<1>1. Len(conv.weights) \in Nat
  BY DEF Declared, AccumulatorOps
<1>2. CASE conv.type = "Conv2d"
  <2> DEFINE g == conv.geom
             p == Plane(g)
             n == Len(conv.weights)
  <2>1. /\ g.inH \in Nat /\ g.inW \in Nat /\ g.kH \in Nat /\ g.kW \in Nat /\ g.pad \in Nat
        /\ g.stride \in Nat \ {0} /\ g.kH <= g.inH + 2 * g.pad /\ g.kW <= g.inW + 2 * g.pad
    BY <1>2 DEF Declared, Valid, ValidConv, ValidShape
  <2>2. OutH(g) \in Nat /\ OutW(g) \in Nat
    BY <2>1, OutDimIs DEF OutH, OutW
  <2>3. p \in Nat
    <3> DEFINE H == OutH(g)
               W == OutW(g)
    <3>1. H \in Nat /\ W \in Nat /\ p = H * W
      BY <2>2 DEF Plane
    <3> HIDE DEF H, W, p
    <3>2. QED
      BY <3>1
  <2>4. rq.channelSize = p /\ rq.channelSize # 0
    BY <1>2 DEF ChannelSize
  <2>5. \A r : PlaneOf(g, r) = (r - 1) \div p
    BY DEF PlaneOf
  <2> HIDE DEF g, p
  <2>6. \A r : Channel(rq, r) = rq.channel[PlaneOf(g, r) + 1]
    BY <2>4, <2>5 DEF Channel
  <2>7. rq.channelSize * Len(rq.channel) = n * p
    <3>1. n \in Nat /\ Len(rq.channel) = n
      BY <1>1
    <3> HIDE DEF n
    <3>2. QED
      BY <2>3, <2>4, <3>1
  <2>8. QED
    BY <1>2, <2>6, <2>7 DEF Covers, g, p
<1>3. CASE conv.type = "Linear"
  <2> DEFINE n == Len(conv.weights)
  <2>1. rq.channelSize = 1 /\ n \in Nat /\ Len(rq.channel) = n
    BY <1>1, <1>3 DEF ChannelSize
  <2>2. conv.type # "Conv2d"
    BY <1>3
  <2> HIDE DEF n
  <2>3. 1 * n = n * 1
    BY <2>1
  <2>4. \A r \in 1 .. n * 1 : Channel(rq, r) = rq.channel[r]
    <3> SUFFICES ASSUME NEW r \in 1 .. n * 1 PROVE Channel(rq, r) = rq.channel[r]
      OBVIOUS
    <3>1. (r - 1) \div 1 + 1 = r
      BY <2>1
    <3>2. QED
      BY <2>1, <3>1 DEF Channel
  <2>5. QED
    BY <2>1, <2>2, <2>3, <2>4 DEF Covers, n
<1>4. QED
  BY <1>2, <1>3 DEF AccumulatorOps

(* The lanes of every argument fit if those of the layers do.              *)
LanesKept == LanesFit(case.graph.nodes) => LanesFit(source.nodes)

(* The Requants inserted fit, and so do those that were there.             *)
LEMMA LanesFromInv == Inv /\ Agreed /\ Typing /\ LayoutInv /\ LanesKept => LanesOfChannels
<1> SUFFICES ASSUME Inv, Agreed, Typing, LayoutInv, LanesKept,
                    phase = "returned", LanesFit(case.graph.nodes),
                    NEW i \in DOMAIN built, NEW j \in DOMAIN built,
                    built[i].op.type \in AccumulatorOps,
                    built[j].op.type = "Requant", built[j].op.channelSize # 0,
                    built[j].ins[1] = built[i].outs[1]
             PROVE  Covers(built[j].op, built[i].op)
  BY DEF LanesOfChannels, LanesFit
<1>1. SourceInv /\ LoopInv /\ Origins
  BY DEF Inv, Agreed
<1>2. /\ Turns = Len(Order) /\ Len(Order) \in Nat
      /\ \A k \in 1 .. Turns : Order[k] \in DOMAIN source.nodes
  BY <1>1, ReturnedNames
<1>3. PICK at : Laid(at, Turns, built, rewire)
  BY DEF LayoutInv
<1> DEFINE n == Turns
<1>4. /\ at \in [1 .. n -> DOMAIN built]
      /\ \A k \in 1 .. n : Rewires(built[at[k]], Nth(k), rewire)
      /\ \A m \in DOMAIN built : \/ \E k \in 1 .. n : m = at[k]
                                 \/ \E l \in 1 .. n : Narrows(built[m], Nth(l), rewire)
  BY <1>3 DEF Laid
<1>5. /\ \A k \in 1 .. n : Order[k] \in DOMAIN source.nodes /\ Nth(k) = source.nodes[Order[k]]
      /\ LanesFit(source.nodes) /\ Propagates(source.nodes, source.inputs)
  BY <1>1, <1>2 DEF Nth, LanesKept, SourceInv
<1> HIDE DEF n
<1>6. PICK k \in 1 .. n : Rewires(built[i], Nth(k), rewire)
  <2>1. \A l \in 1 .. n : ~ Narrows(built[i], Nth(l), rewire)
    BY DEF Narrows, AccumulatorOps
  <2>2. QED
    BY <1>4, <2>1
<1>7. built[i].op = Nth(k).op /\ built[i].outs = Nth(k).outs
  BY <1>6 DEF Rewires
<1>8. CASE \E l \in 1 .. n : j = at[l]
  <2>1. PICK l \in 1 .. n : Rewires(built[j], Nth(l), rewire)
    BY <1>4, <1>8
  <2>2. /\ built[j].op = Nth(l).op
        /\ \A m \in DOMAIN Nth(l).ins : \/ built[j].ins[m] = Nth(l).ins[m]
                                        \/ Nth(l).ins[m] \in DOMAIN rewire
    BY <2>1 DEF Rewires
  <2>3. Nth(l).op.type = "Requant" /\ Len(Nth(l).ins) = 1 /\ 1 \in DOMAIN Nth(l).ins
    <3>1. Matched(Nth(l)) /\ HasLists(Nth(l))
      BY <1>1, <1>5 DEF Propagates, SourceInv
    <3>2. Arity(Nth(l).op) = 1
      BY <2>2 DEF Arity
    <3>3. QED
      BY <2>2, <3>1, <3>2 DEF Matched, HasLists
  <2>4. Nth(l).ins[1] \in AlreadyRequantized
    <3>1. Nth(l).ins[1] \in ToSet(Nth(l).ins)
      BY <2>3 DEF ToSet
    <3>2. QED
      BY <1>5, <2>3, <3>1 DEF AlreadyRequantized, ReadBy
  <2>5. Nth(l).ins[1] \notin DOMAIN rewire
    BY <1>1, <2>4 DEF LoopInv, RewireInv
  <2>6. Nth(l).ins[1] = Nth(k).outs[1]
    BY <1>7, <2>2, <2>3, <2>5
  <2>7. Covers(Nth(l).op, Nth(k).op)
    BY <1>5, <1>7, <2>2, <2>6 DEF LanesFit
  <2>8. QED
    BY <1>7, <2>2, <2>7
<1>9. CASE \E l \in 1 .. n : Narrows(built[j], Nth(l), rewire)
  <2>1. PICK l \in 1 .. n : Narrows(built[j], Nth(l), rewire)
    BY <1>9
  <2>2. /\ Nth(l).op.type \in AccumulatorOps /\ Nth(l).outs[1] = built[i].outs[1]
        /\ built[j].op.channelSize = ChannelSize(Nth(l).op)
        /\ Len(built[j].op.channel) = Len(Nth(l).op.weights)
    <3>1. built[j].ins = <<Nth(l).outs[1]>>
      BY <2>1 DEF Narrows
    <3>2. built[j].ins[1] = Nth(l).outs[1]
      BY <3>1
    <3>3. QED
      BY <2>1, <3>2 DEF Narrows
  <2>3. \A m \in {k, l} : Nth(m).outs[1] \in ToSet(Nth(m).outs)
    <3> SUFFICES ASSUME NEW m \in {k, l} PROVE Nth(m).outs[1] \in ToSet(Nth(m).outs)
      OBVIOUS
    <3>1. Nth(m).op.type \in AccumulatorOps /\ m \in 1 .. n
      BY <1>7, <2>2
    <3>2. Matched(Nth(m)) /\ HasLists(Nth(m))
      BY <1>1, <1>5, <3>1 DEF Propagates, SourceInv
    <3>3. OutArity(Nth(m).op) = 1
      BY <3>1 DEF OutArity, AccumulatorOps
    <3>4. 1 \in DOMAIN Nth(m).outs
      BY <3>2, <3>3 DEF Matched, HasLists
    <3>5. QED
      BY <3>4 DEF ToSet
  <2>4. Order[k] = Order[l]
    <3>1. Sortable(source.nodes, source.inputs)
      BY <1>5 DEF Propagates
    <3>2. Nth(k).outs[1] = Nth(l).outs[1]
      BY <1>7, <2>2
    <3>3. QED
      BY <1>5, <2>3, <3>1, <3>2 DEF Sortable
  <2>5. Nth(l) = built[i] \/ Nth(l).op = built[i].op
    BY <1>5, <1>7, <2>4
  <2>6. Valid(built[i].op) /\ Declared(built[i].op)
    BY <1>5, <1>7 DEF Propagates, Typing
  <2>7. QED
    BY <2>2, <2>5, <2>6, StrideCovers
<1>10. QED
  BY <1>4, <1>8, <1>9

(* Nothing changes that from call to call.                                 *)
LEMMA LanesStep == Inv /\ Agreed /\ Typing /\ LayoutInv /\ LanesKept /\ [Next]_vars => LanesKept'
<1> SUFFICES ASSUME Inv, Agreed, Typing, LayoutInv, LanesKept, [Next]_vars PROVE LanesKept'
  OBVIOUS
<1>1. CASE NextCall
  <2>1. phase = "returned" /\ case' = case
    BY <1>1 DEF NextCall
  <2>2. {"nodes", "numBlocks"} \subseteq DOMAIN case.graph /\ "nodes" \in DOMAIN source
    BY CaseAssumption DEF Inv, SourceInv
  <2>3. source'.nodes \in {case.graph.nodes, built}
    <3>1. source' = [case.graph EXCEPT !.numBlocks = MinimalBlocks(Result)] \/ source' = Result
      BY <1>1 DEF NextCall
    <3>2. [case.graph EXCEPT !.numBlocks = MinimalBlocks(Result)].nodes = case.graph.nodes
      BY <2>2
    <3>3. Result.nodes = built
      BY <2>2 DEF Result
    <3>4. QED
      BY <3>1, <3>2, <3>3
  <2>4. LanesOfChannels
    BY LanesFromInv
  <2>5. QED
    BY <2>1, <2>3, <2>4 DEF LanesKept, LanesOfChannels
<1>2. CASE UNCHANGED <<case, source>>
  BY <1>2 DEF LanesKept
<1>3. QED
  BY <1>1, <1>2 DEF Next, Begin, Keep, Insert, Refuse, Return, Done, vars

(* Every value of a layer is rescaled with the entry of its own channel,   *)
(* whatever the shape of its output.                                       *)
THEOREM ChannelsHaveTheirLanes == Spec => []LanesOfChannels
<1>1. Init => LanesKept
  BY DEF Init, LanesKept
<1>2. Inv /\ Agreed /\ Typing /\ LayoutInv /\ LanesKept => LanesOfChannels
  BY LanesFromInv
<1>3. QED
  BY <1>1, <1>2, AlwaysTyped, AlwaysLaid, LanesStep, PTL DEF Spec

-----------------------------------------------------------------------------
(* The sized radix: the second call repeats the first one turn by turn.    *)

(* Rounding up to whole blocks.                                            *)
LEMMA BlocksFor ==
  ASSUME NEW n \in Nat
  PROVE  LET b == Larger(2, CeilDiv(n, MessageBits))
         IN  /\ b \in Nat /\ b >= 2 /\ n <= Capacity(b)
             /\ b > 2 => n > Capacity(b - 1)
<1> DEFINE c == CeilDiv(n, MessageBits)
           b == Larger(2, c)
<1>1. c = (n + 1) \div 2
  BY DEF CeilDiv, MessageBits
<1>2. c \in Nat /\ 2 * c <= n + 1 /\ n + 1 < 2 * c + 2
  <2> HIDE DEF c
  <2>1. QED
    BY <1>1
<1> HIDE DEF c
<1>3. b = IF 2 >= c THEN 2 ELSE c
  BY <1>2, LargerSmaller
<1> HIDE DEF b
<1>4. b \in Nat /\ b >= 2 /\ n <= b * 2 /\ (b > 2 => n > (b - 1) * 2)
  BY <1>2, <1>3
<1>5. QED
  BY <1>4 DEF b, c, Capacity, MessageBits

(* The radix minimal_num_blocks gives holds every width and every          *)
(* transient, and one block less does not.                                 *)
LEMMA MinimalBlocksAre ==
  ASSUME NEW m, NEW B \in Nat,
         \A t \in DOMAIN Widths(m.nodes, m) : Widths(m.nodes, m)[t] \in 0 .. B,
         \A i \in DOMAIN m.nodes :
           InternalBits(m.nodes[i].op, Operands(m.nodes[i], Widths(m.nodes, m))) \in 0 .. B
  PROVE  LET w == Widths(m.nodes, m)
             peak(i) == InternalBits(m.nodes[i].op, Operands(m.nodes[i], w))
             b == MinimalBlocks(m)
         IN  /\ b \in Nat /\ b >= 2
             /\ \A t \in DOMAIN w : w[t] <= Capacity(b)
             /\ \A i \in DOMAIN m.nodes : peak(i) <= Capacity(b)
             /\ b > 2 => \/ \E t \in DOMAIN w : w[t] > Capacity(b - 1)
                         \/ \E i \in DOMAIN m.nodes : peak(i) > Capacity(b - 1)
<1> DEFINE w == Widths(m.nodes, m)
           peak(i) == InternalBits(m.nodes[i].op, Operands(m.nodes[i], w))
           H == {w[t] : t \in DOMAIN w}
           P == {peak(i) : i \in DOMAIN m.nodes}
           S == {0} \cup H \cup P
           n == Max(S)
           b == MinimalBlocks(m)
<1>1. b = Larger(2, CeilDiv(n, MessageBits))
  BY DEF MinimalBlocks
<1>2. S \subseteq 0 .. B
  OBVIOUS
<1>3. IsFiniteSet(S)
  <2> HIDE DEF S
  <2>1. 0 \in Int /\ B \in Int
    OBVIOUS
  <2>2. IsFiniteSet(0 .. B)
    BY <2>1, FS_Interval, Zenon
  <2>3. QED
    BY <1>2, <2>2, FS_Subset, Zenon
<1>4. n \in S /\ \A y \in S : y <= n
  <2>1. S # {}
    OBVIOUS
  <2> HIDE DEF S
  <2>2. S \subseteq Int
    BY <1>2
  <2>3. QED
    BY <1>3, <2>1, <2>2, LargestInteger
<1>5. n \in Nat
  BY <1>2, <1>4
<1>6. /\ n = 0 \/ (\E t \in DOMAIN w : n = w[t]) \/ (\E i \in DOMAIN m.nodes : n = peak(i))
      /\ \A t \in DOMAIN w : w[t] <= n
      /\ \A i \in DOMAIN m.nodes : peak(i) <= n
  <2> HIDE DEF n, w, peak
  <2>1. QED
    BY <1>4
<1> HIDE DEF n, b
<1>7. b \in Nat /\ b >= 2 /\ n <= Capacity(b) /\ (b > 2 => n > Capacity(b - 1))
  BY <1>1, <1>5, BlocksFor
<1>8. Capacity(b) \in Nat /\ Capacity(b - 1) \in Nat
  BY <1>7 DEF Capacity, MessageBits
<1>9. /\ \A t \in DOMAIN w : w[t] \in Nat
      /\ \A i \in DOMAIN m.nodes : peak(i) \in Nat
  OBVIOUS
<1> HIDE DEF w, peak
<1>10. /\ \A t \in DOMAIN w : w[t] <= Capacity(b)
       /\ \A i \in DOMAIN m.nodes : peak(i) <= Capacity(b)
  BY <1>5, <1>6, <1>7, <1>8, <1>9
<1>11. ASSUME b > 2
       PROVE  \/ \E t \in DOMAIN w : w[t] > Capacity(b - 1)
              \/ \E i \in DOMAIN m.nodes : peak(i) > Capacity(b - 1)
  <2>1. n # 0 /\ n > Capacity(b - 1)
    BY <1>5, <1>7, <1>8, <1>11
  <2>2. QED
    BY <1>6, <2>1
<1>12. QED
  BY <1>7, <1>10, <1>11 DEF w, peak, b

(* What MinimalBlocks needs of a graph that fits some radix.               *)
Fitting(m, w) ==
  /\ w = Widths(m.nodes, m) /\ m.inputBits \in Nat /\ m.numBlocks \in Nat
  /\ DOMAIN w = m.inputs \cup Written(m.nodes)
  /\ \A t \in DOMAIN w : w[t] \in Nat
  /\ \A t \in m.inputs : w[t] = m.inputBits
  /\ \A i \in DOMAIN m.nodes : HasLists(m.nodes[i]) /\ Declared(m.nodes[i].op)
  /\ PyBudgetOK(m)

(* The widths an op of such a graph reads.                                 *)
LEMMA FittingReads ==
  ASSUME NEW m, NEW w, Fitting(m, w), NEW i \in DOMAIN m.nodes
  PROVE  LET in == Operands(m.nodes[i], w)
         IN  /\ in \in Seq(Nat)
             /\ InternalBits(m.nodes[i].op, in) \in Nat
             /\ InternalBits(m.nodes[i].op, in) <= Capacity(m.numBlocks)
<1> DEFINE node == m.nodes[i]
           in == Operands(node, w)
<1>1. /\ Propagates(m.nodes, m.inputs) /\ BudgetOK(m)
      /\ w = Widths(m.nodes, m) /\ m.numBlocks \in Nat
      /\ DOMAIN w = m.inputs \cup Written(m.nodes) /\ \A t \in DOMAIN w : w[t] \in Nat
      /\ HasLists(node) /\ Declared(node.op)
  BY DEF Fitting, PyBudgetOK, BudgetOK
<1>2. Valid(node.op) /\ Len(node.ins) = Arity(node.op) /\ ToSet(node.ins) \subseteq DOMAIN w
  BY <1>1 DEF Propagates, Sortable, Matched
<1>3. node.ins \in Seq(ToSet(node.ins))
  BY <1>1 DEF HasLists
<1>4. InternalBits(node.op, in) <= Capacity(m.numBlocks)
  BY <1>1 DEF BudgetOK
<1> HIDE DEF node
<1>5. in \in Seq(Nat) /\ DOMAIN in = 1 .. Len(in) /\ Len(in) = Len(node.ins)
  <2>1. DOMAIN in = 1 .. Len(node.ins) /\ Len(node.ins) \in Nat
    BY <1>3 DEF Operands
  <2>2. \A k \in 1 .. Len(node.ins) : in[k] \in Nat
    <3> SUFFICES ASSUME NEW k \in 1 .. Len(node.ins) PROVE in[k] \in Nat
      OBVIOUS
    <3>1. node.ins[k] \in ToSet(node.ins) /\ in[k] = w[node.ins[k]]
      BY <1>3 DEF Operands, ToSet
    <3>2. QED
      BY <1>1, <1>2, <3>1
  <2>3. in = [k \in DOMAIN in |-> in[k]]
    BY DEF Operands
  <2> HIDE DEF in
  <2>4. QED
    BY <2>1, <2>2, <2>3
<1> HIDE DEF in
<1>6. InternalBits(node.op, in) \in Nat
  BY <1>1, <1>2, <1>5, InternalType
<1>7. QED
  BY <1>4, <1>5, <1>6 DEF in, node

(* A graph that fits some radix fits the one sized on it, and one block    *)
(* less is too small for it or for its inputs.                             *)
LEMMA SizedFits ==
  ASSUME NEW m, NEW w, Fitting(m, w)
  PROVE  LET b == MinimalBlocks(m)
         IN  /\ b \in Nat /\ b >= 2
             /\ \A t \in DOMAIN w : w[t] <= Capacity(b)
             /\ \A g : /\ g.nodes = m.nodes /\ g.inputs = m.inputs /\ g.inputBits = m.inputBits
                       =>  /\ g.numBlocks = b => PyBudgetOK(g)
                           /\ b > 2 /\ g.numBlocks = b - 1 =>
                                m.inputBits > Capacity(b - 1) \/ ~ BudgetOK(g)
<1> DEFINE b == MinimalBlocks(m)
           C == Capacity(m.numBlocks)
           B == IF C >= m.inputBits THEN C ELSE m.inputBits
           peak(i) == InternalBits(m.nodes[i].op, Operands(m.nodes[i], w))
<1>1. /\ Propagates(m.nodes, m.inputs) /\ BudgetOK(m)
      /\ \A i \in DOMAIN m.nodes : m.nodes[i].op.type = "Activation" =>
           w[m.nodes[i].ins[1]] <= MessageBits
      /\ w = Widths(m.nodes, m) /\ m.numBlocks \in Nat /\ m.inputBits \in Nat
      /\ DOMAIN w = m.inputs \cup Written(m.nodes) /\ \A t \in DOMAIN w : w[t] \in Nat
      /\ \A t \in m.inputs : w[t] = m.inputBits
      /\ \A i \in DOMAIN m.nodes : HasLists(m.nodes[i])
  BY DEF Fitting, PyBudgetOK, BudgetOK
<1>2. C \in Nat /\ B \in Nat /\ C <= B /\ m.inputBits <= B
  BY <1>1 DEF Capacity, MessageBits
<1>3. \A i \in DOMAIN m.nodes : peak(i) \in 0 .. B
  <2> SUFFICES ASSUME NEW i \in DOMAIN m.nodes PROVE peak(i) \in 0 .. B
    OBVIOUS
  <2>1. peak(i) \in Nat /\ peak(i) <= C
    BY FittingReads
  <2> HIDE DEF C, B, peak
  <2>2. QED
    BY <1>2, <2>1
<1>4. \A t \in Written(m.nodes) :
        \E i \in DOMAIN m.nodes : \E k \in DOMAIN m.nodes[i].outs : t = m.nodes[i].outs[k]
  <2> SUFFICES ASSUME NEW i \in DOMAIN m.nodes, NEW t \in ToSet(m.nodes[i].outs)
               PROVE  \E k \in DOMAIN m.nodes[i].outs : t = m.nodes[i].outs[k]
    BY DEF Written
  <2>1. QED
    BY DEF ToSet
<1>5. \A t \in DOMAIN w : w[t] \in 0 .. B
  <2> SUFFICES ASSUME NEW t \in DOMAIN w PROVE w[t] <= B
    BY <1>1, <1>2
  <2>1. CASE t \in m.inputs
    BY <1>1, <1>2, <2>1
  <2>2. CASE t \in Written(m.nodes)
    <3>1. w[t] <= C
      BY <1>1, <1>4, <2>2 DEF BudgetOK
    <3>2. QED
      BY <1>1, <1>2, <3>1
  <2>3. QED
    BY <1>1, <2>1, <2>2
<1> HIDE DEF B, C
<1>6. /\ b \in Nat /\ b >= 2
      /\ \A t \in DOMAIN w : w[t] <= Capacity(b)
      /\ \A i \in DOMAIN m.nodes : peak(i) <= Capacity(b)
      /\ b > 2 => \/ \E t \in DOMAIN w : w[t] > Capacity(b - 1)
                  \/ \E i \in DOMAIN m.nodes : peak(i) > Capacity(b - 1)
  <2>1. \A t \in DOMAIN Widths(m.nodes, m) : Widths(m.nodes, m)[t] \in 0 .. B
    BY <1>1, <1>5
  <2>2. \A i \in DOMAIN m.nodes :
          InternalBits(m.nodes[i].op, Operands(m.nodes[i], Widths(m.nodes, m))) \in 0 .. B
    BY <1>1, <1>3
  <2>3. QED
    BY <1>1, <1>2, <2>1, <2>2, MinimalBlocksAre
<1> HIDE DEF b
<1>7. ASSUME NEW g, g.nodes = m.nodes, g.inputs = m.inputs, g.inputBits = m.inputBits
      PROVE  /\ g.numBlocks = b => PyBudgetOK(g)
             /\ b > 2 /\ g.numBlocks = b - 1 =>
                  m.inputBits > Capacity(b - 1) \/ ~ BudgetOK(g)
  <2>1. Widths(g.nodes, g) = w
    <3>1. InputWidths(g) = InputWidths(m)
      BY <1>7 DEF InputWidths
    <3>2. Widths(g.nodes, g) = Widths(m.nodes, m)
      BY ONLY <1>7, <3>1, Zenon DEF Widths
    <3>3. QED
      BY <1>1, <3>2
  <2>2. BudgetOK(g) <=>
          \A i \in DOMAIN m.nodes :
            /\ \A k \in DOMAIN m.nodes[i].outs : w[m.nodes[i].outs[k]] <= Capacity(g.numBlocks)
            /\ peak(i) <= Capacity(g.numBlocks)
    BY <1>1, <1>7, <2>1 DEF BudgetOK, peak
  <2>3. \A i \in DOMAIN m.nodes : \A k \in DOMAIN m.nodes[i].outs : m.nodes[i].outs[k] \in DOMAIN w
    <3> SUFFICES ASSUME NEW i \in DOMAIN m.nodes, NEW k \in DOMAIN m.nodes[i].outs
                 PROVE  m.nodes[i].outs[k] \in Written(m.nodes)
      BY <1>1
    <3>1. m.nodes[i].outs \in Seq(ToSet(m.nodes[i].outs))
      BY <1>1 DEF HasLists
    <3>2. m.nodes[i].outs[k] \in ToSet(m.nodes[i].outs)
      BY <3>1 DEF ToSet
    <3>3. QED
      BY <3>2 DEF Written
  <2>4. Capacity(b) \in Nat /\ Capacity(b - 1) \in Nat
    BY <1>6 DEF Capacity, MessageBits
  <2> HIDE DEF peak
  <2>5. ASSUME g.numBlocks = b PROVE PyBudgetOK(g)
    <3>1. BudgetOK(g)
      BY <1>6, <2>2, <2>3, <2>4, <2>5
    <3>2. QED
      BY <1>1, <1>7, <2>1, <3>1 DEF PyBudgetOK
  <2>6. ASSUME b > 2, g.numBlocks = b - 1, BudgetOK(g) PROVE m.inputBits > Capacity(b - 1)
    <3>1. \A i \in DOMAIN m.nodes :
            /\ \A k \in DOMAIN m.nodes[i].outs : w[m.nodes[i].outs[k]] <= Capacity(b - 1)
            /\ peak(i) <= Capacity(b - 1)
      BY <2>2, <2>4, <2>6
    <3>2. \A i \in DOMAIN m.nodes : ~ (peak(i) > Capacity(b - 1))
      BY <1>3, <2>4, <3>1
    <3>3. PICK t \in DOMAIN w : w[t] > Capacity(b - 1)
      BY <1>6, <2>6, <3>2
    <3>4. t \notin Written(m.nodes)
      <4>1. SUFFICES ASSUME t \in Written(m.nodes) PROVE w[t] <= Capacity(b - 1)
        BY <1>1, <2>4, <3>3
      <4>2. QED
        BY <1>4, <3>1, <4>1
    <3>5. QED
      BY <1>1, <3>3, <3>4
  <2>7. QED
    BY <2>5, <2>6
<1>8. QED
  BY <1>6, <1>7 DEF b

-----------------------------------------------------------------------------
(* What a turn does, told from the compiled layers and the state before it *)
(* alone: s is <<built, widths, rewire>>.                                  *)
Layer(c, k) == c.graph.nodes[StableOrder(c.graph.nodes)[k]]

ReadNarrow(c) ==
  UNION {ToSet(c.graph.nodes[i].ins) :
           i \in {j \in DOMAIN c.graph.nodes : c.graph.nodes[j].op.type \notin WideInputOps}}

Needs(c, node) ==
  /\ node.op.type \in AccumulatorOps
  /\ node.outs[1] \in ReadNarrow(c) \ c.graph.outputs
  /\ node.outs[1] \notin ReadBy(c.graph.nodes, {"Requant"})

RewiredOn(s, node) ==
  IF node.op.type \in WideInputOps THEN node
  ELSE [node EXCEPT !.ins = [k \in DOMAIN node.ins |-> Get(s[3], node.ins[k], node.ins[k])]]

WidthsOn(s, node) == Widened(RewiredOn(s, node), s[2])

RequantOn(c, w, node) ==
  LET name == node.outs[1]
      cal  == c.calib
      one  == [mult      |-> Get(cal.mults, name, 1),
               shift     |-> Get(cal.shifts, name, Larger(0, w[name] - c.outBits)),
               roundBias |-> Get(cal.roundBiases, name, 0)]
      each == name \in DOMAIN cal.perChannel
  IN  [type        |-> "Requant",
       channel     |-> IF each THEN cal.perChannel[name] ELSE <<one>>,
       channelSize |-> IF each THEN ChannelSize(node.op) ELSE 0,
       clampLo     |-> Get(cal.clampLos, name, 0),
       zeroPoint   |-> Get(cal.zeroPoints, name, 0),
       outBits     |-> c.outBits,
       lut         |-> ClampLut(c.outBits)]

CalibratedOn(c, w, node) ==
  /\ node.outs[1] \in DOMAIN c.calib.perChannel =>
       Len(c.calib.perChannel[node.outs[1]]) = Len(node.op.weights)
  /\ ValidRequant(RequantOn(c, w, node))

After(c, s, node) ==
  LET now  == RewiredOn(s, node)
      w    == WidthsOn(s, node)
      wide == now.outs[1]
      narrow == [op |-> RequantOn(c, w, now), ins |-> <<wide>>, outs |-> <<Rq(wide)>>]
  IN  IF Needs(c, now)
      THEN <<s[1] \o <<now, narrow>>,
             Bind(w, <<Rq(wide)>>, <<c.outBits>>),
             Bind(s[3], <<wide>>, <<Rq(wide)>>)>>
      ELSE <<Append(s[1], now), w, s[3]>>

(* A node in need of a Requant had one that its calibration allows.        *)
Allowed(c, s, node) ==
  LET now == RewiredOn(s, node)
  IN  Needs(c, now) => CalibratedOn(c, WidthsOn(s, node), now)

(* The first n turns of every call on these layers, whatever its radix.    *)
History(c, h, n) ==
  /\ h[0] = <<<<>>, InputWidths(c.graph), <<>>>>
  /\ \A k \in 1 .. n : /\ h[k] = After(c, h[k-1], Layer(c, k))
                       /\ Allowed(c, h[k-1], Layer(c, k))

(* The call is on the layers themselves.                                   *)
OnLayers ==
  /\ source.nodes = case.graph.nodes /\ source.inputs = case.graph.inputs
  /\ source.outputs = case.graph.outputs /\ source.inputBits = case.graph.inputBits

(* Then the pass's own operators are these.                                *)
LEMMA OwnOperators ==
  ASSUME OnLayers, NEW node, NEW s, s = <<built, widths, rewire>>
  PROVE  /\ NeedsRequant(node) <=> Needs(case, node)
         /\ Rewired(node) = RewiredOn(s, node)
         /\ WithOutputs(Rewired(node)) = WidthsOn(s, node)
         /\ RequantFor(node) = RequantOn(case, WithOutputs(node), node)
         /\ Calibrated(node) <=> CalibratedOn(case, WithOutputs(node), node)
<1>1. s[1] = built /\ s[2] = widths /\ s[3] = rewire
  OBVIOUS
<1>2. NeedsRequant(node) <=> Needs(case, node)
  <2>1. source.nodes = case.graph.nodes /\ source.outputs = case.graph.outputs
    BY DEF OnLayers
  <2>2. AlreadyRequantized = ReadBy(case.graph.nodes, {"Requant"})
    BY ONLY <2>1, Zenon DEF AlreadyRequantized
  <2>3. ConsumedByNarrow = ReadNarrow(case)
    BY ONLY <2>1, Zenon DEF ConsumedByNarrow, ReadNarrow
  <2>4. QED
    BY ONLY <2>1, <2>2, <2>3 DEF Needs, NeedsRequant
<1>3. Rewired(node) = RewiredOn(s, node)
  BY ONLY <1>1, Zenon DEF Rewired, RewiredOn
<1>4. WithOutputs(Rewired(node)) = WidthsOn(s, node)
  BY ONLY <1>1, <1>3, Zenon DEF WithOutputs, WidthsOn, Widened
<1>5. RequantFor(node) = RequantOn(case, WithOutputs(node), node)
  BY ONLY TRUE, Zenon DEF RequantFor, RequantOn, FallbackShift, PerChannel
<1>6. Calibrated(node) <=> CalibratedOn(case, WithOutputs(node), node)
  BY ONLY <1>5, Zenon DEF Calibrated, CalibratedOn, PerChannel
<1>7. QED
  BY <1>2, <1>3, <1>4, <1>5, <1>6

(* A turn does that.                                                       *)
LEMMA TurnIsAfter ==
  ASSUME SourceInv, LoopInv, OnLayers, Keep \/ Insert
  PROVE  LET s == <<built, widths, rewire>>
             node == Layer(case, Turns + 1)
         IN  /\ <<built', widths', rewire'>> = After(case, s, node)
             /\ Allowed(case, s, node)
<1> DEFINE s == <<built, widths, rewire>>
           node == Layer(case, Turns + 1)
           now == RewiredOn(s, node)
           w == WidthsOn(s, node)
<1>1. phase = "loop" /\ todo # <<>>
  BY DEF Keep, Insert
<1>2. source.nodes[Head(todo)] = node
  BY <1>1, CurrentNode DEF OnLayers, Layer, Order
<1>3. /\ Current = now /\ WithOutputs(Current) = w
      /\ NeedsRequant(Current) <=> Needs(case, now)
      /\ RequantFor(Current) = RequantOn(case, w, now)
      /\ Calibrated(Current) <=> CalibratedOn(case, w, now)
  <2>1. Current = Rewired(node)
    BY <1>2 DEF Current
  <2>2. Rewired(node) = now /\ WithOutputs(Rewired(node)) = w
    BY OwnOperators
  <2>3. /\ NeedsRequant(now) <=> Needs(case, now)
        /\ RequantFor(now) = RequantOn(case, WithOutputs(now), now)
        /\ Calibrated(now) <=> CalibratedOn(case, WithOutputs(now), now)
    BY OwnOperators
  <2>4. QED
    BY <2>1, <2>2, <2>3
<1>4. s[1] = built /\ s[2] = widths /\ s[3] = rewire
  OBVIOUS
<1> HIDE DEF s, node, now, w
<1>5. CASE Keep
  <2>1. ~ NeedsRequant(Current) /\ built' = Append(built, Current)
        /\ widths' = WithOutputs(Current) /\ rewire' = rewire
    BY <1>5 DEF Keep
  <2>2. ~ Needs(case, now)
    BY <1>3, <2>1
  <2>3. After(case, s, node) = <<Append(s[1], now), w, s[3]>>
    BY <2>2 DEF After, now, w
  <2>4. Allowed(case, s, node)
    BY <2>2 DEF Allowed, now
  <2>5. QED
    BY <1>3, <1>4, <2>1, <2>3, <2>4 DEF s, node
<1>6. CASE Insert
  <2>1. NeedsRequant(Current) /\ Calibrated(Current)
    BY <1>6 DEF Insert
  <2> DEFINE wide == Current.outs[1]
             narrow == [op |-> RequantFor(Current), ins |-> <<wide>>, outs |-> <<Rq(wide)>>]
  <2>2. /\ built' = built \o <<Current, narrow>>
        /\ widths' = Bind(WithOutputs(Current), <<Rq(wide)>>, <<case.outBits>>)
        /\ rewire' = Bind(rewire, <<wide>>, <<Rq(wide)>>)
    BY <1>6 DEF Insert
  <2>3. Needs(case, now)
    BY <1>3, <2>1
  <2>4. After(case, s, node) =
          <<s[1] \o <<now, [op |-> RequantOn(case, w, now), ins |-> <<now.outs[1]>>, outs |-> <<Rq(now.outs[1])>>]>>,
            Bind(w, <<Rq(now.outs[1])>>, <<case.outBits>>),
            Bind(s[3], <<now.outs[1]>>, <<Rq(now.outs[1])>>)>>
    BY ONLY <2>3, Zenon DEF After, now, w
  <2>5. Allowed(case, s, node)
    BY <1>3, <2>1 DEF Allowed, now, w
  <2>6. After(case, s, node) = <<built', widths', rewire'>>
    BY ONLY <1>3, <1>4, <2>2, <2>4, Zenon
  <2>7. QED
    BY <2>5, <2>6 DEF s, node
<1>7. QED
  BY <1>5, <1>6

(* The widths at which the first n turns found what they narrowed are the  *)
(* widths w.                                                               *)
Peaks(c, h, n, w) ==
  \A k \in 1 .. n :
    Needs(c, Layer(c, k)) =>
      /\ Layer(c, k).outs[1] \in DOMAIN w
      /\ WidthsOn(h[k-1], Layer(c, k))[Layer(c, k).outs[1]] = w[Layer(c, k).outs[1]]

(* One more turn of the history.                                           *)
LEMMA HistoryMore ==
  ASSUME NEW c, NEW h, NEW n \in Nat, History(c, h, n),
         NEW s, s = After(c, h[n], Layer(c, n + 1)), Allowed(c, h[n], Layer(c, n + 1))
  PROVE  \E g : /\ History(c, g, n + 1) /\ g[n + 1] = s
                /\ \A k \in 0 .. n : g[k] = h[k]
<1> DEFINE m == n + 1
           g == [k \in 0 .. m |-> IF k = m THEN s ELSE h[k]]
<1>1. /\ m \in Nat /\ m \in 0 .. m /\ 0 \in 0 .. n
      /\ \A k \in 0 .. n : k \in 0 .. m /\ k # m
      /\ \A k \in 1 .. m : k = m \/ k \in 1 .. n
      /\ \A k \in 1 .. n : k \in 0 .. n /\ k - 1 \in 0 .. n
      /\ m - 1 = n /\ n \in 0 .. n
  OBVIOUS
<1>2. g[m] = s /\ \A k \in 0 .. n : g[k] = h[k]
  BY <1>1
<1> HIDE DEF g
<1>3. g[0] = <<<<>>, InputWidths(c.graph), <<>>>>
  BY <1>1, <1>2 DEF History
<1>4. ASSUME NEW k \in 1 .. m
      PROVE  g[k] = After(c, g[k-1], Layer(c, k)) /\ Allowed(c, g[k-1], Layer(c, k))
  <2>1. CASE k = m
    <3>1. g[k-1] = h[n] /\ g[k] = s
      BY <1>1, <1>2, <2>1
    <3>2. QED
      BY <2>1, <3>1
  <2>2. CASE k \in 1 .. n
    <3>1. g[k-1] = h[k-1] /\ g[k] = h[k]
      BY <1>1, <1>2, <2>2
    <3>2. QED
      BY <2>2, <3>1 DEF History
  <2>3. QED
    BY <1>1, <2>1, <2>2
<1> HIDE DEF m
<1>5. History(c, g, m)
  BY <1>3, <1>4 DEF History
<1>6. QED
  BY <1>2, <1>5 DEF m

(* A turn changes no width there was, and the width of the tensor it       *)
(* narrows is at hand from then on.                                        *)
LEMMA TurnPeaks ==
  ASSUME SourceInv, LoopInv, Agreed, OnLayers, FreshNames, Keep \/ Insert,
         NEW s, s = <<built, widths, rewire>>
  PROVE  LET node == Layer(case, Turns + 1)
         IN  /\ \A t \in DOMAIN widths : t \in DOMAIN widths' /\ widths'[t] = widths[t]
             /\ Needs(case, node) =>
                  /\ node.outs[1] \in DOMAIN widths'
                  /\ WidthsOn(s, node)[node.outs[1]] = widths'[node.outs[1]]
<1> DEFINE node == Layer(case, Turns + 1)
           W == WithOutputs(Current)
           wide == Current.outs[1]
<1>1. phase = "loop" /\ todo # <<>>
  BY DEF Keep, Insert
<1>2. DOMAIN widths = source.inputs \cup Written(built) /\ Origins
  BY <1>1 DEF Agreed, Consistent
<1>3. /\ ToSet(Current.outs) \cap DOMAIN widths = {}
      /\ NeedsRequant(Current) =>
           wide \in ToSet(Current.outs) /\ Rq(wide) \notin DOMAIN widths \cup ToSet(Current.outs)
  BY <1>1, <1>2, CurrentIsNew
<1>4. W = Widened(Current, widths)
  BY DEF WithOutputs, Widened
<1>5. /\ DOMAIN W = DOMAIN widths \cup ToSet(Current.outs)
      /\ \A t \in DOMAIN widths : W[t] = widths[t]
  <2>1. DOMAIN W = DOMAIN widths \cup ToSet(Current.outs)
    BY <1>4 DEF Widened, Bind
  <2>2. \A t \in DOMAIN widths : W[t] = widths[t]
    BY <1>3, <1>4, WidenedKeeps
  <2>3. QED
    BY <2>1, <2>2
<1>6. source.nodes[Head(todo)] = node
  BY <1>1, CurrentNode DEF OnLayers, Layer, Order
<1>7. /\ Current.op = node.op /\ Current.outs = node.outs
      /\ W = WidthsOn(s, node)
      /\ NeedsRequant(Current) <=> Needs(case, node)
  <2>1. Current.op = node.op /\ Current.outs = node.outs
    BY <1>1, <1>6, CurrentRewired
  <2>2. Current = Rewired(node)
    BY <1>6 DEF Current
  <2>3. W = WidthsOn(s, node)
    BY <2>2, OwnOperators
  <2>4. NeedsRequant(Current) <=> Needs(case, Current)
    BY OwnOperators
  <2>5. Needs(case, Current) <=> Needs(case, node)
    BY <2>1 DEF Needs
  <2>6. QED
    BY <2>1, <2>3, <2>4, <2>5
<1> HIDE DEF W, node
<1>8. /\ \A t \in DOMAIN W : t # Rq(wide) \/ ~ NeedsRequant(Current)
                            => t \in DOMAIN widths' /\ widths'[t] = W[t]
  <2>1. CASE Keep
    <3>1. widths' = W
      BY <2>1 DEF Keep, W
    <3>2. QED
      BY <3>1
  <2>2. CASE Insert
    <3>1. widths' = Bind(W, <<Rq(wide)>>, <<case.outBits>>) /\ NeedsRequant(Current)
      BY <2>2 DEF Insert, W
    <3>2. OneMore(widths', W, Rq(wide), case.outBits)
      BY <3>1, BindOne
    <3>3. QED
      BY <3>1, <3>2 DEF OneMore
  <2>3. QED
    BY <2>1, <2>2
<1>9. ASSUME NEW t \in DOMAIN widths PROVE t \in DOMAIN widths' /\ widths'[t] = widths[t]
  BY <1>3, <1>5, <1>8
<1>10. ASSUME Needs(case, node)
       PROVE  node.outs[1] \in DOMAIN widths' /\ WidthsOn(s, node)[node.outs[1]] = widths'[node.outs[1]]
  BY <1>3, <1>5, <1>7, <1>8, <1>10
<1>11. QED
  BY <1>9, <1>10 DEF node

(* What the first and the second call are made on.                         *)
SourceIs ==
  /\ pass = "probe" => source = case.graph
  /\ pass = "sized" => source = [case.graph EXCEPT !.numBlocks = source.numBlocks]

(* The first call's state is the last of a history.                        *)
Probing ==
  pass = "probe" /\ phase \in {"loop", "returned"} =>
    \E h : /\ History(case, h, Turns) /\ h[Turns] = <<built, widths, rewire>>
           /\ FreshNames => Peaks(case, h, Turns, widths)

(* A whole history, whose result the radix b is sized on.                  *)
SizedOn(c, h, b) ==
  LET n == Len(StableOrder(c.graph.nodes))
      g == [c.graph EXCEPT !.nodes = h[n][1]]
  IN  /\ History(c, h, n)
      /\ b = MinimalBlocks(g) /\ Fitting(g, Widths(g.nodes, g))
      /\ \A k \in 1 .. n :
           Needs(c, Layer(c, k)) =>
             WidthsOn(h[k-1], Layer(c, k))[Layer(c, k).outs[1]] <= Capacity(b)

(* The second call's states are those of the first call's history.         *)
Sizing ==
  pass = "sized" =>
    /\ phase \notin Errors
    /\ Propagates(case.graph.nodes, case.graph.inputs)
    /\ \E h : /\ SizedOn(case, h, source.numBlocks)
              /\ phase \in {"loop", "returned"} => h[Turns] = <<built, widths, rewire>>

(* The layers are a graph.                                                 *)
LEMMA LayersAre ==
  ASSUME case \in Cases
  PROVE  /\ {"nodes", "inputs", "outputs", "inputBits", "numBlocks"} \subseteq DOMAIN case.graph
         /\ case.graph.inputBits \in Nat /\ case.graph.numBlocks \in Nat
  BY CaseAssumption

(* Both of the first calls are on the layers.                              *)
LEMMA OnLayersAre ==
  ASSUME case \in Cases, SourceIs, pass \in {"probe", "sized"}
  PROVE  OnLayers
<1>1. CASE pass = "probe"
  BY <1>1 DEF SourceIs, OnLayers
<1>2. CASE pass = "sized"
  <2>1. source = [case.graph EXCEPT !.numBlocks = source.numBlocks]
    BY <1>2 DEF SourceIs
  <2> DEFINE b == source.numBlocks
             g == case.graph
  <2>2. source = [g EXCEPT !.numBlocks = b]
    BY <2>1
  <2>3. {"nodes", "inputs", "outputs", "inputBits", "numBlocks"} \subseteq DOMAIN g
    BY LayersAre
  <2> HIDE DEF b, g
  <2>4. source.nodes = g.nodes /\ source.inputs = g.inputs /\ source.outputs = g.outputs
        /\ source.inputBits = g.inputBits
    BY ONLY <2>2, <2>3
  <2>5. QED
    BY <2>4 DEF OnLayers, g
<1>3. QED
  BY <1>1, <1>2

(* A call begins at the beginning of every history.                        *)
LEMMA BeginsHistory ==
  ASSUME SourceInv, OnLayers, Begin, phase' = "loop"
  PROVE  /\ Turns' = 0 /\ case' = case /\ pass' = pass /\ source' = source
         /\ <<built', widths', rewire'>> = <<<<>>, InputWidths(case.graph), <<>>>>
<1>1. /\ built' = <<>> /\ rewire' = <<>> /\ case' = case /\ source' = source /\ pass' = pass
      /\ todo' = StableOrder(source.nodes) /\ widths' = InputWidths(source)
  BY DEF Begin
<1>2. Order' = Order /\ todo' = Order
  BY <1>1 DEF Order
<1>3. Len(Order) \in Nat
  <2>1. ProducersFirst(source.nodes, Order)
    BY OrderIsSound DEF SourceInv, Order
  <2>2. QED
    BY <2>1 DEF ProducersFirst
<1>4. Turns' = 0
  BY <1>2, <1>3 DEF Turns
<1>5. InputWidths(source) = InputWidths(case.graph)
  BY DEF OnLayers, InputWidths
<1>6. QED
  BY <1>1, <1>4, <1>5

(* Nothing but a turn moves a call along its history.                      *)
LEMMA TurnMoves ==
  ASSUME SourceInv, LoopInv, Keep \/ Insert
  PROVE  /\ phase = "loop" /\ todo # <<>> /\ phase' = "loop" /\ Turn
         /\ case' = case /\ pass' = pass /\ source' = source
         /\ Turns' = Turns + 1 /\ Turns \in Nat /\ Turns + 1 \in 1 .. Len(Order)
<1>1. Turn
  BY KeepIsTurn, InsertIsTurn
<1>2. /\ phase = "loop" /\ todo # <<>> /\ phase' = phase
      /\ case' = case /\ pass' = pass /\ source' = source
  BY <1>1 DEF Turn
<1>3. Turns' = Turns + 1 /\ Turns \in Nat
  BY <1>1, TurnKeepsSource
<1>4. Turns + 1 \in 1 .. Len(Order)
  BY <1>2, CurrentNode
<1>5. QED
  BY <1>1, <1>2, <1>3, <1>4

(* The first call makes a history.                                         *)
LEMMA ProbingStep == Inv /\ Agreed /\ SourceIs /\ Probing /\ [Next]_vars => Probing'
<1> SUFFICES ASSUME Inv, Agreed, SourceIs, Probing, [Next]_vars,
                    pass' = "probe", phase' \in {"loop", "returned"}
             PROVE  Probing'
  BY DEF Probing
<1>1. pass = "probe"
  BY DEF Next, Begin, Keep, Insert, Refuse, Return, NextCall, Done, vars
<1>2. OnLayers
  BY <1>1, OnLayersAre DEF Inv, SourceInv
<1>3. CASE Begin
  <2>1. phase' = "loop"
    BY <1>3 DEF Begin
  <2>2. /\ Turns' = 0 /\ case' = case
        /\ <<built', widths', rewire'>> = <<<<>>, InputWidths(case.graph), <<>>>>
    BY <1>2, <1>3, <2>1, BeginsHistory DEF Inv
  <2> DEFINE h == [k \in 0 .. 0 |-> <<<<>>, InputWidths(case.graph), <<>>>>]
  <2>3. h[0] = <<<<>>, InputWidths(case.graph), <<>>>>
    BY 0 \in 0 .. 0
  <2> HIDE DEF h
  <2>4. PICK g : g[0] = <<<<>>, InputWidths(case.graph), <<>>>>
    BY <2>3
  <2>5. History(case, g, 0) /\ Peaks(case, g, 0, widths')
    BY <2>4 DEF History, Peaks
  <2>6. g[Turns'] = <<built', widths', rewire'>>
    BY <2>2, <2>4
  <2>7. QED
    BY <2>2, <2>5, <2>6 DEF Probing
<1>4. CASE Keep \/ Insert
  <2>1. /\ phase = "loop" /\ phase' = "loop" /\ case' = case /\ source' = source
        /\ Turns' = Turns + 1 /\ Turns \in Nat
    BY <1>4, TurnMoves DEF Inv
  <2>2. PICK h : /\ History(case, h, Turns) /\ h[Turns] = <<built, widths, rewire>>
                 /\ FreshNames => Peaks(case, h, Turns, widths)
    BY <1>1, <2>1 DEF Probing
  <2> DEFINE s == <<built, widths, rewire>>
             node == Layer(case, Turns + 1)
             n == Turns
             now == <<built', widths', rewire'>>
  <2>3. now = After(case, s, node) /\ Allowed(case, s, node)
    BY <1>2, <1>4, TurnIsAfter DEF Inv
  <2>4. PICK g : History(case, g, n + 1) /\ g[n + 1] = now /\ \A k \in 0 .. n : g[k] = h[k]
    <3> HIDE DEF s, now
    <3>1. h[n] = s
      BY <2>2 DEF s
    <3> HIDE DEF n
    <3>2. n \in Nat /\ History(case, h, n) /\ node = Layer(case, n + 1)
      BY <2>1, <2>2 DEF n
    <3> HIDE DEF node
    <3>3. QED
      BY <2>3, <3>1, <3>2, HistoryMore
  <2>5. ASSUME FreshNames PROVE Peaks(case, g, n + 1, widths')
    <3>1. /\ \A t \in DOMAIN widths : t \in DOMAIN widths' /\ widths'[t] = widths[t]
          /\ Needs(case, node) =>
               /\ node.outs[1] \in DOMAIN widths'
               /\ WidthsOn(s, node)[node.outs[1]] = widths'[node.outs[1]]
      BY <1>2, <1>4, <2>5, TurnPeaks DEF Inv
    <3>2. Peaks(case, h, n, widths)
      BY <2>2, <2>5
    <3>3. g[n] = s /\ n \in Nat
      BY <2>1, <2>2, <2>4
    <3> HIDE DEF s, n, now
    <3>4. SUFFICES ASSUME NEW k \in 1 .. n + 1, Needs(case, Layer(case, k))
                   PROVE  /\ Layer(case, k).outs[1] \in DOMAIN widths'
                          /\ WidthsOn(g[k-1], Layer(case, k))[Layer(case, k).outs[1]]
                               = widths'[Layer(case, k).outs[1]]
      BY DEF Peaks
    <3>5. CASE k = n + 1
      <4>1. g[k-1] = s /\ Layer(case, k) = node
        BY <3>3, <3>5 DEF n
      <4> HIDE DEF node
      <4>2. QED
        BY <3>1, <3>4, <4>1
    <3>6. CASE k \in 1 .. n
      <4>1. k - 1 \in 0 .. n
        BY <3>3, <3>6
      <4>2. g[k-1] = h[k-1]
        BY <2>4, <4>1
      <4>3. QED
        BY <3>1, <3>2, <3>4, <3>6, <4>2 DEF Peaks
    <3>7. QED
      BY <3>3, <3>5, <3>6
  <2>6. FreshNames' <=> FreshNames
    BY <2>1 DEF FreshNames, NeedsRequant, ConsumedByNarrow, AlreadyRequantized
  <2>7. QED
    BY <2>1, <2>4, <2>5, <2>6 DEF Probing
<1>5. CASE Return \/ Done \/ UNCHANGED vars
  <2>1. /\ case' = case /\ source' = source /\ todo' = todo
        /\ built' = built /\ widths' = widths /\ rewire' = rewire
        /\ phase \in {"loop", "returned"}
    BY <1>5 DEF Return, Done, vars
  <2>2. Order' = Order
    BY <2>1 DEF Order
  <2>3. Turns' = Turns
    BY <2>1, <2>2 DEF Turns
  <2>4. FreshNames' <=> FreshNames
    BY <2>1 DEF FreshNames, NeedsRequant, ConsumedByNarrow, AlreadyRequantized
  <2>5. QED
    BY <1>1, <2>1, <2>3, <2>4 DEF Probing
<1>6. CASE Refuse \/ NextCall
  BY <1>6 DEF Refuse, NextCall, Errors
<1>7. QED
  BY <1>3, <1>4, <1>5, <1>6 DEF Next

(* What a first call returns is a graph that fits, with the widths at hand.*)
LEMMA ReturnedFitting ==
  ASSUME Inv, Agreed, Typing, SourceIs, pass = "probe", phase = "returned"
  PROVE  /\ Fitting(Result, Widths(Result.nodes, Result))
         /\ \A t \in DOMAIN widths : /\ t \in DOMAIN Widths(Result.nodes, Result)
                                     /\ Widths(Result.nodes, Result)[t] = widths[t]
<1>1. /\ OnLayers /\ {"nodes", "inputs", "outputs", "numBlocks"} \subseteq DOMAIN source
      /\ PyBudgetOK(Result) /\ built \in Seq(ToSet(built))
      /\ \A j \in DOMAIN built : HasLists(built[j])
  BY OnLayersAre DEF Inv, SourceInv, LoopInv, BuiltType
<1>2. FreshNames
  BY ReturnedFresh DEF Inv
<1>3. Consistent(built, source.inputs, source.inputBits, widths)
  BY <1>2 DEF Agreed
<1>4. /\ source.inputBits \in Nat /\ \A t \in DOMAIN widths : widths[t] \in Nat
      /\ \A j \in DOMAIN built : Declared(built[j].op)
      /\ "inputBits" \in DOMAIN source
  BY DEF Typing
<1>5. source.numBlocks \in Nat
  <2>1. case.graph.numBlocks \in Nat
    BY LayersAre DEF Inv, SourceInv
  <2>2. QED
    BY <2>1 DEF SourceIs
<1>6. /\ Result.nodes = built /\ Result.inputs = source.inputs
      /\ Result.inputBits = source.inputBits /\ Result.numBlocks = source.numBlocks
  BY <1>1, <1>4 DEF Result
<1> DEFINE m == Result
           v == Widths(built, m)
<1>7. DOMAIN v = DOMAIN widths /\ \A t \in DOMAIN v : v[t] = widths[t]
  <2>1. Consistent(built, m.inputs, m.inputBits, widths)
    BY <1>3, <1>6
  <2> HIDE DEF m
  <2>2. QED
    BY <1>1, <2>1, ConsistentWidths
<1>8. /\ DOMAIN widths = source.inputs \cup Written(built)
      /\ \A t \in source.inputs : widths[t] = source.inputBits
  BY <1>3 DEF Consistent
<1> HIDE DEF v, m
<1>9. v = Widths(m.nodes, m)
  BY <1>6 DEF v, m
<1>10. Fitting(m, v)
  <2>1. PyBudgetOK(m) /\ m.nodes = built /\ m.inputs = source.inputs
        /\ m.inputBits = source.inputBits /\ m.numBlocks = source.numBlocks
    BY <1>1, <1>6 DEF m
  <2>2. QED
    BY <1>1, <1>4, <1>5, <1>7, <1>8, <1>9, <2>1 DEF Fitting
<1>11. QED
  BY <1>7, <1>9, <1>10 DEF m

(* The second call is on the layers and the radix sized on the first       *)
(* call's result.                                                          *)
LEMMA NextCallSizes ==
  ASSUME Inv, Agreed, Typing, SourceIs, Probing, NextCall, pass = "probe"
  PROVE  Sizing'
<1>1. /\ phase = "returned" /\ case' = case /\ phase' = "start"
      /\ source' = [case.graph EXCEPT !.numBlocks = MinimalBlocks(Result)]
  BY DEF NextCall
<1>2. /\ OnLayers /\ todo = <<>> /\ Propagates(source.nodes, source.inputs)
      /\ {"nodes", "inputs", "outputs", "numBlocks"} \subseteq DOMAIN case.graph
  BY <1>1, OnLayersAre, LayersAre DEF Inv, SourceInv
<1> DEFINE n == Len(StableOrder(case.graph.nodes))
           m == Result
           v == Widths(m.nodes, m)
           b == MinimalBlocks(m)
<1>3. Turns = n /\ n \in Nat
  <2>1. ProducersFirst(source.nodes, Order)
    BY OrderIsSound DEF SourceInv, Order, Inv
  <2>2. Len(Order) \in Nat
    BY <2>1 DEF ProducersFirst
  <2>3. Turns = Len(Order)
    BY <1>2, <2>2 DEF Turns
  <2>4. QED
    BY <1>2, <2>2, <2>3 DEF Order, OnLayers
<1>4. FreshNames
  BY <1>1, ReturnedFresh DEF Inv
<1>5. PICK h : /\ History(case, h, n) /\ h[n] = <<built, widths, rewire>>
               /\ Peaks(case, h, n, widths)
  BY <1>1, <1>3, <1>4 DEF Probing
<1>6. h[n][1] = built
  BY <1>5
<1>7. m = [case.graph EXCEPT !.nodes = h[n][1]]
  BY <1>6 DEF Result, SourceIs
<1>8. Fitting(m, v) /\ \A t \in DOMAIN widths : t \in DOMAIN v /\ v[t] = widths[t]
  BY <1>1, ReturnedFitting
<1>9. \A t \in DOMAIN v : v[t] <= Capacity(b)
  <2> HIDE DEF m, v
  <2>1. QED
    BY <1>8, SizedFits
<1>10. \A k \in 1 .. n :
         Needs(case, Layer(case, k)) =>
           WidthsOn(h[k-1], Layer(case, k))[Layer(case, k).outs[1]] <= Capacity(b)
  <2> HIDE DEF n, m, v, b
  <2>1. QED
    BY <1>5, <1>8, <1>9 DEF Peaks
<1>11. SizedOn(case, h, b)
  <2> DEFINE g == [case.graph EXCEPT !.nodes = h[n][1]]
  <2>1. b = MinimalBlocks(g) /\ Fitting(g, Widths(g.nodes, g))
    BY <1>7, <1>8
  <2> HIDE DEF g, b
  <2>2. QED
    BY ONLY <1>5, <1>10, <2>1 DEF SizedOn, g
<1>12. source'.numBlocks = b
  <2> HIDE DEF b
  <2>1. source' = [case.graph EXCEPT !.numBlocks = b]
    BY <1>1 DEF b
  <2>2. QED
    BY <1>2, <2>1
<1> HIDE DEF b
<1>13. Propagates(case.graph.nodes, case.graph.inputs)
  BY <1>2 DEF OnLayers
<1>14. \E f : SizedOn(case, f, b)
  BY <1>11
<1>15. QED
  BY <1>1, <1>12, <1>13, <1>14 DEF Sizing, Errors

(* What the second call builds in the end is what the radix was sized on.  *)
LEMMA SizedResult ==
  ASSUME Inv, SourceIs, pass = "sized", phase \in {"loop", "returned"}, todo = <<>>,
         NEW h, SizedOn(case, h, source.numBlocks), h[Turns] = <<built, widths, rewire>>
  PROVE  LET g == [case.graph EXCEPT !.nodes = built]
         IN  /\ Fitting(g, Widths(g.nodes, g)) /\ source.numBlocks = MinimalBlocks(g)
             /\ Result.nodes = g.nodes /\ Result.inputs = g.inputs
             /\ Result.inputBits = g.inputBits /\ Result.numBlocks = source.numBlocks
<1>1. OnLayers /\ {"nodes", "inputs", "outputs", "inputBits", "numBlocks"} \subseteq DOMAIN case.graph
  BY OnLayersAre, LayersAre DEF Inv, SourceInv
<1> DEFINE n == Len(StableOrder(case.graph.nodes))
           g == [case.graph EXCEPT !.nodes = built]
<1>2. Turns = n
  <2>1. ProducersFirst(source.nodes, Order)
    BY OrderIsSound DEF SourceInv, Order, Inv
  <2>2. Len(Order) \in Nat
    BY <2>1 DEF ProducersFirst
  <2>3. Turns = Len(Order)
    BY <2>2 DEF Turns
  <2>4. QED
    BY <1>1, <2>3 DEF Order, OnLayers
<1>3. h[n][1] = built
  BY <1>2
<1>4. Fitting(g, Widths(g.nodes, g)) /\ source.numBlocks = MinimalBlocks(g)
  BY <1>3 DEF SizedOn
<1>5. g.nodes = built /\ g.inputs = source.inputs /\ g.inputBits = source.inputBits
  BY <1>1 DEF OnLayers
<1>6. /\ Result.nodes = built /\ Result.inputs = source.inputs
      /\ Result.inputBits = source.inputBits /\ Result.numBlocks = source.numBlocks
  <2> DEFINE b == source.numBlocks
  <2>1. source = [case.graph EXCEPT !.numBlocks = b]
    BY DEF SourceIs
  <2> HIDE DEF b
  <2>2. {"nodes", "inputs", "inputBits", "numBlocks"} \subseteq DOMAIN source
    BY <1>1, <2>1
  <2>3. QED
    BY <2>2 DEF Result
<1> HIDE DEF g
<1>7. QED
  BY <1>4, <1>5, <1>6 DEF g

(* So it fits, and one block less would be too small.                      *)
LEMMA SizedResultFits ==
  ASSUME Inv, SourceIs, pass = "sized", phase \in {"loop", "returned"}, todo = <<>>,
         NEW h, SizedOn(case, h, source.numBlocks), h[Turns] = <<built, widths, rewire>>
  PROVE  /\ PyBudgetOK(Result)
         /\ source.numBlocks > 2 =>
              \/ source.inputBits > Capacity(source.numBlocks - 1)
              \/ ~ BudgetOK([Result EXCEPT !.numBlocks = source.numBlocks - 1])
<1> DEFINE g == [case.graph EXCEPT !.nodes = built]
           w == Widths(g.nodes, g)
           b == source.numBlocks
           less == [Result EXCEPT !.numBlocks = b - 1]
<1>1. /\ Fitting(g, w) /\ b = MinimalBlocks(g)
      /\ Result.nodes = g.nodes /\ Result.inputs = g.inputs
      /\ Result.inputBits = g.inputBits /\ Result.numBlocks = b
  BY SizedResult
<1>2. /\ less.nodes = Result.nodes /\ less.inputs = Result.inputs
      /\ less.inputBits = Result.inputBits /\ less.numBlocks = b - 1
  <2>1. {"nodes", "inputs", "inputBits", "numBlocks"} \subseteq DOMAIN Result
    <3>1. OnLayers /\ {"nodes", "inputs", "outputs", "inputBits", "numBlocks"} \subseteq DOMAIN case.graph
      BY OnLayersAre, LayersAre DEF Inv, SourceInv
    <3>2. source = [case.graph EXCEPT !.numBlocks = source.numBlocks]
      BY DEF SourceIs
    <3>3. DOMAIN source = DOMAIN case.graph
      BY ONLY <3>2
    <3>4. DOMAIN Result = DOMAIN source
      BY DEF Result
    <3>5. QED
      BY <3>1, <3>3, <3>4
  <2> HIDE DEF b
  <2>2. QED
    BY <2>1
<1>3. source.inputBits = Result.inputBits
  <2>1. "inputBits" \in DOMAIN source
    <3>1. "inputBits" \in DOMAIN case.graph
      BY LayersAre DEF Inv, SourceInv
    <3>2. source = [case.graph EXCEPT !.numBlocks = source.numBlocks]
      BY DEF SourceIs
    <3>3. DOMAIN source = DOMAIN case.graph
      BY ONLY <3>2
    <3>4. QED
      BY <3>1, <3>3
  <2>2. QED
    BY <2>1 DEF Result
<1> HIDE DEF g, w, b, less
<1>4. \A f : /\ f.nodes = g.nodes /\ f.inputs = g.inputs /\ f.inputBits = g.inputBits
              =>  /\ f.numBlocks = b => PyBudgetOK(f)
                  /\ b > 2 /\ f.numBlocks = b - 1 =>
                       g.inputBits > Capacity(b - 1) \/ ~ BudgetOK(f)
  BY <1>1, SizedFits
<1>5. PyBudgetOK(Result)
  BY <1>1, <1>4
<1>6. b > 2 => source.inputBits > Capacity(b - 1) \/ ~ BudgetOK(less)
  BY <1>1, <1>2, <1>3, <1>4
<1>7. QED
  BY <1>5, <1>6 DEF b, less

(* In the second call no accumulator is refused.                           *)
LEMMA SizedNeverRefuses ==
  ASSUME Inv, Typing, SourceIs, Sizing, pass = "sized"
  PROVE  ~ Refuse
<1> SUFFICES ASSUME Refuse PROVE FALSE
  OBVIOUS
<1>1. phase = "loop" /\ todo # <<>> /\ NeedsRequant(Current)
      /\ (Overflows(WithOutputs(Current)[Current.outs[1]]) \/ ~ Calibrated(Current))
  BY DEF Refuse
<1>2. OnLayers
  BY OnLayersAre DEF Inv, SourceInv
<1>3. PICK h : /\ SizedOn(case, h, source.numBlocks)
               /\ h[Turns] = <<built, widths, rewire>>
  BY <1>1 DEF Sizing
<1> DEFINE s == <<built, widths, rewire>>
           k == Turns + 1
           node == Layer(case, k)
           now == RewiredOn(s, node)
           n == Len(StableOrder(case.graph.nodes))
<1>4. source.nodes[Head(todo)] = node /\ Turns \in Nat /\ k \in 1 .. n
  BY <1>1, <1>2, CurrentNode DEF OnLayers, Layer, Order, Inv
<1>5. /\ Current = now /\ WithOutputs(Current) = WidthsOn(s, node)
      /\ NeedsRequant(now) <=> Needs(case, now)
      /\ Calibrated(now) <=> CalibratedOn(case, WithOutputs(now), now)
  <2>1. Current = Rewired(node)
    BY <1>4 DEF Current
  <2>2. QED
    BY <1>2, <2>1, OwnOperators
<1>6. Current.op = node.op /\ Current.outs = node.outs
  BY <1>1, <1>4, CurrentRewired DEF Inv
<1>7. h[k-1] = s
  BY <1>3, <1>4
<1> HIDE DEF s, node, now, k, n
<1>8. Needs(case, now) /\ Needs(case, node)
  BY <1>1, <1>5, <1>6 DEF Needs
<1>9. Allowed(case, s, node)
  BY <1>3, <1>4, <1>7 DEF SizedOn, History, n, node
<1>10. Calibrated(Current)
  BY <1>5, <1>8, <1>9 DEF Allowed, now
<1>11. WidthsOn(s, node)[node.outs[1]] <= Capacity(source.numBlocks)
  BY <1>3, <1>4, <1>7, <1>8 DEF SizedOn, n, node
<1>12. WithOutputs(Current)[Current.outs[1]] > Capacity(source.numBlocks)
  BY <1>1, <1>10 DEF Overflows
<1>13. WithOutputs(Current)[Current.outs[1]] <= Capacity(source.numBlocks)
  BY <1>5, <1>6, <1>11
<1>14. WithOutputs(Current)[Current.outs[1]] \in Nat
  BY <1>1, FallbackShiftIs DEF Inv, WithOutputs, Widened
<1>15. Capacity(source.numBlocks) \in Nat
  <2> DEFINE g == [case.graph EXCEPT !.nodes = h[n][1]]
             w == Widths(g.nodes, g)
  <2>1. source.numBlocks = MinimalBlocks(g) /\ Fitting(g, w)
    BY <1>3 DEF SizedOn, n
  <2> HIDE DEF g, w
  <2>2. source.numBlocks \in Nat
    BY <2>1, SizedFits
  <2>3. QED
    BY <2>2 DEF Capacity, MessageBits
<1>16. QED
  BY <1>12, <1>13, <1>14, <1>15

(* The second call repeats the first.                                      *)
LEMMA SizingStep ==
  Inv /\ Agreed /\ Typing /\ SourceIs /\ Probing /\ Sizing /\ [Next]_vars => Sizing'
<1> SUFFICES ASSUME Inv, Agreed, Typing, SourceIs, Probing, Sizing, [Next]_vars, pass' = "sized"
             PROVE  Sizing'
  BY DEF Sizing
<1>1. CASE NextCall
  <2>1. pass = "probe"
    BY <1>1 DEF NextCall
  <2>2. QED
    BY <1>1, <2>1, NextCallSizes
<1>2. CASE ~ NextCall
  <2>1. pass = "sized"
    BY <1>2 DEF Next, Begin, Keep, Insert, Refuse, Return, Done, vars
  <2>2. OnLayers
    BY <2>1, OnLayersAre DEF Inv, SourceInv
  <2>3. PICK h : /\ SizedOn(case, h, source.numBlocks)
                 /\ phase \in {"loop", "returned"} => h[Turns] = <<built, widths, rewire>>
    BY <2>1 DEF Sizing
  <2>4. phase \notin Errors /\ Propagates(case.graph.nodes, case.graph.inputs)
    BY <2>1 DEF Sizing
  <2>5. CASE Begin
    <3>1. phase' = "loop"
      BY <2>2, <2>4, <2>5 DEF Begin, OnLayers
    <3>2. /\ Turns' = 0 /\ case' = case /\ source' = source
          /\ <<built', widths', rewire'>> = <<<<>>, InputWidths(case.graph), <<>>>>
      BY <2>2, <2>5, <3>1, BeginsHistory DEF Inv
    <3>3. h[0] = <<<<>>, InputWidths(case.graph), <<>>>>
      BY <2>3 DEF SizedOn, History
    <3>4. h[Turns'] = <<built', widths', rewire'>>
      BY <3>2, <3>3
    <3>5. QED
      BY <2>3, <2>4, <3>1, <3>2, <3>4 DEF Sizing, Errors
  <2>6. CASE Keep \/ Insert
    <3>1. /\ phase = "loop" /\ phase' = "loop" /\ case' = case /\ source' = source
          /\ Turns' = Turns + 1 /\ Turns \in Nat /\ Turns + 1 \in 1 .. Len(Order)
      BY <2>6, TurnMoves DEF Inv
    <3> DEFINE s == <<built, widths, rewire>>
               node == Layer(case, Turns + 1)
               now == <<built', widths', rewire'>>
    <3>2. now = After(case, s, node)
      BY <2>2, <2>6, TurnIsAfter DEF Inv
    <3>3. h[Turns] = s
      BY <2>3, <3>1
    <3> HIDE DEF s, now
    <3>4. Turns + 1 \in 1 .. Len(StableOrder(case.graph.nodes)) /\ (Turns + 1) - 1 = Turns
      BY <2>2, <3>1 DEF Order, OnLayers
    <3>5. h[Turns + 1] = now
      BY <2>3, <3>2, <3>3, <3>4 DEF SizedOn, History
    <3>6. h[Turns'] = <<built', widths', rewire'>>
      BY <3>1, <3>5 DEF now
    <3>7. QED
      BY <2>3, <2>4, <3>1, <3>6 DEF Sizing, Errors
  <2>7. CASE Refuse
    BY <2>1, <2>7, SizedNeverRefuses
  <2>8. CASE Return \/ Done \/ UNCHANGED vars
    <3>1. /\ case' = case /\ source' = source /\ todo' = todo
          /\ built' = built /\ widths' = widths /\ rewire' = rewire
          /\ phase' \in {"loop", "returned"} => phase \in {"loop", "returned"}
      BY <2>8 DEF Return, Done, vars
    <3>2. phase' \notin Errors
      <4>1. CASE Return
        <5>1. PyBudgetOK(Result)
          BY <2>1, <2>3, <4>1, SizedResultFits DEF Return
        <5>2. QED
          BY <4>1, <5>1 DEF Return, Errors
      <4>2. CASE Done \/ UNCHANGED vars
        BY <2>4, <4>2 DEF Done, vars
      <4>3. QED
        BY <2>8, <4>1, <4>2
    <3>3. Order' = Order
      BY <3>1 DEF Order
    <3>4. Turns' = Turns
      BY <3>1, <3>3 DEF Turns
    <3>5. QED
      BY <2>3, <2>4, <3>1, <3>2, <3>4 DEF Sizing
  <2>9. QED
    BY <1>2, <2>5, <2>6, <2>7, <2>8 DEF Next
<1>3. QED
  BY <1>1, <1>2

(* Only the next call changes what a call is made on.                      *)
LEMMA SourceStep == Inv /\ SourceIs /\ [Next]_vars => SourceIs'
<1> SUFFICES ASSUME Inv, SourceIs, [Next]_vars PROVE SourceIs'
  OBVIOUS
<1>1. CASE NextCall
  <2>1. /\ case' = case
        /\ \/ /\ pass = "probe" /\ pass' = "sized"
              /\ source' = [case.graph EXCEPT !.numBlocks = MinimalBlocks(Result)]
           \/ pass' = "again"
    BY <1>1 DEF NextCall
  <2> DEFINE b == MinimalBlocks(Result)
  <2>2. {"nodes", "inputs", "outputs", "inputBits", "numBlocks"} \subseteq DOMAIN case.graph
    BY LayersAre DEF Inv, SourceInv
  <2> HIDE DEF b
  <2>3. ASSUME source' = [case.graph EXCEPT !.numBlocks = b] PROVE source'.numBlocks = b
    BY <2>2, <2>3
  <2>4. QED
    BY <2>1, <2>3 DEF SourceIs, b
<1>2. CASE UNCHANGED <<case, pass, source>>
  BY <1>2 DEF SourceIs
<1>3. QED
  BY <1>1, <1>2 DEF Next, Begin, Keep, Insert, Refuse, Return, Done, vars

(* The property, from the invariant.                                       *)
LEMMA SizedFromInv == Inv /\ SourceIs /\ Sizing => SizedExactly
<1> SUFFICES ASSUME Inv, SourceIs, Sizing, pass = "sized" PROVE SizedExactly
  BY DEF SizedExactly
<1>1. phase \notin Errors
  BY DEF Sizing
<1>2. ASSUME phase = "returned"
      PROVE  source.numBlocks > 2 =>
               \/ source.inputBits > Capacity(source.numBlocks - 1)
               \/ ~ BudgetOK([Result EXCEPT !.numBlocks = source.numBlocks - 1])
  <2>1. PICK h : SizedOn(case, h, source.numBlocks) /\ h[Turns] = <<built, widths, rewire>>
    BY <1>2 DEF Sizing
  <2>2. todo = <<>>
    BY <1>2 DEF Inv, SourceInv
  <2>3. QED
    BY <1>2, <2>1, <2>2, SizedResultFits
<1>3. QED
  BY <1>1, <1>2 DEF SizedExactly

(* The radix sized on the first call's result never makes the second call  *)
(* fail, and it is the smallest that holds the inputs and the result.      *)
THEOREM SizesExactly == Spec => []SizedExactly
<1>1. Init => SourceIs /\ Probing /\ Sizing
  BY DEF Init, SourceIs, Probing, Sizing
<1>2. Inv /\ Agreed /\ Typing /\ SourceIs /\ Probing /\ Sizing /\ [Next]_vars
        => (SourceIs /\ Probing /\ Sizing)'
  BY SourceStep, ProbingStep, SizingStep
<1>3. Inv /\ SourceIs /\ Sizing => SizedExactly
  BY SizedFromInv
<1>4. QED
  BY <1>1, <1>2, <1>3, AlwaysTyped, PTL DEF Spec

-----------------------------------------------------------------------------
(* A graph that fits its radix still does when Requants are spliced in.    *)

(* The tensors of a list that propagates have widths.                      *)
LEMMA WidthsTyped ==
  ASSUME NEW ns, ns \in Seq(ToSet(ns)), NEW m, Propagates(ns, m.inputs), m.inputBits \in Nat,
         \A i \in DOMAIN ns : HasLists(ns[i]) /\ Declared(ns[i].op)
  PROVE  \A t \in DOMAIN Widths(ns, m) : Widths(ns, m)[t] \in Nat
<1> DEFINE order == StableOrder(ns)
<1>1. /\ Len(order) \in Nat /\ \A k \in 1 .. Len(order) : order[k] \in DOMAIN ns
      /\ \A k \in 1 .. Len(order) :
           ToSet(ns[order[k]].ins) \subseteq m.inputs \cup UNION {ToSet(ns[order[l]].outs) : l \in 1 .. k-1}
  BY SortedInOrder DEF InOrder, Propagates
<1>2. \A i \in DOMAIN ns : HasLists(ns[i]) /\ Declared(ns[i].op) /\ Valid(ns[i].op)
                           /\ Len(ns[i].ins) = Arity(ns[i].op)
  BY DEF Propagates, Matched
<1> HIDE DEF order
<1>3. PICK ws : /\ ws[0] = InputWidths(m)
                /\ \A k \in 1 .. Len(order) : ws[k] = Widened(ns[order[k]], ws[k-1])
                /\ Widths(ns, m) = ws[Len(order)]
  <2>1. PICK f : WidthsUnfolded(f, ns, m)
    BY <1>1, WidthsUnfold DEF order
  <2>2. QED
    BY <2>1, Zenon DEF WidthsUnfolded, order
<1> DEFINE Known(k) == m.inputs \cup UNION {ToSet(ns[order[l]].outs) : l \in 1 .. k}
           P(k) == DOMAIN ws[k] = Known(k) /\ \A t \in DOMAIN ws[k] : ws[k][t] \in Nat
           N == {k \in Nat : k <= Len(order) => P(k)}
<1>4. 0 \in N
  <2>1. DOMAIN ws[0] = m.inputs /\ \A t \in m.inputs : ws[0][t] = m.inputBits
    BY <1>3 DEF InputWidths
  <2>2. Known(0) = m.inputs
    <3>1. 1 .. 0 = {}
      OBVIOUS
    <3>2. QED
      BY <3>1
  <2>3. QED
    BY <2>1, <2>2
<1>5. ASSUME NEW k \in Nat, k \in N PROVE k + 1 \in N
  <2> SUFFICES ASSUME k + 1 <= Len(order) PROVE P(k + 1)
    OBVIOUS
  <2> DEFINE n == ns[order[k+1]]
             w == ws[k]
  <2>1. k <= Len(order) /\ k + 1 \in 1 .. Len(order) /\ (k + 1) - 1 = k
    BY <1>1
  <2>2. DOMAIN w = Known(k) /\ \A t \in DOMAIN w : w[t] \in Nat
    BY <1>5, <2>1
  <2>3. ws[k+1] = Widened(n, w)
    BY <1>3, <2>1
  <2>4. order[k+1] \in DOMAIN ns
    BY <1>1, <2>1
  <2>5. HasLists(n) /\ Valid(n.op) /\ Declared(n.op) /\ Len(n.ins) = Arity(n.op)
    BY <1>2, <2>4
  <2>6. ToSet(n.ins) \subseteq DOMAIN w
    BY <1>1, <2>1, <2>2
  <2>7. Known(k + 1) = Known(k) \cup ToSet(n.outs)
    <3>1. 1 .. k + 1 = (1 .. k) \cup {k + 1}
      OBVIOUS
    <3>2. QED
      BY <3>1
  <2> HIDE DEF n, w, Known
  <2>8. /\ DOMAIN Widened(n, w) = DOMAIN w \cup ToSet(n.outs)
        /\ \A t \in DOMAIN Widened(n, w) : Widened(n, w)[t] \in Nat
    BY <2>2, <2>5, <2>6, WidenedType
  <2>9. QED
    BY <2>2, <2>3, <2>7, <2>8
<1>6. P(Len(order))
  <2> HIDE DEF P
  <2>1. \A k \in Nat : k \in N
    <3> HIDE DEF N
    <3>1. QED
      BY <1>4, <1>5, SetInduction
  <2>2. QED
    BY <1>1, <2>1
<1>7. QED
  BY <1>3, <1>6

(* What a node reads of the widths at hand.                                *)
LEMMA WidthsRead ==
  ASSUME NEW n, HasLists(n), NEW w, ToSet(n.ins) \subseteq DOMAIN w, \A t \in DOMAIN w : w[t] \in Nat
  PROVE  LET in == Operands(n, w)
         IN  /\ in \in Seq(Nat) /\ Len(in) = Len(n.ins) /\ Len(n.ins) \in Nat
             /\ DOMAIN n.ins = 1 .. Len(n.ins)
             /\ \A k \in 1 .. Len(n.ins) : n.ins[k] \in ToSet(n.ins) /\ in[k] = w[n.ins[k]]
<1> DEFINE in == Operands(n, w)
           m == Len(n.ins)
<1>1. n.ins \in Seq(ToSet(n.ins))
  BY DEF HasLists
<1>2. DOMAIN in = 1 .. m /\ m \in Nat /\ DOMAIN n.ins = 1 .. m
  BY <1>1 DEF Operands
<1>3. \A k \in 1 .. m : n.ins[k] \in ToSet(n.ins) /\ in[k] = w[n.ins[k]]
  BY <1>1 DEF Operands, ToSet
<1>4. \A k \in 1 .. m : in[k] \in Nat
  BY <1>3
<1>5. in = [k \in DOMAIN in |-> in[k]]
  BY DEF Operands
<1> HIDE DEF in, m
<1>6. in \in Seq(Nat) /\ Len(in) = m
  BY <1>2, <1>4, <1>5
<1>7. QED
  BY <1>2, <1>3, <1>6 DEF in, m

(* What a node and its outputs take fits under the cap, and a table reads  *)
(* something narrow.                                                       *)
NodeFits(n, w, cap) ==
  /\ Valid(n.op) /\ Matched(n)
  /\ \A k \in DOMAIN n.outs : w[n.outs[k]] <= cap
  /\ InternalBits(n.op, Operands(n, w)) <= cap
  /\ n.op.type = "Activation" => w[n.ins[1]] <= MessageBits

(* More names with widths change nothing for it.                           *)
LEMMA NodeStays ==
  ASSUME NEW n, HasLists(n), NEW w, NEW cap, NodeFits(n, w, cap),
         ToSet(n.ins) \subseteq DOMAIN w, \A k \in DOMAIN n.outs : n.outs[k] \in DOMAIN w,
         NEW v, \A t \in DOMAIN w : v[t] = w[t]
  PROVE  NodeFits(n, v, cap)
<1>1. n.ins \in Seq(ToSet(n.ins))
  BY DEF HasLists
<1>2. \A k \in DOMAIN n.ins : n.ins[k] \in DOMAIN w
  BY <1>1 DEF ToSet
<1>3. Operands(n, v) = Operands(n, w)
  BY <1>2 DEF Operands
<1>4. \A k \in DOMAIN n.outs : v[n.outs[k]] = w[n.outs[k]]
  OBVIOUS
<1>5. n.op.type = "Activation" => v[n.ins[1]] = w[n.ins[1]]
  <2> SUFFICES ASSUME n.op.type = "Activation" PROVE n.ins[1] \in DOMAIN w
    OBVIOUS
  <2>1. Len(n.ins) = 1
    BY DEF NodeFits, Matched, Arity
  <2>2. 1 \in DOMAIN n.ins
    BY <1>1, <2>1
  <2>3. QED
    BY <1>2, <2>2
<1>6. QED
  BY <1>3, <1>4, <1>5 DEF NodeFits

(* Narrowing makes no width larger: every tensor of the argument is as     *)
(* wide as there or narrower, what is rewired reads something narrower,    *)
(* and every node so far fits.                                             *)
Shrunk(ns, w, rw, own, cap) ==
  /\ \A t \in DOMAIN w \cap DOMAIN own : w[t] <= own[t]
  /\ \A u \in DOMAIN rw : u \in DOMAIN own /\ w[Rq(u)] <= own[u] /\ w[Rq(u)] <= MessageBits
  /\ \A j \in DOMAIN ns : NodeFits(ns[j], w, cap)

(* The widths of the argument, before anything is narrowed.                *)
OwnWidths == Widths(source.nodes, source)

(* No entry but shifts and zero points is calibrated.                      *)
OnlyShifts ==
  /\ case.calib.mults = <<>> /\ case.calib.roundBiases = <<>>
  /\ case.calib.clampLos = <<>> /\ case.calib.perChannel = <<>>

(* The hypotheses under which a graph is to fit with Requants in it.       *)
Mild ==
  /\ OnlyShifts /\ FreshNames /\ BudgetOK(source)
  /\ \A i \in DOMAIN source.nodes :
       source.nodes[i].op.type = "Activation" =>
         \/ OwnWidths[source.nodes[i].ins[1]] <= MessageBits
         \/ \E p \in DOMAIN source.nodes :
              NeedsRequant(source.nodes[p]) /\ source.nodes[p].outs[1] = source.nodes[i].ins[1]

(* So it stays in the first call, which therefore ends well.               *)
FitInv ==
  pass = "probe" /\ Mild =>
    /\ phase \notin Errors \ {"invalid"}
    /\ phase \in {"loop", "returned"} =>
         Shrunk(built, widths, rewire, OwnWidths, Capacity(source.numBlocks))

(* The widths of the argument, and that its nodes fit.                     *)
LEMMA SourceFits ==
  ASSUME SourceInv, Typing, SourceIs, pass = "probe", BudgetOK(source)
  PROVE  LET w   == OwnWidths
             cap == Capacity(source.numBlocks)
         IN  /\ cap \in Nat /\ DOMAIN w = source.inputs \cup Written(source.nodes)
             /\ \A t \in DOMAIN w : w[t] \in Nat
             /\ \A t \in source.inputs : w[t] = source.inputBits
             /\ \A i \in DOMAIN source.nodes :
                  LET n == source.nodes[i]
                  IN  /\ HasLists(n) /\ Valid(n.op) /\ Declared(n.op) /\ Matched(n)
                      /\ ToSet(n.ins) \subseteq DOMAIN w /\ Sized(n, w)
                      /\ \A k \in DOMAIN n.outs : w[n.outs[k]] <= cap
                      /\ InternalBits(n.op, Operands(n, w)) <= cap
<1> DEFINE w   == OwnWidths
           cap == Capacity(source.numBlocks)
<1>1. cap \in Nat
  <2>1. case.graph.numBlocks \in Nat /\ source = case.graph
    BY LayersAre DEF SourceInv, SourceIs
  <2>2. QED
    BY <2>1 DEF Capacity, MessageBits
<1>2. /\ source.nodes \in Seq(ToSet(source.nodes)) /\ source.inputBits \in Nat
      /\ \A i \in DOMAIN source.nodes : HasLists(source.nodes[i]) /\ Declared(source.nodes[i].op)
  BY DEF SourceInv, Typing
<1>3. Propagates(source.nodes, source.inputs) /\ BudgetOK(source)
  BY DEF BudgetOK
<1>4. Sortable(source.nodes, source.inputs)
  BY <1>3 DEF Propagates
<1>5. /\ DOMAIN w = source.inputs \cup Written(source.nodes)
      /\ \A t \in source.inputs : w[t] = source.inputBits
      /\ \A i \in DOMAIN source.nodes : Sized(source.nodes[i], w)
  BY <1>2, <1>4, WidthsHold DEF OwnWidths
<1>6. \A t \in DOMAIN w : w[t] \in Nat
  BY <1>2, <1>3, WidthsTyped DEF OwnWidths
<1>7. ASSUME NEW i \in DOMAIN source.nodes
      PROVE  LET n == source.nodes[i]
             IN  /\ Valid(n.op) /\ Matched(n) /\ ToSet(n.ins) \subseteq DOMAIN w
                 /\ \A k \in DOMAIN n.outs : w[n.outs[k]] <= cap
                 /\ InternalBits(n.op, Operands(n, w)) <= cap
  <2> DEFINE n == source.nodes[i]
             in == Operands(n, w)
  <2>1. /\ \A k \in DOMAIN n.outs : w[n.outs[k]] <= cap
        /\ InternalBits(n.op, in) <= cap
    BY <1>3 DEF BudgetOK, OwnWidths
  <2>2. Valid(n.op) /\ Matched(n) /\ ToSet(n.ins) \subseteq DOMAIN w
    BY <1>3, <1>5 DEF Propagates, Sized
  <2> HIDE DEF n, w, cap, in
  <2>3. QED
    BY <2>1, <2>2 DEF n, in
<1>8. QED
  BY <1>1, <1>2, <1>5, <1>6, <1>7

(* The node whose turn it is reads nothing wider than in the argument.     *)
LEMMA CurrentUnder ==
  ASSUME SourceInv, LoopInv, Typing, SourceIs, pass = "probe", BudgetOK(source),
         phase = "loop", todo # <<>>,
         Shrunk(built, widths, rewire, OwnWidths, Capacity(source.numBlocks))
  PROVE  /\ NoWider(Operands(Current, widths), Operands(Nth(Turns + 1), OwnWidths))
         /\ Len(Operands(Nth(Turns + 1), OwnWidths)) = Arity(Current.op)
<1> DEFINE n == Nth(Turns + 1)
           w == OwnWidths
           a == Operands(Current, widths)
           b == Operands(n, w)
<1>1. Order[Turns + 1] \in DOMAIN source.nodes
  BY CurrentNode
<1>2. /\ HasLists(n) /\ Matched(n) /\ ToSet(n.ins) \subseteq DOMAIN w
      /\ \A t \in DOMAIN w : w[t] \in Nat
  BY <1>1, SourceFits DEF Nth
<1>3. Rewires(Current, n, rewire)
  BY CurrentRewires
<1>4. HasLists(Current) /\ ToSet(Current.ins) \subseteq DOMAIN widths
  BY CurrentTyped
<1>5. \A t \in DOMAIN widths : widths[t] \in Nat
  BY DEF Typing
<1>6. /\ a \in Seq(Nat) /\ Len(a) = Len(Current.ins)
      /\ \A k \in 1 .. Len(Current.ins) : Current.ins[k] \in ToSet(Current.ins) /\ a[k] = widths[Current.ins[k]]
  BY <1>4, <1>5, WidthsRead
<1> HIDE DEF n, w
<1>7. /\ b \in Seq(Nat) /\ Len(b) = Len(n.ins) /\ DOMAIN n.ins = 1 .. Len(n.ins)
      /\ \A k \in 1 .. Len(n.ins) : n.ins[k] \in ToSet(n.ins) /\ b[k] = w[n.ins[k]]
  BY <1>2, WidthsRead
<1> HIDE DEF a, b
<1>8. Current.op = n.op /\ Len(Current.ins) = Len(n.ins)
  BY <1>3 DEF Rewires
<1>9. ASSUME NEW k \in 1 .. Len(n.ins) PROVE a[k] <= b[k]
  <2>1. a[k] = widths[Current.ins[k]] /\ b[k] = w[n.ins[k]]
        /\ Current.ins[k] \in DOMAIN widths /\ n.ins[k] \in DOMAIN w
    BY <1>2, <1>4, <1>6, <1>7, <1>8
  <2>2. CASE Current.ins[k] = n.ins[k]
    BY <2>1, <2>2 DEF Shrunk, w
  <2>3. CASE n.ins[k] \in DOMAIN rewire /\ Current.ins[k] = Rq(n.ins[k])
    BY <2>1, <2>3 DEF Shrunk, w
  <2>4. QED
    BY <1>3, <1>7, <2>2, <2>3 DEF Rewires
<1>10. NoWider(a, b)
  BY <1>6, <1>7, <1>8, <1>9 DEF NoWider
<1>11. Len(b) = Arity(Current.op)
  BY <1>2, <1>7, <1>8 DEF Matched
<1>12. QED
  BY <1>10, <1>11 DEF a, b, n, w

(* A table whose turn it is reads something narrow.                        *)
LEMMA TableReadsNarrow ==
  ASSUME SourceInv, LoopInv, Typing, SourceIs, pass = "probe", Mild,
         phase = "loop", todo # <<>>, Current.op.type = "Activation",
         Shrunk(built, widths, rewire, OwnWidths, Capacity(source.numBlocks))
  PROVE  widths[Current.ins[1]] <= MessageBits
<1> DEFINE i == Head(todo)
           n == source.nodes[i]
           x == n.ins[1]
<1>1. /\ i \in DOMAIN source.nodes /\ i = Order[Turns + 1]
      /\ \A p \in Producers(source.nodes, i) : \E k \in 1 .. Turns : Order[k] = p
  BY CurrentNode
<1>2. Current.op = n.op /\ Len(Current.ins) = Len(n.ins)
  BY CurrentRewired
<1>3. BudgetOK(source)
  BY DEF Mild
<1>4. HasLists(n) /\ Matched(n) /\ ToSet(n.ins) \subseteq DOMAIN OwnWidths
      /\ \A t \in DOMAIN OwnWidths : OwnWidths[t] \in Nat
  BY <1>1, <1>3, SourceFits
<1>5. n.ins \in Seq(ToSet(n.ins)) /\ Len(n.ins) = 1 /\ x \in ToSet(n.ins) /\ 1 \in DOMAIN n.ins
  <2>1. n.ins \in Seq(ToSet(n.ins))
    BY <1>4 DEF HasLists
  <2>2. Len(n.ins) = 1
    BY <1>2, <1>4 DEF Matched, Arity
  <2>3. QED
    BY <2>1, <2>2 DEF ToSet
<1>6. HasLists(Current) /\ ToSet(Current.ins) \subseteq DOMAIN widths
  BY CurrentTyped
<1>7. CASE OwnWidths[x] <= MessageBits
  <2>1. NoWider(Operands(Current, widths), Operands(Nth(Turns + 1), OwnWidths))
    BY <1>3, CurrentUnder
  <2>2. Nth(Turns + 1) = n
    BY <1>1 DEF Nth
  <2>3. Operands(Current, widths)[1] = widths[Current.ins[1]] /\ 1 \in 1 .. Len(Operands(Current, widths))
    <3>1. \A t \in DOMAIN widths : widths[t] \in Nat
      BY DEF Typing
    <3>2. QED
      BY <1>2, <1>5, <1>6, <3>1, WidthsRead
  <2>4. Operands(n, OwnWidths)[1] = OwnWidths[x]
    BY <1>5 DEF Operands
  <2>5. widths[Current.ins[1]] <= OwnWidths[x] /\ widths[Current.ins[1]] \in Nat
    BY <2>1, <2>2, <2>3, <2>4 DEF NoWider
  <2>6. OwnWidths[x] \in Nat /\ MessageBits \in Nat
    BY <1>4, <1>5 DEF MessageBits
  <2>7. QED
    BY <1>7, <2>5, <2>6
<1>8. CASE \E p \in DOMAIN source.nodes :
             NeedsRequant(source.nodes[p]) /\ source.nodes[p].outs[1] = x
  <2>1. PICK p \in DOMAIN source.nodes : NeedsRequant(source.nodes[p]) /\ source.nodes[p].outs[1] = x
    BY <1>8
  <2>2. x \in ToSet(source.nodes[p].outs)
    <3> DEFINE q == source.nodes[p]
    <3>1. HasLists(q) /\ Matched(q)
      BY <1>3, <2>1, SourceFits
    <3>2. OutArity(q.op) = 1 /\ q.outs[1] = x
      BY <2>1 DEF NeedsRequant, AccumulatorOps, OutArity
    <3> HIDE DEF q
    <3>3. q.outs \in Seq(ToSet(q.outs)) /\ Len(q.outs) = 1
      BY <3>1, <3>2 DEF HasLists, Matched
    <3>4. x \in ToSet(q.outs)
      BY <3>2, <3>3 DEF ToSet
    <3>5. QED
      BY <3>4 DEF q
  <2>3. p \in Producers(source.nodes, i)
    BY <1>5, <2>2 DEF Producers
  <2>4. PICK k \in 1 .. Turns : Order[k] = p
    BY <1>1, <2>3
  <2>5. PICK j \in DOMAIN built : built[j].op = source.nodes[p].op /\ built[j].outs = source.nodes[p].outs
    BY <2>4 DEF LoopInv, Copied, Nth
  <2>6. x \in DOMAIN rewire
    BY <2>1, <2>5 DEF LoopInv, AccumulatorsSeen, NeedsRequant
  <2>7. Current.ins[1] = Rq(x)
    <3>1. rewire[x] = Rq(x)
      BY <2>6 DEF Typing
    <3>2. Get(rewire, x, x) = Rq(x)
      BY <2>6, <3>1 DEF Get
    <3>3. n.op.type \notin WideInputOps
      BY <1>2 DEF WideInputOps
    <3>4. Current = [n EXCEPT !.ins = [l \in DOMAIN n.ins |-> Get(rewire, n.ins[l], n.ins[l])]]
      BY <3>3 DEF Current, Rewired
    <3>5. n = [op |-> n.op, ins |-> n.ins, outs |-> n.outs]
      BY <1>4 DEF HasLists
    <3> HIDE DEF n
    <3>6. Current.ins = [l \in DOMAIN n.ins |-> Get(rewire, n.ins[l], n.ins[l])]
      BY <3>4, <3>5
    <3>7. QED
      BY <1>5, <3>2, <3>6 DEF x
  <2>8. QED
    BY <2>6, <2>7 DEF Shrunk
<1>9. QED
  BY <1>1, <1>2, <1>7, <1>8 DEF Mild

(* So the node whose turn it is fits, and what it writes is no wider than  *)
(* in the argument.                                                        *)
LEMMA CurrentFits ==
  ASSUME SourceInv, LoopInv, Agreed, Typing, SourceIs, pass = "probe", Mild,
         phase = "loop", todo # <<>>,
         Shrunk(built, widths, rewire, OwnWidths, Capacity(source.numBlocks))
  PROVE  LET W   == Widened(Current, widths)
             cap == Capacity(source.numBlocks)
         IN  /\ DOMAIN W = DOMAIN widths \cup ToSet(Current.outs)
             /\ \A t \in DOMAIN widths : W[t] = widths[t]
             /\ ToSet(Current.ins) \subseteq DOMAIN widths
             /\ \A t \in ToSet(Current.outs) :
                  t \in DOMAIN OwnWidths /\ W[t] \in Nat /\ W[t] <= OwnWidths[t] /\ W[t] <= cap
             /\ Current.op.type \in AccumulatorOps =>
                  Current.outs[1] \in ToSet(Current.outs) /\ MessageBits <= W[Current.outs[1]]
             /\ NodeFits(Current, W, cap)
<1> DEFINE W   == Widened(Current, widths)
           cap == Capacity(source.numBlocks)
           w   == OwnWidths
           n   == Nth(Turns + 1)
           a   == Operands(Current, widths)
           b   == Operands(n, w)
<1>1. BudgetOK(source) /\ FreshNames
  BY DEF Mild
<1>2. Order[Turns + 1] \in DOMAIN source.nodes
  BY CurrentNode
<1>3. /\ cap \in Nat /\ \A t \in DOMAIN w : w[t] \in Nat
      /\ HasLists(n) /\ Matched(n) /\ Sized(n, w)
      /\ \A k \in DOMAIN n.outs : w[n.outs[k]] <= cap
      /\ InternalBits(n.op, b) <= cap
  BY <1>1, <1>2, SourceFits DEF Nth
<1>4. /\ HasLists(Current) /\ Valid(Current.op) /\ Declared(Current.op)
      /\ Len(Current.ins) = Arity(Current.op) /\ ToSet(Current.ins) \subseteq DOMAIN widths
      /\ Current.op.type \in AccumulatorOps => Current.outs[1] \in ToSet(Current.outs)
  BY CurrentTyped
<1>5. Current.op = n.op /\ Current.outs = n.outs /\ IsInjective(Current.outs)
  BY CurrentWrites
<1>6. NoWider(a, b) /\ Len(b) = Arity(Current.op)
  BY <1>1, CurrentUnder
<1>7. ToSet(Current.outs) \cap DOMAIN widths = {}
  <2>1. Origins /\ Consistent(built, source.inputs, source.inputBits, widths)
    BY <1>1 DEF Agreed
  <2>2. QED
    BY <1>1, <2>1, CurrentIsNew DEF Consistent
<1>8. /\ DOMAIN W = DOMAIN widths \cup ToSet(Current.outs)
      /\ \A t \in DOMAIN widths : W[t] = widths[t]
      /\ Sized(Current, W)
  BY <1>4, <1>5, <1>7, WidenedIs
<1> HIDE DEF W, cap, w, n
<1>9. Operands(Current, W) = a
  <2>1. \A k \in DOMAIN Current.ins : Current.ins[k] \in DOMAIN widths
    <3>1. Current.ins \in Seq(ToSet(Current.ins))
      BY <1>4 DEF HasLists
    <3>2. QED
      BY <1>4, <3>1 DEF ToSet
  <2>2. QED
    BY <1>8, <2>1 DEF Operands
<1>10. a \in Seq(Nat) /\ b \in Seq(Nat) /\ Len(a) = Arity(Current.op)
  BY <1>6 DEF NoWider
<1> HIDE DEF a, b
<1>11. /\ OutputBits(Current.op, a) \in Nat /\ OutputBits(Current.op, b) \in Nat
       /\ OutputBits(Current.op, a) <= OutputBits(Current.op, b)
  BY <1>4, <1>6, <1>10, OutputBitsType, OutputBitsMonotone
<1>12. InternalBits(Current.op, a) <= cap
  <2>1. /\ InternalBits(Current.op, a) \in Nat /\ InternalBits(Current.op, b) \in Nat
        /\ InternalBits(Current.op, a) <= InternalBits(Current.op, b)
    BY <1>4, <1>6, <1>10, InternalType, InternalMonotone
  <2>2. QED
    BY <1>3, <1>5, <2>1
<1>13. ASSUME NEW k \in DOMAIN Current.outs
       PROVE  /\ Current.outs[k] \in DOMAIN w
              /\ W[Current.outs[k]] = OutputBits(Current.op, a)
              /\ W[Current.outs[k]] <= w[Current.outs[k]] /\ W[Current.outs[k]] <= cap
  <2>1. W[Current.outs[k]] = OutputBits(Current.op, a)
    BY <1>8, <1>9 DEF Sized
  <2>2. Current.outs[k] \in DOMAIN w /\ w[Current.outs[k]] = OutputBits(Current.op, b)
    BY <1>3, <1>5 DEF Sized, b
  <2>3. w[Current.outs[k]] <= cap
    BY <1>3, <1>5
  <2>4. QED
    BY <1>3, <1>11, <2>1, <2>2, <2>3
<1>14. \A t \in ToSet(Current.outs) : t \in DOMAIN w /\ W[t] \in Nat /\ W[t] <= w[t] /\ W[t] <= cap
  <2> SUFFICES ASSUME NEW t \in ToSet(Current.outs)
               PROVE  t \in DOMAIN w /\ W[t] \in Nat /\ W[t] <= w[t] /\ W[t] <= cap
    OBVIOUS
  <2>1. PICK k \in DOMAIN Current.outs : t = Current.outs[k]
    BY DEF ToSet
  <2>2. QED
    BY <1>11, <1>13, <2>1
<1>15. ASSUME Current.op.type \in AccumulatorOps PROVE MessageBits <= W[Current.outs[1]]
  <2>1. Current.op.type \in {"Linear", "Conv2d"}
    BY <1>15 DEF AccumulatorOps
  <2>2. 1 \in DOMAIN Current.outs
    <3>1. Current.outs \in Seq(ToSet(Current.outs)) /\ Len(Current.outs) = 1
      BY <1>3, <1>4, <1>5, <2>1 DEF HasLists, Matched, OutArity
    <3>2. QED
      BY <3>1
  <2>3. W[Current.outs[1]] = OutputBits(Current.op, a)
    BY <1>13, <2>2
  <2>4. a[1] \in Nat
    <3>1. Arity(Current.op) = 1
      BY <2>1 DEF Arity
    <3>2. a \in Seq(Nat) /\ 1 \in 1 .. Len(a)
      BY <1>10, <3>1
    <3>3. QED
      BY ONLY <3>2
  <2> DEFINE A == a[1] + Current.op.weightBits + CeilLog2(Len(Current.op.weights[1]))
  <2>5. OutputBits(Current.op, a) = SumWidth(Current.op, A) + 2
    BY <2>1 DEF OutputBits, SumWidth
  <2>6. Current.op.bias \in Seq(Int) /\ Current.op.weightBits \in Nat
        /\ Current.op.weights \in Seq(Seq(Int)) /\ Current.op.weights # <<>>
    BY <1>4, <2>1 DEF Declared, Valid, ValidConv, ValidMac
  <2>7. A \in Nat
    <3>1. CeilLog2(Len(Current.op.weights[1])) \in Nat
      <4>1. Len(Current.op.weights[1]) \in Nat
        BY <2>6
      <4>2. QED
        BY <4>1, CeilLog2Holds
    <3>2. QED
      BY <2>4, <2>6, <3>1
  <2> HIDE DEF A
  <2>8. SumWidth(Current.op, A) \in Nat
    BY <2>6, <2>7, SumWidthIn
  <2>9. QED
    BY <2>3, <2>5, <2>8 DEF MessageBits
<1>16. NodeFits(Current, W, cap)
  <2>1. Matched(Current)
    BY <1>3, <1>4, <1>5 DEF Matched
  <2>2. ASSUME Current.op.type = "Activation" PROVE W[Current.ins[1]] <= MessageBits
    <3>1. widths[Current.ins[1]] <= MessageBits
      BY <2>2, TableReadsNarrow
    <3>2. Current.ins[1] \in DOMAIN widths
      <4>1. Current.ins \in Seq(ToSet(Current.ins)) /\ Len(Current.ins) = 1
        BY <1>4, <2>2 DEF HasLists, Arity
      <4>2. Current.ins[1] \in ToSet(Current.ins)
        BY <4>1 DEF ToSet
      <4>3. QED
        BY <1>4, <4>2
    <3>3. QED
      BY <1>8, <3>1, <3>2
  <2>3. QED
    BY <1>4, <1>9, <1>12, <1>13, <2>1, <2>2 DEF NodeFits
<1>17. QED
  BY <1>4, <1>8, <1>14, <1>15, <1>16 DEF W, cap, w

(* A rescale by one, with nothing added, takes no more than its input.     *)
LEMMA PlainPeak ==
  ASSUME NEW B \in Nat \ {0}, NEW ch \in Channels, ch.mult = 1, ch.roundBias = 0
  PROVE  RequantInternalBits(B, ch, 0) = B
<1> DEFINE F == 2^(B - 1)
           P == F - 1
           k == MagnitudeBits(P) + 1
<1>1. B - 1 \in Nat /\ B >= 1
  OBVIOUS
<1>2. F \in Nat /\ 1 <= F
  BY <1>1, PowerStep, PowerBounds
<1>3. Magnitude(0) = 0
  BY DEF Magnitude
<1>4. RequantInternalBits(B, ch, 0)
        = Larger(MagnitudeBits(Larger(P * ch.mult + ch.roundBias, Smaller(0, F) * ch.mult)) + 1, B)
  BY <1>1, <1>3 DEF RequantInternalBits, Larger, Smaller
<1> HIDE DEF F
<1>5. P \in Nat /\ P < F
  BY <1>2
<1> HIDE DEF P
<1>6. P * ch.mult + ch.roundBias = P
  BY <1>5
<1>7. Smaller(0, F) * ch.mult = 0
  <2>1. Smaller(0, F) = 0
    BY <1>2, LargerSmaller
  <2>2. QED
    BY <2>1
<1>8. Larger(P, 0) = P
  BY <1>5, LargerSmaller
<1>9. MagnitudeBits(P) <= B - 1 /\ MagnitudeBits(P) \in Nat
  <2>1. Magnitude(P) < 2^(B - 1)
    BY <1>5 DEF Magnitude, F
  <2>2. QED
    BY <1>1, <1>5, <2>1, MagnitudeBitsLeast, MagnitudeBitsHold
<1>10. k \in Nat /\ k <= B
  BY <1>9
<1>11. RequantInternalBits(B, ch, 0) = Larger(k, B)
  BY <1>4, <1>6, <1>7, <1>8
<1> HIDE DEF k
<1>12. Larger(k, B) = B
  BY <1>10, LargerSmaller
<1>13. QED
  BY <1>11, <1>12

(* A clamp table holds what a block does.                                  *)
LEMMA ClampLutInBlock ==
  ASSUME NEW ob \in Nat
  PROVE  /\ Len(ClampLut(ob)) = Cardinality(Message)
         /\ \A v \in DOMAIN ClampLut(ob) : ClampLut(ob)[v] \in Message
<1>1. 2^2 = 4
  <2>1. 0 + 1 = 1 /\ 1 + 1 = 2 /\ 0 \in Nat /\ 1 \in Nat
    OBVIOUS
  <2>2. 2^(0 + 1) = 2 * 2^0 /\ 2^(1 + 1) = 2 * 2^1 /\ 2^0 = 1
    BY <2>1, PowerStep
  <2>3. QED
    BY <2>1, <2>2
<1> DEFINE top == 2^ob - 1
<1>2. ClampLut(ob) = [v \in 1 .. 4 |-> Smaller(v - 1, top)]
  BY <1>1 DEF ClampLut, MessageBits
<1>3. top \in Nat
  BY PowerStep, PowerBounds
<1> HIDE DEF top
<1>4. \A v \in 1 .. 4 : Smaller(v - 1, top) \in 0 .. 3
  <2> SUFFICES ASSUME NEW v \in 1 .. 4 PROVE Smaller(v - 1, top) \in 0 .. 3
    OBVIOUS
  <2> DEFINE u == v - 1
  <2>1. u \in 0 .. 3
    OBVIOUS
  <2> HIDE DEF u
  <2>2. Smaller(u, top) = IF u <= top THEN u ELSE top
    BY <1>3, <2>1, LargerSmaller
  <2>3. Smaller(u, top) \in 0 .. 3
    BY <1>3, <2>1, <2>2
  <2>4. QED
    BY <2>3 DEF u
<1> DEFINE f == [v \in 1 .. 4 |-> Smaller(v - 1, top)]
<1>5. f \in Seq(Nat) /\ DOMAIN f = 1 .. 4 /\ \A v \in 1 .. 4 : f[v] \in 0 .. 3
  BY <1>4
<1> HIDE DEF f
<1>6. Len(f) = 4
  BY <1>5
<1>7. QED
  BY <1>2, <1>5, <1>6, MessageIs DEF f

(* A Requant without a calibration is a valid one, and its rescale takes   *)
(* no more than its input.                                                 *)
LEMMA DefaultRequant ==
  ASSUME case \in Cases, OnlyShifts, NEW node, node.op.type \in AccumulatorOps,
         Valid(node.op), Declared(node.op), FallbackShift(node) \in Nat
  PROVE  LET rq == RequantFor(node)
         IN  /\ \A bits \in Nat \ {0} : RequantPeakBits(rq, bits) = bits
             /\ rq.type = "Requant" /\ rq.outBits = case.outBits
             /\ Valid(rq) /\ Declared(rq) /\ Calibrated(node)
<1> DEFINE rq  == RequantFor(node)
           one == [mult |-> 1, shift |-> Get(case.calib.shifts, node.outs[1], FallbackShift(node)),
                   roundBias |-> 0]
<1>1. case.outBits \in Nat /\ case.outBits <= MessageBits
  BY CaseAssumption DEF MessageBits
<1>2. Declared(rq)
  BY RequantDeclared
<1>3. ~ PerChannel(node)
  BY DEF PerChannel, OnlyShifts
<1>4. /\ rq.type = "Requant" /\ rq.outBits = case.outBits /\ rq.lut = ClampLut(case.outBits)
      /\ rq.channel = <<one>> /\ rq.clampLo = 0
  <2> DEFINE name == node.outs[1]
             cal  == case.calib
  <2>1. /\ rq.type = "Requant" /\ rq.outBits = case.outBits /\ rq.lut = ClampLut(case.outBits)
        /\ rq.channel = IF PerChannel(node) THEN cal.perChannel[name]
                        ELSE <<[mult      |-> Get(cal.mults, name, 1),
                                shift     |-> Get(cal.shifts, name, FallbackShift(node)),
                                roundBias |-> Get(cal.roundBiases, name, 0)]>>
        /\ rq.clampLo = Get(cal.clampLos, name, 0)
    BY DEF RequantFor
  <2>2. cal.mults = <<>> /\ cal.roundBiases = <<>> /\ cal.clampLos = <<>>
    BY DEF OnlyShifts
  <2> HIDE DEF rq, name, cal
  <2>3. \A key, d : Get(<<>>, key, d) = d
    BY DEF Get
  <2>4. QED
    BY <1>3, <2>1, <2>2, <2>3 DEF cal, name
<1> HIDE DEF rq
<1>5. one \in Channels /\ one.mult = 1 /\ one.roundBias = 0 /\ one.shift \in Nat
  <2>1. Counts(case.calib.shifts)
    BY CaseAssumption DEF Calibration
  <2>2. Get(case.calib.shifts, node.outs[1], FallbackShift(node)) \in Nat
    BY <2>1, GetCount
  <2>3. QED
    BY <2>2 DEF Channels
<1> HIDE DEF one
<1>6. FloorImage(rq) = 0
  <2> DEFINE d == 2^one.shift
             q == (rq.clampLo * one.mult + one.roundBias) \div d
  <2>1. {rq.channel[i] : i \in DOMAIN rq.channel} = {one}
    <3>1. DOMAIN rq.channel = {1} /\ rq.channel[1] = one
      BY <1>4
    <3>2. QED
      BY <3>1
  <2>2. FloorImage(rq) = Min({q})
    BY <2>1 DEF FloorImage
  <2>3. q = 0
    <3>1. rq.clampLo * one.mult + one.roundBias = 0
      BY <1>4, <1>5
    <3>2. d \in Nat /\ 1 <= d
      BY <1>5, PowerStep, PowerBounds
    <3> HIDE DEF d
    <3>3. 0 \div d = 0
      BY <3>2
    <3>4. QED
      BY <3>1, <3>3
  <2> HIDE DEF q
  <2>4. Min({0}) = 0
    BY DEF Min
  <2>5. QED
    BY <2>2, <2>3, <2>4
<1>7. ValidRequant(rq)
  <2>1. /\ Len(rq.lut) = Cardinality(Message) /\ \A i \in DOMAIN rq.lut : rq.lut[i] \in Message
        /\ rq.outBits <= MessageBits /\ rq.clampLo <= 0
    BY <1>1, <1>4, ClampLutInBlock
  <2>2. rq.channel # <<>> /\ \A i \in DOMAIN rq.channel : rq.channel[i].mult >= 1
    BY <1>4, <1>5
  <2>3. rq.zeroPoint \in Nat
    BY <1>2, <1>4 DEF Declared
  <2>4. rq.zeroPoint + FloorImage(rq) >= 0
    BY <1>6, <2>3
  <2>5. QED
    BY <2>1, <2>2, <2>4 DEF ValidRequant
<1>8. Valid(rq)
  BY <1>4, <1>7 DEF Valid
<1>9. Calibrated(node)
  BY <1>3, <1>7 DEF Calibrated, rq
<1>10. ASSUME NEW B \in Nat \ {0} PROVE RequantPeakBits(rq, B) = B
  <2>1. PICK k \in 1 .. Len(rq.channel) :
          RequantPeakBits(rq, B) = RequantInternalBits(B, rq.channel[k], rq.clampLo)
    BY <1>2, <1>4, <1>8, PeakBitsType
  <2>2. Len(rq.channel) = 1 /\ rq.channel[1] = one
    BY <1>4
  <2>3. k = 1
    BY <2>2
  <2>4. RequantPeakBits(rq, B) = RequantInternalBits(B, one, 0)
    BY <1>4, <2>1, <2>2, <2>3
  <2>5. QED
    BY <1>5, <2>4, PlainPeak
<1>11. QED
  BY <1>2, <1>4, <1>8, <1>9, <1>10 DEF rq

(* A turn keeps everything as narrow as it was.                            *)
LEMMA TurnFits ==
  ASSUME SourceInv, LoopInv, Agreed, Typing, SourceIs, pass = "probe", Mild, Keep \/ Insert,
         Shrunk(built, widths, rewire, OwnWidths, Capacity(source.numBlocks))
  PROVE  Shrunk(built', widths', rewire', OwnWidths, Capacity(source.numBlocks))
<1> DEFINE W    == Widened(Current, widths)
           cap  == Capacity(source.numBlocks)
           own  == OwnWidths
           wide == Current.outs[1]
           k    == Len(built)
<1>1. phase = "loop" /\ todo # <<>> /\ FreshNames
  BY DEF Keep, Insert, Mild
<1>2. /\ DOMAIN W = DOMAIN widths \cup ToSet(Current.outs)
      /\ \A t \in DOMAIN widths : W[t] = widths[t]
      /\ ToSet(Current.ins) \subseteq DOMAIN widths
      /\ \A t \in ToSet(Current.outs) :
           t \in DOMAIN own /\ W[t] \in Nat /\ W[t] <= own[t] /\ W[t] <= cap
      /\ Current.op.type \in AccumulatorOps =>
           wide \in ToSet(Current.outs) /\ MessageBits <= W[wide]
      /\ NodeFits(Current, W, cap)
  BY <1>1, CurrentFits
<1>3. Consistent(built, source.inputs, source.inputBits, widths) /\ Origins
  BY <1>1 DEF Agreed
<1>4. NeedsRequant(Current) => Rq(wide) \notin DOMAIN W
  BY <1>1, <1>2, <1>3, CurrentIsNew DEF Consistent
<1>5. WithOutputs(Current) = W
  BY DEF WithOutputs, Widened
<1>6. HasLists(Current) /\ \A j \in DOMAIN built : HasLists(built[j])
  BY <1>1, CurrentTyped DEF LoopInv, BuiltType
<1>7. /\ \A t \in DOMAIN widths \cap DOMAIN own : widths[t] <= own[t]
      /\ \A u \in DOMAIN rewire :
           /\ u \in DOMAIN own /\ widths[Rq(u)] <= own[u] /\ widths[Rq(u)] <= MessageBits
           /\ Rq(u) \in DOMAIN widths
      /\ \A j \in DOMAIN built : NodeFits(built[j], widths, cap)
  BY DEF Shrunk, Typing
<1>8. \A t \in DOMAIN W \cap DOMAIN own : W[t] <= own[t]
  BY <1>2, <1>7
<1> HIDE DEF W, cap, own
<1>9. ASSUME NEW V, \A t \in DOMAIN W : t \in DOMAIN V /\ V[t] = W[t]
      PROVE  /\ NodeFits(Current, V, cap)
             /\ \A j \in DOMAIN built : NodeFits(built[j], V, cap)
             /\ \A t \in DOMAIN widths : V[t] = widths[t]
  <2>1. \A t \in DOMAIN widths : V[t] = widths[t]
    BY <1>2, <1>9
  <2>2. ASSUME NEW j \in DOMAIN built PROVE NodeFits(built[j], V, cap)
    <3>1. Sized(built[j], widths)
      BY <1>3 DEF Consistent
    <3>2. ToSet(built[j].ins) \subseteq DOMAIN widths
          /\ \A l \in DOMAIN built[j].outs : built[j].outs[l] \in DOMAIN widths
      BY <3>1 DEF Sized
    <3>3. HasLists(built[j]) /\ NodeFits(built[j], widths, cap)
      BY <1>6, <1>7
    <3>4. QED
      BY <2>1, <3>2, <3>3, NodeStays
  <2>3. NodeFits(Current, V, cap)
    <3>1. \A l \in DOMAIN Current.outs : Current.outs[l] \in DOMAIN W
      BY <1>2 DEF ToSet
    <3>2. ToSet(Current.ins) \subseteq DOMAIN W
      BY <1>2
    <3>3. QED
      BY <1>2, <1>6, <1>9, <3>1, <3>2, NodeStays
  <2>4. QED
    BY <2>1, <2>2, <2>3
<1>10. CASE Keep
  <2>1. Turn /\ widths' = W /\ ~ NeedsRequant(Current)
    BY <1>5, <1>10, KeepIsTurn DEF Keep
  <2>2. /\ rewire' = rewire /\ DOMAIN built' = 1 .. k + 1 /\ DOMAIN built = 1 .. k /\ k \in Nat
        /\ built'[k + 1] = Current /\ \A j \in DOMAIN built : built'[j] = built[j]
    BY <2>1 DEF Turn, LoopInv, BuiltType
  <2>3. \A j \in DOMAIN built' : NodeFits(built'[j], W, cap)
    <3> HIDE DEF k
    <3>1. /\ NodeFits(Current, W, cap) /\ \A j \in DOMAIN built : NodeFits(built[j], W, cap)
      BY <1>9
    <3>2. \A j \in 1 .. k + 1 : j \in 1 .. k \/ j = k + 1
      BY <2>2
    <3>3. QED
      BY <2>2, <3>1, <3>2
  <2>4. \A u \in DOMAIN rewire : W[Rq(u)] <= own[u] /\ W[Rq(u)] <= MessageBits /\ u \in DOMAIN own
    BY <1>2, <1>7
  <2>5. QED
    BY <1>8, <2>1, <2>2, <2>3, <2>4 DEF Shrunk, cap, own
<1>11. CASE Insert
  <2> DEFINE r == built'[k + 2]
             V == widths'
             ob == case.outBits
  <2>1. /\ Turn /\ NeedsRequant(Current)
        /\ V = Bind(W, <<Rq(wide)>>, <<ob>>)
    BY <1>5, <1>11, InsertIsTurn DEF Insert
  <2>2. /\ DOMAIN built' = 1 .. k + 2 /\ DOMAIN built = 1 .. k /\ k \in Nat
        /\ built'[k + 1] = Current /\ \A j \in DOMAIN built : built'[j] = built[j]
        /\ r.ins = <<wide>> /\ r.outs = <<Rq(wide)>>
        /\ DOMAIN rewire' = DOMAIN rewire \cup {wide}
    BY <2>1 DEF Turn, LoopInv, BuiltType
  <2>3. DOMAIN V = DOMAIN W \cup {Rq(wide)} /\ V[Rq(wide)] = ob
        /\ \A t \in DOMAIN W : t \in DOMAIN V /\ V[t] = W[t]
    <3>1. OneMore(V, W, Rq(wide), ob)
      BY <2>1, BindOne
    <3>2. QED
      BY <1>4, <2>1, <3>1 DEF OneMore
  <2>4. Current.op.type \in AccumulatorOps
    BY <2>1 DEF NeedsRequant
  <2>5. /\ wide \in ToSet(Current.outs) /\ wide \in DOMAIN W /\ MessageBits <= W[wide]
        /\ wide \in DOMAIN own /\ W[wide] \in Nat /\ W[wide] <= own[wide] /\ W[wide] <= cap
    BY <1>2, <2>4
  <2>6. ob \in Nat /\ ob <= MessageBits /\ MessageBits \in Nat
    BY CaseAssumption DEF SourceInv, MessageBits
  <2>7. /\ r.op = RequantFor(Current)
        /\ r.op.type = "Requant" /\ Valid(r.op) /\ \A B \in Nat \ {0} : RequantPeakBits(r.op, B) = B
    <3>1. r.op = RequantFor(Current)
      BY <1>11, InsertSplices
    <3>2. FallbackShift(Current) \in Nat
      BY <1>1, <2>1, FallbackShiftIs
    <3>3. Valid(Current.op) /\ Declared(Current.op)
      BY <1>1, CurrentTyped
    <3>4. QED
      BY <2>4, <3>1, <3>2, <3>3, DefaultRequant DEF SourceInv, Mild
  <2>8. Rq(wide) \notin DOMAIN own
    <3>1. Head(todo) \in DOMAIN source.nodes
      BY <1>1, CurrentNode
    <3>2. /\ Current.op = source.nodes[Head(todo)].op
          /\ Current.outs = source.nodes[Head(todo)].outs
      BY <1>1, CurrentRewired
    <3>3. NeedsRequant(source.nodes[Head(todo)])
      BY <2>1, <3>2 DEF NeedsRequant
    <3>4. Rq(wide) \notin source.inputs \cup Written(source.nodes)
      BY <1>1, <3>1, <3>2, <3>3 DEF FreshNames
    <3>5. DOMAIN own = source.inputs \cup Written(source.nodes)
      BY SourceFits DEF own, Mild
    <3>6. QED
      BY <3>4, <3>5
  <2>9. \E v : v = V
    OBVIOUS
  <2>10. PICK v : v = V
    BY <2>9
  <2>11. /\ NodeFits(Current, v, cap) /\ \A j \in DOMAIN built : NodeFits(built[j], v, cap)
         /\ \A t \in DOMAIN widths : v[t] = widths[t]
    <3>1. \A t \in DOMAIN W : t \in DOMAIN v /\ v[t] = W[t]
      BY <2>3, <2>10
    <3> HIDE DEF V
    <3>2. QED
      BY <3>1, <1>9
  <2> HIDE DEF V, r, ob, wide, k
  <2>12. NodeFits(r, v, cap)
    <3>1. Matched(r)
      BY <2>2, <2>7 DEF Matched, Arity, OutArity
    <3>2. \A l \in DOMAIN r.outs : v[r.outs[l]] <= cap
      <4>1. v[Rq(wide)] <= cap
        <5>1. cap \in Nat
          BY SourceFits DEF cap, Mild
        <5>2. QED
          BY <2>3, <2>5, <2>6, <2>10, <5>1
      <4>2. QED
        BY <2>2, <4>1
    <3>3. InternalBits(r.op, Operands(r, v)) <= cap
      <4>1. Operands(r, v)[1] = W[wide]
        BY <2>2, <2>3, <2>5, <2>10 DEF Operands
      <4>2. W[wide] \in Nat \ {0}
        BY <2>5 DEF MessageBits
      <4>3. InternalBits(r.op, Operands(r, v)) = RequantPeakBits(r.op, W[wide])
        BY <2>7, <4>1 DEF InternalBits
      <4>4. QED
        BY <2>5, <2>7, <4>2, <4>3
    <3>4. QED
      BY <2>7, <3>1, <3>2, <3>3 DEF NodeFits
  <2>13. \A j \in DOMAIN built' : NodeFits(built'[j], v, cap)
    <3>1. \A j \in 1 .. k + 2 : j \in 1 .. k \/ j = k + 1 \/ j = k + 2
      BY <2>2
    <3>2. built'[k + 2] = r
      BY DEF r
    <3>3. QED
      BY <2>2, <2>11, <2>12, <3>1, <3>2
  <2>14. \A t \in DOMAIN v \cap DOMAIN own : v[t] <= own[t]
    BY <1>8, <2>3, <2>8, <2>10
  <2>15. \A u \in DOMAIN rewire' :
           u \in DOMAIN own /\ v[Rq(u)] <= own[u] /\ v[Rq(u)] <= MessageBits
    <3>1. ASSUME NEW u \in DOMAIN rewire
          PROVE  u \in DOMAIN own /\ v[Rq(u)] <= own[u] /\ v[Rq(u)] <= MessageBits
      BY <1>7, <2>11
    <3>2. v[Rq(wide)] <= own[wide] /\ v[Rq(wide)] <= MessageBits
      <4>1. own[wide] \in Nat
        BY <2>5, SourceFits DEF own, Mild
      <4>2. QED
        BY <2>3, <2>5, <2>6, <2>10, <4>1
    <3>3. QED
      BY <2>2, <2>5, <3>1, <3>2
  <2>16. Shrunk(built', v, rewire', own, cap)
    BY <2>13, <2>14, <2>15 DEF Shrunk
  <2>17. QED
    BY <2>10, <2>16 DEF V, own, cap
<1>12. QED
  BY <1>10, <1>11

(* So the closing check has nothing to object to.                          *)
LEMMA ReturnFits ==
  ASSUME SourceInv, LoopInv, Agreed, Typing, SourceIs, pass = "probe", Mild, phase = "loop",
         Shrunk(built, widths, rewire, OwnWidths, Capacity(source.numBlocks))
  PROVE  PyBudgetOK(Result)
<1> DEFINE m   == Result
           w   == Widths(built, m)
           cap == Capacity(source.numBlocks)
<1>1. FreshNames /\ BudgetOK(source)
  BY DEF Mild
<1>2. Consistent(built, source.inputs, source.inputBits, widths)
  BY <1>1 DEF Agreed
<1>3. /\ "nodes" \in DOMAIN source /\ built \in Seq(ToSet(built))
      /\ \A j \in DOMAIN built : HasLists(built[j])
      /\ \A t \in DOMAIN widths : widths[t] \in Nat
  BY DEF SourceInv, LoopInv, BuiltType, Typing
<1>4. /\ m.nodes = built /\ m.inputs = source.inputs
      /\ m.inputBits = source.inputBits /\ m.numBlocks = source.numBlocks
  <2>1. m = [source EXCEPT !.nodes = built]
    BY DEF Result
  <2>2. {"nodes", "inputs", "inputBits", "numBlocks"} \subseteq DOMAIN source
    BY DEF SourceInv, Typing
  <2> HIDE DEF m
  <2>3. QED
    BY <2>1, <2>2
<1> HIDE DEF m
<1>5. DOMAIN w = DOMAIN widths /\ \A t \in DOMAIN w : w[t] = widths[t]
  <2>1. Consistent(built, m.inputs, m.inputBits, widths)
    BY <1>2, <1>4
  <2>2. QED
    BY <1>3, <2>1, ConsistentWidths
<1>6. \A j \in DOMAIN built : NodeFits(built[j], widths, cap) /\ Sized(built[j], widths)
  BY <1>2 DEF Shrunk, Consistent
<1>7. Propagates(built, m.inputs)
  <2>1. Sortable(built, source.inputs)
    BY <1>2, <1>3, ConsistentSorts
  <2>2. \A j \in DOMAIN built : Valid(built[j].op) /\ Matched(built[j])
    BY <1>6 DEF NodeFits
  <2>3. QED
    BY <1>4, <2>1, <2>2 DEF Propagates
<1>8. cap \in Nat
  BY <1>1, SourceFits
<1> HIDE DEF w, cap
<1>9. ASSUME NEW j \in DOMAIN built
      PROVE  LET n == built[j]
                 in == Operands(n, w)
             IN  /\ \A k \in DOMAIN n.outs : w[n.outs[k]] <= cap
                 /\ InternalBits(n.op, in) <= cap
                 /\ n.op.type = "Activation" => w[n.ins[1]] <= MessageBits
  <2> DEFINE n == built[j]
             in == Operands(n, w)
  <2>1. /\ HasLists(n) /\ NodeFits(n, widths, cap)
        /\ ToSet(n.ins) \subseteq DOMAIN widths
        /\ \A k \in DOMAIN n.outs : n.outs[k] \in DOMAIN widths
    BY <1>3, <1>6 DEF Sized
  <2> HIDE DEF n
  <2>2. NodeFits(n, w, cap)
    BY <1>5, <2>1, NodeStays
  <2>3. QED
    BY <2>2 DEF NodeFits, n, in
<1>10. BudgetOK(m)
  <2>1. w = Widths(m.nodes, m) /\ cap = Capacity(m.numBlocks)
    BY <1>4 DEF w, cap
  <2>2. QED
    BY <1>4, <1>7, <1>9, <2>1 DEF BudgetOK
<1>11. \A j \in DOMAIN m.nodes :
         m.nodes[j].op.type = "Activation" => Widths(m.nodes, m)[m.nodes[j].ins[1]] <= MessageBits
  BY <1>4, <1>9 DEF w
<1>12. PyBudgetOK(m)
  BY <1>10, <1>11 DEF PyBudgetOK
<1>13. QED
  BY <1>12 DEF m

(* Nothing is too wide on the way, nor is a Requant refused.               *)
LEMMA FitNeverRefuses ==
  ASSUME SourceInv, LoopInv, Agreed, Typing, SourceIs, pass = "probe", Mild,
         Shrunk(built, widths, rewire, OwnWidths, Capacity(source.numBlocks))
  PROVE  ~ Refuse
<1> SUFFICES ASSUME Refuse PROVE FALSE
  OBVIOUS
<1> DEFINE w == WithOutputs(Current)[Current.outs[1]]
<1>1. /\ phase = "loop" /\ todo # <<>> /\ NeedsRequant(Current)
      /\ Overflows(w) \/ ~ Calibrated(Current)
  BY DEF Refuse
<1>2. Current.op.type \in AccumulatorOps
  BY <1>1 DEF NeedsRequant
<1>3. w \in Nat /\ w <= Capacity(source.numBlocks)
  <2>1. w = Widened(Current, widths)[Current.outs[1]]
    BY DEF WithOutputs, Widened
  <2> HIDE DEF w
  <2>2. QED
    BY <1>1, <1>2, <2>1, CurrentFits
<1>4. Capacity(source.numBlocks) \in Nat
  BY SourceFits DEF Mild
<1> HIDE DEF w
<1>5. ~ Overflows(w)
  BY <1>3, <1>4 DEF Overflows
<1>6. Calibrated(Current)
  <2>1. FallbackShift(Current) \in Nat
    BY <1>1, FallbackShiftIs
  <2>2. Valid(Current.op) /\ Declared(Current.op)
    BY <1>1, CurrentTyped
  <2>3. QED
    BY <1>2, <2>1, <2>2, DefaultRequant DEF SourceInv, Mild
<1>7. QED
  BY <1>1, <1>5, <1>6

(* The first call keeps this up.                                           *)
LEMMA FitStep == Inv /\ Agreed /\ Typing /\ SourceIs /\ FitInv /\ [Next]_vars => FitInv'
<1> SUFFICES ASSUME Inv, Agreed, Typing, SourceIs, FitInv, [Next]_vars, pass' = "probe", Mild'
             PROVE  /\ phase' \notin Errors \ {"invalid"}
                    /\ phase' \in {"loop", "returned"} =>
                         Shrunk(built', widths', rewire', OwnWidths', Capacity(source.numBlocks)')
  BY DEF FitInv, Errors
<1>1. /\ pass = "probe" /\ ~ NextCall /\ case' = case /\ source' = source
      /\ \/ Begin \/ Keep \/ Insert \/ Refuse \/ Return
         \/ Done \/ UNCHANGED vars
  <2>1. ~ NextCall
    BY DEF NextCall
  <2>2. QED
    BY <2>1 DEF Next, Begin, Keep, Insert, Refuse, Return, Done, vars
<1>2. OwnWidths' = OwnWidths /\ Capacity(source.numBlocks)' = Capacity(source.numBlocks)
  BY <1>1 DEF OwnWidths
<1>3. Mild
  <2>1. \A node : NeedsRequant(node)' <=> NeedsRequant(node)
    BY <1>1 DEF NeedsRequant, ConsumedByNarrow, AlreadyRequantized
  <2>2. OnlyShifts' <=> OnlyShifts
    BY <1>1 DEF OnlyShifts
  <2>3. FreshNames' <=> FreshNames
    BY <1>1, <2>1 DEF FreshNames
  <2>4. OnlyShifts /\ FreshNames /\ BudgetOK(source)
    BY <1>1, <2>2, <2>3 DEF Mild
  <2>5. ASSUME NEW i \in DOMAIN source.nodes, source.nodes[i].op.type = "Activation",
               ~ OwnWidths[source.nodes[i].ins[1]] <= MessageBits
        PROVE  \E p \in DOMAIN source.nodes :
                 NeedsRequant(source.nodes[p]) /\ source.nodes[p].outs[1] = source.nodes[i].ins[1]
    BY <1>1, <1>2, <2>5 DEF Mild, NeedsRequant, ConsumedByNarrow, AlreadyRequantized
  <2>6. QED
    BY <2>4, <2>5 DEF Mild
<1>4. /\ phase \notin Errors \ {"invalid"}
      /\ phase \in {"loop", "returned"} =>
           Shrunk(built, widths, rewire, OwnWidths, Capacity(source.numBlocks))
  BY <1>1, <1>3 DEF FitInv
<1>5. SourceInv /\ LoopInv
  BY DEF Inv
<1>6. CASE Begin
  <2>1. phase' \in {"loop", "invalid"}
    BY <1>6 DEF Begin
  <2>2. ASSUME phase' = "loop"
        PROVE  Shrunk(built', widths', rewire', OwnWidths, Capacity(source.numBlocks))
    <3>1. /\ built' = <<>> /\ rewire' = <<>>
          /\ widths' = [t \in source.inputs |-> source.inputBits]
      BY <1>6, <2>2 DEF Begin, InputWidths
    <3>2. /\ DOMAIN widths' = source.inputs
          /\ \A t \in source.inputs : widths'[t] = source.inputBits
      BY <3>1
    <3>3. \A t \in source.inputs : OwnWidths[t] = source.inputBits
      BY <1>1, <1>3, <1>5, SourceFits DEF Mild
    <3>4. source.inputBits \in Nat
      BY DEF Typing
    <3>5. QED
      BY <3>1, <3>2, <3>3, <3>4 DEF Shrunk
  <2>3. QED
    BY <1>2, <2>1, <2>2 DEF Errors
<1>7. CASE Keep \/ Insert
  <2>1. phase = "loop" /\ phase' = "loop"
    BY <1>7 DEF Keep, Insert
  <2>2. Shrunk(built', widths', rewire', OwnWidths, Capacity(source.numBlocks))
    BY <1>1, <1>3, <1>4, <1>5, <1>7, <2>1, TurnFits
  <2>3. QED
    BY <1>2, <2>1, <2>2 DEF Errors
<1>8. CASE Refuse
  <2>1. phase = "loop"
    BY <1>8 DEF Refuse
  <2>2. QED
    BY <1>1, <1>3, <1>4, <1>5, <1>8, <2>1, FitNeverRefuses
<1>9. CASE Return
  <2>1. /\ phase = "loop" /\ built' = built /\ widths' = widths /\ rewire' = rewire
        /\ phase' = IF PyBudgetOK(Result) THEN "returned" ELSE "rejected"
    BY <1>9 DEF Return
  <2>2. PyBudgetOK(Result)
    BY <1>1, <1>3, <1>4, <1>5, <2>1, ReturnFits
  <2>3. QED
    BY <1>2, <1>4, <2>1, <2>2 DEF Errors
<1>10. CASE Done \/ UNCHANGED vars
  <2>1. /\ phase' = phase /\ built' = built /\ widths' = widths /\ rewire' = rewire
    BY <1>10 DEF Done, vars
  <2>2. QED
    BY <1>2, <1>4, <2>1
<1>11. QED
  BY <1>1, <1>6, <1>7, <1>8, <1>9, <1>10

(* The second call fits by its radix, the third is on a list that fits.    *)
LEMMA FitFromInv == Inv /\ Typing /\ Sizing /\ FitInv => FitsStill
<1> SUFFICES ASSUME Inv, Typing, Sizing, FitInv, phase \in Errors \ {"invalid"}, OnlyShifts, FreshNames,
                    BudgetOK(source),
                    \A i \in DOMAIN source.nodes :
                      source.nodes[i].op.type = "Activation" =>
                        \/ OwnWidths[source.nodes[i].ins[1]] <= MessageBits
                        \/ \E p \in DOMAIN source.nodes :
                             /\ NeedsRequant(source.nodes[p])
                             /\ source.nodes[p].outs[1] = source.nodes[i].ins[1]
             PROVE  FALSE
  BY DEF FitsStill, OwnWidths, OnlyShifts
<1>1. Mild
  BY DEF Mild
<1>2. pass \in {"probe", "sized", "again"}
  BY DEF Inv, SourceInv
<1>3. pass # "probe"
  BY <1>1 DEF FitInv
<1>4. pass # "sized"
  BY DEF Sizing
<1>5. pass # "again"
  BY DEF Inv, Settled
<1>6. QED
  BY <1>2, <1>3, <1>4, <1>5

(* A graph that fits its radix still does with Requants in it, when no     *)
(* calibration asks for more than a shift: the pass neither finds a width  *)
(* too large on the way nor refuses the result.                            *)
THEOREM FitsWithRequants == Spec => []FitsStill
<1>1. Init => SourceIs /\ Probing /\ Sizing /\ FitInv
  BY DEF Init, SourceIs, Probing, Sizing, FitInv, Errors
<1>2. Inv /\ Agreed /\ Typing /\ SourceIs /\ Probing /\ Sizing /\ FitInv /\ [Next]_vars
        => (SourceIs /\ Probing /\ Sizing /\ FitInv)'
  BY SourceStep, ProbingStep, SizingStep, FitStep
<1>3. Inv /\ Typing /\ Sizing /\ FitInv => FitsStill
  BY FitFromInv
<1>4. QED
  BY <1>1, <1>2, <1>3, AlwaysTyped, PTL DEF Spec
=============================================================================
