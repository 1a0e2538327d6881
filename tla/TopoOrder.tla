----------------------------- MODULE TopoOrder ------------------------------
(***************************************************************************)
(* The stable topological sort every consumer of an IR graph starts with:  *)
(* topological_order in crates/penumbra-core/src/ir.rs.  It checks that    *)
(* every tensor read exists, that no tensor is written twice, and then     *)
(* runs Kahn's algorithm, always emitting the ready node that comes first  *)
(* in the graph's own node list.  The graph is the call's argument: Init     *)
(* picks it and it never changes.                                          *)
(***************************************************************************)
EXTENDS Integers, Sequences, FiniteSets

CONSTANTS Tensor,       \* tensor names
          Graphs        \* the graphs the call may be given

(* A graph: its number of nodes, the names of its inputs, and per node the *)
(* names it reads and the list of names it writes.                         *)
ASSUME GraphAssumption ==
  \A g \in Graphs :
    /\ g.n \in Nat
    /\ g.inputs \subseteq Tensor
    /\ g.reads \in [0 .. g.n-1 -> SUBSET Tensor]
    /\ g.writes \in [0 .. g.n-1 -> Seq(Tensor)]

VARIABLES graph,        \* the argument: inputs, reads, writes (never changes)
          phase,        \* where the call is; an outcome when it has returned
          inDeps,       \* in_deps: producers of a node not emitted yet
          ready,        \* the BTreeSet of nodes with no producer left
          order,        \* the node indices emitted so far
          blame         \* the nodes the returned error names

vars == <<graph, phase, inDeps, ready, order, blame>>

Node == 0 .. graph.n - 1

Produced(i) == {graph.writes[i][k] : k \in 1 .. Len(graph.writes[i])}

AllProduced == UNION {Produced(i) : i \in Node}

(* The producers of what a node reads; a node may depend on itself. *)
Deps(c) == {p \in Node : graph.reads[c] \cap Produced(p) # {}}

Dependents(p) == {c \in Node : p \in Deps(c)}

Emitted == {order[k] : k \in 1 .. Len(order)}

Outcome == {"undefined", "duplicate", "cycle", "done"}

-----------------------------------------------------------------------------
(* Reads that nothing defines: neither a graph input nor anyone's output. *)
ReadsUndefined(i) == graph.reads[i] \ (graph.inputs \cup AllProduced) # {}

(* Seeded fault: a name repeated within one output list goes unnoticed. *)
RewritesOfOthersOnly(i) ==
  \E t \in Produced(i) : t \in graph.inputs \/ \E j \in 0 .. i-1 : t \in Produced(j)

(* The output list of i repeats a name: a graph input, an output of an     *)
(* earlier node, or an earlier entry of its own list.                      *)
Rewrites(i) ==
  \E k \in 1 .. Len(graph.writes[i]) :
    LET t == graph.writes[i][k]
    IN  \/ t \in graph.inputs
        \/ \E j \in 0 .. i-1 : t \in Produced(j)
        \/ \E m \in 1 .. k-1 : graph.writes[i][m] = t

(* Both validation loops stop at the first offending node of the list. *)
FirstOf(S) == {i \in S : \A j \in S : i <= j}

Init ==
  /\ graph \in Graphs
  /\ phase = "inputs"
  /\ inDeps = [i \in Node |-> {}]
  /\ ready = {}
  /\ order = <<>>
  /\ blame = {}

CheckInputs ==
  /\ phase = "inputs"
  /\ blame' = FirstOf({i \in Node : ReadsUndefined(i)})
  /\ phase' = IF blame' = {} THEN "outputs" ELSE "undefined"
  /\ UNCHANGED <<graph, inDeps, ready, order>>

CheckOutputs ==
  /\ phase = "outputs"
  /\ blame' = FirstOf({i \in Node : Rewrites(i)})
  /\ phase' = IF blame' = {} THEN "build" ELSE "duplicate"
  /\ UNCHANGED <<graph, inDeps, ready, order>>

(* Seeded fault: a node that reads its own output does not wait for it. *)
BuildDepsWithoutSelf ==
  /\ phase = "build"
  /\ phase' = "sort"
  /\ inDeps' = [i \in Node |-> Deps(i) \ {i}]
  /\ ready' = {i \in Node : Deps(i) \subseteq {i}}
  /\ UNCHANGED <<graph, order, blame>>

(* The early return of an empty graph is the case Node = {} of the sort. *)
BuildDeps ==
  /\ phase = "build"
  /\ phase' = "sort"
  /\ inDeps' = [i \in Node |-> Deps(i)]
  /\ ready' = {i \in Node : Deps(i) = {}}
  /\ UNCHANGED <<graph, order, blame>>

(* Seeded faults of the loop: numbering from one; releasing a dependent at *)
(* its first producer; taking the highest ready index.                     *)
EmitFromOne(i) ==
  /\ phase = "sort" /\ i \in ready /\ \A j \in ready : i <= j
  /\ order' = Append(order, i + 1)
  /\ inDeps' = [c \in Node |-> inDeps[c] \ {i}]
  /\ ready' = (ready \ {i}) \cup {c \in Dependents(i) : inDeps'[c] = {}}
  /\ UNCHANGED <<graph, phase, blame>>

EmitEager(i) ==
  /\ phase = "sort" /\ i \in ready /\ \A j \in ready : i <= j
  /\ order' = Append(order, i)
  /\ inDeps' = [c \in Node |-> inDeps[c] \ {i}]
  /\ ready' = (ready \ {i}) \cup Dependents(i)
  /\ UNCHANGED <<graph, phase, blame>>

EmitHighest(i) ==
  /\ phase = "sort" /\ i \in ready /\ \A j \in ready : j <= i
  /\ order' = Append(order, i)
  /\ inDeps' = [c \in Node |-> inDeps[c] \ {i}]
  /\ ready' = (ready \ {i}) \cup {c \in Dependents(i) : inDeps'[c] = {}}
  /\ UNCHANGED <<graph, phase, blame>>

(* One turn of the while loop: emit the lowest ready index and release its *)
(* dependents.                                                             *)
Emit(i) ==
  /\ phase = "sort"
  /\ i \in ready
  /\ \A j \in ready : i <= j
  /\ order' = Append(order, i)
  /\ inDeps' = [c \in Node |->
                  IF c \in Dependents(i) THEN inDeps[c] \ {i} ELSE inDeps[c]]
  /\ ready' = (ready \ {i}) \cup {c \in Dependents(i) : inDeps'[c] = {}}
  /\ UNCHANGED <<graph, phase, blame>>

(* Seeded faults: leftover nodes are not reported; the loop waits for them. *)
ReturnPartial ==
  /\ phase = "sort" /\ ready = {}
  /\ phase' = "done"
  /\ UNCHANGED <<graph, inDeps, ready, order, blame>>

ReturnComplete ==
  /\ phase = "sort" /\ Len(order) = graph.n
  /\ phase' = "done"
  /\ UNCHANGED <<graph, inDeps, ready, order, blame>>

Return ==
  /\ phase = "sort"
  /\ ready = {}
  /\ blame' = Node \ Emitted
  /\ phase' = IF Len(order) < graph.n THEN "cycle" ELSE "done"
  /\ UNCHANGED <<graph, inDeps, ready, order>>

Next ==
  \/ CheckInputs
  \/ CheckOutputs
  \/ BuildDeps
  \/ \E i \in Node : Emit(i)
  \/ Return

(* The sort is one straight-line call on one thread: nothing else can stop *)
(* it from taking its next step.                                           *)
Spec == Init /\ [][Next]_vars /\ WF_vars(Next)

-----------------------------------------------------------------------------
TypeOK ==
  /\ phase \in {"inputs", "outputs", "build", "sort"} \cup Outcome
  /\ inDeps \in [Node -> SUBSET Node]
  /\ ready \in SUBSET Node
  /\ order \in Seq(Node)
  /\ blame \in SUBSET Node

(* No node is emitted twice, and none before a node it reads from: the     *)
(* promise evaluate_graph and propagate_bit_widths rely on when they look  *)
(* every operand up in an environment of earlier results.                  *)
OrderSound ==
  /\ \A k, m \in 1 .. Len(order) : order[k] = order[m] => k = m
  /\ \A k \in 1 .. Len(order) : \A p \in Deps(order[k]) :
       \E m \in 1 .. k-1 : order[m] = p

(* What one turn of the while loop relies on and re-establishes: in_deps   *)
(* and the ready set never drift from what has been emitted, so the loop   *)
(* can stop only when nothing that is left could run.                      *)
LoopInv ==
  /\ phase \in {"inputs", "outputs", "build"} \cup {"undefined", "duplicate"} =>
       order = <<>>
  /\ phase \in {"sort", "cycle", "done"} =>
       /\ inDeps = [c \in Node |-> Deps(c) \ Emitted]
       /\ ready = {c \in Node \ Emitted : Deps(c) \subseteq Emitted}

(* A set of nodes each of which waits for a member of the set. *)
Deadlocked(S) == S # {} /\ \A i \in S : Deps(i) \cap S # {}

(* The sort succeeds exactly on acyclic graphs, with every node in the     *)
(* order; a cycle error names exactly the nodes that can never run: the    *)
(* largest set of nodes that wait for each other.                          *)
CycleExact ==
  /\ phase = "done" =>
       /\ Emitted = Node
       /\ ~ \E S \in SUBSET Node : Deadlocked(S)
  /\ phase = "cycle" =>
       /\ Deadlocked(blame)
       /\ \A S \in SUBSET Node : Deadlocked(S) => S \subseteq blame

(* A list of all the nodes in which producers come first. *)
IsTopological(f) ==
  /\ \A i, j \in Node : f[i] = f[j] => i = j
  /\ \A k \in Node : \A p \in Deps(f[k]) : \E m \in 0 .. k-1 : f[m] = p

(* "Stable Kahn": the emitted order is the first of all topological orders *)
(* in dictionary order, so a list that was already topological is returned *)
(* unchanged (ir.rs:160).                                                  *)
Stable ==
  phase = "done" =>
    \A f \in [Node -> Node] :
      IsTopological(f) =>
        \/ \A k \in Node : f[k] = order[k+1]
        \/ \E k \in Node :
             /\ order[k+1] < f[k]
             /\ \A m \in 0 .. k-1 : f[m] = order[m+1]

(* The definitions of a tensor: one per place of an output list it is in. *)
WriteSlots(t) ==
  UNION {{i} \X {k \in 1 .. Len(graph.writes[i]) : graph.writes[i][k] = t} :
           i \in Node}

(* Once sorting starts every read resolves to exactly one definition, and  *)
(* a validation error names a node that really breaks that: no silent      *)
(* overwrite, and no error on a graph whose names are sound.               *)
NamesResolved ==
  LET defined == \A i \in Node : \A t \in graph.reads[i] :
                    t \in graph.inputs \/ WriteSlots(t) # {}
      unique  == \A t \in Tensor :
                    Cardinality(WriteSlots(t)) <= IF t \in graph.inputs THEN 0 ELSE 1
  IN  /\ phase \in {"build", "sort", "cycle", "done"} => defined /\ unique
      /\ phase = "undefined" => ~ defined /\ Cardinality(blame) = 1
      /\ phase = "duplicate" => ~ unique /\ Cardinality(blame) = 1

(* The sorter implements the abstract walk: each emitted index is a node   *)
(* firing with its producers already fired.                                *)
Walk == INSTANCE Dataflow WITH fired <- Emitted, deps <- [i \in Node |-> Deps(i)]
ImplementsDataflow == Walk!Spec

(* The call returns, and a returned call leaves its result alone. *)
Terminates == <>[](phase \in Outcome)
=============================================================================
