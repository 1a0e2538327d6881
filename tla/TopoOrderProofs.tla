-------------------------- MODULE TopoOrderProofs ---------------------------
(***************************************************************************)
(* Proofs about the topological sort, for every set of graphs: whatever    *)
(* the number of nodes and however they read each other.                   *)
(***************************************************************************)
EXTENDS TopoOrder, ListLemmas, FiniteSetTheorems

-----------------------------------------------------------------------------
(* The graph is an argument: no step changes it, nor what is read off it.  *)
LEMMA GraphFixed ==
  ASSUME [Next]_vars
  PROVE  /\ graph' = graph
         /\ Node' = Node
         /\ \A c : Deps(c)' = Deps(c)
<1>1. graph' = graph
  BY DEF Next, vars, CheckInputs, CheckOutputs, BuildDeps, Emit, Return
<1>2. QED
  BY <1>1 DEF Node, Deps, Produced

(* What a node depends on are nodes.                                       *)
LEMMA DepsType == \A c : Deps(c) \subseteq Node
  BY DEF Deps

(* What an emission adds to the order and to the set of emitted nodes.     *)
LEMMA EmitAppends ==
  ASSUME TypeOK, graph' = graph, NEW i \in Node, order' = Append(order, i)
  PROVE  /\ Len(order') = Len(order) + 1
         /\ \A k \in 1 .. Len(order) : order'[k] = order[k]
         /\ order'[Len(order) + 1] = i
         /\ Emitted' = Emitted \cup {i}
<1>1. order \in Seq(Node)
  BY DEF TypeOK
<1>2. /\ Len(order') = Len(order) + 1
      /\ \A k \in 1 .. Len(order) : order'[k] = order[k]
      /\ order'[Len(order) + 1] = i
      /\ Len(order) \in Nat
  BY <1>1
<1>3. 1 .. Len(order') = (1 .. Len(order)) \cup {Len(order) + 1}
  BY <1>2
<1>4. Emitted' = {order'[k] : k \in 1 .. Len(order')}
  BY DEF Emitted
<1>5. QED
  BY <1>2, <1>3, <1>4 DEF Emitted

-----------------------------------------------------------------------------
(* Every variable keeps its type: indices in the order, in the ready set   *)
(* and in the error are indices of the node list (ir.rs:228-249).          *)
THEOREM TypeCorrect == Spec => []TypeOK
<1>1. Init => TypeOK
  BY DEF Init, TypeOK, Outcome
<1>2. TypeOK /\ [Next]_vars => TypeOK'
  <2> SUFFICES ASSUME TypeOK, [Next]_vars PROVE TypeOK'
    OBVIOUS
  <2>0. Node' = Node /\ \A c : Deps(c)' = Deps(c)
    BY GraphFixed
  <2>1. CASE CheckInputs
    BY <2>0, <2>1 DEF CheckInputs, TypeOK, Outcome, FirstOf
  <2>2. CASE CheckOutputs
    BY <2>0, <2>2 DEF CheckOutputs, TypeOK, Outcome, FirstOf
  <2>3. CASE BuildDeps
    BY <2>0, <2>3, DepsType DEF BuildDeps, TypeOK, Outcome
  <2>4. ASSUME NEW i \in Node, Emit(i) PROVE TypeOK'
    <3>1. order' \in Seq(Node)
      BY <2>4 DEF Emit, TypeOK
    <3>2. inDeps' \in [Node -> SUBSET Node]
      BY <2>4 DEF Emit, TypeOK
    <3>3. ready' \in SUBSET Node
      BY <2>4 DEF Emit, TypeOK, Dependents
    <3>4. QED
      BY <2>0, <2>4, <3>1, <3>2, <3>3 DEF Emit, TypeOK
  <2>5. CASE Return
    BY <2>0, <2>5 DEF Return, TypeOK, Outcome
  <2>6. CASE UNCHANGED vars
    BY <2>0, <2>6 DEF vars, TypeOK
  <2>7. QED
    BY <2>1, <2>2, <2>3, <2>4, <2>5, <2>6 DEF Next
<1>3. QED
  BY <1>1, <1>2, PTL DEF Spec

-----------------------------------------------------------------------------
(* The nodes emitted so far are closed under Deps.                         *)
LEMMA EmittedClosed ==
  ASSUME TypeOK, OrderSound
  PROVE  /\ Emitted \subseteq Node
         /\ \A c \in Emitted : Deps(c) \subseteq Emitted
<1>1. order \in Seq(Node)
  BY DEF TypeOK
<1>2. Emitted \subseteq Node
  BY <1>1 DEF Emitted
<1>3. ASSUME NEW c \in Emitted, NEW p \in Deps(c) PROVE p \in Emitted
  <2>1. PICK k \in 1 .. Len(order) : c = order[k]
    BY <1>3 DEF Emitted
  <2>2. PICK m \in 1 .. k-1 : order[m] = p
    BY <1>3, <2>1 DEF OrderSound
  <2>3. m \in 1 .. Len(order)
    BY <1>1, <2>1, <2>2
  <2>4. QED
    BY <2>2, <2>3 DEF Emitted
<1>4. QED
  BY <1>2, <1>3

(* The loop invariant needs the order to be sound: a node that has been    *)
(* emitted waits for nobody, so releasing it again cannot put it back.     *)
LEMMA LoopInvStep ==
  ASSUME TypeOK, OrderSound, LoopInv, [Next]_vars
  PROVE  LoopInv'
<1>0. Node' = Node /\ \A c : Deps(c)' = Deps(c)
  BY GraphFixed
<1>1. CASE CheckInputs
  BY <1>0, <1>1 DEF CheckInputs, LoopInv, Emitted
<1>2. CASE CheckOutputs
  BY <1>0, <1>2 DEF CheckOutputs, LoopInv, Emitted
<1>3. CASE BuildDeps
  <2>1. order = <<>> /\ order' = <<>>
    BY <1>3 DEF BuildDeps, LoopInv
  <2>2. Emitted' = {}
    BY <2>1 DEF Emitted
  <2>3. QED
    BY <1>0, <1>3, <2>2 DEF BuildDeps, LoopInv
<1>4. ASSUME NEW i \in Node, Emit(i) PROVE LoopInv'
  <2>1. Emitted' = Emitted \cup {i}
    BY <1>4, EmitAppends, <1>0, GraphFixed DEF Emit
  <2>2. /\ phase = "sort" /\ phase' = "sort"
        /\ inDeps = [c \in Node |-> Deps(c) \ Emitted]
        /\ ready = {c \in Node \ Emitted : Deps(c) \subseteq Emitted}
        /\ i \in ready
    BY <1>4 DEF Emit, LoopInv
  <2>3. inDeps' = [c \in Node |-> Deps(c) \ Emitted']
    <3>1. \A c \in Node : IF c \in Dependents(i) THEN inDeps[c] \ {i} = Deps(c) \ Emitted'
                                                 ELSE inDeps[c] = Deps(c) \ Emitted'
      BY <2>1, <2>2 DEF Dependents
    <3>2. QED
      BY <1>4, <3>1 DEF Emit
  <2>4. ready' = {c \in Node \ Emitted' : Deps(c) \subseteq Emitted'}
    <3>1. ready' = (ready \ {i}) \cup {c \in Dependents(i) : inDeps'[c] = {}}
      BY <1>4 DEF Emit
    <3>2. \A c \in Node : inDeps'[c] = {} <=> Deps(c) \subseteq Emitted'
      BY <2>3
    <3>3. \A c : c \in Dependents(i) <=> c \in Node /\ i \in Deps(c)
      BY DEF Dependents
    <3>4. \A c \in Emitted : i \notin Deps(c)
      BY <2>2, EmittedClosed
    <3>5. i \notin Deps(i)
      BY <2>2
    <3>6. ASSUME NEW c \in Node
          PROVE  c \in ready' <=> c \notin Emitted' /\ Deps(c) \subseteq Emitted'
      <4>1. CASE i \in Deps(c)
        BY <4>1, <2>1, <2>2, <3>1, <3>2, <3>3, <3>4, <3>5
      <4>2. CASE i \notin Deps(c)
        BY <4>2, <2>1, <2>2, <3>1, <3>3
      <4>3. QED
        BY <4>1, <4>2
    <3>7. ready' \subseteq Node
      BY <2>2, <3>1, <3>3
    <3>8. QED
      BY <3>6, <3>7
  <2>5. QED
    BY <1>0, <2>2, <2>3, <2>4 DEF LoopInv
<1>5. CASE Return
  BY <1>0, <1>5 DEF Return, LoopInv, Emitted
<1>6. CASE UNCHANGED vars
  BY <1>0, <1>6 DEF vars, LoopInv, Emitted
<1>7. QED
  BY <1>1, <1>2, <1>3, <1>4, <1>5, <1>6 DEF Next

(* Emitting a ready node keeps the order sound: it has not been emitted,   *)
(* and everything it reads from has.                                       *)
LEMMA OrderSoundStep ==
  ASSUME TypeOK, OrderSound, LoopInv, [Next]_vars
  PROVE  OrderSound'
<1>0. Node' = Node /\ \A c : Deps(c)' = Deps(c)
  BY GraphFixed
<1>1. ASSUME NEW i \in Node, Emit(i) PROVE OrderSound'
  <2>1. order \in Seq(Node) /\ Len(order) \in Nat
    BY DEF TypeOK
  <2>2. /\ Len(order') = Len(order) + 1
        /\ \A k \in 1 .. Len(order) : order'[k] = order[k]
        /\ order'[Len(order) + 1] = i
    BY <1>1, EmitAppends, GraphFixed DEF Emit
  <2>3. i \notin Emitted /\ Deps(i) \subseteq Emitted
    BY <1>1 DEF Emit, LoopInv
  <2>4. ASSUME NEW k \in 1 .. Len(order'), NEW m \in 1 .. Len(order'), order'[k] = order'[m]
        PROVE  k = m
    <3>1. \A j \in 1 .. Len(order) : order[j] # i
      BY <2>3 DEF Emitted
    <3>2. QED
      BY <2>1, <2>2, <2>4, <3>1 DEF OrderSound
  <2>5. ASSUME NEW k \in 1 .. Len(order'), NEW p \in Deps(order'[k])
        PROVE  \E m \in 1 .. k-1 : order'[m] = p
    <3>1. CASE k = Len(order) + 1
      <4>1. p \in Emitted
        BY <2>2, <2>3, <2>5, <3>1
      <4>2. PICK m \in 1 .. Len(order) : p = order[m]
        BY <4>1 DEF Emitted
      <4>3. QED
        BY <2>1, <2>2, <3>1, <4>2
    <3>2. CASE k \in 1 .. Len(order)
      <4>1. PICK m \in 1 .. k-1 : order[m] = p
        BY <2>2, <2>5, <3>2 DEF OrderSound
      <4>2. QED
        BY <2>1, <2>2, <3>2, <4>1
    <3>3. QED
      BY <2>1, <2>2, <3>1, <3>2
  <2>6. QED
    BY <1>0, <2>4, <2>5 DEF OrderSound
<1>2. CASE order' = order
  <2>1. \A k, m \in 1 .. Len(order') : order'[k] = order'[m] => k = m
    BY <1>2 DEF OrderSound
  <2>2. ASSUME NEW k \in 1 .. Len(order'), NEW p \in Deps(order'[k])
        PROVE  \E m \in 1 .. k-1 : order'[m] = p
    BY <1>2, <2>2 DEF OrderSound
  <2>3. QED
    BY <1>0, <2>1, <2>2 DEF OrderSound
<1>3. QED
  BY <1>1, <1>2 DEF Next, vars, CheckInputs, CheckOutputs, BuildDeps, Return

Core == TypeOK /\ OrderSound /\ LoopInv

(* The inductive core of the sort, and with it the two named invariants.   *)
LEMMA CoreInv == Spec => []Core
<1>1. Init => Core
  <2> SUFFICES ASSUME Init PROVE Core
    OBVIOUS
  <2>1. order = <<>> /\ Len(order) = 0
    BY DEF Init
  <2>2. OrderSound /\ LoopInv
    BY <2>1 DEF Init, OrderSound, LoopInv
  <2>3. TypeOK
    BY DEF Init, TypeOK, Outcome
  <2>4. QED
    BY <2>2, <2>3 DEF Core
<1>2. TypeOK' /\ Core /\ [Next]_vars => Core'
  BY OrderSoundStep, LoopInvStep DEF Core
<1>3. QED
  BY <1>1, <1>2, TypeCorrect, PTL DEF Spec

(* Every prefix of the emitted order lists producers before consumers, and *)
(* no node twice: evaluate_graph never looks up a tensor before the node   *)
(* that writes it has run (ir.rs:239-250, eval.rs:113-135).                *)
THEOREM OrderIsSound == Spec => []OrderSound
BY CoreInv, PTL DEF Core

(* in_deps and the ready set agree with what has been emitted at every     *)
(* turn of the loop (ir.rs:239-250).                                       *)
THEOREM LoopIsConsistent == Spec => []LoopInv
BY CoreInv, PTL DEF Core

-----------------------------------------------------------------------------
(* The graph under sort is one of the set.                                 *)
LEMMA GraphType == Spec => [](graph \in Graphs)
<1>1. Init => graph \in Graphs
  BY DEF Init
<1>2. graph \in Graphs /\ [Next]_vars => (graph \in Graphs)'
  BY GraphFixed
<1>3. QED
  BY <1>1, <1>2, PTL DEF Spec

(* An order without repetitions is as long as the node list only when it   *)
(* holds every node.                                                       *)
LEMMA Pigeonhole ==
  ASSUME TypeOK, OrderSound, graph \in Graphs
  PROVE  /\ graph.n \in Nat
         /\ Len(order) <= graph.n
         /\ Len(order) = graph.n <=> Emitted = Node
<1>1. graph.n \in Nat /\ order \in Seq(Node) /\ Len(order) \in Nat
  BY GraphAssumption DEF TypeOK
<1>2. IsFiniteSet(Node) /\ Cardinality(Node) = graph.n
  <2>1. 0 \in Int /\ graph.n - 1 \in Int
    BY <1>1
  <2>2. /\ IsFiniteSet(0 .. graph.n - 1)
        /\ Cardinality(0 .. graph.n - 1) =
             IF 0 > graph.n - 1 THEN 0 ELSE (graph.n - 1) - 0 + 1
    BY <2>1, FS_Interval, Zenon
  <2>3. QED
    BY <1>1, <2>2 DEF Node
<1>3. IsFiniteSet(1 .. Len(order)) /\ Cardinality(1 .. Len(order)) = Len(order)
  <2>1. 1 \in Int /\ Len(order) \in Int
    BY <1>1
  <2>2. /\ IsFiniteSet(1 .. Len(order))
        /\ Cardinality(1 .. Len(order)) =
             IF 1 > Len(order) THEN 0 ELSE Len(order) - 1 + 1
    BY <2>1, FS_Interval, Zenon
  <2>3. QED
    BY <1>1, <2>2
<1>4. order \in Injection(1 .. Len(order), Node)
  BY <1>1 DEF OrderSound, Injection, IsInjective
<1>5. /\ Len(order) <= graph.n
      /\ Len(order) = graph.n <=> order \in Surjection(1 .. Len(order), Node)
  BY <1>2, <1>3, <1>4, FS_Injection
<1>6. order \in Surjection(1 .. Len(order), Node) <=> Emitted = Node
  <2>1. order \in [1 .. Len(order) -> Node]
    BY <1>1
  <2>2. Emitted \subseteq Node
    BY <2>1 DEF Emitted
  <2>3. order \in Surjection(1 .. Len(order), Node)
          <=> \A i \in Node : \E k \in 1 .. Len(order) : order[k] = i
    BY <2>1 DEF Surjection
  <2>4. QED
    BY <2>2, <2>3 DEF Emitted
<1>7. QED
  BY <1>1, <1>5, <1>6

(* A set of nodes that wait for each other never gets one of its members   *)
(* emitted: the first to go would need another one first.                  *)
NoneOfACycle == \A S \in SUBSET Node : Deadlocked(S) => S \cap Emitted = {}

(* A member of a set whose members all wait for each other cannot be the   *)
(* first of them to be emitted.                                            *)
LEMMA NoneOfACycleFromOrder ==
  ASSUME TypeOK, OrderSound, LoopInv, NoneOfACycle, [Next]_vars
  PROVE  NoneOfACycle'
<1>0. Node' = Node /\ \A c : Deps(c)' = Deps(c)
  BY GraphFixed
<1>1. ASSUME NEW S \in SUBSET Node, Deadlocked(S)' PROVE Deadlocked(S)
  BY <1>0, <1>1 DEF Deadlocked
<1>2. ASSUME NEW i \in Node, Emit(i), NEW S \in SUBSET Node, Deadlocked(S)
      PROVE  S \cap Emitted' = {}
  <2>1. Emitted' = Emitted \cup {i}
    BY <1>2, EmitAppends, GraphFixed DEF Emit
  <2>2. Deps(i) \subseteq Emitted
    BY <1>2 DEF Emit, LoopInv
  <2>3. S \cap Emitted = {}
    BY <1>2 DEF NoneOfACycle
  <2>4. i \notin S
    BY <1>2, <2>2, <2>3 DEF Deadlocked
  <2>5. QED
    BY <2>1, <2>3, <2>4
<1>3. CASE order' = order
  BY <1>0, <1>1, <1>3 DEF NoneOfACycle, Emitted
<1>4. ASSUME NEW i \in Node, Emit(i) PROVE NoneOfACycle'
  BY <1>0, <1>1, <1>2, <1>4 DEF NoneOfACycle
<1>5. QED
  BY <1>3, <1>4 DEF Next, vars, CheckInputs, CheckOutputs, BuildDeps, Return

(* So none of them ever is.                                                *)
LEMMA CycleInv == Spec => []NoneOfACycle
<1>1. Init => NoneOfACycle
  BY DEF Init, NoneOfACycle, Emitted
<1>2. Core /\ NoneOfACycle /\ [Next]_vars => NoneOfACycle'
  BY NoneOfACycleFromOrder DEF Core
<1>3. QED
  BY <1>1, <1>2, CoreInv, PTL DEF Spec

(* What the call returned is consistent with the loop it came out of.      *)
Returned ==
  phase \in {"cycle", "done"} =>
    /\ ready = {}
    /\ blame = Node \ Emitted
    /\ phase = "cycle" <=> Len(order) < graph.n

(* What a returned call says was so when it returned.                      *)
LEMMA ReturnedStep ==
  ASSUME Returned, [Next]_vars
  PROVE  Returned'
<1>0. graph' = graph /\ Node' = Node
  BY GraphFixed
<1>1. CASE Return
  BY <1>0, <1>1 DEF Return, Returned, Emitted
<1>2. CASE UNCHANGED vars
  BY <1>0, <1>2 DEF vars, Returned, Emitted
<1>3. CASE CheckInputs
  BY <1>3 DEF CheckInputs, Returned
<1>4. CASE CheckOutputs
  BY <1>4 DEF CheckOutputs, Returned
<1>5. CASE BuildDeps
  BY <1>5 DEF BuildDeps, Returned
<1>6. ASSUME NEW i \in Node, Emit(i) PROVE Returned'
  BY <1>6 DEF Emit, Returned
<1>7. QED
  BY <1>1, <1>2, <1>3, <1>4, <1>5, <1>6 DEF Next

(* It holds in every state.                                                *)
LEMMA ReturnedInv == Spec => []Returned
<1>1. Init => Returned
  BY DEF Init, Returned
<1>2. QED
  BY <1>1, ReturnedStep, PTL DEF Spec

(* The sort succeeds exactly on acyclic graphs, and a cycle error names    *)
(* exactly the nodes that can never run (ir.rs:252-264), for graphs of     *)
(* every size.                                                             *)
THEOREM CycleVerdictExact == Spec => []CycleExact
<1>1. Core /\ NoneOfACycle /\ Returned /\ graph \in Graphs => CycleExact
  <2> SUFFICES ASSUME Core, NoneOfACycle, Returned, graph \in Graphs
               PROVE  CycleExact
    OBVIOUS
  <2>1. /\ graph.n \in Nat
        /\ Len(order) <= graph.n
        /\ Len(order) \in Nat
        /\ Len(order) = graph.n <=> Emitted = Node
    BY Pigeonhole DEF Core, TypeOK
  <2>2. CASE phase = "done"
    <3>1. Emitted = Node
      BY <2>1, <2>2 DEF Returned
    <3>2. ASSUME NEW S \in SUBSET Node PROVE ~ Deadlocked(S)
      BY <3>1 DEF NoneOfACycle, Deadlocked
    <3>3. QED
      BY <2>2, <3>1, <3>2 DEF CycleExact
  <2>3. CASE phase = "cycle"
    <3>1. Emitted # Node /\ blame = Node \ Emitted /\ ready = {}
      BY <2>1, <2>3 DEF Returned
    <3>2. blame # {}
      BY <3>1, EmittedClosed DEF Core
    <3>3. ASSUME NEW i \in blame PROVE Deps(i) \cap blame # {}
      <4>1. ~ (Deps(i) \subseteq Emitted)
        BY <2>3, <3>1 DEF Core, LoopInv
      <4>2. QED
        BY <3>1, <4>1, DepsType
    <3>4. Deadlocked(blame)
      BY <3>2, <3>3 DEF Deadlocked
    <3>5. \A S \in SUBSET Node : Deadlocked(S) => S \subseteq blame
      BY <3>1 DEF NoneOfACycle
    <3>6. QED
      BY <2>3, <3>4, <3>5 DEF CycleExact
  <2>4. QED
    BY <2>2, <2>3 DEF CycleExact
<1>2. QED
  BY <1>1, CoreInv, CycleInv, ReturnedInv, GraphType, PTL

-----------------------------------------------------------------------------
(* At every turn, any topological order either agrees with what has been   *)
(* emitted or has already chosen a larger index.                           *)
Least ==
  \A f \in [Node -> Node] :
    IsTopological(f) =>
      \/ \A k \in 1 .. Len(order) : f[k-1] = order[k]
      \/ \E k \in 1 .. Len(order) :
           /\ order[k] < f[k-1]
           /\ \A m \in 1 .. k-1 : f[m-1] = order[m]

(* The ready node of least index keeps the prefix the first in dictionary  *)
(* order.                                                                  *)
LEMMA LeastStep ==
  ASSUME Core, graph \in Graphs, Least, [Next]_vars
  PROVE  Least'
<1>0. graph' = graph /\ Node' = Node /\ \A c : Deps(c)' = Deps(c)
  BY GraphFixed
<1>1. ASSUME NEW f \in [Node -> Node], IsTopological(f)' PROVE IsTopological(f)
  <2>1. \A i, j \in Node : f[i] = f[j] => i = j
    BY <1>0, <1>1 DEF IsTopological
  <2>2. ASSUME NEW k \in Node, NEW p \in Deps(f[k]) PROVE \E m \in 0 .. k-1 : f[m] = p
    BY <1>0, <1>1, <2>2 DEF IsTopological
  <2>3. QED
    BY <2>1, <2>2 DEF IsTopological
<1>2. ASSUME NEW i \in Node, Emit(i), NEW f \in [Node -> Node], IsTopological(f)
      PROVE  \/ \A k \in 1 .. Len(order') : f[k-1] = order'[k]
             \/ \E k \in 1 .. Len(order') :
                  /\ order'[k] < f[k-1]
                  /\ \A m \in 1 .. k-1 : f[m-1] = order'[m]
  <2>0. order \in Seq(Node) /\ Len(order) \in Nat
    BY DEF Core, TypeOK
  <2>1. /\ Len(order') = Len(order) + 1
        /\ \A k \in 1 .. Len(order) : order'[k] = order[k]
        /\ order'[Len(order) + 1] = i
    BY <1>2, EmitAppends, GraphFixed DEF Emit, Core
  <2>2. CASE \E k \in 1 .. Len(order) :
               /\ order[k] < f[k-1]
               /\ \A m \in 1 .. k-1 : f[m-1] = order[m]
    BY <2>0, <2>1, <2>2
  <2>3. CASE \A k \in 1 .. Len(order) : f[k-1] = order[k]
    <3>1. i \in ready /\ \A j \in ready : i <= j
      BY <1>2 DEF Emit
    <3>2. ready = {c \in Node \ Emitted : Deps(c) \subseteq Emitted}
      BY <1>2 DEF Emit, Core, LoopInv
    <3>3. Len(order) \in Node
      <4>1. Emitted # Node
        BY <3>1, <3>2
      <4>2. Len(order) < graph.n /\ graph.n \in Nat
        BY <2>0, <4>1, Pigeonhole DEF Core
      <4>3. QED
        BY <2>0, <4>2 DEF Node
    <3>4. f[Len(order)] \in Node
      BY <3>3
    <3>5. f[Len(order)] \notin Emitted
      <4>1. SUFFICES ASSUME f[Len(order)] \in Emitted PROVE FALSE
        OBVIOUS
      <4>2. PICK k \in 1 .. Len(order) : order[k] = f[Len(order)]
        BY <4>1 DEF Emitted
      <4>3. f[k-1] = f[Len(order)]
        BY <2>3, <4>2
      <4>4. k-1 \in Node /\ k-1 # Len(order)
        <5>1. graph.n \in Nat
          BY Pigeonhole DEF Core
        <5>2. QED
          BY <2>0, <3>3, <5>1 DEF Node
      <4>5. QED
        BY <1>2, <3>3, <4>3, <4>4 DEF IsTopological
    <3>6. Deps(f[Len(order)]) \subseteq Emitted
      <4>1. SUFFICES ASSUME NEW p \in Deps(f[Len(order)]) PROVE p \in Emitted
        OBVIOUS
      <4>2. PICK m \in 0 .. Len(order)-1 : f[m] = p
        BY <1>2, <3>3 DEF IsTopological
      <4>3. m+1 \in 1 .. Len(order) /\ order[m+1] = p
        BY <2>0, <2>3, <4>2
      <4>4. QED
        BY <4>3 DEF Emitted
    <3>7. i <= f[Len(order)]
      BY <3>1, <3>2, <3>4, <3>5, <3>6
    <3>8. \A k \in 1 .. Len(order) : f[k-1] = order'[k]
      BY <2>1, <2>3
    <3>9. Len(order) + 1 \in 1 .. Len(order') /\ (Len(order) + 1) - 1 = Len(order)
      BY <2>0, <2>1
    <3>10. CASE i = f[Len(order)]
      BY <2>0, <2>1, <3>8, <3>10
    <3>11. CASE i < f[Len(order)]
      <4>1. /\ order'[Len(order) + 1] < f[(Len(order) + 1) - 1]
            /\ \A m \in 1 .. (Len(order) + 1) - 1 : f[m-1] = order'[m]
        BY <2>1, <3>8, <3>9, <3>11
      <4>2. QED
        BY <3>9, <4>1
    <3>12. i \in Int /\ f[Len(order)] \in Int
      BY <3>4 DEF Node
    <3>13. QED
      BY <3>7, <3>10, <3>11, <3>12
  <2>4. QED
    BY <1>2, <2>2, <2>3 DEF Least
<1>3. ASSUME NEW i \in Node, Emit(i) PROVE Least'
  BY <1>0, <1>1, <1>2, <1>3 DEF Least
<1>4. CASE order' = order
  BY <1>0, <1>1, <1>4 DEF Least
<1>5. QED
  BY <1>3, <1>4 DEF Next, vars, CheckInputs, CheckOutputs, BuildDeps, Return

(* It is, at every turn.                                                   *)
LEMMA LeastInv == Spec => []Least
<1>1. Init => Least
  BY DEF Init, Least
<1>2. QED
  BY <1>1, LeastStep, CoreInv, GraphType, PTL DEF Spec

(* Kahn's algorithm with the lowest ready index is stable: its result is   *)
(* the least topological order, whatever the graph (ir.rs:160-161).        *)
THEOREM SortIsStable == Spec => []Stable
<1>1. Core /\ Least /\ Returned /\ graph \in Graphs => Stable
  <2> SUFFICES ASSUME Core, Least, Returned, graph \in Graphs, phase = "done",
                      NEW f \in [Node -> Node], IsTopological(f)
               PROVE  \/ \A k \in Node : f[k] = order[k+1]
                      \/ \E k \in Node :
                           /\ order[k+1] < f[k]
                           /\ \A m \in 0 .. k-1 : f[m] = order[m+1]
    BY DEF Stable
  <2>1. graph.n \in Nat /\ Len(order) \in Nat /\ Len(order) = graph.n
    BY Pigeonhole DEF Core, TypeOK, Returned
  <2>2. \A k \in Node : k+1 \in 1 .. Len(order) /\ (k+1)-1 = k
    BY <2>1 DEF Node
  <2>3. CASE \A k \in 1 .. Len(order) : f[k-1] = order[k]
    BY <2>2, <2>3
  <2>4. CASE \E k \in 1 .. Len(order) :
               /\ order[k] < f[k-1]
               /\ \A m \in 1 .. k-1 : f[m-1] = order[m]
    <3>1. PICK k \in 1 .. Len(order) :
               /\ order[k] < f[k-1]
               /\ \A m \in 1 .. k-1 : f[m-1] = order[m]
      BY <2>4
    <3>2. k-1 \in Node /\ (k-1)+1 = k
      BY <2>1 DEF Node
    <3>3. \A m \in 0 .. (k-1)-1 : f[m] = order[m+1]
      <4>1. TAKE m \in 0 .. (k-1)-1
      <4>2. m+1 \in 1 .. k-1 /\ (m+1)-1 = m
        OBVIOUS
      <4>3. QED
        BY <3>1, <4>2
    <3>4. QED
      BY <3>1, <3>2, <3>3
  <2>5. QED
    BY <2>3, <2>4 DEF Least
<1>2. QED
  BY <1>1, CoreInv, LeastInv, ReturnedInv, GraphType, PTL

-----------------------------------------------------------------------------
(* Every step of the sort is a step of the abstract walk or leaves it      *)
(* alone: each emitted index is a node firing after its producers.         *)
THEOREM SortImplementsDataflow == Spec => ImplementsDataflow
<1>1. Init => Walk!Init
  <2>1. Init => order = <<>>
    BY DEF Init
  <2>2. QED
    BY <2>1 DEF Walk!Init, Emitted
<1>2. Core /\ [Next]_vars => [Walk!Next]_<<[i \in Node |-> Deps(i)], Emitted>>
  <2> SUFFICES ASSUME Core, [Next]_vars
               PROVE  [Walk!Next]_<<[i \in Node |-> Deps(i)], Emitted>>
    OBVIOUS
  <2>0. Node' = Node /\ [i \in Node |-> Deps(i)]' = [i \in Node |-> Deps(i)]
    BY GraphFixed
  <2>1. ASSUME NEW i \in Node, Emit(i) PROVE Walk!Fire(i)
    <3>1. Emitted' = Emitted \cup {i}
      BY <2>1, EmitAppends, GraphFixed DEF Emit, Core
    <3>2. i \notin Emitted /\ Deps(i) \subseteq Emitted
      BY <2>1 DEF Emit, LoopInv, Core
    <3>3. QED
      BY <2>0, <3>1, <3>2 DEF Walk!Fire
  <2>2. ASSUME NEW i \in Node, Emit(i) PROVE Walk!Next
    BY <2>1, <2>2 DEF Walk!Next
  <2>3. CASE order' = order
    BY <2>0, <2>3 DEF Emitted
  <2>4. QED
    BY <2>2, <2>3 DEF Next, vars, CheckInputs, CheckOutputs, BuildDeps, Return
<1>3. QED
  BY <1>1, <1>2, CoreInv, PTL DEF Spec, ImplementsDataflow, Walk!Spec

-----------------------------------------------------------------------------
(* Names. *)

(* What the two validations leave behind: no offending node, or the first. *)
Validated ==
  /\ phase \notin {"inputs", "undefined"} => \A i \in Node : ~ ReadsUndefined(i)
  /\ phase = "undefined" =>
       /\ blame = FirstOf({i \in Node : ReadsUndefined(i)})
       /\ blame # {}
  /\ phase \notin {"inputs", "outputs", "undefined", "duplicate"} =>
       \A i \in Node : ~ Rewrites(i)
  /\ phase = "duplicate" =>
       /\ blame = FirstOf({i \in Node : Rewrites(i)})
       /\ blame # {}

(* The first of a set of nodes is one node, if there is any.               *)
LEMMA FirstOfNodes ==
  ASSUME NEW S, S \subseteq Nat
  PROVE  /\ FirstOf(S) = {} => S = {}
         /\ FirstOf(S) # {} => \E i \in S : FirstOf(S) = {i}
<1>1. S # {} => \E i \in S : \A j \in S : i <= j
  BY LeastNatural
<1>2. \A i, j \in FirstOf(S) : i \in S /\ i = j
  BY DEF FirstOf
<1>3. QED
  BY <1>1, <1>2 DEF FirstOf

(* Nodes are indices.                                                      *)
LEMMA NodesAreNaturals == graph \in Graphs => Node \subseteq Nat
BY GraphAssumption DEF Node

(* A validation that finds nothing finds that there is nothing.            *)
LEMMA ValidatedStep ==
  ASSUME Validated, graph \in Graphs, [Next]_vars
  PROVE  Validated'
<1>0. graph' = graph /\ Node' = Node
  BY GraphFixed
<1>1. /\ \A i : ReadsUndefined(i)' <=> ReadsUndefined(i)
      /\ \A i : Rewrites(i)' <=> Rewrites(i)
  BY <1>0 DEF ReadsUndefined, Rewrites, AllProduced, Produced
<1>2. CASE CheckInputs
  <2> DEFINE S == {i \in Node : ReadsUndefined(i)}
  <2>1. phase = "inputs" /\ blame' = FirstOf(S)
        /\ phase' = IF blame' = {} THEN "outputs" ELSE "undefined"
    BY <1>2 DEF CheckInputs
  <2>2. blame' = {} => S = {}
    BY <2>1, NodesAreNaturals, FirstOfNodes
  <2>3. {i \in Node : ReadsUndefined(i)}' = S
    BY <1>0, <1>1
  <2>4. CASE blame' = {}
    BY <1>0, <1>1, <2>1, <2>2, <2>4 DEF Validated
  <2>5. CASE blame' # {}
    BY <1>0, <1>1, <2>1, <2>3, <2>5 DEF Validated, FirstOf
  <2>6. QED
    BY <2>4, <2>5
<1>3. CASE CheckOutputs
  <2> DEFINE S == {i \in Node : Rewrites(i)}
  <2>1. phase = "outputs" /\ blame' = FirstOf(S)
        /\ phase' = IF blame' = {} THEN "build" ELSE "duplicate"
    BY <1>3 DEF CheckOutputs
  <2>2. blame' = {} => S = {}
    BY <2>1, NodesAreNaturals, FirstOfNodes
  <2>3. {i \in Node : Rewrites(i)}' = S
    BY <1>0, <1>1
  <2>4. CASE blame' = {}
    BY <1>0, <1>1, <2>1, <2>2, <2>4 DEF Validated
  <2>5. CASE blame' # {}
    BY <1>0, <1>1, <2>1, <2>3, <2>5 DEF Validated, FirstOf
  <2>6. QED
    BY <2>4, <2>5
<1>4. CASE phase' \in {"sort", "cycle", "done"} /\ phase \in {"build", "sort"}
  BY <1>0, <1>1, <1>4 DEF Validated
<1>5. CASE UNCHANGED vars
  BY <1>0, <1>1, <1>5 DEF Validated, vars, FirstOf
<1>6. QED
  BY <1>2, <1>3, <1>4, <1>5 DEF Next, BuildDeps, Emit, Return

(* What the validation loops have passed holds from then on.               *)
LEMMA ValidatedInv == Spec => []Validated
<1>1. Init => Validated
  BY DEF Init, Validated
<1>2. QED
  BY <1>1, ValidatedStep, GraphType, PTL DEF Spec

-----------------------------------------------------------------------------
(* A place in the output lists is where a tensor is defined.               *)
LEMMA Slots ==
  ASSUME NEW t, NEW s
  PROVE  s \in WriteSlots(t) <=>
           \E i \in Node : \E k \in 1 .. Len(graph.writes[i]) :
             graph.writes[i][k] = t /\ s = <<i, k>>
BY DEF WriteSlots

(* There are finitely many.                                                *)
LEMMA SlotsFinite ==
  ASSUME graph \in Graphs, NEW t
  PROVE  IsFiniteSet(WriteSlots(t))
<1> DEFINE places(i) == {i} \X {k \in 1 .. Len(graph.writes[i]) : graph.writes[i][k] = t}
           all == {places(i) : i \in Node}
           f == [i \in Node |-> places(i)]
<1>1. graph.n \in Nat /\ \A i \in Node : graph.writes[i] \in Seq(Tensor)
  BY GraphAssumption DEF Node
<1>2. IsFiniteSet(Node)
  BY <1>1, FS_Interval DEF Node
<1>3. ASSUME NEW i \in Node PROVE IsFiniteSet(places(i))
  <2>1. Len(graph.writes[i]) \in Nat
    BY <1>1
  <2>2. IsFiniteSet(1 .. Len(graph.writes[i]))
    BY <2>1, FS_Interval
  <2>3. IsFiniteSet({k \in 1 .. Len(graph.writes[i]) : graph.writes[i][k] = t})
    BY <2>2, FS_Subset
  <2>4. IsFiniteSet({i})
    BY FS_Singleton
  <2>5. QED
    BY <2>3, <2>4, FS_Product
<1> HIDE DEF places
<1>4. f \in Surjection(Node, all)
  BY DEF Surjection
<1>5. IsFiniteSet(all)
  BY <1>2, <1>4, FS_Surjection
<1>6. IsFiniteSet(UNION all)
  BY <1>3, <1>5, FS_UNION
<1>7. QED
  BY <1>6 DEF WriteSlots, places

(* A set of two has two elements.                                          *)
LEMMA TwoElements ==
  ASSUME NEW a, NEW b, a # b
  PROVE  IsFiniteSet({a} \cup {b}) /\ Cardinality({a} \cup {b}) = 2
<1>1. IsFiniteSet({a}) /\ Cardinality({a}) = 1
  BY FS_Singleton
<1>2. b \notin {a}
  OBVIOUS
<1>3. QED
  BY <1>1, <1>2, FS_AddElement

(* Once sorting starts every read resolves to exactly one definition, and  *)
(* a validation error names a node that really breaks that, whatever the   *)
(* graph (ir.rs:186, 199).                                                 *)
THEOREM NamesAreResolved == Spec => []NamesResolved
<1> DEFINE defined == \A i \in Node : \A t \in graph.reads[i] :
                        t \in graph.inputs \/ WriteSlots(t) # {}
           limit(t) == IF t \in graph.inputs THEN 0 ELSE 1
           unique  == \A t \in Tensor : Cardinality(WriteSlots(t)) <= limit(t)
<1>1. ASSUME TypeOK, Validated, graph \in Graphs
      PROVE  NamesResolved
  <2>1. /\ Node \subseteq Nat
        /\ \A i \in Node : graph.writes[i] \in Seq(Tensor)
    BY <1>1, NodesAreNaturals, GraphAssumption DEF Node
  <2>2. \A t : t \in AllProduced <=> WriteSlots(t) # {}
    <3>1. \A t : t \in AllProduced <=>
            \E i \in Node : \E k \in 1 .. Len(graph.writes[i]) : graph.writes[i][k] = t
      BY DEF AllProduced, Produced
    <3>2. ASSUME NEW t, NEW i \in Node, NEW k \in 1 .. Len(graph.writes[i]), graph.writes[i][k] = t
          PROVE  <<i, k>> \in WriteSlots(t)
      BY <3>2, Slots
    <3>3. \A t, s : s \in WriteSlots(t) =>
            \E i \in Node : \E k \in 1 .. Len(graph.writes[i]) : graph.writes[i][k] = t
      BY Slots
    <3>4. QED
      BY <3>1, <3>2, <3>3
  <2>3. (\A i \in Node : ~ ReadsUndefined(i)) => defined
    BY <2>2 DEF ReadsUndefined
  <2>4. ASSUME NEW i \in Node, ReadsUndefined(i)
        PROVE  ~ defined
    BY <2>2, <2>4 DEF ReadsUndefined
  <2>5. ASSUME \A i \in Node : ~ Rewrites(i), NEW t \in Tensor
        PROVE  Cardinality(WriteSlots(t)) <= limit(t)
    <3>1. ASSUME NEW s \in WriteSlots(t) PROVE WriteSlots(t) = {s} /\ t \notin graph.inputs
      <4>1. PICK i \in Node : \E k \in 1 .. Len(graph.writes[i]) :
              graph.writes[i][k] = t /\ s = <<i, k>>
        BY <3>1, Slots
      <4>2. PICK k \in 1 .. Len(graph.writes[i]) : graph.writes[i][k] = t /\ s = <<i, k>>
        BY <4>1
      <4>3. t \notin graph.inputs
        BY <2>5, <4>2 DEF Rewrites
      <4>4. ASSUME NEW r \in WriteSlots(t) PROVE r = s
        <5>1. PICK j \in Node : \E m \in 1 .. Len(graph.writes[j]) :
                graph.writes[j][m] = t /\ r = <<j, m>>
          BY <4>4, Slots
        <5>2. PICK m \in 1 .. Len(graph.writes[j]) : graph.writes[j][m] = t /\ r = <<j, m>>
          BY <5>1
        <5>3. i \in Nat /\ j \in Nat /\ k \in Nat /\ m \in Nat
          <6>1. i \in Nat /\ j \in Nat
            BY <2>1, Zenon
          <6>2. k \in Nat /\ m \in Nat
            OBVIOUS
          <6>3. QED
            BY <6>1, <6>2
        <5>4. t \in Produced(i) /\ t \in Produced(j)
          BY <4>2, <5>2 DEF Produced
        <5>5. ~ i < j
          BY <2>5, <5>2, <5>3, <5>4 DEF Rewrites
        <5>6. ~ j < i
          BY <2>5, <4>2, <5>3, <5>4 DEF Rewrites
        <5>7. i = j
          BY <5>3, <5>5, <5>6
        <5>8. ~ k < m /\ ~ m < k
          BY <2>5, <4>2, <5>2, <5>3, <5>7 DEF Rewrites
        <5>9. QED
          BY <4>2, <5>2, <5>3, <5>7, <5>8
      <4>5. QED
        BY <4>3, <4>4
    <3>2. CASE WriteSlots(t) = {}
      BY <3>2, FS_EmptySet
    <3>3. CASE WriteSlots(t) # {}
      <4>1. PICK s : WriteSlots(t) = {s} /\ t \notin graph.inputs
        BY <3>1, <3>3
      <4>2. Cardinality(WriteSlots(t)) = 1
        BY <4>1, FS_Singleton
      <4>3. QED
        BY <4>1, <4>2
    <3>4. QED
      BY <3>2, <3>3
  <2>6. ASSUME NEW i \in Node, Rewrites(i)
        PROVE  ~ unique
    <3>1. PICK k \in 1 .. Len(graph.writes[i]) :
            LET t == graph.writes[i][k]
            IN  \/ t \in graph.inputs
                \/ \E j \in 0 .. i-1 : t \in Produced(j)
                \/ \E m \in 1 .. k-1 : graph.writes[i][m] = t
      BY <2>6 DEF Rewrites
    <3> DEFINE t == graph.writes[i][k]
    <3>2. i \in Nat /\ Len(graph.writes[i]) \in Nat /\ t \in Tensor
      BY <2>1
    <3>3. <<i, k>> \in WriteSlots(t)
      BY Slots
    <3>4. IsFiniteSet(WriteSlots(t))
      BY <1>1, SlotsFinite
    <3>5. CASE t \in graph.inputs
      <4>1. Cardinality(WriteSlots(t)) # 0 /\ Cardinality(WriteSlots(t)) \in Nat
        BY <3>3, <3>4, FS_EmptySet, FS_CardinalityType
      <4>2. limit(t) = 0
        BY <3>5
      <4> HIDE DEF t
      <4>3. QED
        BY <3>2, <4>1, <4>2
    <3>6. CASE \E r \in WriteSlots(t) : r # <<i, k>>
      <4>1. PICK r \in WriteSlots(t) : r # <<i, k>>
        BY <3>6
      <4>2. IsFiniteSet({r} \cup {<<i, k>>}) /\ Cardinality({r} \cup {<<i, k>>}) = 2
        BY <4>1, TwoElements
      <4>3. {r} \cup {<<i, k>>} \in SUBSET WriteSlots(t)
        BY <3>3, <4>1
      <4>4. Cardinality({r} \cup {<<i, k>>}) <= Cardinality(WriteSlots(t))
        BY <3>4, <4>3, FS_Subset
      <4>5. Cardinality(WriteSlots(t)) \in Nat /\ limit(t) \in {0, 1}
        BY <3>4, FS_CardinalityType
      <4>6. ~ Cardinality(WriteSlots(t)) <= limit(t)
        BY <4>2, <4>4, <4>5
      <4> HIDE DEF t
      <4>7. QED
        BY <3>2, <4>6
    <3>7. CASE \E j \in 0 .. i-1 : t \in Produced(j)
      <4>1. PICK j \in 0 .. i-1 : t \in Produced(j)
        BY <3>7
      <4>2. j \in Node /\ j # i
        BY <1>1, <3>2, GraphAssumption DEF Node
      <4>3. PICK m \in 1 .. Len(graph.writes[j]) : graph.writes[j][m] = t
        BY <4>1 DEF Produced
      <4>4. <<j, m>> \in WriteSlots(t)
        BY <4>2, <4>3, Slots
      <4>5. QED
        BY <3>6, <4>2, <4>4
    <3>8. CASE \E m \in 1 .. k-1 : graph.writes[i][m] = t
      <4>1. PICK m \in 1 .. k-1 : graph.writes[i][m] = t
        BY <3>8
      <4>2. m \in 1 .. Len(graph.writes[i]) /\ m # k
        BY <3>2, <4>1
      <4>3. <<i, m>> \in WriteSlots(t)
        BY <4>1, <4>2, Slots
      <4>4. QED
        BY <3>6, <4>2, <4>3
    <3>9. QED
      BY <3>1, <3>5, <3>7, <3>8
  <2>7. phase \in {"build", "sort", "cycle", "done"} => defined /\ unique
    BY <1>1, <2>3, <2>5 DEF Validated
  <2>8. phase = "undefined" => ~ defined /\ Cardinality(blame) = 1
    <3>1. CASE phase = "undefined"
      <4> DEFINE S == {i \in Node : ReadsUndefined(i)}
      <4>1. S \subseteq Nat /\ blame = FirstOf(S) /\ blame # {}
        BY <1>1, <2>1, <3>1 DEF Validated
      <4>2. PICK i \in S : blame = {i}
        BY <4>1, FirstOfNodes
      <4>3. QED
        BY <2>4, <4>2, FS_Singleton
    <3>2. QED
      BY <3>1
  <2>9. phase = "duplicate" => ~ unique /\ Cardinality(blame) = 1
    <3>1. CASE phase = "duplicate"
      <4> DEFINE S == {i \in Node : Rewrites(i)}
      <4>1. S \subseteq Nat /\ blame = FirstOf(S) /\ blame # {}
        BY <1>1, <2>1, <3>1 DEF Validated
      <4>2. PICK i \in S : blame = {i}
        BY <4>1, FirstOfNodes
      <4>3. QED
        BY <2>6, <4>2, FS_Singleton
    <3>2. QED
      BY <3>1
  <2>10. QED
    BY <2>7, <2>8, <2>9 DEF NamesResolved
<1>2. QED
  BY <1>1, TypeCorrect, ValidatedInv, GraphType, PTL
=============================================================================
