------------------------------ MODULE Dataflow ------------------------------
(***************************************************************************)
(* What every walk over an IR graph promises, whoever does it: a node      *)
(* fires at most once, and only when all the nodes it depends on have      *)
(* fired.  The sorter (module TopoOrder) implements this specification     *)
(* with the order it emits.                                                *)
(***************************************************************************)
VARIABLES deps,        \* deps[i]: the nodes that produce what node i reads
          fired        \* the nodes that have fired

Fire(i) ==
  /\ i \notin fired
  /\ deps[i] \subseteq fired
  /\ fired' = fired \cup {i}
  /\ UNCHANGED deps

Init == fired = {}

Next == \E i \in DOMAIN deps : Fire(i)

Spec == Init /\ [][Next]_<<deps, fired>>
=============================================================================
