------------------------------ MODULE Descent -------------------------------
(***************************************************************************)
(* What a search for a cheaper plan promises, whatever its order: it moves *)
(* only from a plan to one that asks for a bit less of one thing, is still *)
(* good enough measured against the first, and costs no more; and it ends, *)
(* with or without a first plan.                                           *)
(***************************************************************************)
EXTENDS Integers

CONSTANTS Candidates,       \* records of a plan, its blocks and its accuracy
          None,             \* not one of them
          Lower(_),         \* the plans one bit below a plan
          Tolerance         \* how much accuracy may be lost in all

VARIABLES base,             \* the candidate the search began with
          best,             \* the one it would return
          over

vars == <<base, best, over>>

Init == base = None /\ best = None /\ over = FALSE

Begin ==
  /\ ~ over /\ base = None
  /\ base' \in Candidates
  /\ best' = base'
  /\ UNCHANGED over

Improve ==
  /\ ~ over /\ base # None
  /\ best' \in Candidates
  /\ best'.plan \in Lower(best.plan)
  /\ best'.accuracy >= base.accuracy - Tolerance
  /\ best'.blocks <= best.blocks
  /\ UNCHANGED <<base, over>>

Stop == ~ over /\ over' = TRUE /\ UNCHANGED <<base, best>>

Next == Begin \/ Improve \/ Stop

Descends == Init /\ [][Next]_vars

Spec == Descends /\ <>over
=============================================================================
