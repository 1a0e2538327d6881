------------------------------ MODULE TreeEval ------------------------------
(***************************************************************************)
(* Tree ensembles, compiled (Trees) and then evaluated as any other model  *)
(* (GraphEval).  Such a model carries the ensemble it came from.           *)
(***************************************************************************)
EXTENDS GraphEval, Trees

IsEnsemble(m) == "ensemble" \in DOMAIN m

(* Oblivious evaluation is the trees' own: on every row of codes, the      *)
(* logits that come back are the quantized weights of the one leaf each    *)
(* tree sends the row to by its library's rule - ties, negative and        *)
(* unreachable thresholds, and trees that are a leaf included - and a      *)
(* compiled ensemble always gets that far (adapters/trees.py:174, :210).   *)
EnsembleVotes ==
  IsEnsemble(model) =>
    /\ phase \notin Ended \ {"done"}
    /\ phase = "done" => out["logits"] = Votes(model.ensemble, row)
=============================================================================
