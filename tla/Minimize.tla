------------------------------ MODULE Minimize ------------------------------
(***************************************************************************)
(* minimize_bit_widths (python/penumbra/quantization/minimize.py): descent *)
(* over the knobs of a bit plan, one coordinate at a time, each lowered    *)
(* bit by bit until a candidate is turned down, in rounds, until a round   *)
(* accepts nothing.  Building and scoring a plan is the caller's: any      *)
(* outcome, but the same one for the same plan.                            *)
(***************************************************************************)
EXTENDS Integers, SequencesExt

CONSTANTS Calls,                        \* records of start, knobs and maxRounds
          Blocks, Accuracies,           \* what a build may come to
          Tolerance,                    \* accuracy_tolerance
          MinBits                       \* the least value of each knob

Allowed == {"max_mult_bits", "input_bits", "weight_bits"}

Plans == [inputBits : Nat, weightBits : Seq(Nat), maxMultBits : Nat]

ASSUME CallAssumption ==
  /\ \A c \in Calls : c \in [start : Plans, knobs : Seq(STRING), maxRounds : Nat]
  /\ Blocks \subseteq Nat /\ Accuracies \subseteq Int /\ Tolerance \in Nat
  /\ MinBits \in [Allowed -> Nat]

VARIABLES call,         \* the arguments
          phase,        \* where the call is, or how it ended
          built,        \* what build has answered, plan by plan
          best,
          trace,
          round, coord, \* the loop variables; coord indexes Coordinates
          accepted      \* accepted_in_round

vars == <<call, phase, built, best, trace, round, coord, accepted>>

-----------------------------------------------------------------------------
(* A coordinate is a knob and, for the weights, a layer. *)
CoordinatesOf(plan) ==
  {<<"max_mult_bits", 0>>, <<"input_bits", 0>>} \cup ({"weight_bits"} \X DOMAIN plan.weightBits)

Coordinates ==
  FlattenSeq([k \in DOMAIN call.knobs |->
    IF call.knobs[k] = "weight_bits"
    THEN [layer \in DOMAIN call.start.weightBits |-> <<"weight_bits", layer>>]
    ELSE <<<<call.knobs[k], 0>>>>])

Level(plan, c) ==
  CASE c[1] = "max_mult_bits" -> plan.maxMultBits
    [] c[1] = "input_bits"    -> plan.inputBits
    [] c[1] = "weight_bits"   -> plan.weightBits[c[2]]

Lowered(plan, c) ==
  CASE c[1] = "max_mult_bits" -> [plan EXCEPT !.maxMultBits = @ - 1]
    [] c[1] = "input_bits"    -> [plan EXCEPT !.inputBits = @ - 1]
    [] c[1] = "weight_bits"   -> [plan EXCEPT !.weightBits[c[2]] = @ - 1]

(* Seeded fault: one bit too far. *)
LowerableAtFloor(plan, c) == Level(plan, c) >= MinBits[c[1]]

Lowerable(plan, c) == Level(plan, c) > MinBits[c[1]]

(* Seeded fault: each step may lose the whole tolerance again. *)
FloorOfBest == best.accuracy - Tolerance

Floor == trace[1].accuracy - Tolerance

Failed == [blocks |-> -1, accuracy |-> 0]

Outcomes(plan) ==
  IF plan \in DOMAIN built THEN {built[plan]}
  ELSE [blocks : Blocks, accuracy : Accuracies] \cup {Failed}

Result(plan, outcome, reason) ==
  [plan |-> plan, blocks |-> outcome.blocks, accuracy |-> outcome.accuracy, reason |-> reason]

-----------------------------------------------------------------------------
NoResult == [reason |-> "none"]

(* What has been built, with one more answer. *)
Answered(plan, outcome) ==
  [p \in DOMAIN built \cup {plan} |-> IF p = plan THEN outcome ELSE built[p]]

Init ==
  /\ call \in Calls
  /\ phase = "start"
  /\ built = <<>>
  /\ best = NoResult
  /\ trace = <<>>
  /\ round = 0 /\ coord = 0 /\ accepted = FALSE

RefuseKnob ==
  /\ phase = "start"
  /\ ~ ToSet(call.knobs) \subseteq Allowed
  /\ phase' = "raised"
  /\ UNCHANGED <<call, built, best, trace, round, coord, accepted>>

(* A first build that fails is the caller's exception. *)
Baseline ==
  /\ phase = "start"
  /\ ToSet(call.knobs) \subseteq Allowed
  /\ \E outcome \in Outcomes(call.start) :
       LET baseline == Result(call.start, outcome, "baseline")
       IN  /\ built' = Answered(call.start, outcome)
           /\ IF outcome = Failed
              THEN phase' = "raised" /\ UNCHANGED <<best, trace>>
              ELSE /\ best' = baseline
                   /\ trace' = <<baseline>>
                   /\ phase' = "descend"
  /\ UNCHANGED <<call, round, coord, accepted>>

AtCoordinate == phase = "descend" /\ coord \in DOMAIN Coordinates

(* The coordinate is as low as it may be. *)
SkipCoordinate ==
  /\ AtCoordinate
  /\ ~ Lowerable(best.plan, Coordinates[coord])
  /\ coord' = coord + 1
  /\ UNCHANGED <<call, phase, built, best, trace, round, accepted>>

(* Why a candidate is turned down; "accepted" if it is not. *)
Verdict(outcome) ==
  IF outcome = Failed THEN "build failed"
  ELSE IF outcome.accuracy < Floor THEN "accuracy floor"
  ELSE IF outcome.blocks > best.blocks THEN "num_blocks regressed"
  ELSE "accepted"

(* Seeded fault: the round does not hear of it. *)
TakeQuietly(candidate, outcome) ==
  LET result == Result(candidate, outcome, "accepted")
  IN  best' = result /\ trace' = Append(trace, result) /\ UNCHANGED <<accepted, coord>>

Take(candidate, outcome) ==
  LET result == Result(candidate, outcome, "accepted")
  IN  /\ best' = result
      /\ trace' = Append(trace, result)
      /\ accepted' = TRUE
      /\ UNCHANGED coord

(* A failed build is listed with the best plan's blocks and no accuracy. *)
TurnDown(candidate, outcome) ==
  LET shown == IF outcome = Failed THEN [blocks |-> best.blocks, accuracy |-> 0] ELSE outcome
  IN  /\ trace' = Append(trace, Result(candidate, shown, Verdict(outcome)))
      /\ coord' = coord + 1
      /\ UNCHANGED <<best, accepted>>

(* One turn of the inner loop that builds. *)
Propose ==
  /\ AtCoordinate
  /\ Lowerable(best.plan, Coordinates[coord])
  /\ LET candidate == Lowered(best.plan, Coordinates[coord])
     IN  \E outcome \in Outcomes(candidate) :
           /\ built' = Answered(candidate, outcome)
           /\ IF Verdict(outcome) = "accepted" THEN Take(candidate, outcome)
              ELSE TurnDown(candidate, outcome)
  /\ UNCHANGED <<call, phase, round>>

(* The head of the outer loop, before the first round and after each. *)
NextRound ==
  /\ phase = "descend"
  /\ coord \notin DOMAIN Coordinates
  /\ IF round < call.maxRounds /\ (round = 0 \/ accepted)
     THEN round' = round + 1 /\ coord' = 1 /\ accepted' = FALSE /\ UNCHANGED phase
     ELSE phase' = "done" /\ UNCHANGED <<round, coord, accepted>>
  /\ UNCHANGED <<call, built, best, trace>>

Ended == phase \in {"done", "raised"}

Returned == Ended /\ UNCHANGED vars

Next == RefuseKnob \/ Baseline \/ SkipCoordinate \/ Propose \/ NextRound \/ Returned

Spec == Init /\ [][Next]_vars /\ WF_vars(Next)

-----------------------------------------------------------------------------
Taken(result) == result.reason \in {"baseline", "accepted"}

(* The plan to return is the last one taken, and asks for no less of a     *)
(* knob than its least value, unless the caller's did.                     *)
TypeOK ==
  /\ phase \in {"start", "descend", "done", "raised"}
  /\ round \in Nat /\ coord \in 0 .. Len(Coordinates) + 1 /\ accepted \in BOOLEAN
  /\ phase \in {"descend", "done"} =>
       /\ \E i \in DOMAIN trace :
            /\ best = trace[i] /\ Taken(best)
            /\ \A j \in DOMAIN trace : j > i => ~ Taken(trace[j])
       /\ \A i \in DOMAIN Coordinates :
            LET c == Coordinates[i] IN
              Level(best.plan, c) >= MinBits[c[1]] \/ Level(best.plan, c) = Level(call.start, c)

(* A search that stops before its rounds are used up stops at a local      *)
(* minimum: each plan one bit below the returned one has been built, and   *)
(* failed, lost too much accuracy or asked for more blocks, also one of a  *)
(* coordinate that was last tried before bits were taken from another      *)
(* (minimize.py:206).                                                      *)
LocalMinimum ==
  phase = "done" /\ round > 0 /\ ~ accepted =>
    \A i \in DOMAIN Coordinates :
      LET c == Coordinates[i]
          below == Lowered(best.plan, c)
      IN  Lowerable(best.plan, c) =>
            /\ below \in DOMAIN built
            /\ \/ built[below] = Failed
               \/ built[below].accuracy < Floor
               \/ built[below].blocks > best.blocks

-----------------------------------------------------------------------------
OneBitBelow(plan) == {Lowered(plan, c) : c \in CoordinatesOf(plan)}

NoCandidate == [plan |-> <<>>]

Candidate(result) ==
  IF result = NoResult THEN NoCandidate
  ELSE [plan |-> result.plan, blocks |-> result.blocks, accuracy |-> result.accuracy]

Search == INSTANCE Descent WITH
  Candidates <- [plan : Plans, blocks : Blocks, accuracy : Accuracies],
  None <- NoCandidate,
  Lower <- OneBitBelow,
  base <- Candidate(IF trace = <<>> THEN NoResult ELSE trace[1]),
  best <- Candidate(best),
  over <- Ended

(* The search is a descent: losses are measured against the first plan and *)
(* do not add up over steps, blocks never rise, a plan that was turned     *)
(* down is never the base of the next, and whatever the builds answer it   *)
(* ends (minimize.py:104, 182).                                            *)
ImplementsDescent == Search!Spec
=============================================================================
