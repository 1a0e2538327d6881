--------------------------- MODULE MinimizeProofs ---------------------------
(***************************************************************************)
(* Proofs about Minimize: its types, that a search that ends by itself     *)
(* ends at a local minimum, and that every step of it is one of Descent.   *)
(***************************************************************************)
EXTENDS Minimize, ListLemmas

Answers == [blocks : Blocks, accuracy : Accuracies] \cup {Failed}

Reasons ==
  {"baseline", "accepted", "build failed", "accuracy floor", "num_blocks regressed"}

Results == [plan : Plans, blocks : Int, accuracy : Int, reason : Reasons]

Searched == phase \in {"descend", "done"}

-----------------------------------------------------------------------------
(* The inductive invariant. *)

ValuesInv ==
  /\ call \in Calls
  /\ phase \in {"start", "descend", "done", "raised"}
  /\ \A p \in DOMAIN built : built[p] \in Answers
  /\ trace \in Seq(Results)
  /\ round \in Nat /\ coord \in 0 .. Len(Coordinates) + 1 /\ accepted \in BOOLEAN

(* Nothing has been chosen before the first build, or if it failed. *)
NothingYet ==
  /\ ~ Searched => best = NoResult /\ trace = <<>>
  /\ phase = "start" => round = 0 /\ coord = 0 /\ accepted = FALSE

(* The plan to return was built, well enough, and has the layers of the first. *)
BestInv ==
  Searched =>
    /\ ToSet(call.knobs) \subseteq Allowed
    /\ best \in Results /\ best.blocks \in Blocks /\ best.accuracy \in Accuracies
    /\ DOMAIN best.plan.weightBits = DOMAIN call.start.weightBits
    /\ \A c \in CoordinatesOf(call.start) :
         Level(best.plan, c) >= MinBits[c[1]] \/ Level(best.plan, c) = Level(call.start, c)

TraceInv ==
  Searched =>
    /\ trace # <<>> /\ trace[1].blocks \in Blocks /\ trace[1].accuracy \in Accuracies
    /\ \E i \in DOMAIN trace :
         /\ best = trace[i] /\ Taken(best)
         /\ \A j \in DOMAIN trace : j > i => ~ Taken(trace[j])

(* A coordinate of the best plan from which no bit can be taken. *)
Tried(c) ==
  Lowerable(best.plan, c) =>
    /\ Lowered(best.plan, c) \in DOMAIN built
    /\ \/ built[Lowered(best.plan, c)] = Failed
       \/ built[Lowered(best.plan, c)].accuracy < Floor
       \/ built[Lowered(best.plan, c)].blocks > best.blocks

(* As long as a round takes nothing, it leaves no coordinate behind untried. *)
RoundInv ==
  /\ Searched => (round = 0 <=> coord = 0)
  /\ phase = "done" => coord \notin DOMAIN Coordinates
  /\ Searched /\ ~ accepted => \A i \in DOMAIN Coordinates : i < coord => Tried(Coordinates[i])

SearchInv == ValuesInv /\ NothingYet /\ BestInv /\ TraceInv /\ RoundInv

-----------------------------------------------------------------------------
(* The coordinates of a call.                                              *)

(* What the assumption on the constants says of one call.                  *)
LEMMA CallType ==
  ASSUME call \in Calls
  PROVE  /\ call.start \in Plans
         /\ call.start.weightBits \in Seq(Nat)
         /\ call.knobs \in Seq(STRING)
         /\ call.maxRounds \in Nat
<1>1. call \in [start : Plans, knobs : Seq(STRING), maxRounds : Nat]
  BY CallAssumption
<1>2. QED
  BY <1>1 DEF Plans

(* The constants that bound what a build may come to.                      *)
LEMMA AnswerType ==
  /\ Blocks \subseteq Nat /\ Accuracies \subseteq Int /\ Tolerance \in Nat
  /\ MinBits \in [Allowed -> Nat]
  /\ \A b \in Blocks : b \in Nat
  /\ \A a \in Accuracies : a \in Int
BY CallAssumption

(* The list of coordinates lists coordinates of the call's first plan, if  *)
(* every knob of the call is one that there is.                            *)
LEMMA CoordinatesType ==
  ASSUME call \in Calls
  PROVE  /\ Len(Coordinates) \in Nat
         /\ DOMAIN Coordinates = 1 .. Len(Coordinates)
         /\ ToSet(call.knobs) \subseteq Allowed =>
              \A i \in DOMAIN Coordinates : Coordinates[i] \in CoordinatesOf(call.start)
<1> DEFINE S == CoordinatesOf(call.start)
           A == ({"weight_bits"} \cup {call.knobs[k] : k \in DOMAIN call.knobs}) \X Nat
           knob(k) == IF call.knobs[k] = "weight_bits"
                      THEN [layer \in DOMAIN call.start.weightBits |-> <<"weight_bits", layer>>]
                      ELSE <<<<call.knobs[k], 0>>>>
           ss == [k \in DOMAIN call.knobs |-> knob(k)]
<1>1. Coordinates = FlattenSeq(ss)
  BY DEF Coordinates
<1>2. call.knobs \in Seq(STRING) /\ call.start.weightBits \in Seq(Nat)
  BY CallType
<1>4. DOMAIN call.knobs = 1 .. Len(call.knobs) /\ Len(call.knobs) \in Nat
  BY <1>2
<1>5. /\ DOMAIN call.start.weightBits = 1 .. Len(call.start.weightBits)
      /\ Len(call.start.weightBits) \in Nat
  BY <1>2
<1>6. ASSUME NEW k \in DOMAIN call.knobs
      PROVE  knob(k) \in Seq(A)
  <2>1. CASE call.knobs[k] = "weight_bits"
    <3>1. \A layer \in DOMAIN call.start.weightBits : <<"weight_bits", layer>> \in A
      <4>1. \A layer \in DOMAIN call.start.weightBits : layer \in Nat
        BY <1>5
      <4>2. QED
        BY <4>1
    <3> HIDE DEF A
    <3>2. QED
      BY <2>1, <3>1, <1>5
  <2>2. CASE call.knobs[k] # "weight_bits"
    <3>1. <<call.knobs[k], 0>> \in A
      OBVIOUS
    <3> HIDE DEF A
    <3>2. QED
      BY <2>2, <3>1
  <2>3. QED
    BY <2>1, <2>2
<1>7. ss \in Seq(Seq(A))
  <2> HIDE DEF A, knob
  <2>1. QED
    BY <1>4, <1>6
<1>8. FlattenSeq(ss) \in Seq(A)
  BY <1>7, FlattenSeqType
<1>9. ASSUME ToSet(call.knobs) \subseteq Allowed
      PROVE  FlattenSeq(ss) \in Seq(S)
  <2>1. ASSUME NEW k \in DOMAIN call.knobs
        PROVE  knob(k) \in Seq(S)
    <3>1. call.knobs[k] \in Allowed
      BY <1>9 DEF ToSet
    <3>2. CASE call.knobs[k] = "weight_bits"
      <4>1. \A layer \in DOMAIN call.start.weightBits : <<"weight_bits", layer>> \in S
        BY DEF CoordinatesOf
      <4> HIDE DEF S
      <4>2. QED
        BY <3>2, <4>1, <1>5
    <3>3. CASE call.knobs[k] # "weight_bits"
      <4>1. <<call.knobs[k], 0>> \in S
        BY <3>1, <3>3 DEF Allowed, CoordinatesOf
      <4> HIDE DEF S
      <4>2. QED
        BY <3>3, <4>1
    <3>4. QED
      BY <3>2, <3>3
  <2> HIDE DEF S
  <2>2. ss \in Seq(Seq(S))
    BY <1>4, <2>1
  <2>3. QED
    BY <2>2, FlattenSeqType
<1> HIDE DEF S, ss, A
<1>10. QED
  BY <1>1, <1>8, <1>9 DEF S

-----------------------------------------------------------------------------
(* Lowering a plan.                                                        *)

(* Lowering a coordinate that may be lowered gives a plan with the same    *)
(* layers, one bit below in that coordinate and alike in the others.       *)
LEMMA LoweredLevels ==
  ASSUME NEW plan \in Plans,
         NEW c \in CoordinatesOf(plan),
         Level(plan, c) # 0
  PROVE  /\ Lowered(plan, c) \in Plans
         /\ DOMAIN Lowered(plan, c).weightBits = DOMAIN plan.weightBits
         /\ \A d \in CoordinatesOf(plan) :
              Level(Lowered(plan, c), d) =
                IF d = c THEN Level(plan, d) - 1 ELSE Level(plan, d)
<1>1. plan.inputBits \in Nat /\ plan.maxMultBits \in Nat /\ plan.weightBits \in Seq(Nat)
  BY DEF Plans
<1>2. plan = [inputBits |-> plan.inputBits, weightBits |-> plan.weightBits,
              maxMultBits |-> plan.maxMultBits]
  BY DEF Plans
<1>3. CASE c = <<"max_mult_bits", 0>>
  <2> DEFINE less == [inputBits |-> plan.inputBits, weightBits |-> plan.weightBits,
                      maxMultBits |-> plan.maxMultBits - 1]
  <2>1. Lowered(plan, c) = less
    BY <1>2, <1>3 DEF Lowered
  <2>2. plan.maxMultBits - 1 \in Nat
    BY <1>1, <1>3 DEF Level
  <2>3. less \in Plans /\ DOMAIN less.weightBits = DOMAIN plan.weightBits
    BY <1>1, <2>2 DEF Plans
  <2>4. \A d \in CoordinatesOf(plan) :
          Level(less, d) = IF d = c THEN Level(plan, d) - 1 ELSE Level(plan, d)
    BY <1>3 DEF Level, CoordinatesOf
  <2>5. QED
    BY <2>1, <2>3, <2>4, Zenon
<1>4. CASE c = <<"input_bits", 0>>
  BY <1>1, <1>2, <1>4 DEF Level, Lowered, Plans, CoordinatesOf
<1>5. CASE c \in {"weight_bits"} \X DOMAIN plan.weightBits
  <2>1. PICK l \in DOMAIN plan.weightBits : c = <<"weight_bits", l>>
    BY <1>5
  <2> DEFINE w == [plan.weightBits EXCEPT ![l] = @ - 1]
  <2>2. Lowered(plan, c) = [plan EXCEPT !.weightBits = w]
    BY <2>1 DEF Lowered
  <2>3. Level(plan, c) = plan.weightBits[l]
    BY <2>1 DEF Level
  <2>4. w \in Seq(Nat) /\ DOMAIN w = DOMAIN plan.weightBits
    BY <1>1, <2>1, <2>3
  <2>5. \A m \in DOMAIN plan.weightBits :
          w[m] = IF m = l THEN plan.weightBits[m] - 1 ELSE plan.weightBits[m]
    BY <1>1, <2>1
  <2> HIDE DEF w
  <2>6. /\ Lowered(plan, c) \in Plans
        /\ Lowered(plan, c).weightBits = w
        /\ Lowered(plan, c).inputBits = plan.inputBits
        /\ Lowered(plan, c).maxMultBits = plan.maxMultBits
    BY <1>1, <1>2, <2>2, <2>4 DEF Plans
  <2>7. ASSUME NEW d \in CoordinatesOf(plan)
        PROVE  Level(Lowered(plan, c), d) = IF d = c THEN Level(plan, d) - 1 ELSE Level(plan, d)
    <3>1. CASE d = <<"max_mult_bits", 0>> \/ d = <<"input_bits", 0>>
      BY <2>1, <2>6, <3>1 DEF Level
    <3>2. CASE d \in {"weight_bits"} \X DOMAIN plan.weightBits
      BY <2>1, <2>5, <2>6, <3>2 DEF Level
    <3>3. QED
      BY <3>1, <3>2 DEF CoordinatesOf
  <2>8. QED
    BY <2>4, <2>6, <2>7
<1>6. QED
  BY <1>3, <1>4, <1>5 DEF CoordinatesOf

(* A coordinate has a least value, and a level that is a number.           *)
LEMMA LevelType ==
  ASSUME NEW plan \in Plans, NEW c \in CoordinatesOf(plan)
  PROVE  Level(plan, c) \in Nat /\ MinBits[c[1]] \in Nat
<1>1. plan.inputBits \in Nat /\ plan.maxMultBits \in Nat /\ plan.weightBits \in Seq(Nat)
  BY DEF Plans
<1>2. c[1] \in Allowed
  BY DEF CoordinatesOf, Allowed
<1>3. Level(plan, c) \in Nat
  BY <1>1 DEF CoordinatesOf, Level
<1>4. QED
  BY <1>2, <1>3, AnswerType

-----------------------------------------------------------------------------
(* The search keeps its invariant, step by step.                           *)

(* The invariant holds at first.                                           *)
LEMMA InitSearch == Init => SearchInv
<1> SUFFICES ASSUME Init PROVE SearchInv
  OBVIOUS
<1> USE DEF Init
<1>0. call \in Calls /\ Len(Coordinates) \in Nat
  BY CoordinatesType
<1>1. ValuesInv
  <2>1. trace \in Seq(Results)
    OBVIOUS
  <2>2. \A p \in DOMAIN built : built[p] \in Answers
    OBVIOUS
  <2>3. /\ phase \in {"start", "descend", "done", "raised"}
        /\ round \in Nat /\ accepted \in BOOLEAN
    OBVIOUS
  <2>4. coord \in 0 .. Len(Coordinates) + 1
    BY <1>0
  <2> HIDE DEF Init
  <2>5. QED
    BY <1>0, <2>1, <2>2, <2>3, <2>4 DEF ValuesInv
<1>2. QED
  BY <1>1 DEF SearchInv, NothingYet, BestInv, TraceInv, RoundInv, Searched

(* Steps that leave the call alone leave its coordinates alone.            *)
LEMMA SameCoordinates ==
  ASSUME call' = call
  PROVE  Coordinates' = Coordinates
BY DEF Coordinates

(* A step that moves no variable keeps it.                                 *)
LEMMA StandStill == SearchInv /\ UNCHANGED vars => SearchInv'
<1> SUFFICES ASSUME SearchInv, UNCHANGED vars PROVE SearchInv'
  OBVIOUS
<1>1. Coordinates' = Coordinates
  BY SameCoordinates DEF vars
<1> USE DEF vars, SearchInv, Searched
<1>2. ValuesInv'
  BY <1>1 DEF ValuesInv
<1>3. NothingYet'
  BY DEF NothingYet
<1>4. BestInv'
  BY DEF BestInv
<1>5. TraceInv'
  BY DEF TraceInv
<1>6. RoundInv'
  BY <1>1 DEF RoundInv, Tried, Floor
<1>7. QED
  BY <1>2, <1>3, <1>4, <1>5, <1>6

(* A refused knob ends the call before anything is chosen.                 *)
LEMMA RefuseKnobStep == SearchInv /\ RefuseKnob => SearchInv'
<1> SUFFICES ASSUME SearchInv, RefuseKnob PROVE SearchInv'
  OBVIOUS
<1> USE DEF RefuseKnob, SearchInv
<1>1. Coordinates' = Coordinates
  BY SameCoordinates
<1>2. ValuesInv'
  BY <1>1 DEF ValuesInv
<1>3. ~ Searched' /\ phase' # "start"
  BY DEF Searched
<1>4. NothingYet'
  BY <1>3 DEF NothingYet, Searched
<1>5. BestInv' /\ TraceInv' /\ RoundInv'
  BY <1>3 DEF BestInv, TraceInv, RoundInv, Searched
<1>6. QED
  BY <1>2, <1>4, <1>5

(* What a build answers, and what is known of all builds after it.         *)
LEMMA AnsweredType ==
  ASSUME ValuesInv, NEW plan, NEW outcome \in Outcomes(plan)
  PROVE  /\ outcome \in Answers
         /\ \A p \in DOMAIN Answered(plan, outcome) : Answered(plan, outcome)[p] \in Answers
         /\ plan \in DOMAIN Answered(plan, outcome)
         /\ Answered(plan, outcome)[plan] = outcome
         /\ \A p \in DOMAIN built :
              p \in DOMAIN Answered(plan, outcome) /\ Answered(plan, outcome)[p] = built[p]
<1>1. \A p \in DOMAIN built : built[p] \in Answers
  BY DEF ValuesInv
<1>2. outcome \in Answers
  BY <1>1 DEF Outcomes, Answers
<1>3. plan \in DOMAIN built => outcome = built[plan]
  BY DEF Outcomes
<1>4. QED
  BY <1>1, <1>2, <1>3 DEF Answered

(* An outcome that is not a failure, as a result.                          *)
LEMMA ResultType ==
  ASSUME NEW plan \in Plans, NEW outcome \in Answers, outcome # Failed, NEW reason \in Reasons
  PROVE  /\ Result(plan, outcome, reason) \in Results
         /\ Result(plan, outcome, reason).plan = plan
         /\ Result(plan, outcome, reason).reason = reason
         /\ Result(plan, outcome, reason).blocks = outcome.blocks
         /\ Result(plan, outcome, reason).accuracy = outcome.accuracy
         /\ outcome.blocks \in Blocks /\ outcome.accuracy \in Accuracies
<1>1. outcome \in [blocks : Blocks, accuracy : Accuracies]
  BY DEF Answers
<1>2. outcome.blocks \in Blocks /\ outcome.accuracy \in Accuracies
  BY <1>1
<1>3. outcome.blocks \in Int /\ outcome.accuracy \in Int
  <2>1. outcome.blocks \in Nat /\ outcome.accuracy \in Int
    BY <1>2, AnswerType, Zenon
  <2>2. QED
    BY <2>1
<1>4. Result(plan, outcome, reason) =
        [plan |-> plan, blocks |-> outcome.blocks, accuracy |-> outcome.accuracy, reason |-> reason]
  BY DEF Result
<1>5. QED
  BY <1>2, <1>3, <1>4 DEF Results

(* The first build begins the search, or ends the call.                    *)
LEMMA BaselineStep == SearchInv /\ Baseline => SearchInv'
<1> SUFFICES ASSUME SearchInv, Baseline PROVE SearchInv'
  OBVIOUS
<1> DEFINE baseline(o) == Result(call.start, o, "baseline")
<1>0. /\ phase = "start" /\ ToSet(call.knobs) \subseteq Allowed
      /\ UNCHANGED <<call, round, coord, accepted>>
      /\ ValuesInv /\ NothingYet
  BY DEF Baseline, SearchInv
<1>1. PICK outcome \in Outcomes(call.start) :
        /\ built' = Answered(call.start, outcome)
        /\ IF outcome = Failed
           THEN phase' = "raised" /\ UNCHANGED <<best, trace>>
           ELSE /\ best' = baseline(outcome)
                /\ trace' = <<baseline(outcome)>>
                /\ phase' = "descend"
  BY DEF Baseline
<1>2. Coordinates' = Coordinates
  BY <1>0, SameCoordinates
<1>3. /\ outcome \in Answers
      /\ \A p \in DOMAIN built' : built'[p] \in Answers
  BY <1>0, <1>1, AnsweredType
<1>4. call \in Calls /\ call.start \in Plans
  BY <1>0, CallType DEF ValuesInv
<1>5. round' = 0 /\ coord' = 0 /\ accepted' = FALSE /\ best = NoResult /\ trace = <<>>
  BY <1>0 DEF NothingYet, Searched
<1>6. Len(Coordinates) \in Nat
  BY <1>4, CoordinatesType
<1>7. CASE outcome = Failed
  <2>1. phase' = "raised" /\ best' = best /\ trace' = trace
    BY <1>1, <1>7
  <2>2. ~ Searched'
    BY <2>1 DEF Searched
  <2>3. ValuesInv'
    BY <1>0, <1>2, <1>3, <1>5, <1>6, <2>1 DEF ValuesInv
  <2>4. NothingYet'
    BY <1>5, <2>1 DEF NothingYet
  <2>5. BestInv' /\ TraceInv' /\ RoundInv'
    BY <2>1, <2>2 DEF BestInv, TraceInv, RoundInv
  <2>6. QED
    BY <2>3, <2>4, <2>5 DEF SearchInv
<1>8. CASE outcome # Failed
  <2>1. phase' = "descend" /\ best' = baseline(outcome) /\ trace' = <<baseline(outcome)>>
    BY <1>1, <1>8
  <2>2. /\ best' \in Results /\ best'.plan = call.start /\ best'.reason = "baseline"
        /\ best'.blocks \in Blocks /\ best'.accuracy \in Accuracies
    <3>1. "baseline" \in Reasons
      BY DEF Reasons
    <3> HIDE DEF baseline
    <3>2. /\ baseline(outcome) \in Results
          /\ baseline(outcome).plan = call.start
          /\ baseline(outcome).reason = "baseline"
          /\ baseline(outcome).blocks = outcome.blocks
          /\ baseline(outcome).accuracy = outcome.accuracy
          /\ outcome.blocks \in Blocks /\ outcome.accuracy \in Accuracies
      BY <1>3, <1>4, <1>8, <3>1, ResultType DEF baseline
    <3>3. QED
      BY <2>1, <3>2
  <2>3. trace' = <<best'>>
    BY <2>1
  <2>4. ValuesInv'
    BY <1>0, <1>2, <1>3, <1>5, <1>6, <2>1, <2>2, <2>3 DEF ValuesInv
  <2>5. NothingYet'
    BY <2>1 DEF NothingYet, Searched
  <2>6. BestInv'
    BY <1>0, <2>2 DEF BestInv
  <2>7. TraceInv'
    BY <2>2, <2>3 DEF TraceInv, Taken
  <2>8. RoundInv'
    BY <1>2, <1>5, <1>6, <2>1, <1>4, CoordinatesType DEF RoundInv
  <2>9. QED
    BY <2>4, <2>5, <2>6, <2>7, <2>8 DEF SearchInv
<1>9. QED
  BY <1>7, <1>8

(* At a coordinate, there is one, and the best plan has a level there.     *)
LEMMA AtCoordinateType ==
  ASSUME SearchInv, AtCoordinate
  PROVE  /\ phase = "descend" /\ Searched
         /\ call \in Calls /\ call.start \in Plans /\ best.plan \in Plans
         /\ CoordinatesOf(best.plan) = CoordinatesOf(call.start)
         /\ Len(Coordinates) \in Nat /\ coord \in 1 .. Len(Coordinates)
         /\ Coordinates[coord] \in CoordinatesOf(call.start)
<1>1. phase = "descend" /\ Searched /\ coord \in DOMAIN Coordinates
  BY DEF AtCoordinate, Searched
<1>2. ValuesInv /\ BestInv
  BY DEF SearchInv
<1>3. call \in Calls /\ call.start \in Plans
  BY <1>2, CallType DEF ValuesInv
<1>4. /\ best \in Results
      /\ DOMAIN best.plan.weightBits = DOMAIN call.start.weightBits
      /\ ToSet(call.knobs) \subseteq Allowed
  BY <1>1, <1>2 DEF BestInv
<1>5. best.plan \in Plans
  BY <1>4 DEF Results
<1>6. CoordinatesOf(best.plan) = CoordinatesOf(call.start)
  BY <1>4 DEF CoordinatesOf
<1>7. /\ Len(Coordinates) \in Nat /\ coord \in 1 .. Len(Coordinates)
      /\ Coordinates[coord] \in CoordinatesOf(call.start)
  BY <1>1, <1>3, <1>4, CoordinatesType
<1>8. QED
  BY <1>1, <1>3, <1>5, <1>6, <1>7

(* A coordinate that cannot be lowered is left behind with nothing to try. *)
LEMMA SkipCoordinateStep == SearchInv /\ SkipCoordinate => SearchInv'
<1> SUFFICES ASSUME SearchInv, SkipCoordinate PROVE SearchInv'
  OBVIOUS
<1>0. /\ AtCoordinate /\ ~ Lowerable(best.plan, Coordinates[coord])
      /\ coord' = coord + 1
      /\ UNCHANGED <<call, phase, built, best, trace, round, accepted>>
  BY DEF SkipCoordinate
<1>1. Coordinates' = Coordinates
  BY <1>0, SameCoordinates
<1>2. /\ phase = "descend" /\ Searched /\ call \in Calls
      /\ Len(Coordinates) \in Nat /\ coord \in 1 .. Len(Coordinates)
  BY <1>0, AtCoordinateType
<1>3. coord' \in 0 .. Len(Coordinates') + 1
  BY <1>0, <1>1, <1>2
<1>4. ValuesInv'
  BY <1>0, <1>3 DEF ValuesInv, SearchInv
<1>5. NothingYet' /\ BestInv' /\ TraceInv'
  BY <1>0, <1>2 DEF NothingYet, BestInv, TraceInv, SearchInv, Searched
<1>6. RoundInv'
  <2>1. RoundInv
    BY DEF SearchInv
  <2>2. \A c : Tried(c)' <=> Tried(c)
    BY <1>0 DEF Tried, Floor
  <2>3. Tried(Coordinates[coord])
    BY <1>0 DEF Tried
  <2>4. ASSUME ~ accepted', NEW i \in DOMAIN Coordinates', i < coord'
        PROVE  Tried(Coordinates[i])
    <3>1. CASE i = coord
      BY <2>3, <3>1
    <3>2. CASE i # coord
      <4>1. i \in DOMAIN Coordinates /\ i < coord
        BY <1>0, <1>1, <1>2, <2>4, <3>2, CoordinatesType
      <4>2. QED
        BY <1>0, <1>2, <2>1, <2>4, <4>1 DEF RoundInv
    <3>3. QED
      BY <3>1, <3>2
  <2>5. Searched' /\ ~ accepted' =>
          \A i \in DOMAIN Coordinates' : i < coord' => Tried(Coordinates[i])'
    <3> SUFFICES ASSUME ~ accepted', NEW i \in DOMAIN Coordinates', i < coord'
                 PROVE  Tried(Coordinates[i])'
      OBVIOUS
    <3>1. Tried(Coordinates[i])
      BY <2>4
    <3>2. QED
      BY <1>0, <1>1, <3>1 DEF Tried, Floor
  <2>6. round' # 0 /\ coord' # 0 /\ phase' # "done"
    BY <1>0, <1>2, <2>1 DEF RoundInv
  <2>7. QED
    BY <2>5, <2>6 DEF RoundInv
<1>7. QED
  BY <1>4, <1>5, <1>6 DEF SearchInv

(* A new round begins at the first coordinate; the search ends behind the  *)
(* last one.                                                               *)
LEMMA NextRoundStep == SearchInv /\ NextRound => SearchInv'
<1> SUFFICES ASSUME SearchInv, NextRound PROVE SearchInv'
  OBVIOUS
<1>0. /\ phase = "descend" /\ coord \notin DOMAIN Coordinates
      /\ UNCHANGED <<call, built, best, trace>>
  BY DEF NextRound
<1>1. Coordinates' = Coordinates
  BY <1>0, SameCoordinates
<1>2. ValuesInv /\ NothingYet /\ BestInv /\ TraceInv /\ RoundInv
  BY DEF SearchInv
<1>3. call \in Calls /\ Len(Coordinates) \in Nat /\ DOMAIN Coordinates = 1 .. Len(Coordinates)
  BY <1>2, CoordinatesType DEF ValuesInv
<1>4. CASE round' = round + 1 /\ coord' = 1 /\ accepted' = FALSE /\ UNCHANGED phase
  <2>1. ValuesInv'
    <3>0. round \in Nat
      BY <1>2 DEF ValuesInv
    <3>1. round' \in Nat /\ accepted' \in BOOLEAN
      <4>1. accepted' \in BOOLEAN
        BY <1>4, Zenon
      <4>2. round' = round + 1
        BY <1>4
      <4>3. QED
        BY <3>0, <4>1, <4>2
    <3>2. coord' \in 0 .. Len(Coordinates') + 1
      BY <1>1, <1>3, <1>4
    <3>3. QED
      BY <1>0, <1>2, <1>4, <3>1, <3>2 DEF ValuesInv
  <2>2. NothingYet' /\ BestInv' /\ TraceInv'
    BY <1>0, <1>2, <1>4 DEF NothingYet, BestInv, TraceInv, Searched
  <2>3. RoundInv'
    <3>1. round' # 0 /\ coord' # 0 /\ phase' # "done"
      BY <1>0, <1>2, <1>4 DEF ValuesInv
    <3>2. \A i \in DOMAIN Coordinates' : ~ i < coord'
      BY <1>1, <1>3, <1>4
    <3>3. QED
      BY <3>1, <3>2 DEF RoundInv
  <2>4. QED
    BY <2>1, <2>2, <2>3 DEF SearchInv
<1>5. CASE phase' = "done" /\ UNCHANGED <<round, coord, accepted>>
  <2>1. ValuesInv'
    BY <1>0, <1>1, <1>2, <1>5 DEF ValuesInv
  <2>2. NothingYet' /\ BestInv' /\ TraceInv'
    BY <1>0, <1>2, <1>5 DEF NothingYet, BestInv, TraceInv, Searched
  <2>3. RoundInv'
    <3>1. Searched /\ Searched'
      BY <1>0, <1>5 DEF Searched
    <3>2. (round = 0 <=> coord = 0)' /\ (coord \notin DOMAIN Coordinates)'
      BY <1>0, <1>1, <1>2, <1>5, <3>1 DEF RoundInv
    <3>3. ~ accepted' => \A i \in DOMAIN Coordinates' : i < coord' => Tried(Coordinates[i])'
      <4> SUFFICES ASSUME ~ accepted', NEW i \in DOMAIN Coordinates', i < coord'
                   PROVE  Tried(Coordinates[i])'
        OBVIOUS
      <4>1. Tried(Coordinates[i])
        BY <1>1, <1>2, <1>5, <3>1 DEF RoundInv
      <4>2. QED
        BY <1>0, <1>1, <4>1 DEF Tried, Floor
    <3>4. QED
      BY <3>1, <3>2, <3>3 DEF RoundInv
  <2>4. QED
    BY <2>1, <2>2, <2>3 DEF SearchInv
<1>6. QED
  BY <1>4, <1>5 DEF NextRound

(* What stands in a search's last invariants, without the layers of the    *)
(* best plan: a step that grows the trace by a result that is not taken    *)
(* keeps the best plan the last one taken, and one that takes it too.      *)
LEMMA TraceGrows ==
  ASSUME TraceInv, Searched, trace \in Seq(Results),
         NEW result, trace' = Append(trace, result),
         \/ best' = best /\ ~ Taken(result)
         \/ best' = result /\ Taken(result)
  PROVE  TraceInv' /\ trace'[1] = trace[1] /\ trace' # <<>>
<1>1. /\ trace # <<>> /\ trace[1].blocks \in Blocks /\ trace[1].accuracy \in Accuracies
      /\ \E i \in DOMAIN trace :
           /\ best = trace[i] /\ Taken(best)
           /\ \A j \in DOMAIN trace : j > i => ~ Taken(trace[j])
  BY DEF TraceInv
<1> DEFINE n == Len(trace)
<1>2. n \in Nat /\ n >= 1 /\ DOMAIN trace = 1 .. n
  BY <1>1
<1>3. /\ Len(trace') = n + 1 /\ DOMAIN trace' = 1 .. n + 1 /\ trace'[n + 1] = result
      /\ \A i \in 1 .. n : trace'[i] = trace[i]
  BY <1>2
<1> HIDE DEF n
<1>4. trace' # <<>> /\ trace'[1] = trace[1]
  BY <1>2, <1>3
<1>5. \E i \in DOMAIN trace' :
         /\ best' = trace'[i] /\ Taken(best')
         /\ \A j \in DOMAIN trace' : j > i => ~ Taken(trace'[j])
  <2>1. CASE best' = best /\ ~ Taken(result)
    <3>1. PICK i \in DOMAIN trace :
            /\ best = trace[i] /\ Taken(best)
            /\ \A j \in DOMAIN trace : j > i => ~ Taken(trace[j])
      BY <1>1
    <3>2. i \in 1 .. n + 1 /\ best' = trace'[i] /\ Taken(best')
      BY <1>2, <1>3, <2>1, <3>1
    <3>3. ASSUME NEW j \in 1 .. n + 1, j > i PROVE ~ Taken(trace'[j])
      <4>1. CASE j = n + 1
        BY <1>3, <2>1, <4>1
      <4>2. CASE j # n + 1
        BY <1>2, <1>3, <3>1, <3>3, <4>2
      <4>3. QED
        BY <4>1, <4>2
    <3>4. QED
      BY <1>3, <3>2, <3>3
  <2>2. CASE best' = result /\ Taken(result)
    <3>1. n + 1 \in 1 .. n + 1 /\ best' = trace'[n + 1] /\ Taken(best')
      BY <1>2, <1>3, <2>2
    <3>2. \A j \in 1 .. n + 1 : ~ j > n + 1
      BY <1>2
    <3>3. QED
      BY <1>3, <3>1, <3>2
  <2>3. QED
    BY <2>1, <2>2
<1>6. QED
  BY <1>1, <1>4, <1>5 DEF TraceInv

(* The candidate of a step: a plan one bit below the best one, in the      *)
(* coordinate at hand and no lower than that knob may be.                  *)
LEMMA CandidateType ==
  ASSUME SearchInv, AtCoordinate, Lowerable(best.plan, Coordinates[coord]),
         NEW candidate, candidate = Lowered(best.plan, Coordinates[coord])
  PROVE  /\ candidate \in Plans /\ candidate \in OneBitBelow(best.plan)
         /\ DOMAIN candidate.weightBits = DOMAIN call.start.weightBits
         /\ \A c \in CoordinatesOf(call.start) :
              Level(candidate, c) >= MinBits[c[1]] \/ Level(candidate, c) = Level(call.start, c)
<1> DEFINE here == Coordinates[coord]
<1>1. /\ phase = "descend" /\ Searched
      /\ call \in Calls /\ call.start \in Plans /\ best.plan \in Plans
      /\ CoordinatesOf(best.plan) = CoordinatesOf(call.start)
      /\ here \in CoordinatesOf(call.start)
  BY AtCoordinateType
<1>2. Level(best.plan, here) \in Nat /\ MinBits[here[1]] \in Nat
  BY <1>1, LevelType
<1>3. Level(best.plan, here) > MinBits[here[1]]
  BY DEF Lowerable
<1>4. BestInv
  BY DEF SearchInv
<1>5. DOMAIN best.plan.weightBits = DOMAIN call.start.weightBits
  BY <1>1, <1>4 DEF BestInv
<1> HIDE DEF here
<1>6. /\ candidate \in Plans
      /\ DOMAIN candidate.weightBits = DOMAIN best.plan.weightBits
      /\ \A d \in CoordinatesOf(best.plan) :
           Level(candidate, d) =
             IF d = here THEN Level(best.plan, d) - 1 ELSE Level(best.plan, d)
  <2>1. Level(best.plan, here) # 0
    BY <1>2, <1>3
  <2>2. candidate = Lowered(best.plan, here)
    BY DEF here
  <2>3. QED
    BY <1>1, <2>1, <2>2, LoweredLevels
<1>7. ASSUME NEW c \in CoordinatesOf(call.start)
      PROVE  Level(candidate, c) >= MinBits[c[1]] \/ Level(candidate, c) = Level(call.start, c)
  <2>1. CASE c = here
    BY <1>1, <1>2, <1>3, <1>6, <2>1
  <2>2. CASE c # here
    <3>1. Level(candidate, c) = Level(best.plan, c)
      BY <1>1, <1>6, <2>2
    <3>2. QED
      BY <1>1, <1>4, <3>1 DEF BestInv
  <2>3. QED
    BY <2>1, <2>2
<1>8. candidate \in OneBitBelow(best.plan)
  BY <1>1 DEF OneBitBelow, here
<1>9. QED
  BY <1>5, <1>6, <1>7, <1>8

(* A candidate that is good enough becomes the best plan; any other leaves *)
(* its coordinate behind, built and turned down.                           *)
LEMMA ProposeStep == SearchInv /\ Propose => SearchInv'
<1> SUFFICES ASSUME SearchInv, Propose PROVE SearchInv'
  OBVIOUS
<1> DEFINE here == Coordinates[coord]
           candidate == Lowered(best.plan, here)
<1>0. /\ AtCoordinate /\ Lowerable(best.plan, here)
      /\ UNCHANGED <<call, phase, round>>
  BY DEF Propose
<1>1. PICK outcome \in Outcomes(candidate) :
        /\ built' = Answered(candidate, outcome)
        /\ IF Verdict(outcome) = "accepted" THEN Take(candidate, outcome)
           ELSE TurnDown(candidate, outcome)
  BY DEF Propose
<1>2. Coordinates' = Coordinates
  BY <1>0, SameCoordinates
<1>3. ValuesInv /\ NothingYet /\ BestInv /\ TraceInv /\ RoundInv
  BY DEF SearchInv
<1>4. /\ phase = "descend" /\ Searched /\ Searched'
      /\ Len(Coordinates) \in Nat /\ coord \in 1 .. Len(Coordinates)
  BY <1>0, AtCoordinateType DEF Searched
<1>5. /\ candidate \in Plans /\ DOMAIN candidate.weightBits = DOMAIN call.start.weightBits
      /\ \A c \in CoordinatesOf(call.start) :
           Level(candidate, c) >= MinBits[c[1]] \/ Level(candidate, c) = Level(call.start, c)
  BY <1>0, CandidateType
<1> HIDE DEF candidate
<1>6. /\ outcome \in Answers
      /\ \A p \in DOMAIN built' : built'[p] \in Answers
      /\ candidate \in DOMAIN built' /\ built'[candidate] = outcome
      /\ \A p \in DOMAIN built : p \in DOMAIN built' /\ built'[p] = built[p]
  BY <1>1, <1>3, AnsweredType
<1>7. trace \in Seq(Results) /\ call \in Calls /\ round \in Nat
  BY <1>3 DEF ValuesInv
<1>8. phase' = "descend" /\ round # 0 /\ round' = round
  BY <1>0, <1>3, <1>4 DEF RoundInv
<1>9. NothingYet'
  BY <1>4, <1>8 DEF NothingYet
<1>10. CASE Verdict(outcome) = "accepted"
  <2> DEFINE result == Result(candidate, outcome, "accepted")
  <2>1. /\ best' = result /\ trace' = Append(trace, result)
        /\ accepted' = TRUE /\ coord' = coord
    BY <1>1, <1>10 DEF Take
  <2>2. outcome # Failed
    BY <1>10 DEF Verdict
  <2>3. /\ result \in Results /\ result.plan = candidate /\ result.reason = "accepted"
        /\ result.blocks \in Blocks /\ result.accuracy \in Accuracies
    <3>1. "accepted" \in Reasons
      BY DEF Reasons
    <3> HIDE DEF result
    <3>2. /\ result \in Results
          /\ result.plan = candidate
          /\ result.reason = "accepted"
          /\ result.blocks = outcome.blocks
          /\ result.accuracy = outcome.accuracy
          /\ outcome.blocks \in Blocks /\ outcome.accuracy \in Accuracies
      BY <1>5, <1>6, <2>2, <3>1, ResultType DEF result
    <3>3. QED
      BY <3>2
  <2> HIDE DEF result
  <2>4. ValuesInv'
    <3>1. trace' \in Seq(Results)
      BY <1>7, <2>1, <2>3
    <3>2. coord' \in 0 .. Len(Coordinates') + 1
      BY <1>2, <1>4, <2>1
    <3>3. QED
      BY <1>0, <1>3, <1>6, <2>1, <3>1, <3>2 DEF ValuesInv
  <2>5. BestInv'
    BY <1>0, <1>3, <1>4, <1>5, <2>1, <2>3 DEF BestInv
  <2>6. TraceInv'
    <3>1. Taken(result)
      BY <2>3 DEF Taken
    <3>2. QED
      BY <1>3, <1>4, <1>7, <2>1, <3>1, TraceGrows
  <2>7. RoundInv'
    BY <1>4, <1>8, <2>1 DEF RoundInv
  <2>8. QED
    BY <1>9, <2>4, <2>5, <2>6, <2>7 DEF SearchInv
<1>11. CASE Verdict(outcome) # "accepted"
  <2> DEFINE shown == IF outcome = Failed THEN [blocks |-> best.blocks, accuracy |-> 0] ELSE outcome
             result == Result(candidate, shown, Verdict(outcome))
  <2>1. trace' = Append(trace, result) /\ coord' = coord + 1 /\ best' = best /\ accepted' = accepted
    BY <1>1, <1>11 DEF TurnDown
  <2>2. /\ Verdict(outcome) \in Reasons
        /\ Verdict(outcome) # "baseline"
        /\ \/ outcome = Failed
           \/ outcome.accuracy < Floor
           \/ outcome.blocks > best.blocks
    BY <1>11 DEF Verdict, Reasons
  <2>3. result \in Results /\ result.reason = Verdict(outcome)
    <3>1. best.blocks \in Int
      BY <1>3, <1>4 DEF BestInv, Results
    <3>2. CASE outcome = Failed
      <4>1. result = [plan |-> candidate, blocks |-> best.blocks, accuracy |-> 0,
                      reason |-> Verdict(outcome)]
        BY <3>2 DEF Result
      <4> HIDE DEF result
      <4>2. QED
        BY <1>5, <2>2, <3>1, <4>1 DEF Results
    <3>3. CASE outcome # Failed
      <4>1. result = Result(candidate, outcome, Verdict(outcome))
        BY <3>3
      <4> HIDE DEF result
      <4>2. QED
        BY <1>5, <1>6, <2>2, <3>3, <4>1, ResultType
    <3>4. QED
      BY <3>2, <3>3
  <2> HIDE DEF result
  <2>4. ValuesInv'
    <3>1. trace' \in Seq(Results)
      BY <1>7, <2>1, <2>3
    <3>2. coord' \in 0 .. Len(Coordinates') + 1
      BY <1>2, <1>4, <2>1
    <3>3. QED
      BY <1>0, <1>3, <1>6, <2>1, <3>1, <3>2 DEF ValuesInv
  <2>5. BestInv'
    BY <1>0, <1>3, <1>4, <2>1 DEF BestInv
  <2>6. TraceInv' /\ trace'[1] = trace[1]
    <3>1. ~ Taken(result)
      BY <1>11, <2>2, <2>3 DEF Taken
    <3>2. QED
      BY <1>3, <1>4, <1>7, <2>1, <3>1, TraceGrows
  <2>7. \A c : Tried(c) => Tried(c)'
    BY <1>6, <2>1, <2>6 DEF Tried, Floor
  <2>8. ASSUME NEW c, c = here
        PROVE  Tried(c)'
    <3>1. Lowered(best'.plan, c) = candidate
      BY <2>1, <2>8 DEF candidate
    <3>2. Floor' = Floor
      BY <2>6 DEF Floor
    <3>3. QED
      BY <1>6, <2>1, <2>2, <3>1, <3>2 DEF Tried
  <2>9. RoundInv'
    <3>1. ASSUME ~ accepted', NEW i \in DOMAIN Coordinates', i < coord'
          PROVE  Tried(Coordinates[i])'
      <4>1. CASE i = coord
        BY <1>2, <2>8, <4>1
      <4>2. CASE i # coord
        <5>1. i \in DOMAIN Coordinates /\ i < coord
          BY <1>2, <1>4, <1>7, <2>1, <3>1, <4>2, CoordinatesType
        <5>2. Tried(Coordinates[i])
          BY <1>3, <1>4, <2>1, <3>1, <5>1 DEF RoundInv
        <5>3. QED
          BY <1>2, <2>7, <5>2
      <4>3. QED
        BY <4>1, <4>2
    <3>2. coord' # 0
      BY <1>4, <2>1
    <3>3. QED
      BY <1>8, <3>1, <3>2 DEF RoundInv
  <2>10. QED
    BY <1>9, <2>4, <2>5, <2>6, <2>9 DEF SearchInv
<1>12. QED
  BY <1>10, <1>11

(* The invariant holds in every state of the search.                       *)
LEMMA SearchInvariant == Spec => []SearchInv
<1>1. SearchInv /\ [Next]_vars => SearchInv'
  <2>1. SearchInv /\ Returned => SearchInv'
    BY StandStill DEF Returned
  <2>2. QED
    BY <2>1, StandStill, RefuseKnobStep, BaselineStep, SkipCoordinateStep, ProposeStep,
       NextRoundStep DEF Next
<1>2. QED
  BY <1>1, InitSearch, PTL DEF Spec

-----------------------------------------------------------------------------
(* The plan to return is always the last one taken, and asks for no less   *)
(* of a knob than its least value, unless the caller's did                 *)
(* (minimize.py:157, 178).                                                 *)
THEOREM TypeCorrect == Spec => []TypeOK
<1>1. SearchInv => TypeOK
  <2> SUFFICES ASSUME SearchInv PROVE TypeOK
    OBVIOUS
  <2>1. ValuesInv /\ BestInv /\ TraceInv
    BY DEF SearchInv
  <2>2. /\ phase \in {"start", "descend", "done", "raised"}
        /\ round \in Nat /\ coord \in 0 .. Len(Coordinates) + 1 /\ accepted \in BOOLEAN
    BY <2>1 DEF ValuesInv
  <2>3. ASSUME phase \in {"descend", "done"}, NEW i \in DOMAIN Coordinates
        PROVE  \/ Level(best.plan, Coordinates[i]) >= MinBits[Coordinates[i][1]]
               \/ Level(best.plan, Coordinates[i]) = Level(call.start, Coordinates[i])
    <3>1. call \in Calls
      BY <2>1 DEF ValuesInv
    <3>2. Coordinates[i] \in CoordinatesOf(call.start)
      BY <2>1, <2>3, <3>1, CoordinatesType DEF BestInv, Searched
    <3>3. QED
      BY <2>1, <2>3, <3>2 DEF BestInv, Searched
  <2>4. phase \in {"descend", "done"} =>
          \E i \in DOMAIN trace :
            /\ best = trace[i] /\ Taken(best)
            /\ \A j \in DOMAIN trace : j > i => ~ Taken(trace[j])
    BY <2>1 DEF TraceInv, Searched
  <2>5. QED
    BY <2>2, <2>3, <2>4 DEF TypeOK
<1>2. QED
  BY <1>1, SearchInvariant, PTL

(* A search that stops before its rounds are used up stops at a local      *)
(* minimum: every plan one bit below the returned one has been built and   *)
(* turned down (minimize.py:206).                                          *)
THEOREM StopsAtLocalMinimum == Spec => []LocalMinimum
<1>1. SearchInv => LocalMinimum
  <2> SUFFICES ASSUME SearchInv, phase = "done", round > 0, ~ accepted,
                      NEW i \in DOMAIN Coordinates
               PROVE  Tried(Coordinates[i])
    BY DEF LocalMinimum, Tried
  <2>1. ValuesInv /\ RoundInv /\ Searched
    BY DEF SearchInv, Searched
  <2>2. /\ coord \in 0 .. Len(Coordinates) + 1 /\ round \in Nat
        /\ DOMAIN Coordinates = 1 .. Len(Coordinates) /\ Len(Coordinates) \in Nat
    BY <2>1, CoordinatesType DEF ValuesInv
  <2>3. coord # 0 /\ coord \notin DOMAIN Coordinates
    BY <2>1, <2>2 DEF RoundInv
  <2>4. i < coord
    BY <2>2, <2>3
  <2>5. QED
    BY <2>1, <2>4 DEF RoundInv
<1>2. QED
  BY <1>1, SearchInvariant, PTL

-----------------------------------------------------------------------------
(* The search is a descent. *)

Built == [plan : Plans, blocks : Blocks, accuracy : Accuracies]

(* A result that came of a build is a candidate of Descent.                *)
LEMMA CandidateOfResult ==
  ASSUME NEW result \in Results, result.blocks \in Blocks, result.accuracy \in Accuracies
  PROVE  /\ Candidate(result) \in Built
         /\ Candidate(result).plan = result.plan
         /\ Candidate(result).blocks = result.blocks
         /\ Candidate(result).accuracy = result.accuracy
         /\ Candidate(result) # NoCandidate
<1>1. result # NoResult
  <2>1. DOMAIN result = {"plan", "blocks", "accuracy", "reason"}
    BY DEF Results
  <2>2. DOMAIN NoResult = {"reason"}
    BY DEF NoResult
  <2>3. "plan" \in DOMAIN result /\ "plan" \notin DOMAIN NoResult
    BY <2>1, <2>2
  <2>4. QED
    BY <2>3
<1>2. Candidate(result) =
        [plan |-> result.plan, blocks |-> result.blocks, accuracy |-> result.accuracy]
  BY <1>1 DEF Candidate
<1>3. result.plan \in Plans
  BY DEF Results
<1>4. Candidate(result) # NoCandidate
  <2>1. DOMAIN Candidate(result) = {"plan", "blocks", "accuracy"}
    BY <1>2
  <2>2. DOMAIN NoCandidate = {"plan"}
    BY DEF NoCandidate
  <2>3. "blocks" \in DOMAIN Candidate(result) /\ "blocks" \notin DOMAIN NoCandidate
    BY <2>1, <2>2
  <2>4. QED
    BY <2>3
<1>5. QED
  BY <1>2, <1>3, <1>4 DEF Built

(* Where nothing has been chosen, there is no candidate.                   *)
LEMMA NoCandidateYet == Candidate(NoResult) = NoCandidate
BY DEF Candidate

(* The candidate the search measures losses against.                       *)
Base == Candidate(IF trace = <<>> THEN NoResult ELSE trace[1])

(* The search starts where the descent does.                               *)
LEMMA DescentInit == Init => Search!Init
<1> SUFFICES ASSUME Init PROVE Search!Init
  OBVIOUS
<1>1. Base = NoCandidate /\ Candidate(best) = NoCandidate /\ ~ Ended
  BY NoCandidateYet DEF Init, Base, Ended
<1>2. QED
  BY <1>1 DEF Search!Init, Base

(* A search that ends changes no candidate.                                *)
LEMMA Stops ==
  ASSUME ~ Ended, Ended', best' = best, trace' = trace
  PROVE  Search!Stop
BY DEF Search!Stop, Base, Candidate

(* Any other step that changes no candidate is not seen.                   *)
LEMMA Stutters ==
  ASSUME Ended' <=> Ended, best' = best, trace' = trace
  PROVE  UNCHANGED Search!vars
<1>1. Candidate(best)' = Candidate(best)
  BY DEF Candidate
<1>2. Candidate(IF trace = <<>> THEN NoResult ELSE trace[1])'
        = Candidate(IF trace = <<>> THEN NoResult ELSE trace[1])
  BY DEF Candidate
<1>3. Ended' = Ended
  BY DEF Ended
<1>4. QED
  BY <1>1, <1>2, <1>3 DEF Search!vars

(* The first build begins the descent, or ends it with nothing.            *)
LEMMA BaselineDescends == SearchInv /\ Baseline => Search!Next
<1> SUFFICES ASSUME SearchInv, Baseline PROVE Search!Next
  OBVIOUS
<1>0. phase = "start" /\ best = NoResult /\ trace = <<>> /\ ~ Ended
  BY DEF Baseline, SearchInv, NothingYet, Searched, Ended
<1>1. SearchInv'
  BY BaselineStep
<1>2. \/ phase' = "raised" /\ UNCHANGED <<best, trace>>
      \/ phase' = "descend" /\ \E r : best' = r /\ trace' = <<r>>
  BY DEF Baseline
<1>3. CASE phase' = "raised" /\ UNCHANGED <<best, trace>>
  BY <1>0, <1>3, Stops DEF Ended, Search!Next
<1>4. CASE phase' = "descend" /\ \E r : best' = r /\ trace' = <<r>>
  <2>1. Searched' /\ ~ Ended' /\ trace' = <<best'>>
    BY <1>4 DEF Searched, Ended
  <2>2. best' \in Results /\ best'.blocks \in Blocks /\ best'.accuracy \in Accuracies
    BY <1>1, <2>1 DEF SearchInv, BestInv
  <2>3. Candidate(best') \in Built
    BY <2>2, CandidateOfResult
  <2>4. Base = NoCandidate
    BY <1>0, NoCandidateYet DEF Base
  <2>5. Base' = Candidate(best')
    BY <2>1 DEF Base
  <2>6. Ended' = Ended
    BY <1>0, <2>1 DEF Ended
  <2>7. Search!Begin
    BY <1>0, <2>1, <2>3, <2>4, <2>5, <2>6 DEF Search!Begin, Base, Built
  <2>8. QED
    BY <2>7 DEF Search!Next
<1>5. QED
  BY <1>2, <1>3, <1>4

(* A candidate that is taken improves on the best one; any other step that *)
(* builds is not seen.                                                     *)
LEMMA ProposeDescends == SearchInv /\ Propose => Search!Improve \/ UNCHANGED Search!vars
<1> SUFFICES ASSUME SearchInv, Propose PROVE Search!Improve \/ UNCHANGED Search!vars
  OBVIOUS
<1> DEFINE candidate == Lowered(best.plan, Coordinates[coord])
<1>0. /\ AtCoordinate /\ Lowerable(best.plan, Coordinates[coord]) /\ phase' = phase
      /\ phase = "descend" /\ Searched /\ Searched' /\ ~ Ended /\ ~ Ended'
  BY DEF Propose, AtCoordinate, Searched, Ended
<1>1. PICK outcome \in Outcomes(candidate) :
        IF Verdict(outcome) = "accepted" THEN Take(candidate, outcome)
        ELSE TurnDown(candidate, outcome)
  BY DEF Propose
<1>2. ValuesInv /\ BestInv /\ TraceInv /\ trace \in Seq(Results) /\ SearchInv'
  BY ProposeStep DEF SearchInv, ValuesInv
<1>3. candidate \in OneBitBelow(best.plan)
  BY <1>0, CandidateType
<1> HIDE DEF candidate
<1>4. CASE Verdict(outcome) = "accepted"
  <2> DEFINE result == Result(candidate, outcome, "accepted")
  <2>1. best' = result /\ trace' = Append(trace, result)
    BY <1>1, <1>4 DEF Take
  <2>2. outcome # Failed /\ ~ outcome.accuracy < Floor /\ ~ outcome.blocks > best.blocks
    BY <1>4 DEF Verdict
  <2>3. /\ best'.plan = candidate /\ best'.blocks = outcome.blocks
        /\ best'.accuracy = outcome.accuracy
    BY <2>1 DEF Result
  <2> HIDE DEF result
  <2>4. /\ best \in Results /\ best.blocks \in Blocks /\ best.accuracy \in Accuracies
        /\ best' \in Results /\ best'.blocks \in Blocks /\ best'.accuracy \in Accuracies
    BY <1>0, <1>2 DEF BestInv, SearchInv
  <2>5. /\ trace # <<>> /\ trace[1] \in Results
        /\ trace[1].blocks \in Blocks /\ trace[1].accuracy \in Accuracies
    BY <1>0, <1>2 DEF TraceInv
  <2>6. trace'[1] = trace[1] /\ trace' # <<>>
    BY <1>2, <2>1, <2>5
  <2>7. /\ Base = Candidate(trace[1]) /\ Base' = Base /\ Base # NoCandidate
        /\ Base.accuracy = trace[1].accuracy
    BY <2>5, <2>6, CandidateOfResult DEF Base
  <2>8. /\ Candidate(best') \in Built
        /\ Candidate(best').plan = candidate
        /\ Candidate(best').blocks = outcome.blocks
        /\ Candidate(best').accuracy = outcome.accuracy
    BY <2>3, <2>4, CandidateOfResult
  <2>9. Candidate(best).plan = best.plan /\ Candidate(best).blocks = best.blocks
    BY <2>4, CandidateOfResult
  <2>10. outcome.accuracy >= Base.accuracy - Tolerance /\ outcome.blocks <= best.blocks
    <3>1. /\ outcome.accuracy \in Int /\ trace[1].accuracy \in Int
          /\ outcome.blocks \in Nat /\ best.blocks \in Nat
      BY <2>3, <2>4, <2>5, AnswerType, Zenon
    <3>2. Tolerance \in Nat
      BY AnswerType
    <3>3. QED
      BY <2>2, <2>7, <3>1, <3>2 DEF Floor
  <2>11. Ended' = Ended
    BY <1>0 DEF Ended
  <2>12. Search!Improve
    BY <1>0, <1>3, <2>7, <2>8, <2>9, <2>10, <2>11 DEF Search!Improve, Base, Built
  <2>13. QED
    BY <2>12
<1>5. CASE Verdict(outcome) # "accepted"
  <2>1. \E r : trace' = Append(trace, r)
    BY <1>1, <1>5 DEF TurnDown
  <2>2. best' = best
    BY <1>1, <1>5 DEF TurnDown
  <2>3. trace # <<>> /\ trace' # <<>> /\ trace'[1] = trace[1]
    BY <1>0, <1>2, <2>1 DEF TraceInv
  <2>4. Base' = Base /\ Candidate(best)' = Candidate(best) /\ Ended' = Ended
    BY <1>0, <2>2, <2>3 DEF Base, Candidate, Ended
  <2>5. QED
    BY <2>4 DEF Search!vars, Base
<1>6. QED
  BY <1>4, <1>5

(* Every step of the search is a step of the descent, or not seen there:   *)
(* losses are measured against the first plan, blocks never rise, and only *)
(* a plan that passed becomes the base of the next (minimize.py:104, 182). *)
(* That a search ends is left to model checking.                           *)
THEOREM SearchDescends == Spec => Search!Descends
<1>1. SearchInv /\ [Next]_vars => [Search!Next]_(Search!vars)
  <2> SUFFICES ASSUME SearchInv, [Next]_vars PROVE Search!Next \/ UNCHANGED Search!vars
    OBVIOUS
  <2>1. CASE RefuseKnob
    BY <2>1, Stops DEF RefuseKnob, Ended, Search!Next
  <2>2. CASE Baseline
    BY <2>2, BaselineDescends
  <2>3. CASE SkipCoordinate
    BY <2>3, Stutters DEF SkipCoordinate, Ended
  <2>4. CASE Propose
    BY <2>4, ProposeDescends DEF Search!Next
  <2>5. CASE NextRound
    <3>1. CASE phase' = phase
      BY <2>5, <3>1, Stutters DEF NextRound, Ended
    <3>2. CASE phase' = "done"
      BY <2>5, <3>2, Stops DEF NextRound, Ended, Search!Next
    <3>3. QED
      BY <2>5, <3>1, <3>2 DEF NextRound
  <2>6. CASE Returned \/ UNCHANGED vars
    BY <2>6, Stutters DEF Returned, vars, Ended
  <2>7. QED
    BY <2>1, <2>2, <2>3, <2>4, <2>5, <2>6 DEF Next
<1>2. QED
  BY <1>1, DescentInit, SearchInvariant, PTL DEF Spec, Search!Descends

=============================================================================
