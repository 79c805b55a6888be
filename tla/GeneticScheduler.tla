-------------------------- MODULE GeneticScheduler --------------------------
(***************************************************************************)
(* The genetic scheduler (schedulers/genetic_scheduler.cpp): generations   *)
(* of assignments, changed by random crossovers and mutations.  A random   *)
(* number is a free choice.  Cost and makespan of an assignment are given;  *)
(* AssignmentCost computes them as the code does.                          *)
(* X_Y is a bug that X could have (see WorkflowGraph).                     *)
(***************************************************************************)
EXTENDS SchedulerView, Sequences, FiniteSetsExt

CONSTANTS
    GenerationSize,
    BestChromosomesNumber,
    InitFastestAssignmentsNum,
    StepsNumber,
    ConstantScoreStepsNumber,
    Modifications,   \* the kinds of change DoModifyGeneration makes, in order
    CostOf(_),       \* Cost of an assignment
    MakespanOf(_)    \* Makespan of an assignment

\* Every type is available as often as there are tasks.
AvailableVMs == 0..(Size * VMTypes - 1)
TypeOf(vm) == vm \div Size
SuitableVMs(t) == {vm \in AvailableVMs : CanBeExecuted(t, TypeOf(vm))}

Assignments ==
    [SchedulingString : Strings,
     MatchingString : [Tasks -> AvailableVMs],
     KeepVMStandbyString : [Tasks -> BOOLEAN]]

Members == 1..GenerationSize
Changed == 1..(GenerationSize - BestChromosomesNumber)
Best == Members \ Changed

Kinds == {"SchedulingCrossover", "MatchingCrossover", "KeepVMStandbyCrossover",
          "SchedulingMutation", "MatchingMutation", "KeepVMStandbyMutation"}

ASSUME GeneticAssumption ==
    /\ GenerationSize \in Nat
    /\ BestChromosomesNumber \in 1..GenerationSize
    /\ InitFastestAssignmentsNum \in Nat
    /\ StepsNumber \in Nat
    /\ ConstantScoreStepsNumber \in Nat \ {0}
    /\ Modifications \in Seq(Kinds)
    /\ \A a \in Assignments : CostOf(a) \in Nat \ {0} /\ MakespanOf(a) \in Nat
    /\ Deadline # 0

VARIABLES
    generation,           \* assignments
    filled,               \* how many of the initial ones are finished
    phase,
    applied,              \* changes made by the running loop
    step,                 \* i
    previousScore,
    constantScoreSteps,
    plan,                 \* the actions returned
    cheapest              \* history: least cost of an assignment in time so far

vars == <<generation, filled, phase, applied, step, previousScore,
          constantScoreSteps, plan, cheapest>>

NoPlan == [bought |-> <<>>, queue |-> <<>>]

Init ==
    /\ generation = [i \in Members |->
          [SchedulingString |-> Order,
           MatchingString |-> [t \in Tasks |-> 0],
           KeepVMStandbyString |-> [t \in Tasks |-> FALSE]]]
    /\ filled = 0
    /\ phase = "initial"
    /\ applied = 0
    /\ step = 0
    /\ previousScore = -1
    /\ constantScoreSteps = 0
    /\ plan = NoPlan
    /\ cheapest = -1

-----------------------------------------------------------------------------
(* Mutations *)

\* Where the scan of MakeSchedulingMutation breaks, and where it first found
\* all dependencies behind it.
UpperBound(s, t) == Min({i \in Tasks : t \in Dependencies[s[i]]} \cup {Size})

LowerBound_Late(s, t) ==
    Min({i \in Tasks : /\ i <= UpperBound(s, t)
                           /\ Dependencies[t] \subseteq {s[j] : j \in 0..i}}
            \cup {Size - 1})

LowerBound(s, t) ==
    Min({i \in Tasks : /\ i <= UpperBound(s, t)
                           /\ Dependencies[t] \subseteq {s[j] : j \in 0..(i - 1)}}
            \cup {Size - 1})

\* Inserted without being erased: the task before is overwritten.
Moved_NotErased(s, p, q) == [s EXCEPT ![q] = s[p]]

\* Erased at p, inserted at q.
Moved(s, p, q) ==
    [i \in Tasks |-> IF i = q THEN s[p]
                     ELSE IF p <= i /\ i < q THEN s[i + 1]
                     ELSE IF q < i /\ i <= p THEN s[i - 1]
                     ELSE s[i]]

SchedulingMutations(a) ==
    LET s == a.SchedulingString
        Positions(p) == LowerBound(s, s[p])..(UpperBound(s, s[p]) - 1)
    IN  UNION {{[a EXCEPT !.SchedulingString = Moved(s, p, IF r > p THEN r - 1 ELSE r)] :
                    r \in Positions(p)} : p \in Tasks}

\* Machines too small for the task are offered too.
MatchingMutations_Any(a) ==
    {[a EXCEPT !.MatchingString[t] = vm] : t \in Tasks, vm \in AvailableVMs}

MatchingMutations(a) ==
    UNION {{[a EXCEPT !.MatchingString[t] = vm] : vm \in SuitableVMs(t)} : t \in Tasks}

KeepVMStandbyMutations(a) ==
    {[a EXCEPT !.KeepVMStandbyString[t] = ~@] : t \in Tasks}

-----------------------------------------------------------------------------
(* Crossovers *)

PositionOf(s, t) == CHOOSE i \in Tasks : s[i] = t

\* offspring keeps the string before the cutoff and has the rest in the order
\* it has in the secondary parent.
IsSchedulingCrossover(s, main, secondary, cutoff) ==
    /\ \A i \in 0..(cutoff - 1) : s[i] = main[i]
    /\ \A i, j \in cutoff..(Size - 1) :
          i < j => PositionOf(secondary, s[i]) < PositionOf(secondary, s[j])

SchedulingCrossovers(main, secondary) ==
    {[main EXCEPT !.SchedulingString = s] :
        s \in {s \in Strings : \E cutoff \in Tasks :
                IsSchedulingCrossover(s, main.SchedulingString,
                                      secondary.SchedulingString, cutoff)}}

MatchingCrossovers(main, secondary) ==
    {[main EXCEPT !.MatchingString =
        [t \in Tasks |-> IF /\ PositionOf(main.SchedulingString, t) >= cutoff
                            /\ CanBeExecuted(t, TypeOf(secondary.MatchingString[t]))
                         THEN secondary.MatchingString[t]
                         ELSE @[t]]] : cutoff \in Tasks}

KeepVMStandbyCrossovers(main, secondary) ==
    {[main EXCEPT !.KeepVMStandbyString =
        [t \in Tasks |-> IF t \in copied THEN secondary.KeepVMStandbyString[t]
                         ELSE @[t]]] : copied \in SUBSET Tasks}

Offspring(kind, main, secondary) ==
    CASE kind = "SchedulingCrossover" -> SchedulingCrossovers(main, secondary)
      [] kind = "MatchingCrossover" -> MatchingCrossovers(main, secondary)
      [] kind = "KeepVMStandbyCrossover" -> KeepVMStandbyCrossovers(main, secondary)
      [] OTHER -> {}

Mutated(kind, a) ==
    CASE kind = "SchedulingMutation" -> SchedulingMutations(a)
      [] kind = "MatchingMutation" -> MatchingMutations(a)
      [] kind = "KeepVMStandbyMutation" -> KeepVMStandbyMutations(a)
      [] OTHER -> {}

-----------------------------------------------------------------------------
(* Evaluation *)

MaxCost == Max({CostOf(generation[i]) : i \in Members})

\* A quotient is a pair.
FitnessScore(a, maxCost) ==
    IF MakespanOf(a) > Deadline THEN <<MakespanOf(a) + Deadline, Deadline>>
                                ELSE <<CostOf(a), maxCost>>

\* Costs are compared with makespans that were divided.
FitnessScores_NotScaled == [i \in Members |-> FitnessScore(generation[i], 1)]

\* FillAssignmentValues
FitnessScores ==
    LET maxCost == MaxCost IN [i \in Members |-> FitnessScore(generation[i], maxCost)]

LessThan(x, y) == x[1] * y[2] < y[1] * x[2]
One == <<1, 1>>

\* min_element of GetCheapestAssignment: the first that none is below.
CheapestAssignment ==
    LET score == FitnessScores
        IsBelow(i, j) ==
            /\ ~LessThan(One, score[i])
            /\ LessThan(One, score[j]) \/ CostOf(generation[i]) < CostOf(generation[j])
    IN  CHOOSE i \in Members :
            \A j \in Members : ~IsBelow(j, i) /\ (j < i => IsBelow(i, j))

CurrentScore ==
    LET a == generation[CheapestAssignment]
    IN  IF MakespanOf(a) >= Deadline THEN -1 ELSE CostOf(a)

InTime(a) == MakespanOf(a) <= Deadline

CostsInTime == {CostOf(generation[i]) : i \in {i \in Members : InTime(generation[i])}}

CheapestSoFar ==
    LET costs == CostsInTime \cup ({cheapest} \ {-1})
    IN  IF costs = {} THEN -1 ELSE Min(costs)

-----------------------------------------------------------------------------
(* GetInitialAssignments *)

Current == filled + 1

InitialMutation ==
    /\ phase = "initial" /\ filled < GenerationSize
    /\ applied + 1 < Size
    /\ \E a \in SchedulingMutations(generation[Current]) :
          generation' = [generation EXCEPT ![Current] = a]
    /\ applied' = applied + 1
    /\ UNCHANGED <<filled, phase, step, previousScore, constantScoreSteps, plan, cheapest>>

FastestVMs(t) ==
    {vm \in SuitableVMs(t) : \A u \in SuitableVMs(t) : ~Faster(TypeOf(u), TypeOf(vm))}

\* suitableVMs[taskId % suitableVMs.size()]
FastestMatchings ==
    {m \in [Tasks -> AvailableVMs] : \A t \in Tasks :
        /\ m[t] \in FastestVMs(t)
        /\ Cardinality({vm \in FastestVMs(t) : vm < m[t]}) = t % Cardinality(FastestVMs(t))}

SuitableMatchings ==
    {m \in [Tasks -> AvailableVMs] : \A t \in Tasks : m[t] \in SuitableVMs(t)}

Assigned(matchings, standbys) ==
    /\ \E matching \in matchings, standby \in standbys :
          generation' = [generation EXCEPT ![Current].MatchingString = matching,
                                           ![Current].KeepVMStandbyString = standby]
    /\ filled' = filled + 1
    /\ applied' = 0
    /\ UNCHANGED <<phase, step, previousScore, constantScoreSteps, plan, cheapest>>

FastestAssignment ==
    /\ phase = "initial" /\ filled < GenerationSize
    /\ filled < InitFastestAssignmentsNum
    /\ Assigned(FastestMatchings, {[t \in Tasks |-> TRUE]})

RandomAssignment ==
    /\ phase = "initial" /\ filled < GenerationSize
    /\ filled >= InitFastestAssignmentsNum
    /\ Assigned(SuitableMatchings, [Tasks -> BOOLEAN])

\* FillAssignmentValues before the loop: no score is compared yet.
EvaluateInitial ==
    /\ phase = "initial" /\ filled = GenerationSize
    /\ phase' = "evaluated"
    /\ cheapest' = CheapestSoFar
    /\ UNCHANGED <<generation, filled, applied, step, previousScore, constantScoreSteps, plan>>

-----------------------------------------------------------------------------
(* The loop of PrepareForRun *)

LoopEnds == step = StepsNumber \/ constantScoreSteps = ConstantScoreStepsNumber

\* GetBestChromosomes: the fittest, best first.
AreBest(best) ==
    LET score == FitnessScores IN
    /\ \A k, l \in Best : best[k] = best[l] => k = l
    /\ \A k, l \in Best : k < l => ~LessThan(score[best[l]], score[best[k]])
    /\ \A i \in Members, k \in Best :
          (\A l \in Best : best[l] # i) => ~LessThan(score[i], score[best[k]])

\* GetNewGeneration: the old generation is a constant there, so the best of it
\* can be put in their places before the others are changed.
GetNewGeneration ==
    /\ phase = "evaluated" /\ ~LoopEnds
    /\ \E best \in [Best -> Members] :
          /\ AreBest(best)
          /\ \E chosen \in [Changed -> Members] :
                generation' = [i \in Members |-> IF i \in Best THEN generation[best[i]]
                                                 ELSE generation[chosen[i]]]
    /\ phase' = "modify"
    /\ applied' = 0
    /\ UNCHANGED <<filled, step, previousScore, constantScoreSteps, plan, cheapest>>

Kind == Modifications[applied + 1]

\* The best of the old generation are changed too.
MakeMutation_AnyMember ==
    /\ phase = "modify" /\ applied < Len(Modifications)
    /\ \E i \in Members : \E a \in Mutated(Kind, generation[i]) :
          generation' = [generation EXCEPT ![i] = a]
    /\ applied' = applied + 1
    /\ UNCHANGED <<filled, phase, step, previousScore, constantScoreSteps, plan, cheapest>>

MakeMutation ==
    /\ phase = "modify" /\ applied < Len(Modifications)
    /\ \E i \in Changed : \E a \in Mutated(Kind, generation[i]) :
          generation' = [generation EXCEPT ![i] = a]
    /\ applied' = applied + 1
    /\ UNCHANGED <<filled, phase, step, previousScore, constantScoreSteps, plan, cheapest>>

\* Both children come of the old parents, which may be the same member.
MakeCrossover ==
    /\ phase = "modify" /\ applied < Len(Modifications)
    /\ \E i, j \in Changed :
        \E a \in Offspring(Kind, generation[i], generation[j]),
           b \in Offspring(Kind, generation[j], generation[i]) :
          generation' = [generation EXCEPT ![j] = b, ![i] = a]
    /\ applied' = applied + 1
    /\ UNCHANGED <<filled, phase, step, previousScore, constantScoreSteps, plan, cheapest>>

\* A score of -1 counts as a constant one.
CountedSteps_AnyScore(score) ==
    IF score # previousScore THEN 0 ELSE constantScoreSteps + 1

CountedSteps(score) ==
    IF score # previousScore THEN 0
    ELSE IF previousScore # -1 THEN constantScoreSteps + 1 ELSE constantScoreSteps

Evaluate ==
    /\ phase = "modify" /\ applied = Len(Modifications)
    /\ phase' = "evaluated"
    /\ cheapest' = CheapestSoFar
    /\ previousScore' = CurrentScore
    /\ constantScoreSteps' = CountedSteps(previousScore')
    /\ step' = step + 1
    /\ UNCHANGED <<generation, filled, applied, plan>>

-----------------------------------------------------------------------------
(* The plan *)

\* The first of the fittest.
BestAssignment ==
    LET score == FitnessScores
    IN  generation[CHOOSE i \in Members :
            \A j \in Members : /\ ~LessThan(score[j], score[i])
                               /\ j < i => LessThan(score[i], score[j])]

UsedVMs(a) == {a.MatchingString[t] : t \in Tasks}

\* How many members are below one, and which member has n of them below it.
CountBelow(S, x) == Cardinality({y \in S : y < x})
Nth(S, n) == CHOOSE x \in S : CountBelow(S, x) = n

\* The used machines are numbered anew; a task goes to the old number.
NewId_Old(a, vm) == vm

\* idOldToNew
NewId(a, vm) == CountBelow(UsedVMs(a), vm)

Bought(a) == [k \in 0..(Cardinality(UsedVMs(a)) - 1) |-> TypeOf(Nth(UsedVMs(a), k))]

\* The tasks of a machine, in the order of the string.
PlacesOn(a, k) == {i \in Tasks : NewId(a, a.MatchingString[a.SchedulingString[i]]) = k}
QueueOf(a, k) ==
    [n \in 1..Cardinality(PlacesOn(a, k)) |-> a.SchedulingString[Nth(PlacesOn(a, k), n - 1)]]

PlanOf(a) == [bought |-> Bought(a),
              queue |-> [k \in {NewId(a, vm) : vm \in UsedVMs(a)} |-> QueueOf(a, k)]]

MakePlan ==
    /\ phase = "evaluated" /\ LoopEnds
    /\ plan' = PlanOf(BestAssignment)
    /\ phase' = "done"
    /\ UNCHANGED <<generation, filled, applied, step, previousScore, constantScoreSteps, cheapest>>

Ended == phase = "done" /\ UNCHANGED vars

Next ==
    \/ InitialMutation \/ FastestAssignment \/ RandomAssignment \/ EvaluateInitial
    \/ GetNewGeneration \/ MakeMutation \/ MakeCrossover \/ Evaluate
    \/ MakePlan \/ Ended

Spec == Init /\ [][Next]_vars

-----------------------------------------------------------------------------
(* Properties *)

GeneticTypeOK ==
    /\ generation \in [Members -> Assignments]
    /\ filled \in 0..GenerationSize
    /\ phase \in {"initial", "evaluated", "modify", "done"}
    /\ applied \in Nat
    /\ step \in 0..StepsNumber
    /\ previousScore \in Nat \cup {-1}
    /\ constantScoreSteps \in 0..ConstantScoreStepsNumber
    /\ cheapest \in Nat \cup {-1}

(***************************************************************************)
(* No chain of crossovers and mutations makes an assignment that could not *)
(* be run: the order agrees with the workflow ("Can't process next task,   *)
(* task order is inconsistent!", genetic_scheduler.cpp 217), the machine   *)
(* suits (task.h 104), and a mutation always has a place for the task      *)
(* ("Task order is inconsitent!", 388).                                    *)
(***************************************************************************)
AssignmentsRunnable ==
    \A i \in Members :
        LET s == generation[i].SchedulingString IN
        /\ InOrder(s)
        /\ \A t \in Tasks : LowerBound(s, t) < UpperBound(s, t)
        /\ i <= filled => \A t \in Tasks : generation[i].MatchingString[t] \in SuitableVMs(t)

(***************************************************************************)
(* The search never loses the cheapest assignment in time it has met: it   *)
(* is handed from generation to generation whatever else is changed.       *)
(***************************************************************************)
CheapestKept ==
    cheapest # -1 => \E i \in Members : /\ InTime(generation[i])
                                         /\ CostOf(generation[i]) = cheapest

(***************************************************************************)
(* The plan returned is in time if any assignment ever met was, and costs  *)
(* no more than any of them.                                               *)
(***************************************************************************)
CheapestReturned ==
    phase = "done" /\ cheapest # -1 =>
        InTime(BestAssignment) /\ CostOf(BestAssignment) = cheapest

(***************************************************************************)
(* Steps are counted towards the early end of the search only while the    *)
(* score is the least cost met so far, never while there is no plan in time.*)
(***************************************************************************)
CountsSettledStepsOnly ==
    constantScoreSteps > 0 => previousScore = cheapest /\ cheapest # -1
=============================================================================
