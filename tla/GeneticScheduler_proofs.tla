----------------------- MODULE GeneticScheduler_proofs -----------------------
(***************************************************************************)
(* Theorems about the genetic scheduler: for every workflow and every list *)
(* of machine types the assignments stay runnable, the cheapest one in     *)
(* time is never lost, and the plan returned can be run in the time the    *)
(* assignment was valued by.                                               *)
(***************************************************************************)
EXTENDS AssignmentCost, FiniteSetTheorems, TLAPS

(* ----------------------------- numbers --------------------------------- *)

\* Every set of naturals has a least element, which Min gives.
LEMMA LeastExists ==
    ASSUME NEW S, S \subseteq Nat, S # {}
    PROVE  \E x \in S : \A y \in S : x <= y
<1> DEFINE R == OpToRel(<, Nat)
<1>1. IsWellFoundedOn(R, Nat)
  BY NatLessThanWellFounded
<1>2. \A x, y \in Nat : <<y, x>> \in R <=> y < x
  BY DEF OpToRel
<1> HIDE DEF R
<1>3. PICK x \in S : \A y \in S : ~ (<<y, x>> \in R)
  BY <1>1, WFMin
<1>4. \A y \in S : ~(y < x)
  BY <1>2, <1>3
<1> QED BY <1>4

LEMMA LeastOfSet ==
    ASSUME NEW S, S \subseteq Nat, S # {}
    PROVE  Min(S) \in S /\ \A y \in S : Min(S) <= y
BY LeastExists DEF Min

\* A finite sequence of naturals has a greatest member.
LEMMA GreatestExists ==
    ASSUME NEW N \in Nat \ {0}, NEW f \in [1..N -> Nat]
    PROVE  \E m \in 1..N : \A i \in 1..N : f[i] <= f[m]
<1> DEFINE Has(k) == \E m \in 1..k : \A i \in 1..k : f[i] <= f[m]
           Failures == {k \in 1..N : ~Has(k)}
<1>1. Has(1)
  BY f[1] <= f[1]
<1>2. ASSUME NEW k \in 1..N, k + 1 \in 1..N, Has(k)
      PROVE  Has(k + 1)
  <2>1. PICK m \in 1..k : \A i \in 1..k : f[i] <= f[m]
    BY <1>2
  <2>2. CASE f[k + 1] <= f[m]
    <3>1. \A i \in 1..(k + 1) : f[i] <= f[m]
      BY <2>1, <2>2
    <3> QED BY <3>1
  <2>3. CASE ~(f[k + 1] <= f[m])
    <3>1. \A i \in 1..(k + 1) : f[i] <= f[k + 1]
      <4> SUFFICES ASSUME NEW i \in 1..(k + 1) PROVE f[i] <= f[k + 1]
        OBVIOUS
      <4>1. i \in 1..N /\ m \in 1..N
        BY <1>2
      <4>2. CASE i = k + 1
        BY <4>1, <4>2
      <4>3. CASE i \in 1..k
        BY <2>1, <2>3, <4>1, <4>3, <1>2
      <4> QED BY <4>2, <4>3
    <3> QED BY <3>1
  <2> QED BY <2>2, <2>3
<1>3. Failures = {}
  <2> SUFFICES ASSUME Failures # {} PROVE FALSE
    OBVIOUS
  <2> HIDE DEF Has
  <2>1. Failures \subseteq Nat
    OBVIOUS
  <2>2. PICK k \in Failures : \A l \in Failures : k <= l
    <3> HIDE DEF Failures
    <3> QED BY <2>1, LeastExists
  <2>3. k \in 1..N /\ ~Has(k)
    OBVIOUS
  <2>4. k # 1
    BY <2>3, <1>1
  <2>5. k - 1 \in 1..N /\ k - 1 \notin Failures /\ (k - 1) + 1 = k
    BY <2>2, <2>3, <2>4
  <2>6. Has(k - 1)
    BY <2>5
  <2>7. Has((k - 1) + 1)
    BY <1>2, <2>3, <2>5, <2>6
  <2> QED BY <2>3, <2>5, <2>7
<1>4. N \in 1..N
  OBVIOUS
<1>5. Has(N)
  <2> HIDE DEF Has
  <2> QED BY <1>3, <1>4
<1> QED BY <1>5

(* ----------------------- scheduling strings ---------------------------- *)

LEMMA PositionInString ==
    ASSUME NEW s \in Strings, NEW t \in Tasks
    PROVE  PositionOf(s, t) \in Tasks /\ s[PositionOf(s, t)] = t
BY DEF Strings, PositionOf

\* A task may be put anywhere between the last it depends on and the first
\* that depends on it; its own place is between them.
LEMMA BoundsOfMutation ==
    ASSUME NEW s \in Strings, InOrder(s), NEW p \in Tasks
    PROVE  /\ LowerBound(s, s[p]) \in 0..p
           /\ UpperBound(s, s[p]) \in (p + 1)..Size
           /\ \A j \in Tasks : s[j] \in Dependencies[s[p]] => j < LowerBound(s, s[p])
           /\ \A j \in Tasks : s[p] \in Dependencies[s[j]] => UpperBound(s, s[p]) <= j
<1> DEFINE t == s[p]
           U == {i \in Tasks : t \in Dependencies[s[i]]} \cup {Size}
           L == {i \in Tasks : /\ i <= UpperBound(s, t)
                              /\ Dependencies[t] \subseteq {s[j] : j \in 0..(i - 1)}}
                \cup {Size - 1}
<1>1. Size \in Nat \ {0} /\ Tasks = 0..(Size - 1) /\ Dependencies[t] \subseteq Tasks
  BY ViewAssumption DEF Strings, Tasks
<1>2. \A j \in Tasks : /\ s[j] \in Dependencies[t] => j < p
                       /\ t \in Dependencies[s[j]] => p < j
  BY DEF InOrder
<1>3. UpperBound(s, t) \in U /\ \A i \in U : UpperBound(s, t) <= i
  <2>1. U \subseteq Nat /\ U # {}
    BY <1>1
  <2>2. UpperBound(s, t) = Min(U)
    BY DEF UpperBound
  <2> HIDE DEF U
  <2> QED BY <2>1, <2>2, LeastOfSet
<1>4. UpperBound(s, t) \in (p + 1)..Size
  BY <1>1, <1>2, <1>3
<1>5. LowerBound(s, t) \in L /\ \A i \in L : LowerBound(s, t) <= i
  <2>1. L \subseteq Nat /\ L # {}
    BY <1>1
  <2>2. LowerBound(s, t) = Min(L)
    BY DEF LowerBound
  <2> HIDE DEF L
  <2> QED BY <2>1, <2>2, LeastOfSet
<1>6. p \in L
  <2>1. \A d \in Dependencies[t] : d \in {s[j] : j \in 0..(p - 1)}
    <3> SUFFICES ASSUME NEW d \in Dependencies[t] PROVE d \in {s[j] : j \in 0..(p - 1)}
      OBVIOUS
    <3>1. PICK j \in Tasks : s[j] = d
      BY <1>1 DEF Strings
    <3>2. j \in 0..(p - 1)
      BY <1>1, <1>2, <3>1
    <3> QED BY <3>1, <3>2
  <2> QED BY <1>1, <1>4, <2>1
<1>7. LowerBound(s, t) \in 0..p
  BY <1>1, <1>5, <1>6
<1>8. ASSUME NEW j \in Tasks, s[j] \in Dependencies[t]
      PROVE  j < LowerBound(s, t)
  <2>1. CASE LowerBound(s, t) = Size - 1
    BY <1>1, <1>2, <1>7, <1>8, <2>1
  <2>2. CASE LowerBound(s, t) # Size - 1
    <3>1. PICK k \in 0..(LowerBound(s, t) - 1) : s[k] = s[j]
      BY <1>5, <1>8, <2>2
    <3>2. k \in Tasks /\ k < LowerBound(s, t)
      <4> HIDE DEF t
      <4> QED BY <1>1, <1>7
    <3>3. k = j
      BY <3>1, <3>2 DEF Strings
    <3> QED BY <3>2, <3>3
  <2> QED BY <2>1, <2>2
<1> QED BY <1>3, <1>4, <1>7, <1>8

LEMMA MovedInOrder ==
    ASSUME NEW s \in Strings, InOrder(s), NEW p \in Tasks,
           NEW r \in LowerBound(s, s[p])..(UpperBound(s, s[p]) - 1),
           NEW q, q = IF r > p THEN r - 1 ELSE r
    PROVE  Moved(s, p, q) \in Strings /\ InOrder(Moved(s, p, q))
<1> DEFINE lo == LowerBound(s, s[p])
           up == UpperBound(s, s[p])
           from(i) == IF i = q THEN p
                      ELSE IF p <= i /\ i < q THEN i + 1
                      ELSE IF q < i /\ i <= p THEN i - 1
                      ELSE i
           m == Moved(s, p, q)
<1>1. Size \in Nat \ {0} /\ Tasks = 0..(Size - 1)
  BY ViewAssumption DEF Tasks
<1>2. /\ lo \in 0..p /\ up \in (p + 1)..Size
      /\ \A j \in Tasks : s[j] \in Dependencies[s[p]] => j < lo
      /\ \A j \in Tasks : s[p] \in Dependencies[s[j]] => up <= j
  BY BoundsOfMutation
<1> HIDE DEF lo, up
<1>3. q \in lo..(up - 1) /\ q \in Tasks
  BY <1>1, <1>2 DEF lo, up
<1>4. \A i \in Tasks : from(i) \in Tasks /\ m[i] = s[from(i)]
  BY <1>1, <1>3 DEF Moved
<1>5. \A i, j \in Tasks : from(i) = from(j) => i = j
  BY <1>1, <1>3
<1>6. \A k \in Tasks : \E i \in Tasks : from(i) = k
  <2> SUFFICES ASSUME NEW k \in Tasks PROVE \E i \in Tasks : from(i) = k
    OBVIOUS
  <2>1. CASE k = p
    BY <1>3, <2>1
  <2>2. CASE p < k /\ k <= q
    <3>1. k - 1 \in Tasks /\ from(k - 1) = k
      BY <1>1, <1>3, <2>2
    <3> QED BY <3>1
  <2>3. CASE q <= k /\ k < p
    <3>1. k + 1 \in Tasks /\ from(k + 1) = k
      BY <1>1, <1>3, <2>3
    <3> QED BY <3>1
  <2>4. CASE k # p /\ ~(p < k /\ k <= q) /\ ~(q <= k /\ k < p)
    <3>1. from(k) = k
      BY <1>1, <1>3, <2>4
    <3> QED BY <3>1
  <2> QED BY <2>1, <2>2, <2>3, <2>4
<1>7. \A i, j \in Tasks : i # q /\ j # q /\ from(i) < from(j) => i < j
  BY <1>1, <1>3
<1>8. \A i \in Tasks : from(i) < lo /\ i # q => i < q
  BY <1>1, <1>2, <1>3
<1>9. \A j \in Tasks : up <= from(j) /\ j # q => q < j
  BY <1>1, <1>2, <1>3
<1>10. from(q) = p
  OBVIOUS
<1> HIDE DEF from
<1>11. m \in Strings
  <2>1. m \in [Tasks -> Tasks]
    <3>1. m = [i \in Tasks |-> m[i]]
      BY DEF Moved
    <3> QED BY <1>4, <3>1 DEF Strings
  <2>2. \A i, j \in Tasks : m[i] = m[j] => i = j
    BY <1>4, <1>5 DEF Strings
  <2>3. \A t \in Tasks : \E i \in Tasks : m[i] = t
    <3> SUFFICES ASSUME NEW t \in Tasks PROVE \E i \in Tasks : m[i] = t
      OBVIOUS
    <3>1. PICK k \in Tasks : s[k] = t
      BY DEF Strings
    <3>2. PICK i \in Tasks : from(i) = k
      BY <1>6
    <3> QED BY <1>4, <3>1, <3>2
  <2> QED BY <2>1, <2>2, <2>3 DEF Strings
<1>12. InOrder(m)
  <2> SUFFICES ASSUME NEW i \in Tasks, NEW j \in Tasks, m[i] \in Dependencies[m[j]]
               PROVE  i < j
    BY DEF InOrder
  <2>1. s[from(i)] \in Dependencies[s[from(j)]] /\ from(i) \in Tasks /\ from(j) \in Tasks
    BY <1>4
  <2>2. from(i) < from(j)
    BY <2>1 DEF InOrder
  <2>3. CASE j = q
    <3>1. from(i) < lo
      BY <1>2, <1>10, <2>1, <2>3
    <3>2. i # q
      BY <1>1, <2>1, <2>2, <2>3
    <3> QED BY <1>8, <2>3, <3>1, <3>2
  <2>4. CASE i = q
    <3>1. up <= from(j)
      BY <1>2, <1>10, <2>1, <2>4
    <3>2. j # q
      BY <1>1, <2>1, <2>2, <2>4
    <3> QED BY <1>9, <2>4, <3>1, <3>2
  <2>5. CASE i # q /\ j # q
    BY <1>7, <2>2, <2>5
  <2> QED BY <2>3, <2>4, <2>5
<1> QED BY <1>11, <1>12

\* Prefix of the one parent, the rest in the order of the other.
LEMMA CrossedInOrder ==
    ASSUME NEW s \in Strings, NEW main \in Strings, NEW secondary \in Strings,
           InOrder(main), InOrder(secondary), NEW cutoff \in Tasks,
           IsSchedulingCrossover(s, main, secondary, cutoff)
    PROVE  InOrder(s)
<1>1. Size \in Nat \ {0} /\ Tasks = 0..(Size - 1)
  BY ViewAssumption DEF Tasks
<1> SUFFICES ASSUME NEW i \in Tasks, NEW j \in Tasks, s[i] \in Dependencies[s[j]]
             PROVE  i < j
  BY DEF InOrder
<1>2. s[i] \in Tasks /\ s[j] \in Tasks
  BY DEF Strings
<1>3. \A k \in Tasks : k < cutoff => s[k] = main[k]
  BY <1>1 DEF IsSchedulingCrossover
<1>4. CASE j < cutoff
  <2>1. PICK k \in Tasks : main[k] = s[i]
    BY <1>2 DEF Strings
  <2>2. k < j
    BY <1>3, <1>4, <2>1 DEF InOrder
  <2>3. s[k] = main[k]
    BY <1>1, <1>3, <1>4, <2>2
  <2>4. k = i
    BY <2>1, <2>3 DEF Strings
  <2> QED BY <2>2, <2>4
<1>5. CASE ~(j < cutoff) /\ i < cutoff
  BY <1>1, <1>5
<1>6. CASE ~(j < cutoff) /\ ~(i < cutoff)
  <2> DEFINE a == PositionOf(secondary, s[i])
             b == PositionOf(secondary, s[j])
  <2>1. a \in Tasks /\ b \in Tasks /\ secondary[a] = s[i] /\ secondary[b] = s[j]
    BY <1>2, PositionInString
  <2>2. a < b
    BY <2>1 DEF InOrder
  <2>3. j < i => b < a
    BY <1>1, <1>6 DEF IsSchedulingCrossover
  <2>4. i # j
    BY <1>1, <2>1, <2>2
  <2> HIDE DEF a, b
  <2> QED BY <1>1, <2>1, <2>2, <2>3, <2>4
<1> QED BY <1>4, <1>5, <1>6

(* ------------------- mutations and crossovers -------------------------- *)

Suits(a) == \A t \in Tasks : a.MatchingString[t] \in SuitableVMs(t)
Runnable(a) == a \in Assignments /\ InOrder(a.SchedulingString) /\ Suits(a)

LEMMA SchedulingMutationKeeps ==
    ASSUME NEW a \in Assignments, InOrder(a.SchedulingString),
           NEW b \in SchedulingMutations(a)
    PROVE  /\ b \in Assignments
           /\ InOrder(b.SchedulingString)
           /\ b.MatchingString = a.MatchingString
<1> DEFINE s == a.SchedulingString
<1>1. s \in Strings
  BY DEF Assignments
<1>2. PICK p \in Tasks : \E r \in LowerBound(s, s[p])..(UpperBound(s, s[p]) - 1) :
        b = [a EXCEPT !.SchedulingString = Moved(s, p, IF r > p THEN r - 1 ELSE r)]
  BY DEF SchedulingMutations
<1>3. PICK r \in LowerBound(s, s[p])..(UpperBound(s, s[p]) - 1) :
        b = [a EXCEPT !.SchedulingString = Moved(s, p, IF r > p THEN r - 1 ELSE r)]
  BY <1>2
<1> DEFINE m == Moved(s, p, IF r > p THEN r - 1 ELSE r)
<1>4. m \in Strings /\ InOrder(m)
  BY <1>1, MovedInOrder
<1>5. b = [a EXCEPT !.SchedulingString = m]
  BY <1>3
<1> HIDE DEF m
<1> QED BY <1>4, <1>5 DEF Assignments

LEMMA MutationKeeps ==
    ASSUME NEW a, Runnable(a), NEW kind, NEW b \in Mutated(kind, a)
    PROVE  Runnable(b)
<1>1. \/ b \in SchedulingMutations(a)
      \/ b \in MatchingMutations(a)
      \/ b \in KeepVMStandbyMutations(a)
  BY DEF Mutated
<1>2. CASE b \in SchedulingMutations(a)
  BY <1>2, SchedulingMutationKeeps DEF Runnable, Suits
<1>3. CASE b \in MatchingMutations(a)
  <2>1. PICK t \in Tasks : \E vm \in SuitableVMs(t) : b = [a EXCEPT !.MatchingString[t] = vm]
    BY <1>3 DEF MatchingMutations
  <2>2. PICK vm \in SuitableVMs(t) : b = [a EXCEPT !.MatchingString[t] = vm]
    BY <2>1
  <2>3. vm \in AvailableVMs
    BY DEF SuitableVMs
  <2> QED BY <2>2, <2>3 DEF Runnable, Suits, Assignments
<1>4. CASE b \in KeepVMStandbyMutations(a)
  <2>1. PICK t \in Tasks : b = [a EXCEPT !.KeepVMStandbyString[t] = ~@]
    BY <1>4 DEF KeepVMStandbyMutations
  <2> QED BY <2>1 DEF Runnable, Suits, Assignments
<1> QED BY <1>1, <1>2, <1>3, <1>4

LEMMA CrossoverKeeps ==
    ASSUME NEW main, NEW secondary, Runnable(main), Runnable(secondary),
           NEW kind, NEW b \in Offspring(kind, main, secondary)
    PROVE  Runnable(b)
<1>1. \/ b \in SchedulingCrossovers(main, secondary)
      \/ b \in MatchingCrossovers(main, secondary)
      \/ b \in KeepVMStandbyCrossovers(main, secondary)
  BY DEF Offspring
<1>2. CASE b \in SchedulingCrossovers(main, secondary)
  <2>1. PICK s \in Strings, cutoff \in Tasks :
          /\ IsSchedulingCrossover(s, main.SchedulingString, secondary.SchedulingString, cutoff)
          /\ b = [main EXCEPT !.SchedulingString = s]
    BY <1>2 DEF SchedulingCrossovers
  <2>2. InOrder(s)
    BY <2>1, CrossedInOrder DEF Runnable, Assignments
  <2> QED BY <2>1, <2>2 DEF Runnable, Suits, Assignments
<1>3. CASE b \in MatchingCrossovers(main, secondary)
  <2>1. PICK cutoff \in Tasks :
          b = [main EXCEPT !.MatchingString =
                 [t \in Tasks |-> IF /\ PositionOf(main.SchedulingString, t) >= cutoff
                                     /\ CanBeExecuted(t, TypeOf(secondary.MatchingString[t]))
                                  THEN secondary.MatchingString[t]
                                  ELSE main.MatchingString[t]]]
    BY <1>3 DEF MatchingCrossovers, Runnable, Assignments
  <2>2. /\ b.SchedulingString = main.SchedulingString
        /\ b.KeepVMStandbyString = main.KeepVMStandbyString
        /\ \A t \in Tasks : b.MatchingString[t] \in {main.MatchingString[t], secondary.MatchingString[t]}
    BY <2>1 DEF Runnable, Assignments
  <2>3. \A t \in Tasks : b.MatchingString[t] \in SuitableVMs(t) /\ b.MatchingString[t] \in AvailableVMs
    BY <2>2 DEF Runnable, Suits, SuitableVMs
  <2>4. b \in Assignments
    BY <2>1, <2>3 DEF Runnable, Assignments
  <2> QED BY <2>2, <2>3, <2>4 DEF Runnable, Suits
<1>4. CASE b \in KeepVMStandbyCrossovers(main, secondary)
  <2>1. PICK copied \in SUBSET Tasks :
          b = [main EXCEPT !.KeepVMStandbyString =
                 [t \in Tasks |-> IF t \in copied THEN secondary.KeepVMStandbyString[t]
                                  ELSE main.KeepVMStandbyString[t]]]
    BY <1>4 DEF KeepVMStandbyCrossovers, Runnable, Assignments
  <2> QED BY <2>1 DEF Runnable, Suits, Assignments
<1> QED BY <1>1, <1>2, <1>3, <1>4

(* --------------------------- evaluation -------------------------------- *)

\* What the lemmas on costs need of a generation.
Evaluable == generation \in [Members -> Assignments]

LEMMA ConstantsOK ==
    /\ GenerationSize \in Nat \ {0}
    /\ Members = 1..GenerationSize
    /\ BestChromosomesNumber \in 1..GenerationSize
    /\ Best \subseteq Members /\ Changed \subseteq Members
    /\ Best = (GenerationSize - BestChromosomesNumber + 1)..GenerationSize
    /\ Best # {}
    /\ Deadline \in Nat \ {0}
    /\ StepsNumber \in Nat
    /\ ConstantScoreStepsNumber \in Nat \ {0}
<1>1. GenerationSize \in Nat \ {0} /\ BestChromosomesNumber \in 1..GenerationSize /\ Deadline \in Nat \ {0}
  BY GeneticAssumption, ViewAssumption
<1>2. Best = (GenerationSize - BestChromosomesNumber + 1)..GenerationSize
  BY <1>1 DEF Members, Best, Changed
<1>3. GenerationSize \in Best
  BY <1>1, <1>2
<1>4. StepsNumber \in Nat /\ ConstantScoreStepsNumber \in Nat \ {0}
  BY GeneticAssumption
<1> QED BY <1>1, <1>2, <1>3, <1>4 DEF Members, Best, Changed

LEMMA MaxCostBounds ==
    ASSUME Evaluable
    PROVE  /\ MaxCost \in Nat \ {0}
           /\ \A i \in Members : CostOf(generation[i]) \in Nat \ {0} /\ CostOf(generation[i]) <= MaxCost
<1> DEFINE f == [i \in Members |-> CostOf(generation[i])]
           costs == {CostOf(generation[i]) : i \in Members}
<1>1. \A i \in Members : CostOf(generation[i]) \in Nat \ {0}
  BY GeneticAssumption DEF Evaluable
<1>2. PICK m \in Members : \A i \in Members : f[i] <= f[m]
  <2>1. f \in [1..GenerationSize -> Nat]
    BY <1>1, ConstantsOK
  <2> HIDE DEF f
  <2> QED BY <2>1, ConstantsOK, GreatestExists
<1>3. CostOf(generation[m]) \in costs /\ \A c \in costs : c <= CostOf(generation[m])
  BY <1>2
<1>4. MaxCost \in costs /\ \A c \in costs : c <= MaxCost
  <2>1. MaxCost = Max(costs)
    BY DEF MaxCost
  <2> HIDE DEF costs
  <2> QED BY <1>3, <2>1 DEF Max
<1> QED BY <1>1, <1>4

LEMMA Scores ==
    ASSUME Evaluable, NEW i \in Members
    PROVE  /\ InTime(generation[i]) =>
                /\ FitnessScores[i] = <<CostOf(generation[i]), MaxCost>>
                /\ CostOf(generation[i]) \in 1..MaxCost
           /\ ~InTime(generation[i]) =>
                \E m \in Nat : m > Deadline /\ FitnessScores[i] = <<m + Deadline, Deadline>>
<1>1. MakespanOf(generation[i]) \in Nat
  BY GeneticAssumption DEF Evaluable
<1>2. FitnessScores[i] = FitnessScore(generation[i], MaxCost)
  BY DEF FitnessScores
<1>3. MaxCost \in Nat \ {0} /\ CostOf(generation[i]) \in 1..MaxCost /\ Deadline \in Nat \ {0}
  BY MaxCostBounds, ConstantsOK
<1> QED BY <1>1, <1>2, <1>3 DEF FitnessScore, InTime

\* Who is not beaten by a member in time is in time too and no dearer.
LEMMA NotBeaten ==
    ASSUME Evaluable, NEW m \in Members, NEW y \in Members, InTime(generation[m]),
           ~LessThan(FitnessScores[m], FitnessScores[y])
    PROVE  InTime(generation[y]) /\ CostOf(generation[y]) <= CostOf(generation[m])
<1> DEFINE cm == CostOf(generation[m])
           cy == CostOf(generation[y])
<1>1. MaxCost \in Nat \ {0} /\ cm \in 1..MaxCost /\ cy \in Nat /\ FitnessScores[m] = <<cm, MaxCost>>
  BY Scores, MaxCostBounds
<1>2. InTime(generation[y])
  <2> SUFFICES ASSUME ~InTime(generation[y]) PROVE FALSE
    OBVIOUS
  <2>1. PICK n \in Nat : n > Deadline /\ FitnessScores[y] = <<n + Deadline, Deadline>>
    BY Scores
  <2>2. ~(cm * Deadline < (n + Deadline) * MaxCost)
    BY <1>1, <2>1 DEF LessThan
  <2> HIDE DEF cm
  <2>3. cm * Deadline <= MaxCost * Deadline
    BY <1>1, ConstantsOK
  <2>4. (n + Deadline) * MaxCost = n * MaxCost + MaxCost * Deadline
    BY <1>1, ConstantsOK
  <2>5. n * MaxCost > 0
    BY <1>1, <2>1, ConstantsOK
  <2>6. cm * Deadline \in Int /\ MaxCost * Deadline \in Int /\ n * MaxCost \in Int
    BY <1>1, ConstantsOK
  <2> QED BY <2>2, <2>3, <2>4, <2>5, <2>6
<1>3. FitnessScores[y] = <<cy, MaxCost>>
  BY <1>2, Scores
<1>4. ~(cm * MaxCost < cy * MaxCost)
  BY <1>1, <1>3 DEF LessThan
<1>5. cy <= cm
  <2> HIDE DEF cm, cy
  <2> QED BY <1>1, <1>4
<1> QED BY <1>2, <1>5

\* A member in time that none in time undercuts is beaten by nobody.
LEMMA Unbeaten ==
    ASSUME Evaluable, NEW m \in Members, InTime(generation[m]),
           NEW j \in Members,
           InTime(generation[j]) => CostOf(generation[m]) <= CostOf(generation[j])
    PROVE  ~LessThan(FitnessScores[j], FitnessScores[m])
<1> DEFINE cm == CostOf(generation[m])
           cj == CostOf(generation[j])
<1>1. MaxCost \in Nat \ {0} /\ cm \in 1..MaxCost /\ cj \in Nat /\ FitnessScores[m] = <<cm, MaxCost>>
  BY Scores, MaxCostBounds
<1>2. CASE InTime(generation[j])
  <2>1. FitnessScores[j] = <<cj, MaxCost>> /\ cm <= cj
    BY <1>2, Scores
  <2> HIDE DEF cm, cj
  <2>2. cm * MaxCost <= cj * MaxCost
    BY <1>1, <2>1
  <2> QED BY <1>1, <2>1, <2>2 DEF LessThan
<1>3. CASE ~InTime(generation[j])
  <2>1. PICK n \in Nat : n > Deadline /\ FitnessScores[j] = <<n + Deadline, Deadline>>
    BY <1>3, Scores
  <2> HIDE DEF cm
  <2>2. cm * Deadline <= MaxCost * Deadline
    BY <1>1, ConstantsOK
  <2>3. (n + Deadline) * MaxCost = n * MaxCost + MaxCost * Deadline
    BY <1>1, ConstantsOK
  <2>4. n * MaxCost > 0
    BY <1>1, <2>1, ConstantsOK
  <2>5. cm * Deadline \in Int /\ MaxCost * Deadline \in Int /\ n * MaxCost \in Int
    BY <1>1, ConstantsOK
  <2>6. ~((n + Deadline) * MaxCost < cm * Deadline)
    BY <2>2, <2>3, <2>4, <2>5
  <2> QED BY <1>1, <2>1, <2>6 DEF LessThan
<1> QED BY <1>2, <1>3

LEMMA Beats ==
    ASSUME Evaluable, NEW m \in Members, InTime(generation[m]), NEW j \in Members,
           InTime(generation[j]) => CostOf(generation[m]) < CostOf(generation[j])
    PROVE  LessThan(FitnessScores[m], FitnessScores[j])
<1> DEFINE cm == CostOf(generation[m])
           cj == CostOf(generation[j])
<1>1. MaxCost \in Nat \ {0} /\ cm \in 1..MaxCost /\ cj \in Nat /\ FitnessScores[m] = <<cm, MaxCost>>
  BY Scores, MaxCostBounds
<1>2. CASE InTime(generation[j])
  <2>1. FitnessScores[j] = <<cj, MaxCost>> /\ cm < cj
    BY <1>2, Scores
  <2> HIDE DEF cm, cj
  <2>2. cm * MaxCost < cj * MaxCost
    BY <1>1, <2>1
  <2> QED BY <1>1, <2>1, <2>2 DEF LessThan
<1>3. CASE ~InTime(generation[j])
  <2>1. PICK n \in Nat : n > Deadline /\ FitnessScores[j] = <<n + Deadline, Deadline>>
    BY <1>3, Scores
  <2> HIDE DEF cm
  <2>2. cm * Deadline <= MaxCost * Deadline
    BY <1>1, ConstantsOK
  <2>3. (n + Deadline) * MaxCost = n * MaxCost + MaxCost * Deadline
    BY <1>1, ConstantsOK
  <2>4. n * MaxCost > 0
    BY <1>1, <2>1, ConstantsOK
  <2>5. cm * Deadline \in Int /\ MaxCost * Deadline \in Int /\ n * MaxCost \in Int
    BY <1>1, ConstantsOK
  <2>6. cm * Deadline < (n + Deadline) * MaxCost
    BY <2>2, <2>3, <2>4, <2>5
  <2> QED BY <1>1, <2>1, <2>6 DEF LessThan
<1> QED BY <1>2, <1>3

\* The first of the cheapest members in time.
IsFirstCheapest(m) ==
    /\ InTime(generation[m])
    /\ \A j \in Members : InTime(generation[j]) =>
          /\ CostOf(generation[m]) <= CostOf(generation[j])
          /\ j < m => CostOf(generation[m]) < CostOf(generation[j])

LEMMA FirstCheapest ==
    ASSUME Evaluable, NEW k \in Members, InTime(generation[k])
    PROVE  \E m \in Members : IsFirstCheapest(m)
<1>1. CostOf(generation[k]) \in CostsInTime /\ CostsInTime \subseteq Nat
  BY MaxCostBounds DEF CostsInTime
<1>2. PICK c \in CostsInTime : \A d \in CostsInTime : c <= d
  BY <1>1, LeastExists
<1> DEFINE S == {i \in Members : InTime(generation[i]) /\ CostOf(generation[i]) = c}
<1>3. S \subseteq Nat /\ S # {}
  BY ConstantsOK DEF CostsInTime
<1>4. PICK m \in S : \A i \in S : m <= i
  <2> HIDE DEF S
  <2> QED BY <1>3, LeastExists
<1>5. m \in Members /\ InTime(generation[m]) /\ CostOf(generation[m]) = c
  OBVIOUS
<1>6. ASSUME NEW j \in Members, InTime(generation[j])
      PROVE  /\ CostOf(generation[m]) <= CostOf(generation[j])
             /\ j < m => CostOf(generation[m]) < CostOf(generation[j])
  <2>1. CostOf(generation[j]) \in CostsInTime /\ CostOf(generation[j]) \in Nat /\ c \in Nat
    BY <1>1, <1>6 DEF CostsInTime
  <2>2. c <= CostOf(generation[j])
    BY <1>2, <2>1
  <2>3. CostOf(generation[j]) = c => m <= j
    BY <1>4, <1>6
  <2>4. j \in Nat /\ m \in Nat
    BY ConstantsOK
  <2> QED BY <1>5, <2>1, <2>2, <2>3, <2>4
<1> QED BY <1>5, <1>6 DEF IsFirstCheapest

LEMMA BestIsCheapest ==
    ASSUME Evaluable, NEW k \in Members, InTime(generation[k])
    PROVE  \E i \in Members : /\ BestAssignment = generation[i]
                              /\ InTime(generation[i])
                              /\ CostOf(generation[i]) <= CostOf(generation[k])
<1> DEFINE IsBest(i) == \A j \in Members : /\ ~LessThan(FitnessScores[j], FitnessScores[i])
                                           /\ j < i => LessThan(FitnessScores[i], FitnessScores[j])
           b == CHOOSE i \in Members : IsBest(i)
<1>1. PICK m \in Members : IsFirstCheapest(m)
  BY FirstCheapest
<1>2. IsBest(m)
  <2> SUFFICES ASSUME NEW j \in Members
               PROVE  /\ ~LessThan(FitnessScores[j], FitnessScores[m])
                      /\ j < m => LessThan(FitnessScores[m], FitnessScores[j])
    OBVIOUS
  <2>1. ~LessThan(FitnessScores[j], FitnessScores[m])
    BY <1>1, Unbeaten DEF IsFirstCheapest
  <2>2. j < m => LessThan(FitnessScores[m], FitnessScores[j])
    BY <1>1, Beats DEF IsFirstCheapest
  <2> QED BY <2>1, <2>2
<1>3. b \in Members /\ IsBest(b)
  <2> HIDE DEF IsBest
  <2> QED BY <1>2
<1>4. BestAssignment = generation[b]
  BY DEF BestAssignment
<1> HIDE DEF b
<1>5. ~LessThan(FitnessScores[k], FitnessScores[b])
  BY <1>3
<1>6. InTime(generation[b]) /\ CostOf(generation[b]) <= CostOf(generation[k])
  BY <1>3, <1>5, NotBeaten
<1> QED BY <1>3, <1>4, <1>6

LEMMA OverOne ==
    ASSUME Evaluable, NEW i \in Members
    PROVE  LessThan(One, FitnessScores[i]) <=> ~InTime(generation[i])
<1>1. CASE InTime(generation[i])
  BY <1>1, Scores, MaxCostBounds DEF LessThan, One
<1>2. CASE ~InTime(generation[i])
  BY <1>2, Scores, ConstantsOK DEF LessThan, One
<1> QED BY <1>1, <1>2

LEMMA CurrentScoreValue ==
    ASSUME Evaluable
    PROVE  \/ CurrentScore = -1
           \/ CurrentScore \in CostsInTime /\ \A c \in CostsInTime : CurrentScore <= c
<1> DEFINE IsBelow(i, j) == /\ ~LessThan(One, FitnessScores[i])
                            /\ \/ LessThan(One, FitnessScores[j])
                               \/ CostOf(generation[i]) < CostOf(generation[j])
           IsFirst(i) == \A j \in Members : ~IsBelow(j, i) /\ (j < i => IsBelow(i, j))
           k == CHOOSE i \in Members : IsFirst(i)
<1>1. \A i, j \in Members :
        IsBelow(i, j) <=> /\ InTime(generation[i])
                          /\ \/ ~InTime(generation[j])
                             \/ CostOf(generation[i]) < CostOf(generation[j])
  BY OverOne
<1>2. CheapestAssignment = k
  BY DEF CheapestAssignment
<1> HIDE DEF IsBelow
<1>3. \E i \in Members : IsFirst(i)
  <2>1. CASE \E i \in Members : InTime(generation[i])
    <3>1. PICK m \in Members : IsFirstCheapest(m)
      BY <2>1, FirstCheapest
    <3>2. ASSUME NEW j \in Members
          PROVE  ~IsBelow(j, m) /\ (j < m => IsBelow(m, j))
      <4>1. CostOf(generation[j]) \in Nat /\ CostOf(generation[m]) \in Nat
        BY MaxCostBounds
      <4> QED BY <1>1, <3>1, <4>1 DEF IsFirstCheapest
    <3> QED BY <3>2
  <2>2. CASE ~\E i \in Members : InTime(generation[i])
    <3>1. 1 \in Members /\ \A j \in Members : ~(j < 1)
      BY ConstantsOK
    <3>2. \A j \in Members : ~IsBelow(j, 1)
      BY <1>1, <2>2, <3>1
    <3> QED BY <3>1, <3>2
  <2> QED BY <2>1, <2>2
<1>4. k \in Members /\ \A j \in Members : ~IsBelow(j, k)
  <2>1. k \in Members /\ IsFirst(k)
    <3> HIDE DEF IsFirst
    <3> QED BY <1>3
  <2> QED BY <2>1
<1> HIDE DEF k
<1>5. MakespanOf(generation[k]) \in Nat
  BY <1>4, GeneticAssumption DEF Evaluable
<1>6. CASE MakespanOf(generation[k]) >= Deadline
  BY <1>2, <1>6 DEF CurrentScore
<1>7. CASE ~(MakespanOf(generation[k]) >= Deadline)
  <2>1. InTime(generation[k])
    BY <1>5, <1>7, ConstantsOK DEF InTime
  <2>2. CurrentScore = CostOf(generation[k])
    BY <1>2, <1>7 DEF CurrentScore
  <2>3. CurrentScore \in CostsInTime
    BY <1>4, <2>1, <2>2 DEF CostsInTime
  <2>4. ASSUME NEW c \in CostsInTime PROVE CurrentScore <= c
    <3>1. PICK j \in Members : InTime(generation[j]) /\ CostOf(generation[j]) = c
      BY DEF CostsInTime
    <3>2. ~(CostOf(generation[j]) < CostOf(generation[k]))
      BY <1>1, <1>4, <3>1
    <3>3. CostOf(generation[j]) \in Nat /\ CostOf(generation[k]) \in Nat
      BY <1>4, MaxCostBounds
    <3> QED BY <2>2, <3>1, <3>2, <3>3
  <2> QED BY <2>3, <2>4
<1> QED BY <1>6, <1>7

LEMMA CheapestSoFarValue ==
    ASSUME Evaluable, cheapest \in Nat \cup {-1}
    PROVE  LET costs == CostsInTime \cup ({cheapest} \ {-1})
           IN  /\ costs = {} => CheapestSoFar = -1
               /\ costs # {} => /\ CheapestSoFar \in costs
                               /\ CheapestSoFar \in Nat
                               /\ \A c \in costs : CheapestSoFar <= c
<1> DEFINE costs == CostsInTime \cup ({cheapest} \ {-1})
<1>1. costs \subseteq Nat
  BY MaxCostBounds DEF CostsInTime
<1>2. CheapestSoFar = IF costs = {} THEN -1 ELSE Min(costs)
  BY DEF CheapestSoFar
<1> HIDE DEF costs
<1>3. costs # {} => Min(costs) \in costs /\ \A c \in costs : Min(costs) <= c
  BY <1>1, LeastOfSet
<1>4. /\ costs = {} => CheapestSoFar = -1
      /\ costs # {} => /\ CheapestSoFar \in costs
                      /\ CheapestSoFar \in Nat
                      /\ \A c \in costs : CheapestSoFar <= c
  BY <1>1, <1>2, <1>3
<1> QED BY <1>4 DEF costs

(* ------------------------ the invariant -------------------------------- *)

\* Of the assignments that are finished.
Finished(i) == i <= filled

Orderly ==
    \A i \in Members : /\ InOrder(generation[i].SchedulingString)
                       /\ Finished(i) => Suits(generation[i])

Phases ==
    /\ phase = "initial" => cheapest = -1 /\ previousScore = -1 /\ constantScoreSteps = 0 /\ step = 0
    /\ phase # "initial" => filled = GenerationSize
    /\ phase = "modify" => ~LoopEnds

CheapestMember(S) ==
    \E i \in S : InTime(generation[i]) /\ CostOf(generation[i]) = cheapest

NoneCheaper ==
    \A i \in Members : InTime(generation[i]) =>
        cheapest # -1 /\ cheapest <= CostOf(generation[i])

Kept ==
    /\ phase = "modify" /\ cheapest # -1 => CheapestMember(Best)
    /\ phase \in {"evaluated", "done"} =>
          /\ cheapest # -1 => CheapestMember(Members)
          /\ NoneCheaper

Settled ==
    /\ previousScore # -1 => previousScore = cheapest
    /\ constantScoreSteps > 0 => previousScore # -1

GeneticInv == GeneticTypeOK /\ Orderly /\ Phases /\ Kept /\ Settled

LEMMA InitInv == Init => GeneticInv
<1> SUFFICES ASSUME Init PROVE GeneticInv
  OBVIOUS
<1>1. 0 \in AvailableVMs
  <2>1. Size * VMTypes > 0 /\ Size * VMTypes \in Nat
    BY ViewAssumption
  <2> QED BY <2>1 DEF AvailableVMs
<1>2. GeneticTypeOK
  <2>1. generation \in [Members -> Assignments]
    BY <1>1, ViewAssumption DEF Init, Assignments
  <2>2. filled = 0 /\ step = 0 /\ constantScoreSteps = 0 /\ applied = 0
    BY DEF Init
  <2>3. phase = "initial" /\ previousScore = -1 /\ cheapest = -1
    BY DEF Init
  <2> QED BY <2>1, <2>2, <2>3, ConstantsOK DEF GeneticTypeOK
<1>3. Orderly /\ Phases
  <2>1. \A i \in Members : InOrder(generation[i].SchedulingString) /\ ~Finished(i)
    BY ViewAssumption, ConstantsOK DEF Init, Finished
  <2> QED BY <2>1 DEF Init, Orderly, Phases
<1>4. Kept /\ Settled
  BY DEF Init, Kept, Settled
<1> QED BY <1>2, <1>3, <1>4 DEF GeneticInv

LEMMA InitialMutationInv == GeneticInv /\ InitialMutation => GeneticInv'
<1> SUFFICES ASSUME GeneticInv, InitialMutation PROVE GeneticInv'
  OBVIOUS
<1>1. Current \in Members /\ ~Finished(Current)
  BY ConstantsOK DEF GeneticInv, GeneticTypeOK, InitialMutation, Current, Finished
<1>2. PICK a \in SchedulingMutations(generation[Current]) :
        generation' = [generation EXCEPT ![Current] = a]
  BY DEF InitialMutation
<1>3. generation[Current] \in Assignments /\ InOrder(generation[Current].SchedulingString)
  BY <1>1 DEF GeneticInv, GeneticTypeOK, Orderly
<1>4. a \in Assignments /\ InOrder(a.SchedulingString)
  BY <1>3, SchedulingMutationKeeps
<1>u. UNCHANGED <<filled, phase, step, previousScore, constantScoreSteps, cheapest>>
  BY DEF InitialMutation
<1>a. applied' = applied + 1 /\ phase = "initial"
  BY DEF InitialMutation
<1>5. GeneticTypeOK'
  <2>1. generation' \in [Members -> Assignments]
    BY <1>2, <1>4 DEF GeneticInv, GeneticTypeOK
  <2> QED BY <1>u, <1>a, <2>1 DEF GeneticInv, GeneticTypeOK
<1>6. Orderly'
  <2> SUFFICES ASSUME NEW i \in Members
               PROVE  /\ InOrder(generation'[i].SchedulingString)
                      /\ i <= filled' => Suits(generation'[i])
    BY DEF Orderly, Finished
  <2>1. CASE i = Current
    BY <1>u, <1>1, <1>2, <1>4, <2>1 DEF GeneticInv, GeneticTypeOK, Finished
  <2>2. CASE i # Current
    BY <1>u, <1>2, <2>2 DEF GeneticInv, GeneticTypeOK, Orderly, Finished
  <2> QED BY <2>1, <2>2
<1>b. Phases'
  BY <1>u, <1>a DEF GeneticInv, Phases
<1>7. Kept' /\ Settled'
  BY <1>u, <1>a DEF GeneticInv, Kept, Settled
<1> QED BY <1>5, <1>6, <1>7, <1>b DEF GeneticInv

LEMMA AssignedInv ==
    ASSUME GeneticInv, phase = "initial", filled < GenerationSize,
           NEW matchings, matchings \subseteq SuitableMatchings,
           NEW standbys, standbys \subseteq [Tasks -> BOOLEAN],
           Assigned(matchings, standbys)
    PROVE  GeneticInv'
<1>1. Current \in Members /\ Current = filled + 1
  BY ConstantsOK DEF GeneticInv, GeneticTypeOK, Current
<1>2. PICK matching \in matchings, standby \in standbys :
        generation' = [generation EXCEPT ![Current].MatchingString = matching,
                                         ![Current].KeepVMStandbyString = standby]
  BY DEF Assigned
<1> DEFINE a == [generation[Current] EXCEPT !.MatchingString = matching,
                                            !.KeepVMStandbyString = standby]
<1>3. generation' = [generation EXCEPT ![Current] = a]
  BY <1>1, <1>2 DEF GeneticInv, GeneticTypeOK, Assignments
<1>4. generation[Current] \in Assignments /\ InOrder(generation[Current].SchedulingString)
  BY <1>1 DEF GeneticInv, GeneticTypeOK, Orderly
<1>5. matching \in [Tasks -> AvailableVMs] /\ \A t \in Tasks : matching[t] \in SuitableVMs(t)
  BY DEF SuitableMatchings
<1>6. a \in Assignments /\ InOrder(a.SchedulingString) /\ Suits(a)
  BY <1>4, <1>5 DEF Assignments, Suits
<1> HIDE DEF a
<1>u. UNCHANGED <<phase, step, previousScore, constantScoreSteps, cheapest>>
  BY DEF Assigned
<1>a. applied' = 0 /\ filled' = filled + 1
  BY DEF Assigned
<1>7. GeneticTypeOK'
  <2>1. generation' \in [Members -> Assignments]
    BY <1>3, <1>6 DEF GeneticInv, GeneticTypeOK
  <2>2. filled' \in 0..GenerationSize
    BY <1>a, ConstantsOK DEF GeneticInv, GeneticTypeOK
  <2> QED BY <1>u, <1>a, <2>1, <2>2 DEF GeneticInv, GeneticTypeOK
<1>8. Orderly'
  <2> SUFFICES ASSUME NEW i \in Members
               PROVE  /\ InOrder(generation'[i].SchedulingString)
                      /\ i <= filled' => Suits(generation'[i])
    BY DEF Orderly, Finished
  <2>1. CASE i = Current
    BY <1>1, <1>3, <1>6, <2>1 DEF GeneticInv, GeneticTypeOK
  <2>2. CASE i # Current
    <3>1. i <= filled' => i <= filled
      BY <1>1, <1>a, <2>2, ConstantsOK DEF GeneticInv, GeneticTypeOK
    <3> QED BY <1>3, <2>2, <3>1 DEF GeneticInv, GeneticTypeOK, Orderly, Finished
  <2> QED BY <2>1, <2>2
<1>b. Phases'
  BY <1>u DEF GeneticInv, Phases
<1>9. Kept' /\ Settled'
  BY <1>u DEF GeneticInv, Kept, Settled
<1> QED BY <1>7, <1>8, <1>9, <1>b DEF GeneticInv

LEMMA FastestAssignmentInv == GeneticInv /\ FastestAssignment => GeneticInv'
<1>1. FastestMatchings \subseteq SuitableMatchings
  BY DEF FastestMatchings, SuitableMatchings, FastestVMs
<1>2. {[t \in Tasks |-> TRUE]} \subseteq [Tasks -> BOOLEAN]
  OBVIOUS
<1> QED BY <1>1, <1>2, AssignedInv DEF FastestAssignment

LEMMA RandomAssignmentInv == GeneticInv /\ RandomAssignment => GeneticInv'
BY AssignedInv DEF RandomAssignment

\* Where the least cost is brought up to date.
LEMMA EvaluationKeeps ==
    ASSUME GeneticInv, phase # "evaluated", cheapest # -1 => CheapestMember(Members),
           generation' = generation, cheapest' = CheapestSoFar, phase' = "evaluated"
    PROVE  Kept' /\ cheapest' \in Nat \cup {-1}
<1> DEFINE costs == CostsInTime \cup ({cheapest} \ {-1})
<1>1. Evaluable /\ cheapest \in Nat \cup {-1}
  BY DEF GeneticInv, GeneticTypeOK, Evaluable
<1>2. costs = CostsInTime
  BY DEF CheapestMember, CostsInTime
<1>3. /\ CostsInTime = {} => cheapest' = -1
      /\ CostsInTime # {} => /\ cheapest' \in CostsInTime /\ cheapest' \in Nat
                            /\ \A c \in CostsInTime : cheapest' <= c
  BY <1>1, <1>2, CheapestSoFarValue
<1>4. (cheapest # -1 => CheapestMember(Members))'
  <2> SUFFICES ASSUME cheapest' # -1
               PROVE \E i \in Members : InTime(generation[i]) /\ CostOf(generation[i]) = cheapest'
    BY DEF CheapestMember, InTime
  <2> QED BY <1>3 DEF CostsInTime
<1>5. NoneCheaper'
  <2> SUFFICES ASSUME NEW i \in Members, InTime(generation[i])
               PROVE cheapest' # -1 /\ cheapest' <= CostOf(generation[i])
    BY DEF NoneCheaper, InTime
  <2>1. CostOf(generation[i]) \in CostsInTime
    BY DEF CostsInTime
  <2> QED BY <1>3, <2>1
<1> QED BY <1>3, <1>4, <1>5 DEF Kept

LEMMA EvaluateInitialInv == GeneticInv /\ EvaluateInitial => GeneticInv'
<1> SUFFICES ASSUME GeneticInv, EvaluateInitial PROVE GeneticInv'
  OBVIOUS
<1>1. cheapest = -1 /\ previousScore = -1 /\ constantScoreSteps = 0
  BY DEF GeneticInv, Phases, EvaluateInitial
<1>2. UNCHANGED <<generation, filled, applied, step, previousScore, constantScoreSteps>>
  BY DEF EvaluateInitial
<1>3. filled = GenerationSize /\ phase' = "evaluated"
  BY DEF EvaluateInitial
<1>4. Kept' /\ cheapest' \in Nat \cup {-1}
  BY <1>1, EvaluationKeeps DEF EvaluateInitial
<1>5. GeneticTypeOK'
  BY <1>2, <1>3, <1>4 DEF GeneticInv, GeneticTypeOK
<1>6. Orderly'
  BY <1>2 DEF GeneticInv, Orderly, Finished
<1>7. Phases'
  BY <1>2, <1>3 DEF Phases
<1>8. Settled'
  BY <1>1, <1>2 DEF Settled
<1> QED BY <1>4, <1>5, <1>6, <1>7, <1>8 DEF GeneticInv

(* ----------------------- the loop's actions ---------------------------- *)

LEMMA AllRunnable ==
    ASSUME GeneticInv, phase # "initial", NEW i \in Members
    PROVE  Runnable(generation[i])
<1>1. Finished(i)
  BY ConstantsOK DEF GeneticInv, Phases, Finished
<1> QED BY <1>1 DEF GeneticInv, GeneticTypeOK, Orderly, Runnable

LEMMA RunnableNext ==
    ASSUME generation' \in [Members -> Assignments],
           \A i \in Members : Runnable(generation'[i])
    PROVE  Orderly'
BY DEF Orderly, Runnable

LEMMA GetNewGenerationInv == GeneticInv /\ GetNewGeneration => GeneticInv'
<1> SUFFICES ASSUME GeneticInv, GetNewGeneration PROVE GeneticInv'
  OBVIOUS
<1>1. /\ phase = "evaluated" /\ phase' = "modify" /\ applied' = 0 /\ ~LoopEnds
      /\ UNCHANGED <<filled, step, previousScore, constantScoreSteps, cheapest>>
  BY DEF GetNewGeneration
<1>2. PICK best \in [Best -> Members] :
        /\ AreBest(best)
        /\ \E chosen \in [Changed -> Members] :
              generation' = [i \in Members |-> IF i \in Best THEN generation[best[i]]
                                               ELSE generation[chosen[i]]]
  BY DEF GetNewGeneration
<1>3. PICK chosen \in [Changed -> Members] :
        generation' = [i \in Members |-> IF i \in Best THEN generation[best[i]]
                                         ELSE generation[chosen[i]]]
  BY <1>2
<1>4. \A i \in Members : \E j \in Members : generation'[i] = generation[j]
  <2> SUFFICES ASSUME NEW i \in Members PROVE \E j \in Members : generation'[i] = generation[j]
    OBVIOUS
  <2>1. CASE i \in Best
    BY <1>3, <2>1
  <2>2. CASE i \notin Best
    <3>1. i \in Changed
      BY <2>2 DEF Best
    <3> QED BY <1>3, <2>2, <3>1
  <2> QED BY <2>1, <2>2
<1>5. generation' \in [Members -> Assignments]
  <2>1. \A i \in Members : generation'[i] \in Assignments
    BY <1>4 DEF GeneticInv, GeneticTypeOK
  <2> QED BY <1>3, <2>1
<1>6. \A i \in Members : Runnable(generation'[i])
  BY <1>1, <1>4, AllRunnable
<1>7. GeneticTypeOK'
  BY <1>1, <1>5 DEF GeneticInv, GeneticTypeOK
<1>8. Orderly'
  BY <1>5, <1>6, RunnableNext
<1>9. Phases'
  <2>1. ~LoopEnds'
    BY <1>1 DEF LoopEnds
  <2> QED BY <1>1, <2>1 DEF GeneticInv, Phases
<1>10. ASSUME cheapest # -1
       PROVE  \E k \in Best : /\ InTime(generation[best[k]])
                              /\ CostOf(generation[best[k]]) = cheapest
  <2>1. PICK i \in Members : InTime(generation[i]) /\ CostOf(generation[i]) = cheapest
    BY <1>1, <1>10 DEF GeneticInv, Kept, CheapestMember
  <2>2. CASE \E l \in Best : best[l] = i
    BY <2>1, <2>2
  <2>3. CASE \A l \in Best : best[l] # i
    <3>1. PICK k \in Best : TRUE
      BY ConstantsOK
    <3>2. ~LessThan(FitnessScores[i], FitnessScores[best[k]])
      BY <1>2, <2>3 DEF AreBest
    <3>3. Evaluable /\ best[k] \in Members
      BY DEF GeneticInv, GeneticTypeOK, Evaluable
    <3>4. InTime(generation[best[k]]) /\ CostOf(generation[best[k]]) <= cheapest
      BY <2>1, <3>2, <3>3, NotBeaten
    <3>5. cheapest <= CostOf(generation[best[k]])
      BY <1>1, <3>3, <3>4 DEF GeneticInv, Kept, NoneCheaper
    <3>6. CostOf(generation[best[k]]) \in Nat /\ CostOf(generation[i]) \in Nat
      BY <3>3, MaxCostBounds
    <3> QED BY <2>1, <3>4, <3>5, <3>6
  <2> QED BY <2>2, <2>3
<1>11. Kept'
  <2> SUFFICES ASSUME cheapest # -1
               PROVE \E i \in Best : InTime(generation'[i]) /\ CostOf(generation'[i]) = cheapest
    BY <1>1 DEF Kept, CheapestMember, InTime
  <2>1. PICK k \in Best : InTime(generation[best[k]]) /\ CostOf(generation[best[k]]) = cheapest
    BY <1>10
  <2>2. generation'[k] = generation[best[k]]
    BY <1>3, ConstantsOK
  <2> QED BY <2>1, <2>2
<1>12. Settled'
  BY <1>1 DEF GeneticInv, Settled
<1> QED BY <1>7, <1>8, <1>9, <1>11, <1>12 DEF GeneticInv

\* A change of other members than the best.
LEMMA ModifyInv ==
    ASSUME GeneticInv, phase = "modify",
           generation' \in [Members -> Assignments],
           \A i \in Members : Runnable(generation'[i]),
           \A i \in Best : generation'[i] = generation[i],
           applied' = applied + 1,
           UNCHANGED <<filled, phase, step, previousScore, constantScoreSteps, cheapest>>
    PROVE  GeneticInv'
<1>1. GeneticTypeOK'
  BY DEF GeneticInv, GeneticTypeOK
<1>2. Orderly'
  BY RunnableNext
<1>3. Phases'
  <2>1. ~LoopEnds'
    BY DEF LoopEnds, GeneticInv, Phases
  <2> QED BY <2>1 DEF GeneticInv, Phases
<1>4. Kept'
  <2> SUFFICES ASSUME cheapest # -1
               PROVE \E i \in Best : InTime(generation'[i]) /\ CostOf(generation'[i]) = cheapest
    BY DEF Kept, CheapestMember, InTime
  <2>1. PICK i \in Best : InTime(generation[i]) /\ CostOf(generation[i]) = cheapest
    BY DEF GeneticInv, Kept, CheapestMember
  <2> QED BY <2>1
<1>5. Settled'
  BY DEF GeneticInv, Settled
<1> QED BY <1>1, <1>2, <1>3, <1>4, <1>5 DEF GeneticInv

LEMMA MakeMutationInv == GeneticInv /\ MakeMutation => GeneticInv'
<1> SUFFICES ASSUME GeneticInv, MakeMutation PROVE GeneticInv'
  OBVIOUS
<1>1. PICK i \in Changed : \E a \in Mutated(Kind, generation[i]) :
        generation' = [generation EXCEPT ![i] = a]
  BY DEF MakeMutation
<1>2. PICK a \in Mutated(Kind, generation[i]) : generation' = [generation EXCEPT ![i] = a]
  BY <1>1
<1>3. /\ phase = "modify" /\ applied' = applied + 1
      /\ UNCHANGED <<filled, phase, step, previousScore, constantScoreSteps, cheapest>>
  BY DEF MakeMutation
<1>4. i \in Members /\ i \notin Best
  BY ConstantsOK DEF Best
<1>5. Runnable(generation[i])
  BY <1>3, <1>4, AllRunnable
<1>6. Runnable(a)
  BY <1>5, MutationKeeps
<1>7. generation \in [Members -> Assignments] /\ a \in Assignments
  BY <1>6 DEF GeneticInv, GeneticTypeOK, Runnable
<1>8. generation' \in [Members -> Assignments]
  BY <1>2, <1>7
<1>9. \A k \in Members : generation'[k] = IF k = i THEN a ELSE generation[k]
  BY <1>2, <1>7
<1>10. \A k \in Members : Runnable(generation'[k])
  BY <1>3, <1>6, <1>9, AllRunnable
<1>11. \A k \in Best : generation'[k] = generation[k]
  BY <1>4, <1>9, ConstantsOK
<1> QED BY <1>3, <1>8, <1>10, <1>11, ModifyInv

LEMMA MakeCrossoverInv == GeneticInv /\ MakeCrossover => GeneticInv'
<1> SUFFICES ASSUME GeneticInv, MakeCrossover PROVE GeneticInv'
  OBVIOUS
<1>1. PICK i \in Changed, j \in Changed :
        \E a \in Offspring(Kind, generation[i], generation[j]),
           b \in Offspring(Kind, generation[j], generation[i]) :
          generation' = [generation EXCEPT ![j] = b, ![i] = a]
  BY DEF MakeCrossover
<1>2. PICK a \in Offspring(Kind, generation[i], generation[j]),
           b \in Offspring(Kind, generation[j], generation[i]) :
        generation' = [generation EXCEPT ![j] = b, ![i] = a]
  BY <1>1
<1>3. /\ phase = "modify" /\ applied' = applied + 1
      /\ UNCHANGED <<filled, phase, step, previousScore, constantScoreSteps, cheapest>>
  BY DEF MakeCrossover
<1>4. i \in Members /\ i \notin Best /\ j \in Members /\ j \notin Best
  BY ConstantsOK DEF Best
<1>5. Runnable(generation[i]) /\ Runnable(generation[j])
  BY <1>3, <1>4, AllRunnable
<1>6. Runnable(a) /\ Runnable(b)
  BY <1>5, CrossoverKeeps
<1>7. generation \in [Members -> Assignments] /\ a \in Assignments /\ b \in Assignments
  BY <1>6 DEF GeneticInv, GeneticTypeOK, Runnable
<1>8. generation' \in [Members -> Assignments]
  BY <1>2, <1>7
<1>9. \A k \in Members : generation'[k] = IF k = i THEN a ELSE IF k = j THEN b ELSE generation[k]
  BY <1>2, <1>7
<1>10. \A k \in Members : Runnable(generation'[k])
  BY <1>3, <1>6, <1>9, AllRunnable
<1>11. \A k \in Best : generation'[k] = generation[k]
  BY <1>4, <1>9, ConstantsOK
<1> QED BY <1>3, <1>8, <1>10, <1>11, ModifyInv

LEMMA EvaluateInv == GeneticInv /\ Evaluate => GeneticInv'
<1> SUFFICES ASSUME GeneticInv, Evaluate PROVE GeneticInv'
  OBVIOUS
<1>1. /\ phase = "modify" /\ phase' = "evaluated" /\ step' = step + 1
      /\ UNCHANGED <<generation, filled, applied>>
  BY DEF Evaluate
<1>2. /\ cheapest' = CheapestSoFar
      /\ previousScore' = CurrentScore
      /\ constantScoreSteps' = CountedSteps(previousScore')
  BY DEF Evaluate
<1>3. Evaluable /\ ~LoopEnds /\ filled = GenerationSize
  BY <1>1 DEF GeneticInv, GeneticTypeOK, Phases, Evaluable
<1>4. cheapest # -1 => CheapestMember(Members)
  BY <1>1, ConstantsOK DEF GeneticInv, Kept, CheapestMember
<1>5. Kept' /\ cheapest' \in Nat \cup {-1}
  BY <1>1, <1>2, <1>4, EvaluationKeeps
<1>6. CostsInTime \subseteq Nat
  BY <1>3, MaxCostBounds DEF CostsInTime
<1>7. previousScore' \in Nat \cup {-1}
  BY <1>2, <1>3, <1>6, CurrentScoreValue
<1>8. previousScore' # -1 => previousScore' = cheapest'
  <2> SUFFICES ASSUME previousScore' # -1 PROVE previousScore' = cheapest'
    OBVIOUS
  <2>1. previousScore' \in CostsInTime /\ \A c \in CostsInTime : previousScore' <= c
    BY <1>2, <1>3, CurrentScoreValue
  <2>2. PICK i \in Members : InTime(generation[i]) /\ CostOf(generation[i]) = previousScore'
    BY <2>1 DEF CostsInTime
  <2>3. cheapest' # -1 /\ cheapest' <= previousScore'
    BY <1>1, <1>5, <2>2 DEF Kept, NoneCheaper, InTime
  <2>4. cheapest' \in CostsInTime
    <3>1. PICK j \in Members : InTime(generation'[j]) /\ CostOf(generation'[j]) = cheapest'
      BY <1>1, <1>5, <2>3 DEF Kept, CheapestMember, InTime
    <3> QED BY <1>1, <3>1 DEF CostsInTime
  <2>5. previousScore' <= cheapest' /\ previousScore' \in Nat /\ cheapest' \in Nat
    BY <1>6, <2>1, <2>4
  <2> QED BY <2>3, <2>5
<1>9. /\ constantScoreSteps \in Nat /\ constantScoreSteps < ConstantScoreStepsNumber
      /\ step \in Nat /\ step < StepsNumber
  BY <1>3, ConstantsOK DEF GeneticInv, GeneticTypeOK, LoopEnds
<1>10. /\ constantScoreSteps' \in 0..ConstantScoreStepsNumber
       /\ constantScoreSteps' > 0 => previousScore' # -1
  BY <1>2, <1>9, ConstantsOK DEF CountedSteps, GeneticInv, Settled
<1>11. GeneticTypeOK'
  BY <1>1, <1>5, <1>7, <1>9, <1>10, ConstantsOK DEF GeneticInv, GeneticTypeOK
<1>12. Orderly'
  BY <1>1 DEF GeneticInv, Orderly, Finished
<1>13. Phases'
  BY <1>1, <1>3 DEF Phases
<1>14. Settled'
  BY <1>8, <1>10 DEF Settled
<1> QED BY <1>5, <1>11, <1>12, <1>13, <1>14 DEF GeneticInv

\* Steps that leave the generation and its scores alone.
LEMMA IdleInv ==
    ASSUME GeneticInv,
           UNCHANGED <<generation, filled, applied, step, previousScore,
                       constantScoreSteps, cheapest>>,
           \/ phase' = phase
           \/ phase = "evaluated" /\ phase' = "done"
    PROVE  GeneticInv'
<1>1. GeneticTypeOK'
  BY DEF GeneticInv, GeneticTypeOK
<1>2. Orderly'
  BY DEF GeneticInv, Orderly, Finished
<1>3. Phases'
  BY DEF GeneticInv, Phases, LoopEnds
<1>4. Kept'
  BY DEF GeneticInv, Kept, CheapestMember, NoneCheaper, InTime
<1>5. Settled'
  BY DEF GeneticInv, Settled
<1> QED BY <1>1, <1>2, <1>3, <1>4, <1>5 DEF GeneticInv

(* --------------------------- theorems ---------------------------------- *)

(***************************************************************************)
(* The inductive invariant: assignments are well formed and in order, and  *)
(* while the others are changed one of the best is the cheapest in time.   *)
(***************************************************************************)
THEOREM GeneticInvariant == Spec => []GeneticInv
<1>1. GeneticInv /\ [Next]_vars => GeneticInv'
  <2> SUFFICES ASSUME GeneticInv, [Next]_vars PROVE GeneticInv'
    OBVIOUS
  <2>1. CASE InitialMutation
    BY <2>1, InitialMutationInv
  <2>2. CASE FastestAssignment
    BY <2>2, FastestAssignmentInv
  <2>3. CASE RandomAssignment
    BY <2>3, RandomAssignmentInv
  <2>4. CASE EvaluateInitial
    BY <2>4, EvaluateInitialInv
  <2>5. CASE GetNewGeneration
    BY <2>5, GetNewGenerationInv
  <2>6. CASE MakeMutation
    BY <2>6, MakeMutationInv
  <2>7. CASE MakeCrossover
    BY <2>7, MakeCrossoverInv
  <2>8. CASE Evaluate
    BY <2>8, EvaluateInv
  <2>9. CASE MakePlan
    BY <2>9, IdleInv DEF MakePlan
  <2>10. CASE Ended
    BY <2>10, IdleInv DEF Ended, vars
  <2>11. CASE UNCHANGED vars
    BY <2>11, IdleInv DEF vars
  <2> QED BY <2>1, <2>2, <2>3, <2>4, <2>5, <2>6, <2>7, <2>8, <2>9, <2>10, <2>11 DEF Next
<1> QED BY <1>1, InitInv, PTL DEF Spec

(***************************************************************************)
(* Type correctness, for every workflow, generation size and sequence of   *)
(* modifications.                                                          *)
(***************************************************************************)
THEOREM GeneticTypeCorrect == Spec => []GeneticTypeOK
<1>1. GeneticInv => GeneticTypeOK
  BY DEF GeneticInv
<1> QED BY <1>1, GeneticInvariant, PTL

(***************************************************************************)
(* No chain of crossovers and mutations, however long, ends in an order    *)
(* the workflow forbids or on a machine that is too small, and the         *)
(* assertion of MakeSchedulingMutation never fails.                        *)
(***************************************************************************)
THEOREM GeneticAssignmentsRunnable == Spec => []AssignmentsRunnable
<1>1. ASSUME GeneticInv PROVE AssignmentsRunnable
  <2> SUFFICES ASSUME NEW i \in Members
               PROVE  /\ InOrder(generation[i].SchedulingString)
                      /\ \A t \in Tasks : LowerBound(generation[i].SchedulingString, t)
                                            < UpperBound(generation[i].SchedulingString, t)
                      /\ i <= filled => \A t \in Tasks :
                            generation[i].MatchingString[t] \in SuitableVMs(t)
    BY DEF AssignmentsRunnable
  <2> DEFINE s == generation[i].SchedulingString
  <2>1. s \in Strings /\ InOrder(s) /\ (i <= filled => Suits(generation[i]))
    BY <1>1 DEF GeneticInv, GeneticTypeOK, Orderly, Finished, Assignments
  <2>2. ASSUME NEW t \in Tasks PROVE LowerBound(s, t) < UpperBound(s, t)
    <3> HIDE DEF s
    <3>1. PICK p \in Tasks : s[p] = t
      BY <2>1 DEF Strings
    <3>2. LowerBound(s, s[p]) \in 0..p /\ UpperBound(s, s[p]) \in (p + 1)..Size
      BY <2>1, BoundsOfMutation
    <3>3. p \in Int /\ Size \in Int
      BY ViewAssumption DEF Tasks
    <3> QED BY <3>1, <3>2, <3>3
  <2> QED BY <2>1, <2>2 DEF Suits
<1> QED BY <1>1, GeneticInvariant, PTL

(***************************************************************************)
(* The cheapest assignment in time that was ever met is in the generation, *)
(* whatever the random choices were.                                       *)
(***************************************************************************)
THEOREM GeneticCheapestKept == Spec => []CheapestKept
<1>1. ASSUME GeneticInv PROVE CheapestKept
  <2>1. phase = "initial" => cheapest = -1
    BY <1>1 DEF GeneticInv, Phases
  <2>2. phase \in {"initial", "evaluated", "modify", "done"}
    BY <1>1 DEF GeneticInv, GeneticTypeOK
  <2> QED BY <1>1, <2>1, <2>2, ConstantsOK DEF GeneticInv, Kept, CheapestMember, CheapestKept
<1> QED BY <1>1, GeneticInvariant, PTL

(***************************************************************************)
(* What the search returns is the cheapest assignment in time it has met.  *)
(***************************************************************************)
THEOREM GeneticCheapestReturned == Spec => []CheapestReturned
<1>1. ASSUME GeneticInv PROVE CheapestReturned
  <2> SUFFICES ASSUME phase = "done", cheapest # -1
               PROVE InTime(BestAssignment) /\ CostOf(BestAssignment) = cheapest
    BY DEF CheapestReturned
  <2>1. PICK k \in Members : InTime(generation[k]) /\ CostOf(generation[k]) = cheapest
    BY <1>1 DEF GeneticInv, Kept, CheapestMember
  <2>2. Evaluable
    BY <1>1 DEF GeneticInv, GeneticTypeOK, Evaluable
  <2>3. PICK i \in Members : /\ BestAssignment = generation[i]
                             /\ InTime(generation[i])
                             /\ CostOf(generation[i]) <= CostOf(generation[k])
    BY <2>1, <2>2, BestIsCheapest
  <2>4. cheapest <= CostOf(generation[i])
    BY <1>1, <2>3 DEF GeneticInv, Kept, NoneCheaper
  <2>5. CostOf(generation[i]) \in Nat /\ CostOf(generation[k]) \in Nat
    BY <2>2, MaxCostBounds
  <2> QED BY <2>1, <2>3, <2>4, <2>5
<1> QED BY <1>1, GeneticInvariant, PTL

(***************************************************************************)
(* The search ends early only on a score that is the least cost it has met.*)
(***************************************************************************)
THEOREM GeneticCountsSettled == Spec => []CountsSettledStepsOnly
<1>1. GeneticInv => CountsSettledStepsOnly
  BY DEF GeneticInv, Settled, CountsSettledStepsOnly
<1> QED BY <1>1, GeneticInvariant, PTL

(* ----------------------------- counting -------------------------------- *)

\* CountBelow numbers the members of a set from 0, and Nth finds them again.
LEMMA Counting ==
    ASSUME NEW S, S \subseteq Nat, IsFiniteSet(S)
    PROVE  /\ \A x \in S : CountBelow(S, x) \in 0..(Cardinality(S) - 1)
           /\ \A x, y \in S : x < y => CountBelow(S, x) < CountBelow(S, y)
           /\ \A n \in 0..(Cardinality(S) - 1) : Nth(S, n) \in S /\ CountBelow(S, Nth(S, n)) = n
           /\ \A x \in S : Nth(S, CountBelow(S, x)) = x
<1> DEFINE B(x) == {y \in S : y < x}
           C == Cardinality(S)
<1>1. \A x : B(x) \subseteq S
  OBVIOUS
<1>2. \A x : IsFiniteSet(B(x)) /\ Cardinality(B(x)) \in Nat
  BY <1>1, FS_Subset, FS_CardinalityType
<1>3. C \in Nat
  BY FS_CardinalityType
<1>4. ASSUME NEW T, T \subseteq S, NEW x \in S, B(x) \subseteq T, x \in T
      PROVE  Cardinality(B(x)) + 1 <= Cardinality(T) /\ Cardinality(T) \in Nat
  <2>1. x \notin B(x)
    BY <1>4
  <2>2. IsFiniteSet(T) /\ Cardinality(T) \in Nat
    BY <1>4, FS_Subset, FS_CardinalityType
  <2> HIDE DEF B
  <2>3. Cardinality(B(x) \cup {x}) = Cardinality(B(x)) + 1
    BY <1>2, <2>1, FS_AddElement
  <2>4. B(x) \cup {x} \subseteq T
    BY <1>4
  <2>5. Cardinality(B(x) \cup {x}) <= Cardinality(T)
    BY <2>2, <2>4, FS_Subset
  <2> QED
    BY <2>2, <2>3, <2>5
<1>5. ASSUME NEW x \in S PROVE Cardinality(B(x)) \in 0..(C - 1)
  <2>1. B(x) \subseteq S /\ x \in S
    BY <1>1
  <2>2. S \subseteq S
    OBVIOUS
  <2> HIDE DEF B
  <2>3. Cardinality(B(x)) + 1 <= C
    BY <2>1, <2>2, <1>4
  <2>4. Cardinality(B(x)) \in Nat
    BY <1>2
  <2>5. \A c, n \in Nat : c + 1 <= n => c \in 0..(n - 1)
    OBVIOUS
  <2> HIDE DEF C
  <2> QED
    BY <2>3, <2>4, <2>5, <1>3
<1>6. ASSUME NEW x \in S, NEW y \in S, x < y
      PROVE  Cardinality(B(x)) < Cardinality(B(y))
  <2>1. B(x) \subseteq B(y) /\ x \in B(y) /\ B(y) \subseteq S
    <3>1. x \in Nat /\ y \in Nat /\ \A z \in S : z \in Nat
      OBVIOUS
    <3>2. \A z \in S : z < x => z < y
      BY <1>6, <3>1
    <3> QED
      BY <1>6, <3>2
  <2>2. Cardinality(B(x)) + 1 <= Cardinality(B(y))
    BY <2>1, <1>4
  <2> HIDE DEF B
  <2> QED
    BY <2>2, <1>2
<1> HIDE DEF C
<1> DEFINE f == [x \in S |-> Cardinality(B(x))]
           T == 0..(C - 1)
<1>7. f \in Injection(S, T)
  <2>1. f \in [S -> T]
    BY <1>5
  <2>2. \A x, y \in S : f[x] = f[y] => x = y
    <3> SUFFICES ASSUME NEW x \in S, NEW y \in S, f[x] = f[y] PROVE x = y
      OBVIOUS
    <3>1. Cardinality(B(x)) = Cardinality(B(y))
      OBVIOUS
    <3> HIDE DEF B, f
    <3>2. ~(x < y) /\ ~(y < x) /\ x \in Nat /\ y \in Nat
      BY <3>1, <1>2, <1>6
    <3> QED
      BY <3>2
  <2> HIDE DEF f, T
  <2> QED
    BY <2>1, <2>2 DEF Injection, IsInjective
<1>8. IsFiniteSet(T) /\ Cardinality(T) = C
  <2>1. 0 \in Int /\ C - 1 \in Int
    BY <1>3
  <2>2. IsFiniteSet(T) /\ Cardinality(T) = IF 0 > C - 1 THEN 0 ELSE (C - 1) - 0 + 1
    BY <2>1, FS_Interval
  <2> QED
    BY <2>2, <1>3
<1>9. f \in Surjection(S, T)
  <2> HIDE DEF f, T
  <2> QED
    BY <1>7, <1>8, FS_Injection DEF C
<1>10. \A n \in T : \E x \in S : Cardinality(B(x)) = n
  BY <1>9 DEF Surjection
<1>11. \A x : CountBelow(S, x) = Cardinality(B(x))
  BY DEF CountBelow
<1> HIDE DEF B
<1>12. \A n \in T : Nth(S, n) \in S /\ CountBelow(S, Nth(S, n)) = n
  BY <1>10, <1>11 DEF Nth
<1>13. ASSUME NEW x \in S PROVE Nth(S, CountBelow(S, x)) = x
  <2>1. CountBelow(S, x) \in T
    BY <1>5, <1>11
  <2>2. PICK y \in S : y = Nth(S, CountBelow(S, x)) /\ CountBelow(S, y) = CountBelow(S, x)
    BY <2>1, <1>12
  <2>3. Cardinality(B(x)) = Cardinality(B(y))
    BY <2>2, <1>11
  <2>4. ~(x < y) /\ ~(y < x) /\ x \in Nat /\ y \in Nat
    BY <2>3, <1>2, <1>6
  <2> QED
    BY <2>2, <2>4
<1> QED
  BY <1>5, <1>6, <1>11, <1>12, <1>13 DEF C

LEMMA PartOfTasks ==
    ASSUME NEW S, S \subseteq Tasks
    PROVE  S \subseteq Nat /\ IsFiniteSet(S) /\ Cardinality(S) \in Nat
<1>1. 0 \in Int /\ Size - 1 \in Int
  BY ViewAssumption
<1>2. IsFiniteSet(Tasks)
  BY <1>1, FS_Interval DEF Tasks
<1>3. Tasks \subseteq Nat
  BY <1>1 DEF Tasks
<1>4. IsFiniteSet(S)
  BY <1>2, FS_Subset
<1> QED
  BY <1>3, <1>4, FS_CardinalityType

LEMMA UsedMachines ==
    ASSUME NEW a \in Assignments
    PROVE  /\ UsedVMs(a) \subseteq Nat /\ IsFiniteSet(UsedVMs(a)) /\ Cardinality(UsedVMs(a)) \in Nat
           /\ \A t \in Tasks : a.MatchingString[t] \in UsedVMs(a)
<1>1. Size * VMTypes - 1 \in Int /\ 0 \in Int
  BY ViewAssumption
<1>2. IsFiniteSet(AvailableVMs) /\ AvailableVMs \subseteq Nat
  BY <1>1, FS_Interval DEF AvailableVMs
<1>3. UsedVMs(a) \subseteq AvailableVMs
  BY DEF UsedVMs, Assignments
<1>4. \A t \in Tasks : a.MatchingString[t] \in UsedVMs(a)
  BY DEF UsedVMs
<1> QED
  BY <1>2, <1>3, <1>4, FS_Subset, FS_CardinalityType

(* ------------------------ the best member ------------------------------ *)

\* Among assignments that are late, the one with the lower makespan scores less.
LEMMA LateScores ==
    ASSUME Evaluable, \A i \in Members : ~InTime(generation[i]), NEW i \in Members, NEW j \in Members
    PROVE  LessThan(FitnessScores[i], FitnessScores[j])
              <=> MakespanOf(generation[i]) < MakespanOf(generation[j])
<1> DEFINE n(k) == MakespanOf(generation[k])
<1>1. \A k \in Members : n(k) \in Nat /\ FitnessScores[k] = <<n(k) + Deadline, Deadline>>
  <2>1. \A k \in Members : n(k) \in Nat /\ n(k) > Deadline
    BY GeneticAssumption, ConstantsOK DEF Evaluable, InTime
  <2>2. \A k \in Members : FitnessScores[k] = FitnessScore(generation[k], MaxCost)
    BY DEF FitnessScores
  <2> QED
    BY <2>1, <2>2 DEF FitnessScore
<1>2. PICK x \in Nat : x = n(i)
  BY <1>1
<1>3. PICK y \in Nat : y = n(j)
  BY <1>1
<1>4. LessThan(FitnessScores[i], FitnessScores[j])
        <=> (x + Deadline) * Deadline < (y + Deadline) * Deadline
  BY <1>1, <1>2, <1>3 DEF LessThan
<1>5. (x + Deadline) * Deadline < (y + Deadline) * Deadline <=> x < y
  <2>1. \A c \in Nat \ {0}, u, v \in Nat : u < v => u * c < v * c
    <3> SUFFICES ASSUME NEW c \in Nat \ {0}, NEW u \in Nat, NEW v \in Nat, u < v PROVE u * c < v * c
      OBVIOUS
    <3>1. u * c + c <= v * c
      <4>1. (u + 1) * c = u * c + c /\ u + 1 <= v
        OBVIOUS
      <4> QED
        BY <4>1
    <3> QED
      BY <3>1
  <2>2. Deadline \in Nat \ {0} /\ x + Deadline \in Nat /\ y + Deadline \in Nat
    BY ConstantsOK
  <2>3. x < y => (x + Deadline) * Deadline < (y + Deadline) * Deadline
    BY <2>1, <2>2
  <2>4. y < x => (y + Deadline) * Deadline < (x + Deadline) * Deadline
    BY <2>1, <2>2
  <2>5. (x + Deadline) * Deadline \in Nat /\ (y + Deadline) * Deadline \in Nat
    BY <2>2
  <2> QED
    BY <2>3, <2>4, <2>5
<1> QED
  BY <1>2, <1>3, <1>4, <1>5

\* GetBestAssignment always finds one.
LEMMA BestExists ==
    ASSUME Evaluable
    PROVE  \E i \in Members : BestAssignment = generation[i]
<1>1. CASE \E k \in Members : InTime(generation[k])
  BY <1>1, BestIsCheapest
<1>2. CASE \A k \in Members : ~InTime(generation[k])
  <2> DEFINE n(k) == MakespanOf(generation[k])
             N == {n(k) : k \in Members}
  <2>1. N \subseteq Nat /\ N # {}
    BY GeneticAssumption, ConstantsOK DEF Evaluable
  <2>2. PICK c \in N : \A d \in N : c <= d
    <3> HIDE DEF N
    <3> QED
      BY <2>1, LeastExists
  <2> DEFINE S == {i \in Members : n(i) = c}
  <2>3. S \subseteq Nat /\ S # {}
    BY ConstantsOK
  <2>4. PICK m \in S : \A i \in S : m <= i
    <3> HIDE DEF S
    <3> QED
      BY <2>3, LeastExists
  <2>5. m \in Members /\ n(m) = c
    OBVIOUS
  <2>6. ASSUME NEW j \in Members
        PROVE  /\ ~LessThan(FitnessScores[j], FitnessScores[m])
               /\ j < m => LessThan(FitnessScores[m], FitnessScores[j])
    <3>1. c <= n(j) /\ n(j) \in Nat /\ c \in Nat
      BY <2>1, <2>2
    <3>2. n(j) = c => m <= j
      BY <2>4
    <3>3. j \in Nat /\ m \in Nat
      BY <2>5, ConstantsOK
    <3>4. LessThan(FitnessScores[j], FitnessScores[m]) <=> n(j) < n(m)
      BY <1>2, <2>5, LateScores
    <3>5. LessThan(FitnessScores[m], FitnessScores[j]) <=> n(m) < n(j)
      BY <1>2, <2>5, LateScores
    <3> HIDE DEF n
    <3> QED
      BY <2>5, <3>1, <3>2, <3>3, <3>4, <3>5
  <2> DEFINE IsBest(i) == \A j \in Members : /\ ~LessThan(FitnessScores[j], FitnessScores[i])
                                             /\ j < i => LessThan(FitnessScores[i], FitnessScores[j])
  <2>7. IsBest(m)
    BY <2>6
  <2>8. BestAssignment = generation[CHOOSE i \in Members : IsBest(i)]
    BY DEF BestAssignment
  <2> HIDE DEF IsBest
  <2>9. (CHOOSE i \in Members : IsBest(i)) \in Members
    BY <2>5, <2>7
  <2> QED
    BY <2>8, <2>9
<1> QED
  BY <1>1, <1>2

(* ------------------------ the plan's queues ---------------------------- *)

\* Where a plan made from an assignment has a task.
MachineIn(a, t) == NewId(a, a.MatchingString[t])
PlaceIn(a, t) == CountBelow(PlacesOn(a, MachineIn(a, t)), PositionOf(a.SchedulingString, t)) + 1

\* An entry of a queue is a task of the string that goes to that machine.
LEMMA QueueEntry ==
    ASSUME NEW a \in Assignments, NEW k, NEW n \in DOMAIN QueueOf(a, k)
    PROVE  /\ QueueOf(a, k)[n] \in Tasks
           /\ MachineIn(a, QueueOf(a, k)[n]) = k
           /\ PlaceIn(a, QueueOf(a, k)[n]) = n
           /\ PositionOf(a.SchedulingString, QueueOf(a, k)[n]) = Nth(PlacesOn(a, k), n - 1)
<1> DEFINE s == a.SchedulingString
           i == Nth(PlacesOn(a, k), n - 1)
           t == QueueOf(a, k)[n]
<1>1. PlacesOn(a, k) \subseteq Nat /\ IsFiniteSet(PlacesOn(a, k)) /\ Cardinality(PlacesOn(a, k)) \in Nat
  BY PartOfTasks DEF PlacesOn
<1>2. n \in 1..Cardinality(PlacesOn(a, k)) /\ t = s[i]
  BY DEF QueueOf
<1>3. n - 1 \in 0..(Cardinality(PlacesOn(a, k)) - 1) /\ n = (n - 1) + 1
  BY <1>1, <1>2
<1>4. i \in PlacesOn(a, k) /\ CountBelow(PlacesOn(a, k), i) = n - 1
  BY <1>1, <1>3, Counting
<1>5. i \in Tasks /\ NewId(a, a.MatchingString[s[i]]) = k
  BY <1>4 DEF PlacesOn
<1>6. s \in Strings
  BY DEF Assignments
<1>7. t \in Tasks /\ PositionOf(s, t) = i
  <2> HIDE DEF i, t
  <2>1. t \in Tasks
    BY <1>2, <1>5, <1>6 DEF Strings
  <2>2. PositionOf(s, t) \in Tasks /\ s[PositionOf(s, t)] = s[i]
    BY <1>2, <1>6, <2>1, PositionInString
  <2> QED
    BY <1>5, <1>6, <2>1, <2>2 DEF Strings
<1>8. MachineIn(a, t) = k
  BY <1>2, <1>5 DEF MachineIn
<1>9. PlaceIn(a, t) = n
  BY <1>3, <1>4, <1>7, <1>8 DEF PlaceIn
<1> QED
  BY <1>7, <1>8, <1>9

\* Each task is queued, on the machine it was assigned to.
LEMMA TaskQueued ==
    ASSUME NEW a \in Assignments, NEW t \in Tasks
    PROVE  /\ MachineIn(a, t) \in DOMAIN Bought(a)
           /\ MachineIn(a, t) \in DOMAIN PlanOf(a).queue
           /\ Bought(a)[MachineIn(a, t)] = TypeOf(a.MatchingString[t])
           /\ PlaceIn(a, t) \in DOMAIN QueueOf(a, MachineIn(a, t))
           /\ QueueOf(a, MachineIn(a, t))[PlaceIn(a, t)] = t
<1> DEFINE s == a.SchedulingString
           vm == a.MatchingString[t]
           k == MachineIn(a, t)
           i == PositionOf(s, t)
<1>1. /\ UsedVMs(a) \subseteq Nat /\ IsFiniteSet(UsedVMs(a)) /\ vm \in UsedVMs(a)
      /\ k = CountBelow(UsedVMs(a), vm)
  BY UsedMachines DEF MachineIn, NewId
<1>2. k \in 0..(Cardinality(UsedVMs(a)) - 1) /\ Nth(UsedVMs(a), k) = vm
  BY <1>1, Counting
<1>3. k \in DOMAIN Bought(a) /\ Bought(a)[k] = TypeOf(vm)
  BY <1>2 DEF Bought
<1>4. k \in DOMAIN PlanOf(a).queue
  BY <1>1 DEF PlanOf, MachineIn
<1>5. i \in Tasks /\ s[i] = t
  BY PositionInString DEF Assignments
<1>6. i \in PlacesOn(a, k)
  BY <1>5 DEF PlacesOn, MachineIn
<1>7. PlacesOn(a, k) \subseteq Nat /\ IsFiniteSet(PlacesOn(a, k)) /\ Cardinality(PlacesOn(a, k)) \in Nat
  BY PartOfTasks DEF PlacesOn
<1>8. PICK c \in 0..(Cardinality(PlacesOn(a, k)) - 1) :
        c = CountBelow(PlacesOn(a, k), i) /\ Nth(PlacesOn(a, k), c) = i
  BY <1>6, <1>7, Counting
<1>9. c + 1 \in 1..Cardinality(PlacesOn(a, k)) /\ (c + 1) - 1 = c
  BY <1>7
<1>10. PlaceIn(a, t) = c + 1
  BY <1>8 DEF PlaceIn
<1>11. c + 1 \in DOMAIN QueueOf(a, k) /\ QueueOf(a, k)[c + 1] = t
  BY <1>5, <1>8, <1>9 DEF QueueOf
<1> QED
  BY <1>3, <1>4, <1>10, <1>11

\* A queue keeps the order of the string.
LEMMA QueueInOrder ==
    ASSUME NEW a \in Assignments, NEW k, NEW m \in DOMAIN QueueOf(a, k), NEW n \in DOMAIN QueueOf(a, k), m < n
    PROVE  PositionOf(a.SchedulingString, QueueOf(a, k)[m]) < PositionOf(a.SchedulingString, QueueOf(a, k)[n])
<1>1. PlacesOn(a, k) \subseteq Nat /\ IsFiniteSet(PlacesOn(a, k)) /\ Cardinality(PlacesOn(a, k)) \in Nat
  BY PartOfTasks DEF PlacesOn
<1>2. m - 1 \in 0..(Cardinality(PlacesOn(a, k)) - 1) /\ n - 1 \in 0..(Cardinality(PlacesOn(a, k)) - 1)
  BY <1>1 DEF QueueOf
<1>3. m \in Int /\ n \in Int
  BY DEF QueueOf
<1>4. PICK i \in PlacesOn(a, k) : i = Nth(PlacesOn(a, k), m - 1) /\ CountBelow(PlacesOn(a, k), i) = m - 1
  BY <1>1, <1>2, Counting
<1>5. PICK j \in PlacesOn(a, k) : j = Nth(PlacesOn(a, k), n - 1) /\ CountBelow(PlacesOn(a, k), j) = n - 1
  BY <1>1, <1>2, Counting
<1>6. ~(j < i)
  <2>1. j < i => n - 1 < m - 1
    BY <1>1, <1>4, <1>5, Counting
  <2> QED
    BY <2>1, <1>3
<1>7. i # j
  BY <1>3, <1>4, <1>5
<1>8. i < j
  BY <1>1, <1>6, <1>7
<1> QED
  BY <1>4, <1>5, <1>8, QueueEntry

(* ------------------------ the plan returned ---------------------------- *)

\* What MakePlan returns is the plan of the best assignment, and stays it.
PlanMade == phase = "done" => plan = PlanOf(BestAssignment)

\* The numbers of machines and places that the properties read off the plan.
LEMMA PlanRead ==
    ASSUME NEW a \in Assignments, plan = PlanOf(a), NEW t \in Tasks
    PROVE  /\ MachineOf(t) = MachineIn(a, t)
           /\ PlaceOf(t) = PlaceIn(a, t)
           /\ plan.queue[MachineOf(t)] = QueueOf(a, MachineOf(t))
<1>1. \A k \in DOMAIN plan.queue : plan.queue[k] = QueueOf(a, k)
  BY DEF PlanOf
<1>2. /\ MachineIn(a, t) \in DOMAIN plan.queue
      /\ PlaceIn(a, t) \in DOMAIN QueueOf(a, MachineIn(a, t))
      /\ QueueOf(a, MachineIn(a, t))[PlaceIn(a, t)] = t
  BY TaskQueued
<1>3. \A k : \A n \in DOMAIN QueueOf(a, k) :
         QueueOf(a, k)[n] = t => k = MachineIn(a, t) /\ n = PlaceIn(a, t)
  BY QueueEntry
<1>4. MachineOf(t) = MachineIn(a, t)
  BY <1>1, <1>2, <1>3 DEF MachineOf
<1>5. PlaceOf(t) = PlaceIn(a, t)
  <2>1. PlaceOf(t) = CHOOSE n \in DOMAIN QueueOf(a, MachineIn(a, t)) : QueueOf(a, MachineIn(a, t))[n] = t
    BY <1>1, <1>2, <1>4 DEF PlaceOf
  <2> QED
    BY <1>2, <1>3, <2>1
<1> QED
  BY <1>1, <1>2, <1>4, <1>5

\* Who is queued right before a task comes before it in the string.
LEMMA BehindInString ==
    ASSUME NEW a \in Assignments, plan = PlanOf(a), NEW t \in Tasks, NEW u \in QueuedBefore(t)
    PROVE  u \in Tasks /\ PositionOf(a.SchedulingString, u) < PositionOf(a.SchedulingString, t)
<1> DEFINE k == MachineIn(a, t)
           n == PlaceIn(a, t)
<1>1. /\ MachineOf(t) = k /\ PlaceOf(t) = n /\ plan.queue[k] = QueueOf(a, k)
      /\ n \in DOMAIN QueueOf(a, k) /\ QueueOf(a, k)[n] = t
  BY PlanRead, TaskQueued
<1>2. n # 1 /\ u = QueueOf(a, k)[n - 1]
  BY <1>1 DEF QueuedBefore
<1>3. n - 1 \in DOMAIN QueueOf(a, k) /\ n - 1 < n
  <2>1. Cardinality(PlacesOn(a, k)) \in Nat
    BY PartOfTasks DEF PlacesOn
  <2>2. n \in 1..Cardinality(PlacesOn(a, k))
    BY <1>1 DEF QueueOf
  <2>3. n - 1 \in 1..Cardinality(PlacesOn(a, k)) /\ n - 1 < n
    <3> HIDE DEF n
    <3> QED
      BY <1>2, <2>1, <2>2
  <2> QED
    BY <2>3 DEF QueueOf
<1> HIDE DEF k, n
<1> QED
  BY <1>1, <1>2, <1>3, QueueEntry, QueueInOrder

\* A plan made from a runnable assignment can be run.
LEMMA RunnablePlanned ==
    ASSUME NEW a, Runnable(a), plan = PlanOf(a)
    PROVE  PlanCanBeRun
<1> DEFINE s == a.SchedulingString
<1>1. a \in Assignments /\ s \in Strings /\ InOrder(s)
  BY DEF Runnable, Assignments
<1>2. ASSUME NEW t \in Tasks
      PROVE  \E k \in DOMAIN plan.bought \cap DOMAIN plan.queue : \E i \in DOMAIN plan.queue[k] :
                /\ plan.queue[k][i] = t
                /\ CanBeExecuted(t, plan.bought[k])
                /\ \A l \in DOMAIN plan.queue : \A j \in DOMAIN plan.queue[l] :
                      plan.queue[l][j] = t => l = k /\ j = i
  <2> DEFINE k == MachineIn(a, t)
             i == PlaceIn(a, t)
  <2>1. /\ k \in DOMAIN plan.bought \cap DOMAIN plan.queue
        /\ plan.bought[k] = TypeOf(a.MatchingString[t])
    BY <1>1, TaskQueued DEF PlanOf
  <2>2. \A l \in DOMAIN plan.queue : plan.queue[l] = QueueOf(a, l)
    BY DEF PlanOf
  <2>3. i \in DOMAIN plan.queue[k] /\ plan.queue[k][i] = t
    BY <1>1, <2>1, <2>2, TaskQueued
  <2>4. CanBeExecuted(t, plan.bought[k])
    BY <2>1 DEF Runnable, Suits, SuitableVMs
  <2>5. ASSUME NEW l \in DOMAIN plan.queue, NEW j \in DOMAIN plan.queue[l], plan.queue[l][j] = t
        PROVE  l = k /\ j = i
    BY <1>1, <2>2, <2>5, QueueEntry
  <2> HIDE DEF k, i
  <2> QED
    BY <2>1, <2>3, <2>4, <2>5
<1>3. \A t \in Tasks : \A u \in QueuedBefore(t) : PositionOf(s, u) < PositionOf(s, t)
  BY <1>1, BehindInString
<1> HIDE DEF s
<1> QED
  BY <1>1, <1>2, <1>3 DEF PlanCanBeRun

\* The generation and with it the best of it stay when the plan is made.
LEMMA PlanMadeNext ==
    ASSUME PlanMade, [Next]_vars
    PROVE  PlanMade'
<1>1. ASSUME generation' = generation PROVE BestAssignment' = BestAssignment
  BY <1>1 DEF BestAssignment, FitnessScores, MaxCost, FitnessScore
<1>2. CASE MakePlan
  BY <1>1, <1>2 DEF MakePlan, PlanMade
<1>3. CASE UNCHANGED vars
  BY <1>1, <1>3 DEF vars, PlanMade
<1>4. ASSUME ~MakePlan, ~UNCHANGED vars PROVE phase' # "done"
  <2>1. \/ InitialMutation \/ FastestAssignment \/ RandomAssignment \/ EvaluateInitial
        \/ GetNewGeneration \/ MakeMutation \/ MakeCrossover \/ Evaluate
    BY <1>4 DEF Next, Ended
  <2> QED
    BY <2>1 DEF InitialMutation, FastestAssignment, RandomAssignment, EvaluateInitial,
                GetNewGeneration, MakeMutation, MakeCrossover, Evaluate, Assigned
<1> QED
  BY <1>2, <1>3, <1>4 DEF PlanMade

LEMMA PlanMadeInvariant == Spec => []PlanMade
<1>1. Init => PlanMade
  BY DEF Init, PlanMade
<1>2. PlanMade /\ [Next]_vars => PlanMade'
  BY PlanMadeNext
<1> QED
  BY <1>1, <1>2, PTL DEF Spec

\* The plan is made from a member, and by then all members are finished.
LEMMA BestRunnable ==
    ASSUME GeneticInv, phase = "done"
    PROVE  Runnable(BestAssignment)
<1>1. PICK i \in Members : BestAssignment = generation[i]
  BY BestExists DEF GeneticInv, GeneticTypeOK, Evaluable
<1>2. Runnable(generation[i])
  BY AllRunnable
<1> QED
  BY <1>1, <1>2

(***************************************************************************)
(* Whatever the search did, the plan it returns has each task once, on a   *)
(* machine it fits, and the queues of its machines do not wait for each    *)
(* other in a circle.                                                      *)
(***************************************************************************)
THEOREM GeneticPlanCanBeRun == Spec => []PlanCanBeRun
<1>1. ASSUME GeneticInv, PlanMade PROVE PlanCanBeRun
  <2>1. CASE phase = "done"
    BY <1>1, <2>1, BestRunnable, RunnablePlanned DEF PlanMade
  <2>2. CASE phase # "done"
    BY <2>2 DEF PlanCanBeRun
  <2> QED
    BY <2>1, <2>2
<1> QED
  BY <1>1, PlanMadeInvariant, GeneticInvariant, PTL

(* ---------------------- an assignment's values ------------------------- *)

NoValues ==
    [endTimes |-> [t \in Tasks |-> -1],
     prevTaskId |-> [vm \in AvailableVMs |-> NoTask],
     makespan |-> 0, cost |-> 0]

\* The values up to a place of the string, as the loop calculates them.
IsValues(a, n, f) == f = [i \in 0..n |-> IF i = 0 THEN NoValues ELSE NextValues(f[i - 1], a, i)]

LEMMA ValuesExist ==
    ASSUME NEW a, NEW n \in Nat
    PROVE  \E f : IsValues(a, n, f)
<1> DEFINE Bad == {k \in Nat : ~ \E f : IsValues(a, k, f)}
<1>1. ASSUME Bad # {} PROVE FALSE
  <2>1. PICK k \in Bad : \A j \in Bad : k <= j
    <3>1. Bad \subseteq Nat
      OBVIOUS
    <3> HIDE DEF Bad
    <3> QED
      BY <1>1, <3>1, LeastExists
  <2>2. k \in Nat /\ ~ \E f : IsValues(a, k, f)
    OBVIOUS
  <2>3. k # 0
    <3> DEFINE f == [i \in 0..0 |-> NoValues]
    <3>1. IsValues(a, 0, f)
      BY DEF IsValues
    <3> QED
      BY <2>2, <3>1
  <2>4. k - 1 \in Nat /\ ~(k <= k - 1) /\ 0..(k - 1) = (0..k) \ {k}
    BY <2>2, <2>3
  <2>5. PICK g : IsValues(a, k - 1, g)
    <3>1. k - 1 \notin Bad
      <4> HIDE DEF Bad
      <4> QED
        BY <2>1, <2>4
    <3> QED
      BY <2>4, <3>1
  <2> DEFINE f == [i \in 0..k |-> IF i = k THEN NextValues(g[k - 1], a, k) ELSE g[i]]
  <2>6. \A i \in 0..(k - 1) : g[i] = IF i = 0 THEN NoValues ELSE NextValues(g[i - 1], a, i)
    BY <2>5 DEF IsValues
  <2>7. \A i \in 0..(k - 1) : f[i] = g[i]
    BY <2>4
  <2>8. k - 1 \in 0..(k - 1) /\ f[k] = NextValues(g[k - 1], a, k)
    BY <2>2, <2>4
  <2>9. \A i \in 0..k : i # 0 => i - 1 \in 0..(k - 1)
    BY <2>2
  <2>10. \A i \in 0..k : f[i] = IF i = 0 THEN NoValues ELSE NextValues(f[i - 1], a, i)
    <3> SUFFICES ASSUME NEW i \in 0..k
                 PROVE  f[i] = IF i = 0 THEN NoValues ELSE NextValues(f[i - 1], a, i)
      OBVIOUS
    <3>1. i # 0 => f[i - 1] = g[i - 1]
      BY <2>7, <2>9
    <3> HIDE DEF f
    <3>2. CASE i = k
      BY <2>3, <2>8, <3>1, <3>2
    <3>3. CASE i # k
      <4>1. i \in 0..(k - 1)
        BY <2>4, <3>3
      <4> QED
        BY <2>6, <2>7, <3>1, <4>1
    <3> QED
      BY <3>2, <3>3
  <2>11. IsValues(a, k, f)
    <3>1. f = [i \in 0..k |-> f[i]]
      OBVIOUS
    <3> HIDE DEF f
    <3> QED
      BY <2>10, <3>1 DEF IsValues
  <2> QED
    BY <2>2, <2>11
<1> QED
  BY <1>1

ValuesOf(a) == CHOOSE f : IsValues(a, Size, f)

LEMMA ValuesAre ==
    ASSUME NEW a
    PROVE  /\ DoCalculateCostAndMakespan(a) = ValuesOf(a)[Size]
           /\ ValuesOf(a)[0] = NoValues
           /\ \A i \in 1..Size : ValuesOf(a)[i] = NextValues(ValuesOf(a)[i - 1], a, i)
<1>1. Size \in Nat
  BY ViewAssumption
<1>2. IsValues(a, Size, ValuesOf(a))
  BY <1>1, ValuesExist DEF ValuesOf
<1>3. DoCalculateCostAndMakespan(a) = ValuesOf(a)[Size]
  BY DEF DoCalculateCostAndMakespan, ValuesOf, IsValues, NoValues
<1>4. 0 \in 0..Size /\ \A i \in 1..Size : i \in 0..Size /\ i # 0
  BY <1>1
<1>5. \A i \in 0..Size : ValuesOf(a)[i] = IF i = 0 THEN NoValues ELSE NextValues(ValuesOf(a)[i - 1], a, i)
  BY <1>2 DEF IsValues
<1> QED
  BY <1>3, <1>4, <1>5

\* The last task that a machine has among the first i of the string.
LastOn(a, i, vm, prev) ==
    \/ /\ prev = NoTask
       /\ \A j \in 0..(i - 1) : a.MatchingString[a.SchedulingString[j]] # vm
    \/ \E j \in 0..(i - 1) :
          /\ prev = a.SchedulingString[j]
          /\ a.MatchingString[a.SchedulingString[j]] = vm
          /\ \A l \in (j + 1)..(i - 1) : a.MatchingString[a.SchedulingString[l]] # vm

LEMMA EarlierPlace ==
    ASSUME NEW i \in Tasks, NEW j \in 0..(i - 1)
    PROVE  j \in Tasks /\ j < i /\ i \in Nat /\ j \in Nat
BY ViewAssumption DEF Tasks

\* It is the one queued before the next.
LEMMA QueuedBeforeIs ==
    ASSUME NEW a \in Assignments, plan = PlanOf(a), NEW i \in Tasks, NEW t \in Tasks,
           t = a.SchedulingString[i], NEW prev, LastOn(a, i, a.MatchingString[t], prev)
    PROVE  QueuedBefore(t) = IF prev = NoTask THEN {} ELSE {prev}
<1> DEFINE s == a.SchedulingString
           vm == a.MatchingString[t]
           k == MachineIn(a, t)
           S == PlacesOn(a, k)
           d == CountBelow(S, i)
<1>1. s \in Strings
  BY DEF Assignments
<1>2. PositionOf(s, t) = i
  <2>1. PositionOf(s, t) \in Tasks /\ s[PositionOf(s, t)] = t
    BY <1>1, PositionInString
  <2> QED
    BY <1>1, <2>1 DEF Strings
<1>3. S \subseteq Nat /\ IsFiniteSet(S) /\ Cardinality(S) \in Nat
  BY PartOfTasks DEF PlacesOn
<1>4. \A j \in Tasks : j \in S <=> a.MatchingString[s[j]] = vm
  <2> SUFFICES ASSUME NEW j \in Tasks PROVE j \in S <=> a.MatchingString[s[j]] = vm
    OBVIOUS
  <2>1. j \in S <=> NewId(a, a.MatchingString[s[j]]) = NewId(a, vm)
    BY DEF PlacesOn, MachineIn
  <2>2. s[j] \in Tasks
    BY <1>1 DEF Strings
  <2>3. /\ UsedVMs(a) \subseteq Nat /\ IsFiniteSet(UsedVMs(a))
        /\ vm \in UsedVMs(a) /\ a.MatchingString[s[j]] \in UsedVMs(a)
    BY <2>2, UsedMachines
  <2>4. \A x \in UsedVMs(a) : Nth(UsedVMs(a), NewId(a, x)) = x
    BY <2>3, Counting DEF NewId
  <2> QED
    BY <2>1, <2>3, <2>4
<1>5. PlaceIn(a, t) = d + 1
  BY <1>2 DEF PlaceIn
<1>6. /\ MachineOf(t) = k /\ PlaceOf(t) = PlaceIn(a, t) /\ plan.queue[k] = QueueOf(a, k)
  BY PlanRead
<1>7. QueuedBefore(t) = IF d + 1 = 1 THEN {} ELSE {QueueOf(a, k)[(d + 1) - 1]}
  BY <1>5, <1>6 DEF QueuedBefore
<1>8. i \in S
  BY <1>4
<1>s. S \subseteq Tasks
  BY DEF PlacesOn
<1>9. d \in 0..(Cardinality(S) - 1)
  BY <1>3, <1>8, Counting
<1> HIDE DEF k, S
<1>10. CASE prev = NoTask /\ \A j \in 0..(i - 1) : a.MatchingString[s[j]] # vm
  <2>1. \A y \in S : ~(y < i)
    <3> SUFFICES ASSUME NEW y \in S, y < i PROVE FALSE
      OBVIOUS
    <3>1. y \in 0..(i - 1) /\ y \in Tasks
      BY <1>3, ViewAssumption DEF Tasks
    <3> QED
      BY <1>4, <1>10, <3>1
  <2>2. {y \in S : y < i} = {}
    BY <2>1
  <2>3. d = 0
    BY <2>2, FS_EmptySet DEF CountBelow
  <2> QED
    BY <1>7, <1>10, <2>3
<1>11. ASSUME NEW j \in 0..(i - 1), prev = s[j], a.MatchingString[s[j]] = vm,
              \A l \in (j + 1)..(i - 1) : a.MatchingString[s[l]] # vm
       PROVE  QueuedBefore(t) = IF prev = NoTask THEN {} ELSE {prev}
  <2>1. j \in S /\ j \in Tasks /\ j < i /\ i \in Nat /\ j \in Nat
    BY <1>4, <1>11, EarlierPlace
  <2>2. PICK c \in Nat : c = CountBelow(S, j)
    <3>1. CountBelow(S, j) \in 0..(Cardinality(S) - 1)
      BY <1>3, <2>1, Counting
    <3>2. CountBelow(S, j) \in Nat
      BY <1>3, <3>1
    <3> QED
      BY <3>2
  <2>3. c < d /\ d \in Nat
    <3>1. CountBelow(S, j) < CountBelow(S, i)
      BY <1>3, <1>8, <2>1, Counting
    <3>2. c < d
      BY <2>2, <3>1
    <3> HIDE DEF d
    <3> QED
      BY <1>3, <1>9, <3>2
  <2>4. d - 1 \in 0..(Cardinality(S) - 1) /\ d \in 1..Cardinality(S)
    <3> HIDE DEF d
    <3> QED
      BY <1>3, <1>9, <2>2, <2>3
  <2>5. PICK x \in S : x = Nth(S, d - 1) /\ CountBelow(S, x) = d - 1
    <3> HIDE DEF d
    <3> QED
      BY <1>3, <2>4, Counting
  <2>6. x \in Nat /\ x \in Tasks
    BY <1>3, <1>s
  <2>7. x < i
    <3>1. i < x => d < d - 1
      <4>1. i < x => CountBelow(S, i) < CountBelow(S, x)
        BY <1>3, <1>8, Counting
      <4> QED
        BY <2>5, <4>1
    <3>2. i # x
      <4>1. i = x => d = d - 1
        BY <2>5
      <4> HIDE DEF d
      <4> QED
        BY <2>3, <4>1
    <3> HIDE DEF d
    <3> QED
      BY <2>1, <2>3, <2>6, <3>1, <3>2
  <2>8. ~(j < x)
    <3> SUFFICES ASSUME j < x PROVE FALSE
      OBVIOUS
    <3>1. x \in (j + 1)..(i - 1)
      BY <2>1, <2>6, <2>7
    <3>2. a.MatchingString[s[x]] = vm
      BY <1>4, <2>6
    <3>3. a.MatchingString[s[x]] # vm
      BY <1>11, <3>1
    <3> QED
      BY <3>2, <3>3
  <2>9. ~(x < j)
    <3>1. x < j => d - 1 < c
      <4>1. x < j => CountBelow(S, x) < CountBelow(S, j)
        BY <1>3, <2>1, Counting
      <4> QED
        BY <2>2, <2>5, <4>1
    <3> HIDE DEF d
    <3> QED
      BY <2>2, <2>3, <3>1
  <2>10. x = j
    BY <2>1, <2>6, <2>8, <2>9
  <2> HIDE DEF d
  <2>11. d + 1 # 1 /\ (d + 1) - 1 = d
    BY <2>4, <1>3
  <2>12. QueueOf(a, k)[d] = s[Nth(S, d - 1)]
    BY <2>4 DEF QueueOf, S
  <2>13. QueuedBefore(t) = {prev}
    BY <1>7, <1>11, <2>5, <2>10, <2>11, <2>12
  <2>14. prev # NoTask
    <3>1. prev \in Tasks
      BY <1>1, <1>11, <2>1 DEF Strings
    <3> QED
      BY <3>1, ViewAssumption DEF Tasks, NoTask
  <2> QED
    BY <2>13, <2>14
<1> QED
  BY <1>10, <1>11 DEF LastOn

\* Of finitely many times and 0 there is a latest.
LatestEnd(D, f) == Max({0} \cup {f[d] : d \in D})

LEMMA LatestExists ==
    ASSUME NEW D, D \subseteq Tasks, NEW f, \A d \in D : f[d] \in Nat
    PROVE  /\ LatestEnd(D, f) \in Nat
           /\ \A d \in D : f[d] <= LatestEnd(D, f)
           /\ LatestEnd(D, f) = 0 \/ \E d \in D : LatestEnd(D, f) = f[d]
<1> USE DEF LatestEnd
<1> DEFINE S == {0} \cup {f[d] : d \in D}
           g == [i \in 1..Size |-> IF i - 1 \in D THEN f[i - 1] ELSE 0]
<1>1. Size \in Nat \ {0} /\ \A d \in D : d + 1 \in 1..Size /\ (d + 1) - 1 = d /\ d \in Nat
  BY ViewAssumption DEF Tasks
<1>2. g \in [1..Size -> Nat]
  OBVIOUS
<1>3. PICK m \in 1..Size : \A i \in 1..Size : g[i] <= g[m]
  <2> HIDE DEF g
  <2> QED BY <1>1, <1>2, GreatestExists
<1>4. g[m] \in S /\ g[m] \in Nat
  OBVIOUS
<1>5. \A d \in D : g[d + 1] = f[d]
  BY <1>1
<1>6. \A y \in S : y \in Nat /\ g[m] >= y
  <2> SUFFICES ASSUME NEW y \in S PROVE y \in Nat /\ g[m] >= y
    OBVIOUS
  <2>1. CASE y = 0
    <3> HIDE DEF g
    <3> QED BY <1>4, <2>1
  <2>2. CASE y # 0
    <3>1. PICK d \in D : y = f[d]
      BY <2>2
    <3>2. g[d + 1] = y /\ g[d + 1] <= g[m] /\ y \in Nat
      <4> HIDE DEF g
      <4> QED BY <1>1, <1>3, <1>5, <3>1
    <3> HIDE DEF g
    <3> QED BY <1>4, <3>2
  <2> QED BY <2>1, <2>2
<1> HIDE DEF g
<1>7. Max(S) \in S /\ \A y \in S : Max(S) >= y
  BY <1>4, <1>6 DEF Max
<1>8. \A d \in D : f[d] \in S
  OBVIOUS
<1>9. \A y \in S : y = 0 \/ \E d \in D : y = f[d]
  OBVIOUS
<1> HIDE DEF S
<1>10. /\ Max(S) \in Nat /\ \A d \in D : f[d] <= Max(S)
       /\ Max(S) = 0 \/ \E d \in D : Max(S) = f[d]
  BY <1>6, <1>7, <1>8, <1>9
<1> QED BY <1>10 DEF S

LEMMA ExecutionTakesTime ==
    ASSUME NEW t \in Tasks, NEW type \in Types PROVE GetExecutionTime(t, type) \in Nat
<1>1. Requirements[t].size \in Nat /\ VMList[type].flops \in Nat \ {0}
  BY ViewAssumption
<1> QED BY <1>1 DEF GetExecutionTime

\* The makespan of a plan whose tasks end at f.
LastEndOf(f) == Max({f[t] : t \in Tasks})

LEMMA LastEndIs ==
    ASSUME NEW f \in [Tasks -> Nat]
    PROVE  /\ LastEndOf(f) \in Nat /\ \A t \in Tasks : f[t] <= LastEndOf(f)
           /\ \E t \in Tasks : LastEndOf(f) = f[t]
<1> DEFINE g == [i \in 1..Size |-> f[i - 1]]
           S == {f[t] : t \in Tasks}
<1>1. Size \in Nat \ {0} /\ \A t \in Tasks : t + 1 \in 1..Size /\ (t + 1) - 1 = t
  BY ViewAssumption DEF Tasks
<1>2. \A i \in 1..Size : i - 1 \in Tasks
  BY ViewAssumption DEF Tasks
<1>3. g \in [1..Size -> Nat] /\ \A t \in Tasks : g[t + 1] = f[t]
  BY <1>1, <1>2
<1>4. PICK m \in 1..Size : \A i \in 1..Size : g[i] <= g[m]
  <2> HIDE DEF g
  <2> QED BY <1>1, <1>3, GreatestExists
<1> DEFINE l == m - 1
<1>5. l \in Tasks /\ f[l] = g[m]
  BY <1>2
<1> HIDE DEF g, l
<1>6. \A t \in Tasks : f[t] <= f[l]
  BY <1>1, <1>3, <1>4, <1>5
<1>7. f[l] \in S /\ \A y \in S : f[l] >= y
  BY <1>5, <1>6
<1>8. Max(S) \in S /\ \A y \in S : Max(S) >= y
  BY <1>7 DEF Max
<1>9. \A t \in Tasks : f[t] \in S
  OBVIOUS
<1>10. \A y \in S : y \in Nat /\ \E t \in Tasks : y = f[t]
  OBVIOUS
<1> HIDE DEF S
<1>11. /\ Max(S) \in Nat /\ \A t \in Tasks : f[t] <= Max(S)
       /\ \E t \in Tasks : Max(S) = f[t]
  BY <1>8, <1>9, <1>10
<1> QED BY <1>11 DEF S, LastEndOf

\* When a task of the plan ends, if the others end at h.
EndIn(h, standby, t) ==
    LatestEnd(Dependencies[t] \cup QueuedBefore(t), h)
    + (IF \E u \in QueuedBefore(t) : standby[u] THEN 0 ELSE AvgLag)
    + GetExecutionTime(t, plan.bought[MachineOf(t)])

\* It depends on tasks that are earlier in the string only.
LEMMA WaitsForEarlier ==
    ASSUME NEW a, Runnable(a), plan = PlanOf(a), NEW i \in Tasks,
           NEW d \in Dependencies[a.SchedulingString[i]] \cup QueuedBefore(a.SchedulingString[i])
    PROVE  \E j \in 0..(i - 1) : d = a.SchedulingString[j]
<1> DEFINE s == a.SchedulingString
           t == s[i]
<1>1. a \in Assignments /\ s \in Strings /\ InOrder(s) /\ t \in Tasks
  BY DEF Runnable, Assignments, Strings
<1>2. \A j \in Tasks : j < i => j \in 0..(i - 1)
  BY ViewAssumption DEF Tasks
<1>3. CASE d \in Dependencies[t]
  <2>1. d \in Tasks
    BY <1>1, <1>3, ViewAssumption
  <2>2. PICK j \in Tasks : s[j] = d
    BY <1>1, <2>1 DEF Strings
  <2>3. j < i
    BY <1>1, <1>3, <2>2 DEF InOrder
  <2> QED
    BY <1>2, <2>2, <2>3
<1>4. CASE d \in QueuedBefore(t)
  <2>1. d \in Tasks /\ PositionOf(s, d) < PositionOf(s, t)
    BY <1>1, <1>4, BehindInString
  <2>2. PositionOf(s, d) \in Tasks /\ s[PositionOf(s, d)] = d
    BY <1>1, <2>1, PositionInString
  <2>3. PositionOf(s, t) = i
    <3>1. PositionOf(s, t) \in Tasks /\ s[PositionOf(s, t)] = t
      BY <1>1, PositionInString
    <3> QED
      BY <1>1, <3>1 DEF Strings
  <2> QED
    BY <1>2, <2>1, <2>2, <2>3
<1> QED
  BY <1>3, <1>4

LEMMA EndLooksBack ==
    ASSUME NEW a, Runnable(a), plan = PlanOf(a), NEW i \in Tasks, NEW t, t = a.SchedulingString[i],
           NEW f, NEW g, NEW standby,
           \A j \in 0..(i - 1) : /\ f[a.SchedulingString[j]] = g[a.SchedulingString[j]]
                                 /\ f[a.SchedulingString[j]] \in Nat
    PROVE  EndIn(f, standby, t) = EndIn(g, standby, t) /\ EndIn(f, standby, t) \in Nat
<1> DEFINE s == a.SchedulingString
           D == Dependencies[t] \cup QueuedBefore(t)
           type == plan.bought[MachineOf(t)]
<1>1. a \in Assignments /\ s \in Strings /\ t \in Tasks
  BY DEF Runnable, Assignments, Strings
<1>2. ASSUME NEW d \in D PROVE d \in Tasks /\ f[d] = g[d] /\ f[d] \in Nat
  <2>1. PICK j \in 0..(i - 1) : d = s[j]
    BY WaitsForEarlier
  <2>2. j \in Tasks
    BY EarlierPlace
  <2> HIDE DEF D
  <2> QED
    BY <1>1, <2>1, <2>2 DEF Strings
<1> HIDE DEF D
<1>3. LatestEnd(D, f) = LatestEnd(D, g) /\ D \subseteq Tasks /\ \A d \in D : f[d] \in Nat
  BY <1>2 DEF LatestEnd
<1>4. LatestEnd(D, f) \in Nat
  BY <1>3, LatestExists
<1>5. type = TypeOf(a.MatchingString[t]) /\ type \in Types
  <2>1. type = TypeOf(a.MatchingString[t])
    BY <1>1, PlanRead, TaskQueued DEF PlanOf
  <2>2. a.MatchingString[t] \in AvailableVMs
    BY <1>1 DEF Assignments
  <2>3. \A vm \in AvailableVMs : TypeOf(vm) \in Types
    <3> SUFFICES ASSUME NEW vm \in AvailableVMs PROVE TypeOf(vm) \in Types
      OBVIOUS
    <3>1. vm \in 0..(Size * VMTypes - 1) /\ Size \in Nat \ {0} /\ VMTypes \in Nat \ {0}
      BY ViewAssumption DEF AvailableVMs
    <3>2. PICK q \in Int : q = vm \div Size
      BY <3>1
    <3>3. Size * q <= vm /\ vm < Size * q + Size
      BY <3>1, <3>2
    <3>4. 0 <= q
      BY <3>1, <3>2
    <3>5. q < VMTypes
      <4> SUFFICES ASSUME VMTypes <= q PROVE FALSE
        BY <3>1, <3>2
      <4>1. PICK r \in Nat : q = VMTypes + r
        BY <3>1, <3>4
      <4>2. Size * q = Size * VMTypes + Size * r
        BY <3>1, <4>1
      <4>3. Size * r >= 0 /\ Size * VMTypes \in Int /\ Size * r \in Int
        BY <3>1, <4>1
      <4> QED
        BY <3>1, <3>3, <4>2, <4>3
    <3> QED
      BY <3>1, <3>2, <3>4, <3>5 DEF TypeOf, Types
  <2> QED
    BY <2>1, <2>2, <2>3
<1> HIDE DEF type
<1>6. GetExecutionTime(t, type) \in Nat /\ AvgLag \in Nat
  BY <1>1, <1>5, ExecutionTakesTime, ViewAssumption
<1>7. \A h : EndIn(h, standby, t)
             = LatestEnd(D, h) + (IF \E u \in QueuedBefore(t) : standby[u] THEN 0 ELSE AvgLag)
               + GetExecutionTime(t, type)
  BY DEF EndIn, D, type
<1> QED
  BY <1>3, <1>4, <1>6, <1>7

\* What the loop has calculated after i tasks: the ends that their queues and
\* dependencies demand, the last task of each machine and the last end.
GoodValues(a, i, v) ==
    LET s == a.SchedulingString IN
    /\ v.endTimes \in [Tasks -> Int]
    /\ v.prevTaskId \in [AvailableVMs -> Int]
    /\ v.makespan \in Nat
    /\ \A vm \in AvailableVMs : LastOn(a, i, vm, v.prevTaskId[vm])
    /\ \A j \in 0..(i - 1) :
          /\ v.endTimes[s[j]] \in Nat
          /\ v.endTimes[s[j]] <= v.makespan
          /\ v.endTimes[s[j]] = EndIn(v.endTimes, a.KeepVMStandbyString, s[j])
    /\ v.makespan = 0 \/ \E j \in 0..(i - 1) : v.makespan = v.endTimes[s[j]]

LEMMA NoValuesGood ==
    ASSUME NEW a
    PROVE  GoodValues(a, 0, NoValues)
<1>1. \A j : ~(j \in 0..(0 - 1))
  OBVIOUS
<1>2. /\ NoValues.endTimes \in [Tasks -> Int]
      /\ NoValues.prevTaskId \in [AvailableVMs -> Int]
      /\ NoValues.makespan = 0
      /\ \A vm \in AvailableVMs : NoValues.prevTaskId[vm] = NoTask
  BY DEF NoValues, NoTask
<1>3. \A vm \in AvailableVMs : LastOn(a, 0, vm, NoValues.prevTaskId[vm])
  BY <1>1, <1>2 DEF LastOn
<1> QED
  BY <1>1, <1>2, <1>3 DEF GoodValues

\* The time at which the loop lets the next task end.
LEMMA NextEnd ==
    ASSUME NEW a, Runnable(a), plan = PlanOf(a), NEW i \in Tasks, NEW v, GoodValues(a, i, v),
           NEW t, t = a.SchedulingString[i]
    PROVE  /\ NextValues(v, a, i + 1).endTimes
                = [v.endTimes EXCEPT ![t] = EndIn(v.endTimes, a.KeepVMStandbyString, t)]
           /\ NextValues(v, a, i + 1).makespan
                = Max({v.makespan, EndIn(v.endTimes, a.KeepVMStandbyString, t)})
           /\ NextValues(v, a, i + 1).prevTaskId
                = [v.prevTaskId EXCEPT ![a.MatchingString[t]] = t]
<1> DEFINE vm == a.MatchingString[t]
           prev == v.prevTaskId[vm]
           keep == a.KeepVMStandbyString
           kept == prev # NoTask /\ keep[prev]
           ends == {v.endTimes[d] : d \in Dependencies[t]}
                   \cup (IF prev = NoTask THEN {0} ELSE {v.endTimes[prev]})
           end == Max(ends \cup {0}) + (IF kept THEN 0 ELSE AvgLag) + GetExecutionTime(t, TypeOf(vm))
<1>1. a \in Assignments /\ a.SchedulingString \in Strings /\ t \in Tasks /\ vm \in AvailableVMs
  BY DEF Runnable, Assignments, Strings
<1>2. (i + 1) - 1 = i
  BY ViewAssumption DEF Tasks
<1>3. PreviousOn(v, a, i + 1) = prev
  BY <1>2 DEF PreviousOn
<1>4. /\ NextValues(v, a, i + 1).endTimes = [v.endTimes EXCEPT ![t] = end]
      /\ NextValues(v, a, i + 1).makespan = Max({v.makespan, end})
      /\ NextValues(v, a, i + 1).prevTaskId = [v.prevTaskId EXCEPT ![vm] = t]
  BY <1>2, <1>3 DEF NextValues
<1>5. QueuedBefore(t) = IF prev = NoTask THEN {} ELSE {prev}
  <2>1. LastOn(a, i, vm, prev)
    BY <1>1 DEF GoodValues
  <2> QED
    BY <1>1, <2>1, QueuedBeforeIs
<1>6. TypeOf(vm) = plan.bought[MachineOf(t)]
  BY <1>1, PlanRead, TaskQueued DEF PlanOf
<1>7. kept <=> \E u \in QueuedBefore(t) : keep[u]
  <2> HIDE DEF prev, keep
  <2> QED
    BY <1>5
<1>8. ends \cup {0} = {0} \cup {v.endTimes[u] : u \in Dependencies[t] \cup QueuedBefore(t)}
  <2> HIDE DEF prev
  <2>1. CASE prev = NoTask
    BY <1>5, <2>1
  <2>2. CASE prev # NoTask
    BY <1>5, <2>2
  <2> QED
    BY <2>1, <2>2
<1>9. end = EndIn(v.endTimes, keep, t)
  <2>1. Max(ends \cup {0}) = LatestEnd(Dependencies[t] \cup QueuedBefore(t), v.endTimes)
    BY <1>8 DEF LatestEnd
  <2> HIDE DEF ends, kept, keep, prev
  <2>2. (IF kept THEN 0 ELSE AvgLag) = IF \E u \in QueuedBefore(t) : keep[u] THEN 0 ELSE AvgLag
    BY <1>7
  <2> QED
    BY <1>6, <2>1, <2>2 DEF EndIn
<1> HIDE DEF end
<1> QED
  BY <1>4, <1>9

LEMMA MaxOfTwo ==
    ASSUME NEW m \in Nat, NEW n \in Nat
    PROVE  Max({m, n}) = IF m < n THEN n ELSE m
BY DEF Max

LEMMA NextValuesGood ==
    ASSUME NEW a, Runnable(a), plan = PlanOf(a), NEW i \in Tasks, NEW v, GoodValues(a, i, v)
    PROVE  GoodValues(a, i + 1, NextValues(v, a, i + 1))
<1> DEFINE s == a.SchedulingString
           t == s[i]
           vm == a.MatchingString[t]
           keep == a.KeepVMStandbyString
           w == NextValues(v, a, i + 1)
<1>1. a \in Assignments /\ s \in Strings /\ t \in Tasks /\ vm \in AvailableVMs
  BY DEF Runnable, Assignments, Strings
<1>2. /\ v.endTimes \in [Tasks -> Int] /\ v.prevTaskId \in [AvailableVMs -> Int] /\ v.makespan \in Nat
      /\ \A m \in AvailableVMs : LastOn(a, i, m, v.prevTaskId[m])
      /\ \A j \in 0..(i - 1) :
            /\ v.endTimes[s[j]] \in Nat
            /\ v.endTimes[s[j]] <= v.makespan
            /\ v.endTimes[s[j]] = EndIn(v.endTimes, keep, s[j])
      /\ v.makespan = 0 \/ \E j \in 0..(i - 1) : v.makespan = v.endTimes[s[j]]
  BY DEF GoodValues
<1>3. i \in Nat /\ (i + 1) - 1 = i /\ \A j \in 0..i : j = i \/ j \in 0..(i - 1)
  BY ViewAssumption DEF Tasks
<1>4. PICK end \in Nat : end = EndIn(v.endTimes, keep, t)
  BY <1>2, EndLooksBack
<1>5. /\ w.endTimes = [v.endTimes EXCEPT ![t] = end]
      /\ w.makespan = IF v.makespan < end THEN end ELSE v.makespan
      /\ w.prevTaskId = [v.prevTaskId EXCEPT ![vm] = t]
  <2>1. /\ w.endTimes = [v.endTimes EXCEPT ![t] = EndIn(v.endTimes, keep, t)]
        /\ w.makespan = Max({v.makespan, EndIn(v.endTimes, keep, t)})
        /\ w.prevTaskId = [v.prevTaskId EXCEPT ![vm] = t]
    BY NextEnd
  <2>2. PICK m \in Nat : m = v.makespan
    BY <1>2
  <2>3. Max({m, end}) = IF m < end THEN end ELSE m
    BY MaxOfTwo
  <2> HIDE DEF w, t, vm, keep
  <2> QED
    BY <1>4, <2>1, <2>2, <2>3
<1> HIDE DEF w
<1>6. \A j \in 0..(i - 1) : j \in Tasks /\ s[j] \in Tasks /\ s[j] # t
  <2> SUFFICES ASSUME NEW j \in 0..(i - 1) PROVE j \in Tasks /\ s[j] \in Tasks /\ s[j] # t
    OBVIOUS
  <2>1. j \in Tasks /\ j < i /\ j \in Nat
    BY EarlierPlace
  <2>2. j # i
    BY <1>3, <2>1
  <2> QED
    BY <1>1, <2>1, <2>2 DEF Strings
<1>7. w.endTimes[t] = end /\ \A j \in 0..(i - 1) : w.endTimes[s[j]] = v.endTimes[s[j]]
  <2> HIDE DEF t, s
  <2> QED
    BY <1>1, <1>2, <1>5, <1>6
<1>8. w.endTimes \in [Tasks -> Int] /\ w.makespan \in Nat /\ w.prevTaskId \in [AvailableVMs -> Int]
  <2>1. t \in Int /\ end \in Int
    BY <1>1, ViewAssumption DEF Tasks
  <2> HIDE DEF t, vm
  <2> QED
    BY <1>1, <1>2, <1>5, <2>1
<1>9. /\ end <= w.makespan /\ v.makespan <= w.makespan
      /\ w.makespan = end \/ w.makespan = v.makespan
  BY <1>2, <1>5
<1>10. ASSUME NEW j \in 0..i
       PROVE  /\ w.endTimes[s[j]] \in Nat
              /\ w.endTimes[s[j]] <= w.makespan
              /\ w.endTimes[s[j]] = EndIn(w.endTimes, keep, s[j])
  <2>1. j \in Tasks /\ j \in Nat
    <3>1. i \in Tasks
      OBVIOUS
    <3> QED
      BY <1>3, <1>6, <3>1, ViewAssumption DEF Tasks
  <2>2. \A l \in 0..(j - 1) : l \in 0..(i - 1)
    BY <1>3, <2>1
  <2>3. \A l \in 0..(j - 1) : /\ v.endTimes[s[l]] = w.endTimes[s[l]]
                              /\ v.endTimes[s[l]] \in Nat
    BY <1>2, <1>7, <2>2
  <2>4. EndIn(v.endTimes, keep, s[j]) = EndIn(w.endTimes, keep, s[j])
    <3>1. PICK f : f = v.endTimes
      OBVIOUS
    <3>2. PICK g : g = w.endTimes
      OBVIOUS
    <3>3. \A l \in 0..(j - 1) : f[s[l]] = g[s[l]] /\ f[s[l]] \in Nat
      BY <2>3, <3>1, <3>2
    <3>4. EndIn(f, keep, s[j]) = EndIn(g, keep, s[j])
      BY <2>1, <3>3, EndLooksBack
    <3> QED
      BY <3>1, <3>2, <3>4
  <2>5. CASE j = i
    BY <1>4, <1>7, <1>9, <2>4, <2>5
  <2>6. CASE j \in 0..(i - 1)
    <3>1. w.endTimes[s[j]] = v.endTimes[s[j]] /\ v.endTimes[s[j]] \in Nat
          /\ v.endTimes[s[j]] <= v.makespan
          /\ v.endTimes[s[j]] = EndIn(v.endTimes, keep, s[j])
      BY <1>2, <1>7, <2>6
    <3> HIDE DEF s, keep
    <3> QED
      BY <1>2, <1>8, <1>9, <2>4, <3>1
  <2> QED
    BY <1>3, <2>5, <2>6
<1>11. w.makespan = 0 \/ \E j \in 0..i : w.makespan = w.endTimes[s[j]]
  <2>1. i \in 0..i /\ \A j \in 0..(i - 1) : j \in 0..i
    BY <1>3
  <2>2. CASE w.makespan = end
    BY <1>7, <2>1, <2>2
  <2>3. CASE w.makespan = v.makespan
    BY <1>2, <1>7, <2>1, <2>3
  <2> QED
    BY <1>9, <2>2, <2>3
<1>12. ASSUME NEW m \in AvailableVMs
       PROVE  LastOn(a, i + 1, m, w.prevTaskId[m])
  <2>1. CASE m = vm
    <3>1. w.prevTaskId[m] = t
      BY <1>1, <1>2, <1>5, <2>1
    <3>2. i \in 0..((i + 1) - 1) /\ \A l : ~(l \in (i + 1)..((i + 1) - 1))
      BY <1>3
    <3>3. a.MatchingString[s[i]] = m
      BY <2>1
    <3> QED
      BY <3>1, <3>2, <3>3 DEF LastOn
  <2>2. CASE m # vm
    <3>1. w.prevTaskId[m] = v.prevTaskId[m] /\ LastOn(a, i, m, v.prevTaskId[m])
      BY <1>1, <1>2, <1>5, <2>2
    <3>2. PICK prev : prev = v.prevTaskId[m]
      OBVIOUS
    <3>3. \A l \in 0..i : l = i \/ l \in 0..(i - 1)
      BY <1>3
    <3>4. CASE prev = NoTask /\ \A j \in 0..(i - 1) : a.MatchingString[s[j]] # m
      <4>1. \A j \in 0..((i + 1) - 1) : a.MatchingString[s[j]] # m
        BY <1>3, <2>2, <3>3, <3>4
      <4> QED
        BY <3>1, <3>2, <3>4, <4>1 DEF LastOn
    <3>5. ASSUME NEW j \in 0..(i - 1), prev = s[j], a.MatchingString[s[j]] = m,
                 \A l \in (j + 1)..(i - 1) : a.MatchingString[s[l]] # m
          PROVE  LastOn(a, i + 1, m, w.prevTaskId[m])
      <4>1. j \in 0..((i + 1) - 1)
        BY <1>3
      <4>2. \A l \in (j + 1)..((i + 1) - 1) : l = i \/ l \in (j + 1)..(i - 1)
        BY <1>3
      <4>3. \A l \in (j + 1)..((i + 1) - 1) : a.MatchingString[s[l]] # m
        BY <2>2, <3>5, <4>2
      <4> QED
        BY <3>1, <3>2, <3>5, <4>1, <4>3 DEF LastOn
    <3> QED
      BY <3>1, <3>2, <3>4, <3>5 DEF LastOn
  <2> QED
    BY <2>1, <2>2
<1> QED
  BY <1>3, <1>8, <1>10, <1>11, <1>12 DEF GoodValues, w

\* At the end of the loop every task has its time, and the makespan is the last.
LEMMA AllValuesGood ==
    ASSUME NEW a, Runnable(a), plan = PlanOf(a)
    PROVE  GoodValues(a, Size, ValuesOf(a)[Size])
<1> DEFINE Bad == {i \in 0..Size : ~GoodValues(a, i, ValuesOf(a)[i])}
<1>1. Size \in Nat \ {0}
  BY ViewAssumption
<1>2. GoodValues(a, 0, ValuesOf(a)[0])
  BY NoValuesGood, ValuesAre
<1>3. ASSUME NEW i \in Tasks, GoodValues(a, i, ValuesOf(a)[i])
      PROVE  GoodValues(a, i + 1, ValuesOf(a)[i + 1])
  <2>1. i + 1 \in 1..Size /\ (i + 1) - 1 = i
    BY <1>1 DEF Tasks
  <2>2. ValuesOf(a)[i + 1] = NextValues(ValuesOf(a)[i], a, i + 1)
    BY <2>1, ValuesAre
  <2> QED
    BY <1>3, <2>2, NextValuesGood
<1>4. Bad = {}
  <2> SUFFICES ASSUME Bad # {} PROVE FALSE
    OBVIOUS
  <2>1. PICK i \in Bad : \A j \in Bad : i <= j
    <3>1. Bad \subseteq Nat
      OBVIOUS
    <3> HIDE DEF Bad
    <3> QED
      BY <3>1, LeastExists
  <2>2. i \in 0..Size /\ ~GoodValues(a, i, ValuesOf(a)[i])
    OBVIOUS
  <2>3. i # 0
    BY <1>2, <2>2
  <2>4. i - 1 \in Tasks /\ i - 1 \in 0..Size /\ ~(i <= i - 1) /\ (i - 1) + 1 = i
    BY <1>1, <2>2, <2>3 DEF Tasks
  <2>5. i - 1 \notin Bad
    <3> HIDE DEF Bad
    <3> QED
      BY <2>1, <2>4
  <2>6. GoodValues(a, i - 1, ValuesOf(a)[i - 1])
    BY <2>4, <2>5
  <2> QED
    BY <1>3, <2>2, <2>4, <2>6
<1>5. Size \in 0..Size
  BY <1>1
<1> QED
  BY <1>4, <1>5

\* The times read off the plan are those.
LEMMA PlanTimesAre ==
    ASSUME NEW a, Runnable(a), plan = PlanOf(a), NEW h \in [Tasks -> Nat],
           \A t \in Tasks : h[t] = EndIn(h, a.KeepVMStandbyString, t)
    PROVE  PlanTimes(a.KeepVMStandbyString) = h
<1> DEFINE s == a.SchedulingString
           keep == a.KeepVMStandbyString
           IsTimes(f) == f = [t \in Tasks |-> EndIn(f, keep, t)]
           e == CHOOSE f : IsTimes(f)
           Bad == {i \in Tasks : e[s[i]] # h[s[i]]}
<1>1. PlanTimes(keep) = e
  BY DEF PlanTimes, EndIn, LatestEnd
<1>2. IsTimes(h)
  OBVIOUS
<1>3. IsTimes(e)
  <2> HIDE DEF IsTimes
  <2> QED
    BY <1>2
<1> HIDE DEF e, keep
<1>4. e = [t \in Tasks |-> e[t]] /\ \A t \in Tasks : e[t] = EndIn(e, keep, t)
  BY <1>3
<1>5. s \in Strings
  BY DEF Runnable, Assignments
<1>6. Bad = {}
  <2> SUFFICES ASSUME Bad # {} PROVE FALSE
    OBVIOUS
  <2>1. PICK i \in Bad : \A j \in Bad : i <= j
    <3>1. Bad \subseteq Nat
      BY ViewAssumption DEF Tasks
    <3> HIDE DEF Bad
    <3> QED
      BY <3>1, LeastExists
  <2>2. i \in Tasks /\ e[s[i]] # h[s[i]] /\ s[i] \in Tasks
    BY <1>5 DEF Strings
  <2>3. \A j \in 0..(i - 1) : e[s[j]] = h[s[j]] /\ e[s[j]] \in Nat
    <3> SUFFICES ASSUME NEW j \in 0..(i - 1) PROVE e[s[j]] = h[s[j]] /\ e[s[j]] \in Nat
      OBVIOUS
    <3>1. j \in Tasks /\ j < i /\ i \in Nat /\ j \in Nat
      BY <2>2, EarlierPlace
    <3>2. j \notin Bad
      <4> HIDE DEF Bad
      <4> QED
        BY <2>1, <3>1
    <3>3. s[j] \in Tasks
      BY <1>5, <3>1 DEF Strings
    <3> QED
      BY <3>1, <3>2, <3>3
  <2>4. EndIn(e, keep, s[i]) = EndIn(h, keep, s[i])
    BY <2>2, <2>3, EndLooksBack
  <2>5. h[s[i]] = EndIn(h, keep, s[i])
    BY <2>2 DEF keep
  <2> QED
    BY <1>4, <2>2, <2>4, <2>5
<1>7. ASSUME NEW t \in Tasks PROVE e[t] = h[t]
  <2>1. PICK i \in Tasks : s[i] = t
    BY <1>5 DEF Strings
  <2>2. i \notin Bad
    BY <1>6
  <2> QED
    BY <2>1, <2>2
<1> QED
  BY <1>1, <1>4, <1>7 DEF keep

LEMMA PlanIsWorth ==
    ASSUME NEW a, Runnable(a), plan = PlanOf(a)
    PROVE  LET end == PlanTimes(a.KeepVMStandbyString)
           IN  ComputedMakespan(a) = Max({end[t] : t \in Tasks})
<1> DEFINE s == a.SchedulingString
           v == ValuesOf(a)[Size]
           h == v.endTimes
<1>1. GoodValues(a, Size, v)
  BY AllValuesGood
<1> HIDE DEF v
<1>2. s \in Strings /\ Size \in Nat \ {0} /\ Tasks = 0..(Size - 1)
  BY ViewAssumption DEF Runnable, Assignments, Tasks
<1>3. /\ h \in [Tasks -> Int] /\ v.makespan \in Nat
      /\ \A i \in Tasks : /\ h[s[i]] \in Nat /\ h[s[i]] <= v.makespan
                          /\ h[s[i]] = EndIn(h, a.KeepVMStandbyString, s[i])
      /\ v.makespan = 0 \/ \E i \in Tasks : v.makespan = h[s[i]]
  BY <1>1, <1>2 DEF GoodValues
<1> HIDE DEF h
<1>4. ASSUME NEW t \in Tasks
      PROVE  h[t] \in Nat /\ h[t] <= v.makespan /\ h[t] = EndIn(h, a.KeepVMStandbyString, t)
  <2>1. PICK i \in Tasks : s[i] = t
    BY <1>2 DEF Strings
  <2> HIDE DEF s
  <2> QED
    BY <1>3, <2>1
<1>5. h \in [Tasks -> Nat]
  BY <1>3, <1>4
<1>6. PlanTimes(a.KeepVMStandbyString) = h
  BY <1>4, <1>5, PlanTimesAre
<1>7. LastEndOf(h) \in Nat /\ (\A t \in Tasks : h[t] <= LastEndOf(h)) /\ \E t \in Tasks : LastEndOf(h) = h[t]
  BY <1>5, LastEndIs
<1>8. v.makespan = LastEndOf(h)
  <2>1. PICK t \in Tasks : LastEndOf(h) = h[t]
    BY <1>7
  <2>2. LastEndOf(h) <= v.makespan
    BY <1>4, <2>1
  <2>3. v.makespan <= LastEndOf(h)
    <3>1. CASE v.makespan = 0
      BY <1>7, <3>1
    <3>2. CASE \E i \in Tasks : v.makespan = h[s[i]]
      <4>1. PICK i \in Tasks : v.makespan = h[s[i]]
        BY <3>2
      <4>2. s[i] \in Tasks
        BY <1>2 DEF Strings
      <4> QED
        BY <1>7, <4>1, <4>2
    <3> QED
      BY <1>3, <3>1, <3>2
  <2> QED
    BY <1>3, <1>7, <2>2, <2>3
<1>9. ComputedMakespan(a) = v.makespan
  BY ValuesAre DEF ComputedMakespan, v
<1> QED
  BY <1>6, <1>8, <1>9 DEF LastEndOf

(***************************************************************************)
(* The makespan the search values an assignment by is the one that the     *)
(* queues of the plan made from it have, though the plan keeps neither the *)
(* string nor the numbers of the machines.                                 *)
(***************************************************************************)
THEOREM GeneticPlanWorthItsScore ==
    ASSUME \A a \in Assignments : MakespanOf(a) = ComputedMakespan(a)
    PROVE  Spec => []PlanWorthItsScore
<1>1. ASSUME GeneticInv, PlanMade PROVE PlanWorthItsScore
  <2>1. CASE phase = "done"
    <3> DEFINE best == BestAssignment
    <3>1. Runnable(best) /\ plan = PlanOf(best)
      BY <1>1, <2>1, BestRunnable DEF PlanMade
    <3> HIDE DEF best
    <3>2. MakespanOf(best) = ComputedMakespan(best)
      BY <3>1 DEF Runnable
    <3> QED
      BY <3>1, <3>2, PlanIsWorth DEF PlanWorthItsScore, best
  <2>2. CASE phase # "done"
    BY <2>2 DEF PlanWorthItsScore
  <2> QED
    BY <2>1, <2>2
<1> QED
  BY <1>1, PlanMadeInvariant, GeneticInvariant, PTL
=============================================================================
