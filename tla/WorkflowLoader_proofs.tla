------------------------- MODULE WorkflowLoader_proofs -------------------------
(***************************************************************************)
(* Theorems about the way from the workflow file to the order of the tasks. *)
(* For every acyclic workflow MakeTasksOrder yields every task once, and    *)
(* every task after those it depends on.  For every document the ids of the *)
(* files stay valid, and what the tables count is what a task waits for;    *)
(* and for every document, cyclic ones included, it is said which scheduler *)
(* accepts the order: two of them exactly if there is no cycle.             *)
(***************************************************************************)
EXTENDS WorkflowLoader, FiniteSetTheorems, TLAPS

\* A numbering of the tasks that rises along every dependency.
Rank == CHOOSE rank \in [Tasks -> Tasks] : Rising(succ, rank)

Elements(s) == {s[i] : i \in DOMAIN s}
Distinct(s) == \A i, j \in DOMAIN s : s[i] = s[j] => i = j

\* The order is being built from its end: successors stand before.
SuccessorsBefore ==
    Acyclic(succ) => \A i \in DOMAIN order : \A u \in SuccessorsOf(succ, order[i]) :
        \E j \in DOMAIN order : j < i /\ order[j] = u

\* The calls that have not returned lie on a path.
StackRises ==
    Acyclic(succ) => \A i, j \in DOMAIN stack : i < j => Rank[stack[i]] < Rank[stack[j]]

RootsTaken == \A t \in Tasks : t < next /\ HasNoDependencies(t) => t \in used

\* The search takes nothing but what can be reached,
UsedReachable == \A S \in SUBSET Tasks : Closed(S) => used \subseteq S

\* and all that can be reached from a call that has returned.
ReturnedComplete == \A t \in Elements(order) : SuccessorsOf(succ, t) \subseteq used

Building ==
    /\ used = Elements(stack) \cup Elements(order)
    /\ Elements(stack) \cap Elements(order) = {}
    /\ Distinct(stack)
    /\ StackRises
    /\ SuccessorsBefore
    /\ RootsTaken
    /\ ReturnedComplete

OrderInv ==
    /\ OrderTypeOK
    /\ Distinct(order)
    /\ UsedReachable
    /\ ~done => Building
    /\ done => stack = <<>> /\ next = Size /\ Len(order) = Size /\ used = Elements(order)
    /\ DependenciesFirst

LEMMA RankRises ==
    ASSUME Acyclic(succ)
    PROVE  Rank \in [Tasks -> Tasks] /\ Rising(succ, Rank)
BY DEF Rank, Acyclic

\* Nothing has been ordered yet.
Fresh == used = {} /\ stack = <<>> /\ order = <<>> /\ next = 0 /\ done = FALSE

LEMMA FreshOrder ==
    ASSUME Fresh, succ \in [Tasks -> Seq(Tasks)]
    PROVE  OrderInv
<1>1. OrderTypeOK
  <2>1. next \in 0..Size
    BY OrderAssumption DEF Fresh
  <2>2. <<>> \in Seq(Tasks)
    OBVIOUS
  <2> QED
    BY <2>1, <2>2 DEF Fresh, OrderTypeOK
<1>2. Building
  BY DEF Fresh, Building, Elements, Distinct, StackRises, SuccessorsBefore, RootsTaken,
         ReturnedComplete, Tasks
<1> QED
  BY <1>1, <1>2 DEF Fresh, OrderInv, Distinct, UsedReachable, DependenciesFirst

LEMMA InitInv == Init => OrderInv
<1> SUFFICES ASSUME Init PROVE OrderInv
  OBVIOUS
<1>1. Fresh
  BY DEF Init, Fresh
<1>2. succ \in [Tasks -> Seq(Tasks)]
  BY OrderAssumption DEF Init
<1> QED
  BY <1>1, <1>2, FreshOrder

\* A call for a task that is not used yet, on top of the calls there are.
LEMMA PushBuilds ==
    ASSUME OrderInv, ~done, NEW u \in Tasks, u \notin used,
           stack # <<>> => u \in SuccessorsOf(succ, Top),
           stack = <<>> => HasNoDependencies(u),
           used' = used \cup {u}, stack' = Append(stack, u),
           UNCHANGED <<succ, order, done>>,
           next' \in 0..Size,
           \A t \in Tasks : t < next' /\ HasNoDependencies(t) => t < next \/ t = u
    PROVE  OrderInv'
<1>1. OrderTypeOK /\ Building
  BY DEF OrderInv
<1>2. OrderTypeOK'
  BY <1>1 DEF OrderTypeOK
<1>3. Rank' = Rank
  BY DEF Rank
<1>4. /\ DOMAIN stack = 1..Len(stack) /\ Len(stack) \in Nat
      /\ DOMAIN stack' = 1..(Len(stack) + 1)
      /\ stack'[Len(stack) + 1] = u
      /\ \A i \in 1..Len(stack) : stack'[i] = stack[i] /\ stack[i] \in Tasks
  BY <1>1 DEF OrderTypeOK
<1>5. Elements(stack') = Elements(stack) \cup {u}
  BY <1>4 DEF Elements
<1>6. u \notin Elements(stack) /\ u \notin Elements(order)
  BY <1>1 DEF Building
<1>7. Distinct(stack)'
  BY <1>1, <1>4, <1>6 DEF Building, Distinct, Elements
<1>8. StackRises'
  <2>0. SUFFICES ASSUME Acyclic(succ)
                 PROVE  \A i, j \in DOMAIN stack' : i < j => Rank[stack'[i]] < Rank[stack'[j]]
    BY <1>3 DEF StackRises
  <2>1. CASE stack = <<>>
    BY <2>1, <1>4
  <2>2. CASE stack # <<>>
    <3>1. Rank \in [Tasks -> Tasks] /\ Rank[Top] < Rank[u] /\ Top \in Tasks
      BY <2>0, <2>2, <1>4, RankRises DEF Rising, Top, OrderInv
    <3>2. \A i \in 1..Len(stack) : Rank[stack[i]] < Rank[u]
      <4> SUFFICES ASSUME NEW i \in 1..Len(stack) PROVE Rank[stack[i]] < Rank[u]
        OBVIOUS
      <4>1. i = Len(stack) \/ Rank[stack[i]] < Rank[Top]
        <5>1. Len(stack) \in DOMAIN stack /\ i \in DOMAIN stack
          BY <1>4
        <5>2. Len(stack) \in Nat
          BY <1>4
        <5>3. i = Len(stack) \/ i < Len(stack)
          BY <5>2
        <5> QED
          BY <5>1, <5>3, <1>1, <2>0 DEF Building, StackRises, Top
      <4>2. Rank[stack[i]] \in Int /\ Rank[Top] \in Int /\ Rank[u] \in Int
        BY <3>1, <1>4 DEF Tasks
      <4> QED
        BY <4>1, <4>2, <3>1 DEF Top
    <3> QED
      BY <3>2, <1>1, <1>4, <2>0 DEF Building, StackRises
  <2> QED
    BY <2>1, <2>2
<1>9. SuccessorsBefore'
  <2>1. SuccessorsBefore' = SuccessorsBefore
    BY DEF SuccessorsBefore, SuccessorsOf
  <2> QED
    BY <2>1, <1>1 DEF Building
<1>10. RootsTaken'
  BY <1>1 DEF Building, RootsTaken, HasNoDependencies, SuccessorsOf
<1>11. ReturnedComplete'
  BY <1>1 DEF Building, ReturnedComplete, Elements, SuccessorsOf
<1>12. Building'
  <2>1. Elements(order') = Elements(order)
    OBVIOUS
  <2>2. used = Elements(stack) \cup Elements(order)
    BY <1>1 DEF Building
  <2>3. used' = Elements(stack') \cup Elements(order')
    BY <2>1, <2>2, <1>5
  <2>4. Elements(stack') \cap Elements(order') = {}
    BY <2>1, <1>1, <1>5, <1>6 DEF Building
  <2> QED
    BY <2>3, <2>4, <1>7, <1>8, <1>9, <1>10, <1>11 DEF Building, Elements
<1>13. UsedReachable'
  <2> SUFFICES ASSUME NEW S \in SUBSET Tasks, Closed(S) PROVE used \cup {u} \subseteq S
    BY DEF UsedReachable, Closed, HasNoDependencies, SuccessorsOf
  <2>1. used \subseteq S
    BY DEF OrderInv, UsedReachable
  <2>2. CASE stack = <<>>
    BY <2>1, <2>2 DEF Closed
  <2>3. CASE stack # <<>>
    <3>1. Top \in used /\ Top \in Tasks
      BY <2>3, <1>1, <1>4 DEF Top, Building, Elements
    <3> QED
      BY <2>1, <2>3, <3>1 DEF Closed
  <2> QED
    BY <2>2, <2>3
<1> QED
  BY <1>2, <1>12, <1>13 DEF OrderInv, Distinct, DependenciesFirst, SuccessorsOf

LEMMA SameReached ==
    ASSUME OrderInv, UNCHANGED <<succ, used>>
    PROVE  UsedReachable'
<1>1. ASSUME NEW S \in SUBSET Tasks, Closed(S)' PROVE used \subseteq S
  <2>1. Closed(S)
    BY <1>1 DEF Closed, HasNoDependencies, SuccessorsOf
  <2> QED
    BY <2>1 DEF OrderInv, UsedReachable
<1>2. Tasks' = Tasks
  BY DEF Tasks
<1> QED
  BY <1>1, <1>2 DEF UsedReachable

LEMMA StartAtInv ==
    ASSUME OrderInv, ~done, NEW t \in Tasks, StartAt(t)
    PROVE  OrderInv'
<1>1. stack' = Append(stack, t)
  BY DEF StartAt
<1>2. next' \in 0..Size /\ \A u \in Tasks : u < next' => u < next \/ u = t
  BY OrderAssumption DEF StartAt, OrderInv, OrderTypeOK, Tasks
<1>3. HasNoDependencies(t) /\ stack = <<>>
  BY DEF StartAt
<1> QED
  BY <1>1, <1>2, <1>3, PushBuilds DEF StartAt

LEMMA VisitInv ==
    ASSUME OrderInv, ~done, NEW u \in Tasks, Visit(u)
    PROVE  OrderInv'
<1>1. u \in SuccessorsOf(succ, Top)
  BY DEF Visit, SuccessorsOf
<1>2. next' \in 0..Size
  BY DEF Visit, OrderInv, OrderTypeOK
<1> QED
  BY <1>1, <1>2, PushBuilds DEF Visit

LEMMA SkipInv ==
    ASSUME OrderInv, ~done, NEW t \in Tasks, Skip(t)
    PROVE  OrderInv'
<1>1. next' \in 0..Size /\ \A u \in Tasks : u < next' => u < next \/ u = t
  BY OrderAssumption DEF Skip, OrderInv, OrderTypeOK, Tasks
<1>2. RootsTaken'
  BY <1>1 DEF Skip, OrderInv, Building, RootsTaken, HasNoDependencies, SuccessorsOf
<1>3. Building'
  BY <1>2 DEF Skip, OrderInv, Building, Elements, Distinct, StackRises, Rank, Rising,
              SuccessorsBefore, ReturnedComplete, SuccessorsOf
<1>4. UsedReachable'
  BY SameReached DEF Skip
<1> QED
  BY <1>1, <1>3, <1>4 DEF Skip, OrderInv, OrderTypeOK, Distinct, DependenciesFirst, SuccessorsOf

\* The innermost call returns: what it called for is in the order already,
\* since no task above it in a path can be a successor of it.
LEMMA ReturnInv ==
    ASSUME OrderInv, ~done, Return
    PROVE  OrderInv'
<1>1. OrderTypeOK /\ Building /\ Distinct(order)
  BY DEF OrderInv
<1> DEFINE n == Len(stack)
           m == Len(order)
<1>2. /\ n \in Nat /\ n > 0 /\ DOMAIN stack = 1..n
      /\ \A i \in 1..n : stack[i] \in Tasks
  BY <1>1 DEF OrderTypeOK, Return
<1>3. /\ DOMAIN stack' = 1..(n - 1) /\ stack' \in Seq(Tasks)
      /\ \A i \in 1..(n - 1) : stack'[i] = stack[i]
  BY <1>1, <1>2 DEF OrderTypeOK, Return, Popped
<1>4. /\ m \in Nat /\ DOMAIN order = 1..m /\ order' \in Seq(Tasks)
      /\ DOMAIN order' = 1..(m + 1) /\ order'[m + 1] = Top
      /\ \A i \in 1..m : order'[i] = order[i]
  BY <1>1, <1>2 DEF OrderTypeOK, Return, Top
<1>5. Top \in Tasks /\ Top = stack[n]
  BY <1>2 DEF Top
<1>6. OrderTypeOK'
  BY <1>1, <1>3, <1>4 DEF OrderTypeOK, Return
<1>7. Elements(stack') = Elements(stack) \ {Top}
  <2>1. \A i \in 1..(n - 1) : stack[i] # Top
    BY <1>1, <1>2, <1>5 DEF Building, Distinct
  <2> QED
    BY <2>1, <1>2, <1>3, <1>5 DEF Elements
<1>8. Elements(order') = Elements(order) \cup {Top}
  BY <1>4 DEF Elements
<1>9. Top \in Elements(stack) /\ Top \notin Elements(order)
  BY <1>1, <1>2, <1>5 DEF Building, Elements
<1>10. Distinct(order')
  BY <1>1, <1>4, <1>9 DEF Distinct, Elements
<1>11. Distinct(stack')
  BY <1>1, <1>2, <1>3 DEF Building, Distinct
<1>12. StackRises'
  <2>1. Rank' = Rank /\ succ' = succ
    BY DEF Rank, Return
  <2> QED
    BY <2>1, <1>1, <1>2, <1>3 DEF Building, StackRises
<1>13. Acyclic(succ) => SuccessorsOf(succ, Top) \subseteq Elements(order)
  <2> SUFFICES ASSUME Acyclic(succ), NEW u \in SuccessorsOf(succ, Top), u \notin Elements(order) PROVE FALSE
    OBVIOUS
  <2>1. u \in Elements(stack)
    BY <1>1 DEF Return, Building
  <2>2. PICK i \in 1..n : stack[i] = u
    BY <2>1, <1>2 DEF Elements
  <2>3. Rank \in [Tasks -> Tasks] /\ Rank[Top] < Rank[u]
    BY <2>2, <1>2, <1>5, RankRises DEF Rising, OrderInv
  <2>4. Rank[Top] \in Int /\ Rank[u] \in Int
    BY <2>2, <2>3, <1>2, <1>5 DEF Tasks
  <2>5. i = n \/ Rank[u] < Rank[Top]
    <3>1. \A j, k \in DOMAIN stack : j < k => Rank[stack[j]] < Rank[stack[k]]
      BY <1>1 DEF Building, StackRises
    <3>2. n \in Nat /\ DOMAIN stack = 1..n /\ n > 0
      BY <1>2
    <3> HIDE DEF n
    <3>3. i \in DOMAIN stack /\ n \in DOMAIN stack /\ (i = n \/ i < n)
      BY <3>2
    <3>4. CASE i < n
      BY <2>2, <3>1, <3>3, <3>4, <1>5
    <3> QED
      BY <3>3, <3>4
  <2> QED
    BY <2>2, <2>3, <2>4, <2>5, <1>5
<1>14. SuccessorsBefore'
  <2> SUFFICES ASSUME Acyclic(succ), NEW i \in DOMAIN order', NEW u \in SuccessorsOf(succ, order'[i])
               PROVE  \E j \in DOMAIN order' : j < i /\ order'[j] = u
    BY DEF SuccessorsBefore, Return
  <2>1. CASE i = m + 1
    <3>1. PICK j \in 1..m : order[j] = u
      BY <2>1, <1>4, <1>13 DEF Elements
    <3> QED
      BY <2>1, <3>1, <1>4
  <2>2. CASE i \in 1..m
    <3>1. PICK j \in DOMAIN order : j < i /\ order[j] = u
      BY <2>2, <1>1, <1>4 DEF Building, SuccessorsBefore
    <3> QED
      BY <3>1, <1>4
  <2> QED
    BY <2>1, <2>2, <1>4
<1>15. RootsTaken'
  BY <1>1 DEF Building, RootsTaken, Return, HasNoDependencies, SuccessorsOf
<1>16. ReturnedComplete'
  BY <1>1, <1>8 DEF Building, ReturnedComplete, Return, SuccessorsOf
<1>17. Building'
  <2>1. used' = Elements(stack') \cup Elements(order')
    BY <1>1, <1>7, <1>8, <1>9 DEF Building, Return
  <2>2. Elements(stack') \cap Elements(order') = {}
    BY <1>1, <1>7, <1>8 DEF Building
  <2> QED
    BY <2>1, <2>2, <1>11, <1>12, <1>14, <1>15, <1>16 DEF Building, Elements, Distinct
<1>18. UsedReachable'
  BY SameReached DEF Return
<1> QED
  BY <1>6, <1>10, <1>17, <1>18 DEF OrderInv, Return, DependenciesFirst

-----------------------------------------------------------------------------
(* The search reaches every task.                                           *)

\* Of a set of tasks, one depends on none of the others: the one below which,
\* in the numbering, the fewest of them stand.
LEMMA SourceExists ==
    ASSUME Acyclic(succ), NEW S \in SUBSET Tasks, S # {}
    PROVE  \E t \in S : \A u \in S : t \notin SuccessorsOf(succ, u)
<1> DEFINE Below(t) == {u \in S : Rank[u] < Rank[t]}
           Belows == {Below(t) : t \in S}
<1>1. Rank \in [Tasks -> Tasks] /\ Rising(succ, Rank)
  BY RankRises
<1>2. \A t \in S : Rank[t] \in Int
  BY <1>1 DEF Tasks
<1>3. IsFiniteSet(S)
  <2>1. 0 \in Int /\ Size - 1 \in Int
    BY OrderAssumption
  <2> QED
    BY <2>1, FS_Interval, FS_Subset DEF Tasks
<1>4. IsWellFoundedOn(StrictSubsetOrdering(S), SUBSET S)
  BY <1>3, FS_StrictSubsetOrderingWellFounded, FS_FiniteSubsetsOfFinite
<1>5. Belows \subseteq SUBSET S /\ Belows # {}
  <2>1. \A t \in S : Below(t) \subseteq S /\ Below(t) \in Belows
    OBVIOUS
  <2> QED
    BY <2>1
<1>6. PICK B \in Belows : \A C \in Belows : ~(<<C, B>> \in StrictSubsetOrdering(S))
  BY <1>4, <1>5, WFMin
<1>7. PICK t \in S : B = Below(t)
  BY <1>6
<1>8. ASSUME NEW u \in S, t \in SuccessorsOf(succ, u) PROVE FALSE
  <2>1. Rank[u] < Rank[t]
    BY <1>1, <1>8 DEF Rising
  <2>2. u \in Below(t) /\ u \notin Below(u)
    BY <2>1, <1>2
  <2>3. Below(u) \subseteq Below(t)
    <3>1. ASSUME NEW w \in S, Rank[w] < Rank[u] PROVE Rank[w] < Rank[t]
      BY <2>1, <3>1, <1>2
    <3> QED
      BY <3>1
  <2>4. <<Below(u), Below(t)>> \in StrictSubsetOrdering(S)
    BY <2>2, <2>3 DEF StrictSubsetOrdering
  <2> QED
    BY <2>4, <1>6, <1>7
<1> QED
  BY <1>7, <1>8

LEMMA AllTasksReached ==
    ASSUME OrderInv, ~done, stack = <<>>, next = Size, Acyclic(succ)
    PROVE  Elements(order) = Tasks
<1>1. OrderTypeOK /\ Building /\ stack = <<>> /\ next = Size
  BY DEF OrderInv
<1>2. Elements(order) \subseteq Tasks
  BY <1>1 DEF OrderTypeOK, Elements
<1>3. used = Elements(order)
  BY <1>1 DEF Building, Elements
<1> SUFFICES ASSUME Tasks \ used # {} PROVE FALSE
  BY <1>2, <1>3
<1>4. PICK t \in Tasks \ used : \A u \in Tasks \ used : t \notin SuccessorsOf(succ, u)
  <2> DEFINE S == Tasks \ used
  <2>1. S \in SUBSET Tasks /\ S # {}
    OBVIOUS
  <2> HIDE DEF S
  <2>2. \E t \in S : \A u \in S : t \notin SuccessorsOf(succ, u)
    BY <2>1, SourceExists DEF OrderInv
  <2> QED
    BY <2>2 DEF S
<1>5. \A u \in used : t \notin SuccessorsOf(succ, u)
  <2> SUFFICES ASSUME NEW u \in used, t \in SuccessorsOf(succ, u) PROVE FALSE
    OBVIOUS
  <2>1. PICK i \in DOMAIN order : order[i] = u
    BY <1>3 DEF Elements
  <2>2. t \in Elements(order)
    BY <2>1, <1>1 DEF Building, SuccessorsBefore, Elements
  <2> QED
    BY <2>2, <1>3, <1>4
<1>6. HasNoDependencies(t)
  BY <1>4, <1>5 DEF HasNoDependencies
<1>7. t < next
  BY <1>1, OrderAssumption DEF Tasks
<1> QED
  BY <1>1, <1>4, <1>6, <1>7 DEF Building, RootsTaken

\* A list of all tasks without repetition is as long as there are tasks.
LEMMA ListOfAll ==
    ASSUME NEW s \in Seq(Tasks), Distinct(s), Elements(s) = Tasks
    PROVE  Len(s) = Size
<1>1. DOMAIN s = 1..Len(s) /\ Len(s) \in Nat
  OBVIOUS
<1>2. s \in Bijection(1..Len(s), Tasks)
  BY <1>1 DEF Distinct, Elements, Bijection, Injection, Surjection, IsInjective
<1>3. IsFiniteSet(1..Len(s)) /\ Cardinality(1..Len(s)) = Len(s)
  BY <1>1, FS_Interval
<1>4. Cardinality(Tasks) = Len(s)
  BY <1>2, <1>3, FS_Bijection DEF ExistsBijection
<1>5. Cardinality(Tasks) = Size
  <2>1. 0 \in Int /\ Size - 1 \in Int
    BY OrderAssumption
  <2>2. Cardinality(0..(Size - 1)) = IF 0 > Size - 1 THEN 0 ELSE (Size - 1) - 0 + 1
    BY <2>1, FS_Interval
  <2> QED
    BY <2>2, OrderAssumption DEF Tasks
<1> QED
  BY <1>4, <1>5

LEMMA ReverseOrderInv ==
    ASSUME OrderInv, ~done, ReverseOrder
    PROVE  OrderInv'
<1> DEFINE m == Len(order)
<1>1. OrderTypeOK /\ Building /\ Distinct(order)
  BY DEF OrderInv
<1>2. m \in Nat /\ DOMAIN order = 1..m /\ order \in Seq(Tasks)
  BY <1>1 DEF OrderTypeOK
<1>3. \A i \in 1..m : m + 1 - i \in 1..m /\ m + 1 - (m + 1 - i) = i
  BY <1>2
<1>4. /\ order' \in Seq(Tasks) /\ DOMAIN order' = 1..m /\ Len(order') = m
      /\ \A i \in 1..m : order'[i] = order[m + 1 - i]
  BY <1>2, <1>3 DEF ReverseOrder
<1>5. Distinct(order')
  <2> SUFFICES ASSUME NEW i \in 1..m, NEW j \in 1..m, order'[i] = order'[j] PROVE i = j
    BY <1>4 DEF Distinct
  <2>1. m + 1 - i = m + 1 - j
    BY <1>1, <1>2, <1>3, <1>4 DEF Distinct
  <2> QED
    BY <2>1, <1>2
<1>6. Elements(order') = Elements(order) /\ used = Elements(order)
  BY <1>1, <1>3, <1>4 DEF Elements, Building, ReverseOrder
<1>7. UsedReachable'
  BY SameReached DEF ReverseOrder
<1>8. DependenciesFirst'
  <2> SUFFICES ASSUME Acyclic(succ), NEW i \in 1..m, NEW j \in 1..m,
                      order'[j] \in SuccessorsOf(succ, order'[i])
               PROVE  i < j
    BY <1>4 DEF DependenciesFirst, ReverseOrder
  <2>1. PICK k \in 1..m : k < m + 1 - i /\ order[k] = order[m + 1 - j]
    BY <1>1, <1>2, <1>3, <1>4 DEF Building, SuccessorsBefore
  <2>2. k = m + 1 - j
    BY <2>1, <1>1, <1>2, <1>3 DEF Distinct
  <2> QED
    BY <2>1, <2>2, <1>2
<1>9. OrderTypeOK'
  BY <1>1, <1>4 DEF OrderTypeOK, ReverseOrder
<1> QED
  BY <1>4, <1>5, <1>6, <1>7, <1>8, <1>9 DEF OrderInv, ReverseOrder, Distinct, Elements

LEMMA NextInv == OrderInv /\ [Next]_vars => OrderInv'
<1> SUFFICES ASSUME OrderInv, [Next]_vars PROVE OrderInv'
  OBVIOUS
<1>1. CASE UNCHANGED vars
  <2> USE <1>1 DEF vars
  <2>1. OrderTypeOK' /\ Rank' = Rank
    BY DEF OrderInv, OrderTypeOK, Rank
  <2>2. StackRises' = StackRises /\ SuccessorsBefore' = SuccessorsBefore
    BY <2>1 DEF StackRises, SuccessorsBefore, SuccessorsOf
  <2>3. RootsTaken' = RootsTaken /\ Building' = Building
    BY <2>2 DEF RootsTaken, HasNoDependencies, SuccessorsOf, Building, Elements, Distinct,
                ReturnedComplete
  <2>4. UsedReachable' = UsedReachable
    BY DEF UsedReachable, Closed, HasNoDependencies, SuccessorsOf
  <2> QED
    BY <2>1, <2>3, <2>4 DEF OrderInv, Distinct, Elements, DependenciesFirst, SuccessorsOf
<1>2. CASE Ended
  BY <1>1, <1>2 DEF Ended
<1>3. CASE ~done /\ Next /\ ~Ended
  BY <1>3, StartAtInv, SkipInv, VisitInv, ReturnInv, ReverseOrderInv DEF Next
<1>4. CASE done /\ Next /\ ~Ended
  <2>1. stack = <<>> /\ next = Size /\ next \notin Tasks
    BY <1>4, OrderAssumption DEF OrderInv, Tasks
  <2> QED
    BY <1>4, <2>1 DEF Next, StartAt, Skip, Visit, Return, ReverseOrder
<1> QED
  BY <1>1, <1>2, <1>3, <1>4

LEMMA NoneLeftOut == OrderInv => EveryTaskOnce
<1> SUFFICES ASSUME OrderInv PROVE EveryTaskOnce
  OBVIOUS
<1>1. ASSUME Acyclic(succ), NotAllIncluded PROVE FALSE
  <2>1. Elements(order) = Tasks
    BY <1>1, AllTasksReached DEF NotAllIncluded
  <2>2. Len(order) = Size
    BY <2>1, ListOfAll DEF OrderInv, OrderTypeOK
  <2> QED
    BY <1>1, <2>2 DEF NotAllIncluded
<1> QED
  BY <1>1 DEF EveryTaskOnce, OrderInv, Distinct

(***************************************************************************)
(* MakeTasksOrder includes every task, once.                               *)
(***************************************************************************)
THEOREM OrderIsComplete == Spec => []EveryTaskOnce
<1>1. OrderInv => EveryTaskOnce
  BY NoneLeftOut
<1> QED
  BY <1>1, InitInv, NextInv, PTL DEF Spec

(***************************************************************************)
(* MakeTasksOrder puts every task after all the tasks it depends on.       *)
(***************************************************************************)
THEOREM OrderIsTopological == Spec => []DependenciesFirst
<1>1. OrderInv => DependenciesFirst
  BY DEF OrderInv
<1> QED
  BY <1>1, InitInv, NextInv, PTL DEF Spec

-----------------------------------------------------------------------------
(* The loops of the constructor.                                            *)

\* What is in a description is there for every document.
LEMMA DocumentTypes ==
    ASSUME doc \in Documents
    PROVE  /\ doc.inputs \in Seq(File) /\ doc.outputs \in Seq(Names)
           /\ \A t \in Tasks : /\ doc.tasks[t].inputs \in Seq(Names)
                               /\ doc.tasks[t].outputs \in Seq(File)
BY LoaderAssumption DEF Document, Description

Phases ==
    {"deadline", "inputs", "files", "tasks", "outputs", "dependencies", "loaded", "died"}

LoaderTypeOK ==
    /\ doc \in Documents
    /\ phase \in Phases
    /\ node \in 0..Size /\ at \in Nat
    /\ phase \in {"tasks", "outputs"} => node = 0 /\ at = 0
    /\ dependencies \in [Tasks -> Seq(Tasks)]
    /\ succ \in [Tasks -> Seq(Tasks)]
    /\ transfers \in [Tasks -> Nat]
    /\ phase \in {"outputs", "dependencies", "loaded"} =>
           /\ DOMAIN nodes = Tasks
           /\ \A t \in Tasks : DOMAIN nodes[t].inputs = 1..Len(doc.tasks[t].inputs)

\* The search begins when all tables are there.
WalkInv == IF phase = "loaded" THEN OrderInv ELSE Fresh

\* Among the tasks that write a file there is a last one.
LEMMA OwnerIsTask ==
    ASSUME NEW f, Writers(f) # {}
    PROVE  FileOwner(f) \in Tasks
<1> DEFINE R == OpToRel(<, Nat)
           W == Writers(f)
           M == {Size - t : t \in W}
<1>1. W \subseteq Tasks /\ W # {}
  BY DEF Writers
<1> HIDE DEF W
<1>2. M \subseteq Nat /\ M # {}
  <2>1. \A t \in W : t \in Int /\ Size - t \in Nat
    BY <1>1, OrderAssumption DEF Tasks
  <2> QED
    BY <2>1, <1>1
<1>3. IsWellFoundedOn(R, Nat)
  BY NatLessThanWellFounded
<1>4. \A x, y \in Nat : <<y, x>> \in R <=> y < x
  BY DEF OpToRel
<1> HIDE DEF R, M
<1>5. PICK x \in M : \A y \in M : ~ (<<y, x>> \in R)
  BY <1>2, <1>3, WFMin
<1>6. \A y \in M : ~(y < x)
  BY <1>2, <1>4, <1>5
<1>7. PICK t \in W : x = Size - t
  BY DEF M
<1>8. \A u \in W : u <= t
  <2> SUFFICES ASSUME NEW u \in W PROVE u <= t
    OBVIOUS
  <2>1. Size - u \in M
    BY DEF M
  <2>2. ~(Size - u < Size - t)
    BY <2>1, <1>6, <1>7
  <2>3. u \in Int /\ t \in Int /\ Size \in Int
    BY <1>1, OrderAssumption DEF Tasks
  <2> QED
    BY <2>2, <2>3
<1>9. \E u \in Writers(f) : \A v \in Writers(f) : v <= u
  BY <1>8 DEF W
<1> QED
  BY <1>1, <1>9 DEF FileOwner, W

LEMMA LoaderInitTypes == LoaderInit => LoaderTypeOK /\ WalkInv
<1> SUFFICES ASSUME LoaderInit PROVE LoaderTypeOK /\ WalkInv
  OBVIOUS
<1>1. \A f : f = [t \in Tasks |-> <<>>] => f \in [Tasks -> Seq(Tasks)]
  OBVIOUS
<1> QED
  BY <1>1, OrderAssumption DEF LoaderInit, LoaderTypeOK, WalkInv, Fresh, Phases

LEMMA LoaderNextTypes == LoaderTypeOK /\ [LoaderNext]_loaderVars => LoaderTypeOK'
<1> SUFFICES ASSUME LoaderTypeOK, [LoaderNext]_loaderVars PROVE LoaderTypeOK'
  OBVIOUS
<1> USE OrderAssumption DEF Phases
<1>1. CASE ReadDeadline
  BY <1>1 DEF LoaderTypeOK, ReadDeadline, nodeVars, tableVars, vars
<1>2. CASE AddInput
  BY <1>2 DEF LoaderTypeOK, AddInput, tableVars, vars
<1>3. CASE AddFile
  BY <1>3 DEF LoaderTypeOK, AddFile, AtEntry, nodeVars, tableVars, vars
<1>4. CASE NextTask
  BY <1>4 DEF LoaderTypeOK, NextTask, nodeVars, tableVars, vars
<1>5. CASE LoopEnds
  BY <1>5 DEF LoaderTypeOK, LoopEnds, nodeVars, tableVars, vars
<1>6. CASE AddTasks
  <2>1. UNCHANGED <<doc, node, at, dependencies, succ, transfers>> /\ phase = "tasks" /\ phase' = "outputs"
    BY <1>6 DEF AddTasks, tableVars, vars
  <2>2. DOMAIN nodes' = Tasks
    BY <1>6 DEF AddTasks
  <2>3. \A t \in Tasks : DOMAIN nodes'[t].inputs = DOMAIN doc.tasks[t].inputs
    BY <1>6 DEF AddTasks
  <2>4. \A t \in Tasks : DOMAIN doc.tasks[t].inputs = 1..Len(doc.tasks[t].inputs)
    BY DocumentTypes DEF LoaderTypeOK
  <2> QED
    BY <2>1, <2>2, <2>3, <2>4 DEF LoaderTypeOK
<1>7. CASE NameOutputs
  BY <1>7 DEF LoaderTypeOK, NameOutputs, tableVars, vars
<1>8. CASE Die
  BY <1>8 DEF LoaderTypeOK, Die, nodeVars, tableVars, vars
<1>9. CASE BuildDependency
  <2>1. UNCHANGED <<doc, phase, node, nodes>> /\ phase = "dependencies" /\ at' = at + 1
    BY <1>9 DEF BuildDependency, AtEntry, nodeVars
  <2>2. node \in Tasks
    BY <1>9 DEF BuildDependency, AtEntry, LoaderTypeOK, Tasks
  <2>3. /\ dependencies' \in [Tasks -> Seq(Tasks)]
        /\ succ' \in [Tasks -> Seq(Tasks)]
        /\ transfers' \in [Tasks -> Nat]
    <3> DEFINE f == InnerList[at + 1]
               o == FileOwner(f)
    <3>1. CASE Writers(f) # {}
      <4>1. /\ dependencies' = AddDependency(node, o) /\ succ' = AddSuccessor(o, node)
            /\ transfers' = transfers
        BY <1>9, <3>1 DEF BuildDependency
      <4>2. o \in Tasks
        BY <3>1, OwnerIsTask
      <4> HIDE DEF o
      <4> QED
        BY <2>2, <4>1, <4>2 DEF LoaderTypeOK, AddDependency, AddSuccessor
    <3>2. CASE Writers(f) = {}
      <4>1. transfers' = IncFinishedTransfers(node) /\ UNCHANGED <<dependencies, succ>>
        BY <1>9, <3>2 DEF BuildDependency
      <4> QED
        BY <2>2, <4>1 DEF LoaderTypeOK, IncFinishedTransfers
    <3> QED
      BY <3>1, <3>2
  <2> QED
    BY <2>1, <2>3 DEF LoaderTypeOK
<1>10. CASE MakeTasksOrder
  <2>1. succ' = succ
    BY <1>10 DEF MakeTasksOrder, Next, StartAt, Skip, Visit, Return, ReverseOrder, Ended, vars
  <2> QED
    BY <1>10, <2>1 DEF LoaderTypeOK, MakeTasksOrder, loopVars, nodeVars, tableVars
<1>11. CASE UNCHANGED loaderVars
  BY <1>11 DEF LoaderTypeOK, loaderVars, loopVars, nodeVars, tableVars, vars
<1> QED
  BY <1>1, <1>2, <1>3, <1>4, <1>5, <1>6, <1>7, <1>8, <1>9, <1>10, <1>11 DEF LoaderNext, Died

LEMMA LoaderNextWalk ==
    LoaderTypeOK /\ LoaderTypeOK' /\ WalkInv /\ [LoaderNext]_loaderVars => WalkInv'
<1> SUFFICES ASSUME LoaderTypeOK, LoaderTypeOK', WalkInv, [LoaderNext]_loaderVars PROVE WalkInv'
  OBVIOUS
<1>1. CASE phase = "loaded"
  <2>1. phase' = "loaded" /\ [Next]_vars
    BY <1>1 DEF LoaderNext, loaderVars, loopVars, ReadDeadline, AddInput, AddFile, AtEntry, NextTask,
                LoopEnds, AddTasks, NameOutputs, Die, BuildDependency, MakeTasksOrder, Died
  <2> QED
    BY <1>1, <2>1, NextInv DEF WalkInv
<1>2. CASE phase # "loaded"
  <2>1. UNCHANGED walkVars
    BY <1>2 DEF LoaderNext, loaderVars, vars, walkVars, ReadDeadline, AddInput, AddFile, NextTask,
                LoopEnds, AddTasks, NameOutputs, Die, BuildDependency, MakeTasksOrder, Died
  <2>2. Fresh'
    BY <1>2, <2>1 DEF WalkInv, Fresh, walkVars
  <2>3. phase' = "loaded" => OrderInv'
    <3>1. CASE UNCHANGED vars
      BY <1>2, <3>1, FreshOrder, NextInv DEF WalkInv, LoaderTypeOK
    <3>2. CASE BuildDependency
      BY <1>2, <3>2 DEF BuildDependency
    <3> QED
      BY <1>2, <3>1, <3>2 DEF LoaderNext, loaderVars, ReadDeadline, AddInput, AddFile, NextTask,
                LoopEnds, AddTasks, NameOutputs, Die, MakeTasksOrder, Died
  <2> QED
    BY <2>2, <2>3 DEF WalkInv
<1> QED
  BY <1>1, <1>2

-----------------------------------------------------------------------------
(* The registry of files.                                                   *)

\* Names and ids belong together; ids are below the counter.
RegistryInv ==
    /\ registry.counter \in Nat
    /\ \A name \in DOMAIN registry.files : Resolves(registry.files[name].id, name)
    /\ \A id \in DOMAIN registry.names :
           /\ id \in 0..(registry.counter - 1)
           /\ registry.names[id] \in DOMAIN registry.files
           /\ registry.files[registry.names[id]].id = id
    /\ DOMAIN author = DOMAIN registry.names
    /\ DOMAIN receivers = DOMAIN registry.names

\* Inputs grows with the document's list.
InputsInv ==
    /\ inputs \in Seq(Nat)
    /\ phase \in {"deadline", "inputs"} => Len(inputs) = at

RegistryOK == RegistryInv /\ InputsInv /\ IdsStayValid

LEMMA InsertKeeps ==
    ASSUME NEW map, NEW key, NEW value
    PROVE  /\ DOMAIN Insert(map, key, value) = DOMAIN map \cup {key}
           /\ \A k \in DOMAIN map : Insert(map, key, value)[k] = map[k]
           /\ key \notin DOMAIN map => Insert(map, key, value)[key] = value
BY DEF Insert

\* What an id meant it means afterwards, and the new one means the file it was asked for.
LEMMA TryAddFileRegisters ==
    ASSUME RegistryInv, NEW f, TryAddFile(f)
    PROVE  /\ RegistryInv'
           /\ \A id, name : Resolves(id, name) => Resolves(id, name)'
           /\ Resolves(registry.files[f.name].id, f.name)'
<1> DEFINE new == [id |-> registry.counter, size |-> IF f.size = Unreadable THEN 0 ELSE f.size]
           F == registry.files
           G == Insert(F, f.name, new)
           id == G[f.name].id
           N == registry.names
           M == Insert(N, id, f.name)
           c == registry.counter
<1>1. /\ registry' = [files |-> G, names |-> M, counter |-> c + 1]
      /\ author' = Insert(author, id, NoAuthor)
      /\ receivers' = Insert(receivers, id, {})
  BY DEF TryAddFile
<1>2. registry'.files = G /\ registry'.names = M /\ registry'.counter = c + 1
  BY <1>1
<1>3. new.id = c
  OBVIOUS
<1> HIDE DEF new
<1>4. /\ DOMAIN G = DOMAIN F \cup {f.name}
      /\ \A name \in DOMAIN F : G[name] = F[name]
      /\ f.name \notin DOMAIN F => G[f.name] = new
  BY InsertKeeps
<1> HIDE DEF G, id
<1>5. /\ DOMAIN M = DOMAIN N \cup {id}
      /\ \A i \in DOMAIN N : M[i] = N[i]
      /\ id \notin DOMAIN N => M[id] = f.name
  BY InsertKeeps
<1>A. /\ DOMAIN author' = DOMAIN author \cup {id}
      /\ DOMAIN receivers' = DOMAIN receivers \cup {id}
  <2>1. /\ DOMAIN Insert(author, id, NoAuthor) = DOMAIN author \cup {id}
        /\ DOMAIN Insert(receivers, id, {}) = DOMAIN receivers \cup {id}
    BY InsertKeeps
  <2> QED
    BY <1>1, <2>1
<1>6. /\ c \in Nat
      /\ \A name \in DOMAIN F : F[name].id \in DOMAIN N /\ N[F[name].id] = name
      /\ \A i \in DOMAIN N : i \in 0..(c - 1) /\ N[i] \in DOMAIN F /\ F[N[i]].id = i
      /\ DOMAIN author = DOMAIN N /\ DOMAIN receivers = DOMAIN N
  BY DEF RegistryInv, Resolves
<1>B. ASSUME NEW i, NEW name
      PROVE  /\ Resolves(i, name) => /\ i \in DOMAIN N /\ N[i] = name /\ F[name].id = i
                                     /\ name \in DOMAIN F
             /\ i \in DOMAIN M /\ M[i] = name /\ G[name].id = i => Resolves(i, name)'
  BY <1>2, <1>6 DEF Resolves
<1>C. ASSUME c + 1 \in Nat,
             \A name \in DOMAIN G : G[name].id \in DOMAIN M /\ M[G[name].id] = name,
             \A i \in DOMAIN M : i \in 0..(c + 1 - 1) /\ M[i] \in DOMAIN G /\ G[M[i]].id = i
      PROVE  RegistryInv'
  BY <1>C, <1>2, <1>5, <1>6, <1>A DEF RegistryInv, Resolves
<1> HIDE DEF M, F, N, c
<1>D. registry'.files[f.name].id = id
  BY <1>2 DEF id
<1>7. CASE f.name \in DOMAIN F
  <2>1. id = F[f.name].id /\ id \in DOMAIN N /\ N[id] = f.name
    BY <1>4, <1>6, <1>7 DEF id
  <2>2. DOMAIN G = DOMAIN F /\ DOMAIN M = DOMAIN N /\ M[id] = f.name
    BY <1>4, <1>5, <1>7, <2>1
  <2>3. \A i \in 0..(c - 1) : i \in 0..(c + 1 - 1)
    BY <1>6
  <2>4. /\ c + 1 \in Nat
        /\ \A name \in DOMAIN G : G[name].id \in DOMAIN M /\ M[G[name].id] = name
        /\ \A i \in DOMAIN M : i \in 0..(c + 1 - 1) /\ M[i] \in DOMAIN G /\ G[M[i]].id = i
    BY <1>4, <1>5, <1>6, <2>2, <2>3
  <2> QED
    <3>1. RegistryInv'
      BY <1>C, <2>4
    <3>2. \A i, name : Resolves(i, name) => Resolves(i, name)'
      BY <1>B, <1>4, <1>5
    <3>3. Resolves(registry.files[f.name].id, f.name)'
      BY <1>2, <1>D, <2>1, <2>2 DEF Resolves, id
    <3> QED
      BY <3>1, <3>2, <3>3
<1>8. CASE f.name \notin DOMAIN F
  <2>1. id = c /\ c \notin DOMAIN N /\ M[id] = f.name
    <3>1. id = c
      BY <1>3, <1>4, <1>8 DEF id
    <3>2. c \notin 0..(c - 1)
      BY <1>6
    <3> QED
      BY <1>5, <1>6, <3>1, <3>2
  <2>2. \A i \in 0..(c - 1) : i \in 0..(c + 1 - 1)
    BY <1>6
  <2>3. c + 1 \in Nat /\ c \in 0..(c + 1 - 1)
    BY <1>6
  <2>4. G[f.name].id = c
    BY <2>1 DEF id
  <2>5. \A name \in DOMAIN G : G[name].id \in DOMAIN M /\ M[G[name].id] = name
    BY <1>4, <1>5, <1>6, <2>1, <2>4
  <2>6. \A i \in DOMAIN M : i \in 0..(c + 1 - 1) /\ M[i] \in DOMAIN G /\ G[M[i]].id = i
    BY <1>4, <1>5, <1>6, <2>1, <2>2, <2>3, <2>4
  <2> QED
    <3>1. RegistryInv'
      BY <1>C, <2>3, <2>5, <2>6
    <3>2. \A i, name : Resolves(i, name) => Resolves(i, name)'
      BY <1>B, <1>4, <1>5
    <3>3. Resolves(registry.files[f.name].id, f.name)'
      BY <1>2, <1>D, <1>5, <2>1, <2>4 DEF Resolves, id
    <3> QED
      BY <3>1, <3>2, <3>3
<1> QED
  BY <1>7, <1>8

LEMMA LoaderInitRegistry == LoaderInit => RegistryOK
<1> SUFFICES ASSUME LoaderInit PROVE RegistryOK
  OBVIOUS
<1>1. registry.files = <<>> /\ registry.names = <<>> /\ registry.counter = 0
  BY DEF LoaderInit
<1> QED
  BY <1>1 DEF LoaderInit, RegistryOK, RegistryInv, InputsInv, IdsStayValid

LEMMA LoaderNextRegistry ==
    LoaderTypeOK /\ RegistryOK /\ [LoaderNext]_loaderVars => RegistryOK'
<1> SUFFICES ASSUME LoaderTypeOK, RegistryOK, [LoaderNext]_loaderVars PROVE RegistryOK'
  OBVIOUS
<1>0. RegistryInv /\ InputsInv /\ IdsStayValid
  BY DEF RegistryOK
<1>1. CASE AddInput
  <2>0. PICK f : f = doc.inputs[at + 1]
    OBVIOUS
  <2>1. /\ RegistryInv'
        /\ \A i, name : Resolves(i, name) => Resolves(i, name)'
        /\ Resolves(registry.files[f.name].id, f.name)'
    <3>1. TryAddFile(f)
      BY <1>1, <2>0 DEF AddInput
    <3> QED
      BY <1>0, <3>1, TryAddFileRegisters
  <2> DEFINE id == registry'.files[f.name].id
  <2>2. /\ UNCHANGED <<doc, phase, nodes>> /\ phase = "inputs" /\ at' = at + 1
        /\ inputs' = Append(inputs, id)
    BY <1>1, <2>0 DEF AddInput
  <2>3. id \in Nat
    BY <2>1 DEF RegistryInv, Resolves
  <2>A. id \in DOMAIN registry'.names /\ registry'.names[id] = f.name /\ registry'.files[f.name].id = id
    BY <2>1 DEF Resolves
  <2> HIDE DEF id
  <2>4. /\ inputs' \in Seq(Nat) /\ Len(inputs') = at + 1 /\ DOMAIN inputs' = 1..(at + 1)
        /\ inputs'[at + 1] = id /\ DOMAIN inputs = 1..at
        /\ \A i \in DOMAIN inputs : inputs'[i] = inputs[i]
    BY <1>0, <2>2, <2>3 DEF InputsInv
  <2>5. \A i \in DOMAIN inputs' : i = at + 1 \/ i \in DOMAIN inputs
    BY <2>4 DEF LoaderTypeOK
  <2>6. IdsStayValid'
    <3>1. \A i, name : Resolves(i, name) =>
              i \in DOMAIN registry'.names /\ registry'.names[i] = name /\ registry'.files[name].id = i
      BY <2>1 DEF Resolves
    <3>2. ASSUME NEW i \in DOMAIN inputs'
          PROVE  Resolves(inputs[i], doc.inputs[i].name)'
      <4>1. CASE i = at + 1
        BY <4>1, <2>0, <2>2, <2>4, <2>A DEF Resolves
      <4>2. CASE i \in DOMAIN inputs
        <5>1. Resolves(inputs[i], doc.inputs[i].name)
          BY <4>2, <1>0 DEF IdsStayValid
        <5>2. inputs'[i] = inputs[i] /\ doc' = doc
          BY <4>2, <2>2, <2>4
        <5> QED
          BY <3>1, <5>1, <5>2 DEF Resolves
      <4> QED
        BY <2>5, <4>1, <4>2
    <3>3. ASSUME NEW t \in DOMAIN nodes
          PROVE  /\ \A i \in DOMAIN nodes'[t].inputs :
                        Resolves(nodes[t].inputs[i], doc.tasks[t].inputs[i])'
                 /\ \A i \in DOMAIN nodes'[t].outputs :
                        Resolves(nodes[t].outputs[i], doc.tasks[t].outputs[i].name)'
      BY <1>0, <2>2, <3>1 DEF IdsStayValid, Resolves
    <3> QED
      BY <2>2, <3>2, <3>3 DEF IdsStayValid
  <2> QED
    BY <2>1, <2>2, <2>4, <2>6 DEF RegistryOK, InputsInv
<1>2. CASE AddFile
  <2>1. /\ RegistryInv'
        /\ \A i, name : Resolves(i, name) => Resolves(i, name)'
    BY <1>0, <1>2, TryAddFileRegisters DEF AddFile
  <2>2. UNCHANGED <<doc, phase, inputs, nodes>> /\ phase = "files"
    BY <1>2 DEF AddFile, AtEntry, nodeVars
  <2>3. IdsStayValid'
    BY <1>0, <2>1, <2>2 DEF IdsStayValid
  <2> QED
    BY <1>0, <2>1, <2>2, <2>3 DEF RegistryOK, InputsInv
<1>3. CASE AddTasks
  <2>1. UNCHANGED <<doc, registry, author, receivers, inputs>> /\ phase' = "outputs"
    BY <1>3 DEF AddTasks, fileVars
  <2>2. ASSUME NEW t \in Tasks
        PROVE  /\ DOMAIN nodes'[t].inputs = DOMAIN doc.tasks[t].inputs
               /\ DOMAIN nodes'[t].outputs = DOMAIN doc.tasks[t].outputs
               /\ \A i \in DOMAIN nodes'[t].inputs :
                      nodes'[t].inputs[i] = FileId(doc.tasks[t].inputs[i])
               /\ \A i \in DOMAIN nodes'[t].outputs :
                      nodes'[t].outputs[i] = FileId(doc.tasks[t].outputs[i].name)
    BY <1>3 DEF AddTasks
  <2>3. ASSUME NEW t \in Tasks
        PROVE  /\ \A i \in DOMAIN doc.tasks[t].inputs :
                      doc.tasks[t].inputs[i] \in DOMAIN registry.files
               /\ \A i \in DOMAIN doc.tasks[t].outputs :
                      doc.tasks[t].outputs[i].name \in DOMAIN registry.files
    <3>1. Known(ToSet(doc.tasks[t].inputs) \cup ToSet(NamesOf(doc.tasks[t].outputs)))
      BY <1>3 DEF AddTasks, Constructible
    <3> QED
      BY <3>1 DEF Known, ToSet, NamesOf
  <2>4. \A name \in DOMAIN registry.files : Resolves(FileId(name), name)
    BY <1>0 DEF RegistryInv, FileId
  <2>5. DOMAIN nodes' = Tasks
    BY <1>3 DEF AddTasks
  <2>6. IdsStayValid'
    <3>1. \A i, name : Resolves(i, name)' = Resolves(i, name)
      BY <2>1 DEF Resolves
    <3>2. \A i \in DOMAIN inputs' : Resolves(inputs'[i], doc'.inputs[i].name)
      BY <1>0, <2>1 DEF IdsStayValid
    <3>3. ASSUME NEW t \in Tasks
          PROVE  /\ \A i \in DOMAIN nodes'[t].inputs :
                        Resolves(nodes'[t].inputs[i], doc'.tasks[t].inputs[i])
                 /\ \A i \in DOMAIN nodes'[t].outputs :
                        Resolves(nodes'[t].outputs[i], doc'.tasks[t].outputs[i].name)
      BY <2>1, <2>2, <2>3, <2>4
    <3> QED
      BY <2>5, <3>1, <3>2, <3>3 DEF IdsStayValid
  <2> QED
    BY <1>0, <2>1, <2>6 DEF RegistryOK, RegistryInv, Resolves, InputsInv
<1>4. CASE BuildDependency
  <2>1. UNCHANGED <<doc, phase, registry, inputs, nodes>> /\ phase = "dependencies"
    BY <1>4 DEF BuildDependency, AtEntry, nodeVars
  <2>2. DOMAIN author' = DOMAIN author /\ DOMAIN receivers' = DOMAIN receivers
    BY <1>4 DEF BuildDependency
  <2> QED
    BY <1>0, <2>1, <2>2 DEF RegistryOK, RegistryInv, Resolves, InputsInv, IdsStayValid
<1>5. CASE ReadDeadline \/ NextTask \/ LoopEnds \/ NameOutputs \/ Die \/ MakeTasksOrder \/ UNCHANGED loaderVars
  <2>1. UNCHANGED <<doc, registry, author, receivers, inputs, nodes>>
    BY <1>5 DEF ReadDeadline, NextTask, LoopEnds, NameOutputs, Die, MakeTasksOrder, loaderVars, fileVars, nodeVars
  <2>2. phase' \in {"deadline", "inputs"} => phase \in {"deadline", "inputs"} /\ at' = at
    BY <1>5 DEF ReadDeadline, NextTask, LoopEnds, NameOutputs, Die, MakeTasksOrder, loaderVars, loopVars
  <2> QED
    BY <1>0, <2>1, <2>2 DEF RegistryOK, RegistryInv, Resolves, InputsInv, IdsStayValid
<1> QED
  BY <1>1, <1>2, <1>3, <1>4, <1>5 DEF LoaderNext, Died

-----------------------------------------------------------------------------
(* The tables.                                                              *)

LEMMA PositionsFinite ==
    ASSUME NEW n \in Nat, NEW S, S \subseteq 1..n
    PROVE  IsFiniteSet(S) /\ Cardinality(S) \in Nat
<1>1. IsFiniteSet(1..n)
  BY FS_Interval
<1> QED
  BY <1>1, FS_Subset, FS_CardinalityType

LEMMA OccurrencesOfAppend ==
    ASSUME NEW A, NEW s \in Seq(A), NEW a \in A, NEW x
    PROVE  Occurrences(Append(s, a), x) = Occurrences(s, x) + (IF a = x THEN 1 ELSE 0)
<1> DEFINE n == Len(s)
           S == {i \in DOMAIN s : s[i] = x}
           T == {i \in DOMAIN Append(s, a) : Append(s, a)[i] = x}
<1>1. /\ n \in Nat /\ DOMAIN s = 1..n /\ DOMAIN Append(s, a) = 1..(n + 1)
      /\ Append(s, a)[n + 1] = a
      /\ \A i \in 1..n : Append(s, a)[i] = s[i]
  OBVIOUS
<1>2. IsFiniteSet(S) /\ Cardinality(S) \in Nat
  BY <1>1, PositionsFinite
<1>3. n + 1 \notin S
  BY <1>1
<1>4. CASE a = x
  <2>1. T = S \cup {n + 1}
    BY <1>1, <1>4
  <2> HIDE DEF S, T
  <2>2. Cardinality(T) = Cardinality(S) + 1
    BY <1>2, <1>3, <2>1, FS_AddElement
  <2> QED
    BY <2>2, <1>4 DEF Occurrences, S, T
<1>5. CASE a # x
  <2>1. T = S
    BY <1>1, <1>5
  <2> HIDE DEF S, T
  <2>2. Cardinality(T) = Cardinality(S) + 0
    BY <1>2, <2>1
  <2> QED
    BY <2>2, <1>5 DEF Occurrences, S, T
<1> QED
  BY <1>4, <1>5

LEMMA OccursIffElement ==
    ASSUME NEW s, IsFiniteSet(DOMAIN s), NEW x
    PROVE  /\ Occurrences(s, x) \in Nat
           /\ Occurrences(s, x) # 0 <=> x \in Elements(s)
<1> DEFINE S == {i \in DOMAIN s : s[i] = x}
<1>1. IsFiniteSet(S)
  <2>1. S \subseteq DOMAIN s
    OBVIOUS
  <2> QED
    BY <2>1, FS_Subset
<1>2. x \in Elements(s) <=> S # {}
  BY DEF Elements
<1>3. Occurrences(s, x) = Cardinality(S)
  BY DEF Occurrences
<1> HIDE DEF S
<1>4. Cardinality(S) \in Nat /\ (Cardinality(S) = 0 <=> S = {})
  BY <1>1, FS_CardinalityType, FS_EmptySet
<1> QED
  BY <1>2, <1>3, <1>4

Entries(t) == Len(nodes[t].inputs)

\* How many entries of a task's list BuildDependencies has been through.
EntriesRead(t) ==
    CASE phase = "loaded" -> Entries(t)
      [] phase = "dependencies" -> IF t < node THEN Entries(t) ELSE IF t = node THEN at ELSE 0
      [] OTHER -> 0

\* DependenciesMirrored, for the entries read.
TablesInv ==
    /\ \A t, a \in Tasks : Occurrences(succ[a], t) = Occurrences(dependencies[t], a)
    /\ \A t \in Tasks : Len(dependencies[t]) + transfers[t] = EntriesRead(t)

LEMMA EntriesAreNatural ==
    ASSUME LoaderTypeOK, phase \in {"outputs", "dependencies", "loaded"}, NEW t \in Tasks
    PROVE  Entries(t) \in Nat /\ DOMAIN nodes[t].inputs = 1..Entries(t)
<1>1. doc.tasks[t].inputs \in Seq(Names)
  BY DocumentTypes DEF LoaderTypeOK
<1>2. Len(doc.tasks[t].inputs) \in Nat
  BY <1>1
<1>3. DOMAIN nodes[t].inputs = 1..Len(doc.tasks[t].inputs)
  BY DEF LoaderTypeOK
<1> QED
  BY <1>2, <1>3 DEF Entries

LEMMA OtherStepsKeepTables ==
    ASSUME LoaderTypeOK, [LoaderNext]_loaderVars, ~BuildDependency
    PROVE  /\ UNCHANGED <<succ, dependencies, transfers>>
           /\ \A t \in Tasks : EntriesRead(t)' = EntriesRead(t)
           /\ phase \in {"dependencies", "loaded"} => UNCHANGED <<nodes, author, receivers, registry>>
<1>1. UNCHANGED <<dependencies, transfers>>
  BY DEF LoaderNext, ReadDeadline, AddInput, AddFile, NextTask, LoopEnds, AddTasks, NameOutputs, Die,
         MakeTasksOrder, Died, loaderVars, tableVars
<1>2. succ' = succ
  BY DEF LoaderNext, ReadDeadline, AddInput, AddFile, NextTask, LoopEnds, AddTasks, NameOutputs, Die,
         MakeTasksOrder, Next, StartAt, Skip, Visit, Return, ReverseOrder, Ended, Died, loaderVars, vars
<1>3. phase \in {"dependencies", "loaded"} => UNCHANGED <<nodes, author, receivers, registry>>
  BY DEF LoaderNext, ReadDeadline, AddInput, AddFile, AtEntry, NextTask, LoopEnds, AddTasks, NameOutputs,
         Die, MakeTasksOrder, Died, loaderVars, fileVars, nodeVars
<1>4. ASSUME NEW t \in Tasks PROVE EntriesRead(t)' = EntriesRead(t)
  <2>0. node \in Int /\ t \in Int /\ Size \in Int /\ 0 <= t /\ t < Size
    BY OrderAssumption DEF LoaderTypeOK, Tasks
  <2>1. CASE phase = "loaded"
    <3>1. phase' = "loaded"
      BY <2>1 DEF LoaderNext, loaderVars, loopVars, ReadDeadline, AddInput, AddFile, AtEntry, NextTask,
                  LoopEnds, AddTasks, NameOutputs, Die, MakeTasksOrder, Died
    <3> QED
      BY <2>1, <3>1, <1>3 DEF EntriesRead, Entries
  <2>2. CASE phase = "dependencies" /\ NextTask
    <3>1. /\ phase' = phase /\ node' = node + 1 /\ at' = 0 /\ nodes' = nodes
          /\ at = Len(nodes[node].inputs)
      BY <2>2 DEF NextTask, InnerList, nodeVars
    <3>2. CASE t < node
      <4>1. t < node + 1
        BY <2>0, <3>2
      <4> QED
        BY <3>1, <3>2, <4>1, <2>2 DEF EntriesRead, Entries
    <3>3. CASE t = node
      <4>1. t < node + 1 /\ ~(t < node)
        BY <2>0, <3>3
      <4> QED
        BY <3>1, <3>3, <4>1, <2>2 DEF EntriesRead, Entries
    <3>4. CASE t > node
      <4>1. ~(t < node + 1) /\ ~(t < node) /\ t # node
        BY <2>0, <3>4
      <4> QED
        BY <3>1, <4>1, <2>2 DEF EntriesRead, Entries
    <3> QED
      BY <2>0, <3>2, <3>3, <3>4
  <2>3. CASE phase = "dependencies" /\ LoopEnds
    <3>1. phase' = "loaded" /\ node = Size /\ nodes' = nodes
      BY <2>3 DEF LoopEnds, nodeVars
    <3>2. t < node
      BY <2>0, <3>1
    <3> QED
      BY <2>3, <3>1, <3>2 DEF EntriesRead, Entries
  <2>4. CASE phase = "dependencies" /\ ~NextTask /\ ~LoopEnds
    <3>1. UNCHANGED <<phase, node, at>>
      BY <2>4 DEF LoaderNext, loaderVars, loopVars, ReadDeadline, AddInput, AddFile, AtEntry,
                  AddTasks, NameOutputs, Die, MakeTasksOrder, Died
    <3> QED
      BY <2>4, <3>1, <1>3 DEF EntriesRead, Entries
  <2>5. CASE phase \notin {"dependencies", "loaded"}
    <3>1. phase' \notin {"dependencies", "loaded"} \/ (phase' = "dependencies" /\ node' = 0 /\ at' = 0)
      BY <2>5 DEF LoaderNext, loaderVars, loopVars, ReadDeadline, AddInput, AddFile, NextTask, LoopEnds,
                  AddTasks, NameOutputs, Die, MakeTasksOrder, Died, LoaderTypeOK
    <3>2. EntriesRead(t) = 0
      BY <2>5 DEF EntriesRead
    <3>3. EntriesRead(t)' = 0
      BY <2>0, <3>1 DEF EntriesRead
    <3> QED
      BY <3>2, <3>3
  <2> QED
    BY <2>1, <2>2, <2>3, <2>4, <2>5
<1> QED
  BY <1>1, <1>2, <1>3, <1>4

\* The step of the inner loop: one more entry of one task has been read.
LEMMA EntryIsRead ==
    ASSUME LoaderTypeOK, LoaderTypeOK', BuildDependency
    PROVE  /\ node \in Tasks /\ at + 1 \in 1..Entries(node)
           /\ UNCHANGED <<phase, nodes>> /\ phase = "dependencies"
           /\ \A t \in Tasks : IF t = node THEN EntriesRead(t) = at /\ EntriesRead(t)' = at + 1
                              ELSE EntriesRead(t)' = EntriesRead(t)
<1>1. /\ phase = "dependencies" /\ node < Size /\ at < Entries(node)
      /\ UNCHANGED <<phase, node, nodes>> /\ at' = at + 1
  BY DEF BuildDependency, AtEntry, InnerList, nodeVars, Entries
<1>2. node \in Tasks /\ node \in Int /\ at \in Nat
  BY <1>1, OrderAssumption DEF LoaderTypeOK, Tasks
<1>3. Entries(node) \in Nat
  BY <1>1, <1>2, EntriesAreNatural
<1>4. at + 1 \in 1..Entries(node)
  BY <1>1, <1>2, <1>3
<1>5. ~(node < node)
  BY <1>2
<1>6. \A t \in Tasks : t = node => EntriesRead(t) = at /\ EntriesRead(t)' = at + 1
  BY <1>1, <1>5 DEF EntriesRead
<1>7. \A t \in Tasks : t # node => EntriesRead(t)' = EntriesRead(t)
  BY <1>1 DEF EntriesRead, Entries
<1> QED
  BY <1>1, <1>2, <1>4, <1>6, <1>7

LEMMA LoaderNextTables ==
    LoaderTypeOK /\ LoaderTypeOK' /\ TablesInv /\ [LoaderNext]_loaderVars => TablesInv'
<1> SUFFICES ASSUME LoaderTypeOK, LoaderTypeOK', TablesInv, [LoaderNext]_loaderVars PROVE TablesInv'
  OBVIOUS
<1>1. CASE ~BuildDependency
  <2>1. UNCHANGED <<succ, dependencies, transfers>> /\ \A t \in Tasks : EntriesRead(t)' = EntriesRead(t)
    BY <1>1, OtherStepsKeepTables
  <2> QED
    BY <2>1 DEF TablesInv, Occurrences
<1>2. CASE BuildDependency
  <2>1. /\ node \in Tasks
        /\ \A t \in Tasks : IF t = node THEN EntriesRead(t) = at /\ EntriesRead(t)' = at + 1
                           ELSE EntriesRead(t)' = EntriesRead(t)
    BY <1>2, EntryIsRead
  <2>2. /\ \A t \in Tasks : succ[t] \in Seq(Tasks) /\ dependencies[t] \in Seq(Tasks) /\ transfers[t] \in Nat
        /\ dependencies \in [Tasks -> Seq(Tasks)] /\ succ \in [Tasks -> Seq(Tasks)]
        /\ transfers \in [Tasks -> Nat] /\ at \in Nat
    BY DEF LoaderTypeOK
  <2>A. PICK n \in Tasks : n = node
    BY <2>1
  <2>3. CASE Writers(InnerList[at + 1]) # {}
    <3>1. PICK o \in Tasks : o = FileOwner(InnerList[at + 1])
      BY <2>3, OwnerIsTask
    <3>2. /\ dependencies' = [dependencies EXCEPT ![n] = Append(@, o)]
          /\ succ' = [succ EXCEPT ![o] = Append(@, n)]
          /\ transfers' = transfers
      BY <1>2, <2>3, <3>1, <2>A DEF BuildDependency, AddDependency, AddSuccessor
    <3>3. ASSUME NEW t \in Tasks, NEW a \in Tasks
          PROVE  Occurrences(succ'[a], t) = Occurrences(dependencies'[t], a)
      <4>0. /\ Occurrences(succ[a], t) = Occurrences(dependencies[t], a)
            /\ Occurrences(Append(succ[a], n), t) = Occurrences(succ[a], t) + (IF n = t THEN 1 ELSE 0)
            /\ Occurrences(Append(dependencies[t], o), a)
                   = Occurrences(dependencies[t], a) + (IF o = a THEN 1 ELSE 0)
        BY <2>2, OccurrencesOfAppend DEF TablesInv
      <4>T. Occurrences(succ[a], t) \in Nat
        <5>1. IsFiniteSet(DOMAIN succ[a])
          BY <2>2, FS_Interval
        <5> QED
          BY <5>1, OccursIffElement
      <4>1. CASE t = n /\ a = o
        <5>1. succ'[a] = Append(succ[a], n) /\ dependencies'[t] = Append(dependencies[t], o)
          BY <4>1, <3>2, <2>2
        <5> QED
          BY <4>0, <4>1, <5>1
      <4>2. CASE t = n /\ a # o
        <5>1. succ'[a] = succ[a] /\ dependencies'[t] = Append(dependencies[t], o)
          BY <4>2, <3>2, <2>2
        <5> QED
          BY <4>0, <4>2, <5>1, <4>T
      <4>3. CASE t # n /\ a = o
        <5>1. succ'[a] = Append(succ[a], n) /\ dependencies'[t] = dependencies[t]
          BY <4>3, <3>2, <2>2
        <5> QED
          BY <4>0, <4>3, <5>1, <4>T
      <4>4. CASE t # n /\ a # o
        <5>1. succ'[a] = succ[a] /\ dependencies'[t] = dependencies[t]
          BY <4>4, <3>2, <2>2
        <5> QED
          BY <4>0, <5>1
      <4> QED
        BY <4>1, <4>2, <4>3, <4>4
    <3>4. ASSUME NEW t \in Tasks
          PROVE  Len(dependencies'[t]) + transfers'[t] = EntriesRead(t)'
      <4>1. Len(dependencies[t]) \in Nat /\ Len(dependencies[t]) + transfers[t] = EntriesRead(t)
        BY <2>2 DEF TablesInv
      <4>2. CASE t = n
        <5>1. Len(dependencies'[t]) = Len(dependencies[t]) + 1 /\ transfers'[t] = transfers[t]
          BY <4>2, <3>2, <2>2
        <5> QED
          BY <4>1, <4>2, <5>1, <2>1, <2>2, <2>A
      <4>3. CASE t # n
        BY <4>1, <4>3, <3>2, <2>1, <2>2, <2>A
      <4> QED
        BY <4>2, <4>3
    <3> QED
      BY <3>3, <3>4 DEF TablesInv
  <2>4. CASE Writers(InnerList[at + 1]) = {}
    <3>1. /\ transfers' = [transfers EXCEPT ![n] = @ + 1]
          /\ dependencies' = dependencies /\ succ' = succ
      BY <1>2, <2>4, <2>A DEF BuildDependency, IncFinishedTransfers
    <3>2. ASSUME NEW t \in Tasks
          PROVE  Len(dependencies'[t]) + transfers'[t] = EntriesRead(t)'
      <4>1. Len(dependencies[t]) \in Nat /\ Len(dependencies[t]) + transfers[t] = EntriesRead(t)
        BY <2>2 DEF TablesInv
      <4>2. CASE t = n
        <5>1. transfers'[t] = transfers[t] + 1 /\ dependencies'[t] = dependencies[t]
          BY <4>2, <3>1, <2>2
        <5>2. EntriesRead(t) = at /\ EntriesRead(t)' = at + 1
          BY <4>2, <2>1, <2>A
        <5>3. transfers[t] \in Nat /\ at \in Nat
          BY <2>2
        <5>4. Len(dependencies'[t]) = Len(dependencies[t])
          BY <5>1
        <5> QED
          BY <4>1, <5>1, <5>2, <5>3, <5>4
      <4>3. CASE t # n
        BY <4>1, <4>3, <3>1, <2>1, <2>2, <2>A
      <4> QED
        BY <4>2, <4>3
    <3> QED
      BY <3>1, <3>2 DEF TablesInv, Occurrences
  <2> QED
    BY <2>3, <2>4
<1> QED
  BY <1>1, <1>2

LEMMA LoaderInitTables == LoaderInit => TablesInv
<1> SUFFICES ASSUME LoaderInit PROVE TablesInv
  OBVIOUS
<1>1. phase = "deadline" /\ \A t \in Tasks : succ[t] = <<>> /\ dependencies[t] = <<>> /\ transfers[t] = 0
  BY DEF LoaderInit
<1>2. Len(<<>>) = 0
  OBVIOUS
<1>3. \A t \in Tasks : EntriesRead(t) = 0
  BY <1>1 DEF EntriesRead
<1>4. \A t, a \in Tasks : Occurrences(succ[a], t) = Occurrences(dependencies[t], a)
  <2>1. \A x : {i \in DOMAIN <<>> : <<>>[i] = x} = {}
    OBVIOUS
  <2> QED
    BY <1>1, <2>1 DEF Occurrences
<1> QED
  BY <1>1, <1>2, <1>3, <1>4 DEF TablesInv

\* The files a task has been found to read, and the entries somebody writes.
ReadBy(t) == {nodes[t].inputs[i] : i \in 1..EntriesRead(t)}
WrittenEntries(t) == {i \in 1..EntriesRead(t) : Writers(nodes[t].inputs[i]) # {}}

TablesBegun == phase \in {"dependencies", "loaded"}

FilesInv ==
    \A f \in DOMAIN author :
        IF TablesBegun
        THEN /\ receivers[f] = {t \in Tasks : f \in ReadBy(t)}
             /\ author[f] # NoAuthor <=> receivers[f] # {} /\ Writers(f) # {}
        ELSE receivers[f] = {} /\ author[f] = NoAuthor

CountsInv == TablesBegun => \A t \in Tasks : Len(dependencies[t]) = Cardinality(WrittenEntries(t))

LoaderInv ==
    /\ LoaderTypeOK /\ WalkInv /\ RegistryOK
    /\ TablesInv /\ FilesInv /\ CountsInv

LEMMA EntryIsRegistered ==
    ASSUME LoaderTypeOK, RegistryOK, TablesBegun, NEW t \in Tasks, NEW i \in 1..Entries(t)
    PROVE  nodes[t].inputs[i] \in DOMAIN author /\ nodes[t].inputs[i] \in DOMAIN receivers
<1>1. DOMAIN nodes = Tasks /\ i \in DOMAIN nodes[t].inputs
  BY EntriesAreNatural DEF LoaderTypeOK, TablesBegun
<1>2. Resolves(nodes[t].inputs[i], doc.tasks[t].inputs[i])
  BY <1>1 DEF RegistryOK, IdsStayValid
<1> QED
  BY <1>2 DEF RegistryOK, RegistryInv, Resolves

LEMMA LoaderNextFiles ==
    LoaderInv /\ LoaderTypeOK' /\ RegistryOK' /\ [LoaderNext]_loaderVars => FilesInv'
<1> SUFFICES ASSUME LoaderInv, LoaderTypeOK', RegistryOK', [LoaderNext]_loaderVars PROVE FilesInv'
  OBVIOUS
<1>0. LoaderTypeOK /\ RegistryOK /\ FilesInv
  BY DEF LoaderInv
<1>1. CASE BuildDependency
  <2>1. /\ node \in Tasks /\ at + 1 \in 1..Entries(node)
        /\ UNCHANGED <<phase, nodes>> /\ phase = "dependencies"
        /\ \A t \in Tasks : IF t = node THEN EntriesRead(t) = at /\ EntriesRead(t)' = at + 1
                           ELSE EntriesRead(t)' = EntriesRead(t)
    BY <1>0, <1>1, EntryIsRead
  <2>2. PICK n \in Tasks : n = node
    BY <2>1
  <2>3. PICK f : f = InnerList[at + 1]
    OBVIOUS
  <2>4. f = nodes[n].inputs[at + 1] /\ at \in Nat
    BY <2>1, <2>2, <2>3, <1>0 DEF InnerList, LoaderTypeOK
  <2>5. f \in DOMAIN author /\ f \in DOMAIN receivers /\ DOMAIN receivers = DOMAIN author
    BY <1>0, <2>1, <2>2, <2>4, EntryIsRegistered DEF TablesBegun, RegistryOK, RegistryInv
  <2>6. /\ receivers' = [receivers EXCEPT ![f] = @ \cup {n}]
        /\ IF Writers(f) # {} THEN author' = [author EXCEPT ![f] = FileOwner(f)] ELSE author' = author
    BY <1>1, <2>2, <2>3 DEF BuildDependency
  <2>7. TablesBegun /\ TablesBegun' /\ \A g : Writers(g)' = Writers(g)
    BY <2>1 DEF TablesBegun, Writers
  <2>8. ASSUME NEW t \in Tasks
        PROVE  ReadBy(t)' = IF t = n THEN ReadBy(t) \cup {f} ELSE ReadBy(t)
    <3>1. CASE t = n
      <4>1. EntriesRead(t) = at /\ EntriesRead(t)' = at + 1
        BY <3>1, <2>1, <2>2
      <4>2. 1..(at + 1) = 1..at \cup {at + 1}
        BY <2>4
      <4>3. ReadBy(t)' = {nodes[t].inputs[i] : i \in 1..(at + 1)}
        BY <4>1, <2>1 DEF ReadBy
      <4>4. ReadBy(t) = {nodes[t].inputs[i] : i \in 1..at}
        BY <4>1 DEF ReadBy
      <4> QED
        BY <4>2, <4>3, <4>4, <3>1, <2>4
    <3>2. CASE t # n
      <4>1. EntriesRead(t)' = EntriesRead(t)
        BY <3>2, <2>1, <2>2
      <4> QED
        BY <3>2, <4>1, <2>1 DEF ReadBy
    <3> QED
      BY <3>1, <3>2
  <2>9. ASSUME NEW g \in DOMAIN author'
        PROVE  /\ receivers'[g] = {t \in Tasks : g \in ReadBy(t)'}
               /\ author'[g] # NoAuthor <=> receivers'[g] # {} /\ Writers(g) # {}
    <3>1. g \in DOMAIN author /\ g \in DOMAIN receivers
      BY <2>5, <2>6
    <3>2. /\ receivers[g] = {t \in Tasks : g \in ReadBy(t)}
          /\ author[g] # NoAuthor <=> receivers[g] # {} /\ Writers(g) # {}
      BY <1>0, <2>7, <3>1 DEF FilesInv
    <3>3. CASE g = f
      <4>1. receivers'[g] = receivers[g] \cup {n}
        BY <3>1, <3>3, <2>6
      <4>2. Writers(g) # {} => author'[g] \in Tasks
        <5>1. Writers(f) # {} => FileOwner(f) \in Tasks
          BY OwnerIsTask
        <5> HIDE DEF FileOwner
        <5> QED
          BY <5>1, <3>1, <3>3, <2>6
      <4>3. \A x \in Tasks : x # NoAuthor
        BY OrderAssumption DEF Tasks, NoAuthor
      <4>4. Writers(g) = {} => author'[g] = author[g]
        BY <3>3, <2>6
      <4>5. receivers'[g] = {t \in Tasks : g \in ReadBy(t)'}
        BY <4>1, <3>2, <3>3, <2>8
      <4> QED
        BY <4>1, <4>2, <4>3, <4>4, <4>5, <3>2
    <3>4. CASE g # f
      <4>1. receivers'[g] = receivers[g] /\ author'[g] = author[g]
        BY <3>1, <3>4, <2>6
      <4>2. \A t \in Tasks : g \in ReadBy(t)' <=> g \in ReadBy(t)
        BY <3>4, <2>8
      <4> QED
        BY <4>1, <4>2, <3>2
    <3> QED
      BY <3>3, <3>4
  <2> QED
    BY <2>7, <2>9 DEF FilesInv
<1>2. CASE ~BuildDependency /\ TablesBegun
  <2>1. /\ UNCHANGED <<nodes, author, receivers>>
        /\ \A t \in Tasks : EntriesRead(t)' = EntriesRead(t)
    BY <1>0, <1>2, OtherStepsKeepTables DEF TablesBegun
  <2>2. TablesBegun'
    BY <1>2 DEF TablesBegun, LoaderNext, loaderVars, loopVars, ReadDeadline, AddInput, AddFile, AtEntry,
                NextTask, LoopEnds, AddTasks, NameOutputs, Die, MakeTasksOrder, Died
  <2>3. (\A t \in Tasks : ReadBy(t)' = ReadBy(t)) /\ \A f : Writers(f)' = Writers(f)
    BY <2>1 DEF ReadBy, Writers
  <2> QED
    BY <1>0, <1>2, <2>1, <2>2, <2>3 DEF FilesInv
<1>3. CASE ~BuildDependency /\ ~TablesBegun
  <2>1. \A f \in DOMAIN author' : receivers'[f] = {} /\ author'[f] = NoAuthor
    <3>1. CASE \E f : TryAddFile(f)
      <4>1. PICK k : /\ author' = Insert(author, k, NoAuthor)
                     /\ receivers' = Insert(receivers, k, {})
        BY <3>1 DEF TryAddFile
      <4> QED
        BY <1>0, <1>3, <4>1 DEF Insert, FilesInv, RegistryOK, RegistryInv
    <3>2. CASE UNCHANGED <<author, receivers>>
      BY <1>0, <1>3, <3>2 DEF FilesInv
    <3> QED
      BY <1>3, <3>1, <3>2 DEF LoaderNext, loaderVars, fileVars, ReadDeadline, AddInput, AddFile,
                NextTask, LoopEnds, AddTasks, NameOutputs, Die, MakeTasksOrder, Died
  <2>2. CASE ~TablesBegun'
    BY <2>1, <2>2 DEF FilesInv
  <2>3. CASE TablesBegun'
    <3>1. \A t \in Tasks : EntriesRead(t)' = 0
      BY <1>0, <1>3, OtherStepsKeepTables DEF EntriesRead, TablesBegun
    <3>2. \A t \in Tasks : ReadBy(t)' = {}
      BY <3>1 DEF ReadBy
    <3> QED
      BY <2>1, <2>3, <3>2 DEF FilesInv
  <2> QED
    BY <2>2, <2>3
<1> QED
  BY <1>1, <1>2, <1>3

LEMMA LoaderNextCounts ==
    LoaderInv /\ LoaderTypeOK' /\ TablesInv' /\ [LoaderNext]_loaderVars => CountsInv'
<1> SUFFICES ASSUME LoaderInv, LoaderTypeOK', TablesInv', [LoaderNext]_loaderVars PROVE CountsInv'
  OBVIOUS
<1>0. LoaderTypeOK /\ CountsInv
  BY DEF LoaderInv
<1>1. CASE BuildDependency
  <2>1. /\ node \in Tasks /\ at + 1 \in 1..Entries(node)
        /\ UNCHANGED <<phase, nodes>> /\ phase = "dependencies"
        /\ \A t \in Tasks : IF t = node THEN EntriesRead(t) = at /\ EntriesRead(t)' = at + 1
                           ELSE EntriesRead(t)' = EntriesRead(t)
    BY <1>0, <1>1, EntryIsRead
  <2>2. PICK n \in Tasks : n = node
    BY <2>1
  <2>3. PICK f : f = InnerList[at + 1]
    OBVIOUS
  <2>4. f = nodes[n].inputs[at + 1] /\ at \in Nat
    BY <2>1, <2>2, <2>3, <1>0 DEF InnerList, LoaderTypeOK
  <2>5. TablesBegun /\ TablesBegun' /\ \A g : Writers(g)' = Writers(g)
    BY <2>1 DEF TablesBegun, Writers
  <2>6. /\ dependencies \in [Tasks -> Seq(Tasks)]
        /\ \A t \in Tasks : Len(dependencies[t]) = Cardinality(WrittenEntries(t))
    BY <1>0, <2>5 DEF LoaderTypeOK, CountsInv
  <2>7. ASSUME NEW t \in Tasks, t # n
        PROVE  Len(dependencies'[t]) = Cardinality(WrittenEntries(t)')
    <3>1. EntriesRead(t)' = EntriesRead(t)
      BY <2>1, <2>2, <2>7
    <3>2. WrittenEntries(t)' = WrittenEntries(t)
      BY <2>1, <2>5, <3>1 DEF WrittenEntries
    <3>3. dependencies'[t] = dependencies[t]
      BY <1>1, <2>2, <2>6, <2>7 DEF BuildDependency, AddDependency
    <3> QED
      BY <2>6, <3>2, <3>3
  <2>8. Len(dependencies'[n]) = Cardinality(WrittenEntries(n)')
    <3>1. EntriesRead(n) = at /\ EntriesRead(n)' = at + 1
      BY <2>1, <2>2
    <3>2. 1..(at + 1) = 1..at \cup {at + 1} /\ at + 1 \notin 1..at
      BY <2>4
    <3> DEFINE S == {i \in 1..at : Writers(nodes[n].inputs[i]) # {}}
               T == {i \in 1..(at + 1) : Writers(nodes[n].inputs[i]) # {}}
    <3>3. WrittenEntries(n) = S
      BY <3>1 DEF WrittenEntries
    <3>4. WrittenEntries(n)' = T
      BY <3>1, <2>1, <2>5 DEF WrittenEntries
    <3>5. IsFiniteSet(S) /\ at + 1 \notin S /\ Cardinality(S) = Len(dependencies[n])
      <4>1. S \subseteq 1..at
        OBVIOUS
      <4> QED
        BY <4>1, <2>4, <2>6, <3>2, <3>3, PositionsFinite
    <3>6. CASE Writers(f) # {}
      <4>1. PICK o \in Tasks : o = FileOwner(f)
        BY <3>6, OwnerIsTask
      <4>2. dependencies' = [dependencies EXCEPT ![n] = Append(@, o)]
        BY <1>1, <2>2, <2>3, <3>6, <4>1 DEF BuildDependency, AddDependency
      <4>3. Len(dependencies'[n]) = Len(dependencies[n]) + 1
        BY <4>2, <2>6
      <4>4. T = S \cup {at + 1}
        BY <2>4, <3>2, <3>6
      <4> HIDE DEF S, T
      <4>5. Cardinality(T) = Cardinality(S) + 1
        BY <3>5, <4>4, FS_AddElement
      <4> QED
        BY <3>4, <3>5, <4>3, <4>5
    <3>7. CASE Writers(f) = {}
      <4>1. dependencies' = dependencies
        BY <1>1, <2>3, <3>7 DEF BuildDependency
      <4>2. T = S
        BY <2>4, <3>2, <3>7
      <4> QED
        BY <3>4, <3>5, <4>1, <4>2
    <3> QED
      BY <3>6, <3>7
  <2> QED
    BY <2>7, <2>8 DEF CountsInv
<1>2. CASE ~BuildDependency /\ TablesBegun
  <2>1. /\ UNCHANGED <<nodes, dependencies>>
        /\ \A t \in Tasks : EntriesRead(t)' = EntriesRead(t)
    BY <1>0, <1>2, OtherStepsKeepTables DEF TablesBegun
  <2>2. \A t \in Tasks : WrittenEntries(t)' = WrittenEntries(t)
    BY <2>1 DEF WrittenEntries, Writers
  <2> QED
    BY <1>0, <1>2, <2>1, <2>2 DEF CountsInv
<1>3. CASE ~BuildDependency /\ ~TablesBegun
  <2>1. \A t \in Tasks : EntriesRead(t)' = 0
    BY <1>0, <1>3, OtherStepsKeepTables DEF EntriesRead, TablesBegun
  <2>2. \A t \in Tasks : WrittenEntries(t)' = {}
    BY <2>1 DEF WrittenEntries
  <2>3. ASSUME NEW t \in Tasks PROVE Len(dependencies'[t]) = 0
    <3>1. dependencies'[t] \in Seq(Tasks) /\ transfers'[t] \in Nat
      BY DEF LoaderTypeOK
    <3>2. Len(dependencies'[t]) + transfers'[t] = 0
      BY <2>1 DEF TablesInv
    <3> QED
      BY <3>1, <3>2
  <2> QED
    BY <2>2, <2>3, FS_EmptySet DEF CountsInv
<1> QED
  BY <1>1, <1>2, <1>3

LEMMA LoaderInitInv == LoaderInit => LoaderInv
<1> SUFFICES ASSUME LoaderInit PROVE LoaderInv
  OBVIOUS
<1>1. ~TablesBegun /\ DOMAIN author = {}
  BY DEF LoaderInit, TablesBegun
<1>2. FilesInv /\ CountsInv
  BY <1>1 DEF FilesInv, CountsInv
<1> QED
  BY <1>2, LoaderInitTypes, LoaderInitRegistry, LoaderInitTables DEF LoaderInv

LEMMA LoaderNextInv == LoaderInv /\ [LoaderNext]_loaderVars => LoaderInv'
<1> SUFFICES ASSUME LoaderInv, [LoaderNext]_loaderVars PROVE LoaderInv'
  OBVIOUS
<1>1. LoaderTypeOK /\ WalkInv /\ RegistryOK /\ TablesInv
  BY DEF LoaderInv
<1>2. LoaderTypeOK'
  BY <1>1, LoaderNextTypes
<1>3. WalkInv'
  BY <1>1, <1>2, LoaderNextWalk
<1>4. RegistryOK'
  BY <1>1, LoaderNextRegistry
<1>5. TablesInv'
  BY <1>1, <1>2, LoaderNextTables
<1>6. FilesInv'
  BY <1>2, <1>4, LoaderNextFiles
<1>7. CountsInv'
  BY <1>2, <1>5, LoaderNextCounts
<1> QED
  BY <1>2, <1>3, <1>4, <1>5, <1>6, <1>7 DEF LoaderInv

\* What the tables come to when all entries have been read.
LEMMA TablesComplete ==
    ASSUME LoaderInv, phase = "loaded"
    PROVE  /\ DependenciesMirrored
           /\ \A t \in Tasks : Len(dependencies[t]) + transfers[t] = Entries(t)
BY DEF LoaderInv, TablesInv, EntriesRead, Entries, DependenciesMirrored

LEMMA DeliveriesAreWritten ==
    ASSUME LoaderInv, phase = "loaded", NEW t \in Tasks
    PROVE  DeliveriesTo(t) = {nodes[t].inputs[i] : i \in WrittenEntries(t)}
<1>1. TablesBegun /\ LoaderTypeOK /\ RegistryOK /\ FilesInv /\ EntriesRead(t) = Entries(t)
  BY DEF LoaderInv, TablesBegun, EntriesRead
<1>2. \A i \in 1..Entries(t) : nodes[t].inputs[i] \in DOMAIN author
  BY <1>1, EntryIsRegistered
<1>3. \A f \in DOMAIN author : /\ t \in receivers[f] <=> f \in ReadBy(t)
                               /\ author[f] # NoAuthor <=> receivers[f] # {} /\ Writers(f) # {}
  BY <1>1 DEF FilesInv
<1>4. \A f : f \in DeliveriesTo(t) <=> f \in ReadBy(t) /\ Writers(f) # {}
  BY <1>1, <1>2, <1>3 DEF DeliveriesTo, ReadBy
<1> QED
  BY <1>4 DEF ReadBy, WrittenEntries

LEMMA FedCount ==
    ASSUME LoaderInv, phase = "loaded", NEW t \in Tasks
    PROVE  transfers[t] + Cardinality(DeliveriesTo(t)) = Len(nodes[t].inputs) <=>
               \A f \in DeliveriesTo(t) : Occurrences(nodes[t].inputs, f) = 1
<1> DEFINE in == nodes[t].inputs
           E == Entries(t)
           W == WrittenEntries(t)
           D == DeliveriesTo(t)
           m == [i \in W |-> in[i]]
<1>1. E \in Nat /\ DOMAIN in = 1..E /\ E = Len(in)
  BY EntriesAreNatural DEF LoaderInv, Entries
<1>2. W \subseteq 1..E /\ \A i \in 1..E : i \in W <=> Writers(in[i]) # {}
  BY DEF WrittenEntries, EntriesRead
<1>3. D = {in[i] : i \in W}
  BY DeliveriesAreWritten
<1>4. Cardinality(W) + transfers[t] = E /\ transfers[t] \in Nat
  BY TablesComplete DEF LoaderInv, CountsInv, TablesBegun, LoaderTypeOK
<1> HIDE DEF W, D, E, in
<1>5. IsFiniteSet(W) /\ Cardinality(W) \in Nat
  BY <1>1, <1>2, PositionsFinite
<1>6. m \in Surjection(W, D)
  BY <1>3 DEF Surjection
<1>7. IsFiniteSet(D) /\ (Cardinality(D) = Cardinality(W) <=> m \in Injection(W, D))
  BY <1>5, <1>6, FS_Surjection
<1>8. Cardinality(D) \in Nat
  BY <1>7, FS_CardinalityType
<1>9. transfers[t] + Cardinality(D) = E <=> Cardinality(D) = Cardinality(W)
  BY <1>4, <1>5, <1>8
<1>10. m \in Injection(W, D) <=> \A i, j \in W : in[i] = in[j] => i = j
  <2>1. m \in [W -> D]
    BY <1>3
  <2> QED
    BY <2>1 DEF Injection, IsInjective
<1>11. ASSUME NEW f \in D
       PROVE  Occurrences(in, f) = 1 <=> \A i, j \in W : in[i] = f /\ in[j] = f => i = j
  <2> DEFINE S == {i \in DOMAIN in : in[i] = f}
  <2>1. S \subseteq W /\ S \subseteq 1..E /\ S # {} /\ \A i \in W : in[i] = f => i \in S
    BY <1>1, <1>2, <1>3
  <2>2. \A i \in S : in[i] = f
    OBVIOUS
  <2>3. Occurrences(in, f) = Cardinality(S)
    BY DEF Occurrences
  <2> HIDE DEF S
  <2>4. IsFiniteSet(S)
    BY <1>1, <2>1, PositionsFinite
  <2>5. Cardinality(S) = 1 <=> \E x : S = {x}
    BY <2>4, FS_Singleton
  <2>6. (\E x : S = {x}) <=> \A i, j \in W : in[i] = f /\ in[j] = f => i = j
    <3>1. ASSUME NEW x, S = {x}
          PROVE  \A i, j \in W : in[i] = f /\ in[j] = f => i = j
      BY <3>1, <2>1
    <3>2. ASSUME \A i, j \in W : in[i] = f /\ in[j] = f => i = j
          PROVE  \E x : S = {x}
      <4>1. PICK x : x \in S
        BY <2>1
      <4>2. S = {x}
        BY <3>2, <4>1, <2>1, <2>2
      <4> QED
        BY <4>2
    <3> QED
      BY <3>1, <3>2
  <2> QED
    BY <2>3, <2>5, <2>6
<1>12. (\A i, j \in W : in[i] = in[j] => i = j) <=> \A f \in D : Occurrences(in, f) = 1
  BY <1>3, <1>11
<1>13. transfers[t] + Cardinality(D) = E <=> \A f \in D : Occurrences(in, f) = 1
  BY <1>7, <1>9, <1>10, <1>12
<1> QED
  BY <1>1, <1>13 DEF D, in

\* A list of as many different tasks as there are holds them all.
LEMMA FullList ==
    ASSUME NEW s \in Seq(Tasks), Distinct(s), Len(s) = Size
    PROVE  Elements(s) = Tasks
<1>1. DOMAIN s = 1..Size /\ Size \in Nat /\ s \in [1..Size -> Tasks]
  BY OrderAssumption
<1>2. s \in Injection(1..Size, Tasks)
  BY <1>1 DEF Distinct, Injection, IsInjective
<1>3. IsFiniteSet(1..Size) /\ Cardinality(1..Size) = Size
  BY <1>1, FS_Interval
<1>4. IsFiniteSet(Tasks) /\ Cardinality(Tasks) = Size
  <2>1. 0 \in Int /\ Size - 1 \in Int
    BY OrderAssumption
  <2>2. /\ IsFiniteSet(0..(Size - 1))
        /\ Cardinality(0..(Size - 1)) = IF 0 > Size - 1 THEN 0 ELSE (Size - 1) - 0 + 1
    BY <2>1, FS_Interval
  <2> QED
    BY <2>2, OrderAssumption DEF Tasks
<1>5. s \in Surjection(1..Size, Tasks)
  BY <1>2, <1>3, <1>4, FS_Injection
<1> QED
  BY <1>1, <1>5 DEF Surjection, Elements

\* The two tables of one dependency.
LEMMA SuccessorIffDependency ==
    ASSUME LoaderInv, phase = "loaded", NEW t \in Tasks, NEW d \in Tasks
    PROVE  t \in SuccessorsOf(succ, d) <=> d \in ToSet(dependencies[t])
<1>1. Occurrences(succ[d], t) = Occurrences(dependencies[t], d)
  BY TablesComplete DEF DependenciesMirrored
<1>2. IsFiniteSet(DOMAIN succ[d]) /\ IsFiniteSet(DOMAIN dependencies[t])
  <2>1. succ[d] \in Seq(Tasks) /\ dependencies[t] \in Seq(Tasks)
    BY DEF LoaderInv, LoaderTypeOK
  <2>2. /\ DOMAIN succ[d] = 1..Len(succ[d]) /\ Len(succ[d]) \in Nat
        /\ DOMAIN dependencies[t] = 1..Len(dependencies[t]) /\ Len(dependencies[t]) \in Nat
    BY <2>1
  <2> QED
    BY <2>2, FS_Interval
<1>3. t \in Elements(succ[d]) <=> d \in Elements(dependencies[t])
  BY <1>1, <1>2, OccursIffElement
<1> QED
  BY <1>3 DEF Elements, SuccessorsOf, ToSet

\* At its end the search has taken exactly what can be reached.
LEMMA IncludedIfReachable ==
    ASSUME LoaderInv, done \/ NotAllIncluded
    PROVE  done <=> AllReachable
<1>1. phase = "loaded" /\ OrderInv
  <2>1. Fresh => ~done /\ ~NotAllIncluded
    BY DEF Fresh, NotAllIncluded
  <2> QED
    BY <2>1 DEF LoaderInv, WalkInv
<1>2. order \in Seq(Tasks) /\ Distinct(order) /\ used \subseteq Tasks
  BY <1>1 DEF OrderInv, OrderTypeOK
<1>3. ASSUME done PROVE AllReachable
  <2>1. used = Tasks
    BY <1>1, <1>2, <1>3, FullList DEF OrderInv
  <2> QED
    BY <1>1, <2>1 DEF OrderInv, UsedReachable, AllReachable
<1>4. ASSUME NotAllIncluded, AllReachable PROVE FALSE
  <2>1. ~done /\ Building /\ stack = <<>> /\ next = Size /\ Len(order) # Size
    BY <1>1, <1>4 DEF NotAllIncluded, OrderInv
  <2>2. used = Elements(order)
    BY <2>1 DEF Building, Elements
  <2>3. \A t \in Tasks : t < next
    BY <2>1, OrderAssumption DEF Tasks
  <2>4. Closed(used)
    BY <2>1, <2>2, <2>3 DEF Closed, Building, RootsTaken, ReturnedComplete
  <2>5. Elements(order) = Tasks
    BY <1>2, <1>4, <2>2, <2>4 DEF AllReachable
  <2> QED
    BY <1>2, <2>1, <2>5, ListOfAll
<1> QED
  BY <1>3, <1>4 DEF NotAllIncluded

\* Every task comes after all its dependencies.
OrderIsConsistent ==
    \A i \in DOMAIN order : \A d \in ToSet(dependencies[order[i]]) :
        \E j \in 1..(i - 1) : order[j] = d

\* A dependency that comes later, or is the task itself, is found by the two
\* schedulers whose end times are unknown at first.
LEMMA CaughtIfCyclic ==
    ASSUME LoaderInv, done, NEW scheduler \in {"mao", "genetic"}
    PROVE  AcceptsOrder(scheduler) <=> Acyclic(succ)
<1>1. phase = "loaded" /\ OrderInv
  BY DEF LoaderInv, WalkInv, Fresh
<1>2. order \in Seq(Tasks) /\ Distinct(order) /\ Len(order) = Size /\ DependenciesFirst
  BY <1>1 DEF OrderInv, OrderTypeOK
<1>3. DOMAIN order = 1..Len(order) /\ Len(order) \in Nat /\ \A i \in DOMAIN order : order[i] \in Tasks
  BY <1>2
<1>4. AcceptsOrder(scheduler) <=> OrderIsConsistent
  <2>1. ASSUME NEW i \in DOMAIN order
        PROVE  ToSet(SubSeq(order, 1, i - 1)) = {order[j] : j \in 1..(i - 1)}
    <3>1. i - 1 \in 0..Len(order) /\ \A j \in 1..(i - 1) : j \in 1..Len(order)
      BY <1>3
    <3> DEFINE s == SubSeq(order, 1, i - 1)
    <3>2. Len(s) = i - 1 /\ DOMAIN s = 1..(i - 1)
      BY <1>2, <3>1
    <3>3. \A j \in 1..(i - 1) : s[j] = order[j]
      BY <1>2, <3>1
    <3> HIDE DEF s
    <3>4. ToSet(s) = {order[j] : j \in 1..(i - 1)}
      BY <3>2, <3>3 DEF ToSet
    <3> QED
      BY <3>4 DEF s
  <2>2. InitialEndTime(scheduler) = Unknown
    BY DEF InitialEndTime
  <2> QED
    BY <2>1, <2>2 DEF AcceptsOrder, EndTimeKnown, OrderIsConsistent
<1>5. ASSUME Acyclic(succ) PROVE OrderIsConsistent
  <2>2. Elements(order) = Tasks
    BY <1>2, FullList
  <2>3. ASSUME NEW i \in DOMAIN order, NEW d \in ToSet(dependencies[order[i]])
        PROVE  \E j \in 1..(i - 1) : order[j] = d
    <3>1. d \in Tasks
      <4>1. dependencies[order[i]] \in Seq(Tasks)
        BY <1>3 DEF LoaderInv, LoaderTypeOK
      <4> QED
        BY <4>1 DEF ToSet
    <3>2. PICK j \in DOMAIN order : order[j] = d
      BY <2>2, <3>1 DEF Elements
    <3>3. order[i] \in SuccessorsOf(succ, order[j])
      BY <1>1, <1>3, <3>1, <3>2, <2>3, SuccessorIffDependency
    <3>4. j < i
      BY <1>2, <1>5, <3>3 DEF DependenciesFirst
    <3> QED
      BY <1>3, <3>2, <3>4
  <2> QED
    BY <2>3 DEF OrderIsConsistent
<1>6. ASSUME OrderIsConsistent PROVE Acyclic(succ)
  <2>1. Elements(order) = Tasks /\ DOMAIN order = 1..Size /\ Size \in Nat
    BY <1>2, <1>3, FullList, OrderAssumption
  <2> DEFINE place(t) == CHOOSE i \in DOMAIN order : order[i] = t
             rank == [t \in Tasks |-> place(t) - 1]
  <2>2. \A t \in Tasks : place(t) \in DOMAIN order /\ order[place(t)] = t
    BY <2>1 DEF Elements
  <2> HIDE DEF place
  <2>3. rank \in [Tasks -> Tasks]
    <3>1. \A t \in Tasks : place(t) - 1 \in Tasks
      BY <2>1, <2>2 DEF Tasks
    <3> QED
      BY <3>1
  <2>4. ASSUME NEW t \in Tasks, NEW u \in SuccessorsOf(succ, t)
        PROVE  rank[t] < rank[u]
    <3>1. u \in Tasks
      <4>1. succ[t] \in Seq(Tasks)
        BY DEF LoaderInv, LoaderTypeOK
      <4> QED
        BY <4>1 DEF SuccessorsOf
    <3>2. t \in ToSet(dependencies[u])
      BY <1>1, <3>1, SuccessorIffDependency
    <3>3. place(u) \in DOMAIN order /\ order[place(u)] = u
      BY <2>2, <3>1
    <3>4. PICK j \in 1..(place(u) - 1) : order[j] = t
      BY <1>6, <3>2, <3>3 DEF OrderIsConsistent
    <3>5. place(u) \in Nat /\ place(u) <= Size /\ j \in DOMAIN order /\ j < place(u)
      BY <2>1, <3>3
    <3>6. place(t) \in DOMAIN order /\ order[place(t)] = order[j]
      BY <2>2, <3>4
    <3>7. place(t) = j
      BY <1>2, <3>5, <3>6 DEF Distinct
    <3> QED
      BY <3>1, <3>5, <3>7
  <2> HIDE DEF rank
  <2> QED
    BY <2>3, <2>4 DEF Acyclic, Rising
<1> QED
  BY <1>4, <1>5, <1>6

-----------------------------------------------------------------------------
(* Theorems about every document.                                           *)

LEMMA LoaderSafe ==
    LoaderInv => /\ IdsStayValid /\ DependenciesMirrored /\ FedIffReadOnce
                 /\ EveryTaskOnce /\ DependenciesFirst /\ CyclesCaught
<1> SUFFICES ASSUME LoaderInv
             PROVE  /\ IdsStayValid /\ DependenciesMirrored /\ FedIffReadOnce
                    /\ EveryTaskOnce /\ DependenciesFirst /\ CyclesCaught
  OBVIOUS
<1>1. IdsStayValid
  BY DEF LoaderInv, RegistryOK
<1>2. DependenciesMirrored
  BY TablesComplete DEF DependenciesMirrored
<1>3. FedIffReadOnce
  BY FedCount DEF FedIffReadOnce
<1>4. EveryTaskOnce /\ DependenciesFirst
  <2>1. OrderInv
    BY FreshOrder DEF LoaderInv, WalkInv, LoaderTypeOK
  <2> QED
    BY <2>1, NoneLeftOut DEF OrderInv
<1>5. CyclesCaught
  <2> SUFFICES ASSUME done \/ NotAllIncluded
               PROVE  /\ \A scheduler \in {"mao", "genetic"} :
                             AcceptsOrder(scheduler) <=> Acyclic(succ)
                      /\ AcceptsOrder("baseline") <=> AllReachable
    BY DEF CyclesCaught
  <2>1. AcceptsOrder("baseline") <=> done
    BY DEF AcceptsOrder, EndTimeKnown, InitialEndTime, Unknown
  <2>2. CASE done
    BY <2>1, <2>2, CaughtIfCyclic, IncludedIfReachable
  <2>3. CASE ~done
    BY <2>1, <2>3, <1>4, IncludedIfReachable DEF EveryTaskOnce, AcceptsOrder
  <2> QED
    BY <2>2, <2>3
<1> QED
  BY <1>1, <1>2, <1>3, <1>4, <1>5

LEMMA LoaderAlways == LoaderSpec => []LoaderInv
BY LoaderInitInv, LoaderNextInv, PTL DEF LoaderSpec

(***************************************************************************)
(* For every document, an id that TryAddFile returned keeps meaning the    *)
(* file it was returned for, in Inputs and in every task, however often a  *)
(* name is described and wherever the constructor is.                      *)
(***************************************************************************)
THEOREM LoaderIdsStayValid == LoaderSpec => []IdsStayValid
BY LoaderAlways, LoaderSafe, PTL

(***************************************************************************)
(* BuildDependencies leaves tables that agree: a successor for each        *)
(* dependency, and a dependency or a counted transfer for each input.      *)
(***************************************************************************)
THEOREM LoaderDependenciesMirrored == LoaderSpec => []DependenciesMirrored
BY LoaderAlways, LoaderSafe, PTL

(***************************************************************************)
(* The number IsReady waits for can be reached by exactly the tasks that   *)
(* list no file of another task twice, whoever wrote the workflow file.    *)
(***************************************************************************)
THEOREM LoaderFedIffReadOnce == LoaderSpec => []FedIffReadOnce
BY LoaderAlways, LoaderSafe, PTL

(***************************************************************************)
(* Of every document whose order is asked for, Mao and the genetic         *)
(* scheduler accept exactly the ones without a cycle; the baseline accepts *)
(* those in which every task can be reached from one without dependencies, *)
(* cyclic ones among them.                                                 *)
(***************************************************************************)
THEOREM LoaderCyclesCaught == LoaderSpec => []CyclesCaught
BY LoaderAlways, LoaderSafe, PTL

(***************************************************************************)
(* MakeTasksOrder over the tables that were built, cyclic ones included:   *)
(* without a cycle every task is in the order once, after all it depends   *)
(* on.                                                                     *)
(***************************************************************************)
THEOREM LoaderOrder == LoaderSpec => [](EveryTaskOnce /\ DependenciesFirst)
BY LoaderAlways, LoaderSafe, PTL
=============================================================================
