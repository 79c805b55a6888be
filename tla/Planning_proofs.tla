--------------------------- MODULE Planning_proofs ---------------------------
(***************************************************************************)
(* Theorems about the Mao scheduler, and about the way from the machine     *)
(* list to the run.  For every workflow and every list of machine types the *)
(* Mao scheduler's price differences are never negative, no task is given   *)
(* two deadlines, and every task with a neighbour is given one; and         *)
(* whatever either scheduler chooses, the plan meets the deadline by the    *)
(* times of its queues, the platform the program generates has room for it, *)
(* every task is assigned, and every machine runs at the speed it was       *)
(* planned with.                                                            *)
(***************************************************************************)
EXTENDS Planning, BaselineScheduler_proofs, SequenceTheorems

(* ------------------------------ choices -------------------------------- *)

LEMMA MaoTypes ==
    /\ Size \in Nat \ {0} /\ Tasks = 0..(Size - 1)
    /\ VMTypes \in Nat \ {0} /\ Types = 0..(VMTypes - 1)
    /\ \A t \in Tasks : Dependencies[t] \subseteq Tasks
    /\ Dependencies \in [Tasks -> SUBSET Tasks]
    /\ \A i \in Tasks : Order[i] \in Tasks
    /\ \A x \in Types : Price(x) \in Nat /\ VMList[x].flops \in Nat
BY ViewAssumption DEF Tasks, Types, Price, Strings

LEMMA CheapestIsCheapest ==
    ASSUME NEW t \in Tasks
    PROVE  /\ CheapestVM(t) \in RunnableVMs(t)
           /\ \A y \in RunnableVMs(t) : Price(CheapestVM(t)) <= Price(y)
<1> DEFINE S == RunnableVMs(t)
           f == [x \in Types |-> Price(x)]
<1>0. Types \subseteq Nat
  BY MaoTypes
<1>1. S \subseteq Types /\ S \subseteq Nat /\ S # {}
  BY <1>0, ViewAssumption DEF RunnableVMs
<1>2. \A x \in S : f[x] \in Nat /\ f[x] = Price(x)
  BY <1>1, MaoTypes
<1> HIDE DEF S, f
<1>3. \E x \in S : \A y \in S : f[x] <= f[y] /\ (y < x => f[x] < f[y])
  BY <1>1, <1>2, FirstLeast
<1>4. \E x \in S : \A y \in S : Price(x) <= Price(y) /\ (y < x => Price(x) < Price(y))
  BY <1>2, <1>3
<1> QED BY <1>4 DEF CheapestVM, S

LEMMA NewIsFaster ==
    ASSUME NEW t \in Tasks, NEW machines, FasterVMs(t, machines) # {}
    PROVE  /\ NewVM(t, machines) \in FasterVMs(t, machines)
           /\ \A y \in FasterVMs(t, machines) : Price(NewVM(t, machines)) <= Price(y)
<1> DEFINE S == FasterVMs(t, machines)
           f == [x \in Types |-> Price(x)]
           n == VMTypes - 1
<1>1. S \subseteq Types /\ S \subseteq 0..n /\ S # {} /\ n \in Nat
  BY MaoTypes DEF FasterVMs, RunnableVMs
<1>2. \A x \in S : f[x] \in Nat /\ f[x] = Price(x)
  BY <1>1, MaoTypes
<1> HIDE DEF S, f, n
<1>3. \E x \in S : \A y \in S : f[x] <= f[y] /\ (y > x => f[x] < f[y])
  BY <1>1, <1>2, LastLeast
<1>4. \E x \in S : \A y \in S : Price(x) <= Price(y) /\ (y > x => Price(x) < Price(y))
  BY <1>2, <1>3
<1> QED BY <1>4 DEF NewVM, S

(* --------------------------- the invariant ------------------------------ *)

\* Each machine can run its task, and what is faster than it costs no less.
MachinesWorth ==
    maoPhase # "cheapest" =>
        \A t \in Tasks : /\ taskVM[t] \in RunnableVMs(t)
                         /\ \A type \in FasterVMs(t, taskVM) : Price(taskVM[t]) <= Price(type)

\* On a path only the last task may have a deadline.
PathFresh ==
    /\ maoPhase = "path" =>
         path # <<>> /\ \A i \in 1..(Len(path) - 1) : path[i] \notin withDeadline
    /\ maoPhase # "path" => path = <<>>

Given == withDeadline \cup ToSet(path)

\* A dependency taken off a list of parents is on the path or done with,
\* together with the task whose list it was on.
ParentsGiven ==
    /\ \A t \in Tasks : parents[t] \subseteq Dependencies[t]
    /\ \A t \in Tasks : \A p \in Dependencies[t] \ parents[t] : t \in Given /\ p \in Given
    /\ \A t \in Tasks \ endTasks : t # endTask => parents[t] = {}

MaoInv ==
    /\ MaoTypeOK /\ MachinesWorth /\ PathFresh /\ ParentsGiven
    /\ DeadlinesOnce /\ DeadlinesForConnected

LEMMA MaoInit_Inv == MaoInit => MaoInv
<1> SUFFICES ASSUME MaoInit PROVE MaoInv
  OBVIOUS
<1> USE DEF MaoInit
<1>1. MaoTypeOK
  BY MaoTypes, 0 \in Types DEF MaoTypeOK, MaoPhases, NoTask
<1>2. Given = {}
  BY DEF Given, ToSet
<1>3. MachinesWorth /\ PathFresh /\ ParentsGiven /\ DeadlinesOnce /\ DeadlinesForConnected
  BY <1>2, MaoTypes DEF MachinesWorth, PathFresh, ParentsGiven, DeadlinesOnce, DeadlinesForConnected
<1> QED BY <1>1, <1>3 DEF MaoInv

(* ------------------------------ machines -------------------------------- *)

LEMMA CheapestWorth ==
    ASSUME MaoInv, GetCheapestVMs
    PROVE  taskVM' \in [Tasks -> Types] /\ MachinesWorth'
<1>1. \A t \in Tasks : taskVM'[t] = CheapestVM(t)
  BY DEF GetCheapestVMs
<1>2. \A t \in Tasks : taskVM'[t] \in RunnableVMs(t)
  BY <1>1, CheapestIsCheapest
<1>3. \A t \in Tasks : \A y \in RunnableVMs(t) : Price(taskVM'[t]) <= Price(y)
  BY <1>1, CheapestIsCheapest
<1>4. \A t \in Tasks : FasterVMs(t, taskVM') \subseteq RunnableVMs(t)
  BY DEF FasterVMs
<1>5. taskVM' \in [Tasks -> Types]
  BY <1>2 DEF GetCheapestVMs, RunnableVMs
<1> QED BY <1>2, <1>3, <1>4, <1>5 DEF MachinesWorth

LEMMA ReducedWorth ==
    ASSUME MaoInv, ReduceMakespan
    PROVE  taskVM' \in [Tasks -> Types] /\ MachinesWorth'
<1>1. maoPhase = "reduce" /\ taskVM \in [Tasks -> Types] /\ MachinesWorth
  BY DEF MaoInv, MaoTypeOK, ReduceMakespan
<1>2. CASE taskVM' = taskVM
  BY <1>1, <1>2 DEF MachinesWorth
<1>3. CASE taskVM' # taskVM
  <2>1. PICK s \in Candidates(taskVM) : taskVM' = SpedUp(Order[s.at], taskVM)
    BY <1>3 DEF ReduceMakespan
  <2>2. PICK i \in Tasks : FasterVMs(Order[i], taskVM) # {} /\ s = Speedup(i, taskVM)
    BY DEF Candidates
  <2>3. s.at = i
    BY <2>2 DEF Speedup
  <2> DEFINE u == Order[i]
             new == NewVM(u, taskVM)
  <2>4. u \in Tasks /\ taskVM' = [taskVM EXCEPT ![u] = new]
    BY <2>1, <2>3, MaoTypes DEF SpedUp
  <2>5. new \in FasterVMs(u, taskVM) /\ \A y \in FasterVMs(u, taskVM) : Price(new) <= Price(y)
    BY <2>2, <2>4, NewIsFaster
  <2>6. new \in RunnableVMs(u) /\ new \in Types /\ Faster(new, taskVM[u])
    BY <2>5 DEF FasterVMs, RunnableVMs
  <2> HIDE DEF u, new
  <2>7. taskVM' \in [Tasks -> Types]
    BY <1>1, <2>4, <2>6
  <2>8. ASSUME NEW t \in Tasks
        PROVE  /\ taskVM'[t] \in RunnableVMs(t)
               /\ \A type \in FasterVMs(t, taskVM') : Price(taskVM'[t]) <= Price(type)
    <3>1. CASE t = u
      <4>1. taskVM'[t] = new
        BY <1>1, <2>4, <3>1
      <4>2. \A type \in FasterVMs(t, taskVM') : type \in FasterVMs(u, taskVM)
        <5> SUFFICES ASSUME NEW type \in FasterVMs(t, taskVM')
                     PROVE  type \in RunnableVMs(u) /\ Faster(type, taskVM[u])
          BY DEF FasterVMs
        <5>1. type \in RunnableVMs(u) /\ type \in Types /\ Faster(type, new)
          BY <3>1, <4>1 DEF FasterVMs, RunnableVMs
        <5>2. taskVM[u] \in Types
          BY <1>1, <2>4
        <5> QED BY <5>1, <5>2, <2>6, MaoTypes DEF Faster
      <4> QED BY <2>5, <2>6, <3>1, <4>1, <4>2
    <3>2. CASE t # u
      <4>1. taskVM'[t] = taskVM[t]
        BY <1>1, <2>4, <3>2
      <4>2. FasterVMs(t, taskVM') = FasterVMs(t, taskVM)
        BY <4>1 DEF FasterVMs
      <4> QED BY <1>1, <4>1, <4>2 DEF MachinesWorth
    <3> QED BY <3>1, <3>2
  <2> QED BY <2>7, <2>8 DEF MachinesWorth
<1> QED BY <1>2, <1>3

(* ------------------------------ deadlines ------------------------------- *)

\* What is taken off a list of parents joins the path with the task.
LEMMA PathGrows ==
    ASSUME MaoInv, NEW t \in Tasks, NEW p \in parents[t],
           parents' = [parents EXCEPT ![t] = @ \ {p}],
           withDeadline' = withDeadline, endTasks' = endTasks, endTask' = endTask,
           Given' = Given \cup {t, p}
    PROVE  ParentsGiven'
<1> USE DEF MaoInv, MaoTypeOK, ParentsGiven
<1>1. p \in Dependencies[t] /\ p \in Tasks /\ parents \in [Tasks -> SUBSET Tasks]
  BY MaoTypes
<1>3. \A u \in Tasks : parents'[u] = IF u = t THEN parents[u] \ {p} ELSE parents[u]
  BY <1>1
<1>4. \A u \in Tasks : parents'[u] \subseteq Dependencies[u]
  BY <1>3
<1>5. \A u \in Tasks : \A q \in Dependencies[u] \ parents'[u] : u \in Given' /\ q \in Given'
  BY <1>3
<1>6. \A u \in Tasks \ endTasks' : u # endTask' => parents'[u] = {}
  BY <1>3
<1> QED BY <1>4, <1>5, <1>6

LEMMA StartPathStep ==
    ASSUME MaoInv, StartPath
    PROVE  MaoInv'
<1>1. PICK p \in Latest(parents[endTask]) :
         /\ parents' = [parents EXCEPT ![endTask] = @ \ {p}]
         /\ path' = (IF endTask \in withDeadline THEN <<>> ELSE <<endTask>>) \o <<p>>
  BY DEF StartPath
<1>2. endTask \in Tasks /\ p \in parents[endTask] /\ p \in Tasks
  BY DEF MaoInv, MaoTypeOK, StartPath, HasParents, Latest
<1>3. /\ path' \in Seq(Tasks) /\ path' # <<>>
      /\ Given' = Given \cup {endTask, p}
      /\ \A i \in 1..(Len(path') - 1) : path'[i] \notin withDeadline
  <2>0. path = <<>> /\ withDeadline' = withDeadline
    BY DEF MaoInv, PathFresh, StartPath
  <2>1. CASE endTask \in withDeadline
    <3>1. path' = <<p>>
      BY <1>1, <2>1
    <3>2. ToSet(path') = {p} /\ ToSet(path) = {}
      BY <2>0, <3>1 DEF ToSet
    <3> QED BY <1>2, <2>0, <2>1, <3>1, <3>2 DEF Given
  <2>2. CASE endTask \notin withDeadline
    <3>0. path' = <<endTask>> \o <<p>>
      BY <1>1, <2>2
    <3>1. /\ path' \in Seq(Tasks) /\ DOMAIN path' = 1..2 /\ Len(path') = 2
          /\ path'[1] = endTask /\ path'[2] = p
      BY <1>2, <3>0
    <3>2. ToSet(path') = {endTask, p} /\ ToSet(path) = {}
      BY <2>0, <3>1 DEF ToSet
    <3> QED BY <1>2, <2>0, <2>2, <3>1, <3>2 DEF Given
  <2> QED BY <2>1, <2>2
<1>4. /\ maoPhase' = "path" /\ taskVM' = taskVM /\ withDeadline' = withDeadline
      /\ endTasks' = endTasks /\ endTask' = endTask /\ maoPhase = "deadlines"
  BY DEF StartPath
<1>5. ParentsGiven'
  BY <1>1, <1>2, <1>3, <1>4, PathGrows
<1>6. MaoTypeOK'
  BY <1>1, <1>2, <1>3, <1>4 DEF MaoInv, MaoTypeOK, MaoPhases
<1>7. PathFresh' /\ DeadlinesOnce' /\ DeadlinesForConnected'
  BY <1>3, <1>4 DEF PathFresh, DeadlinesOnce, DeadlinesForConnected
<1>8. MachinesWorth'
  BY <1>4 DEF MaoInv, MachinesWorth
<1> QED BY <1>5, <1>6, <1>7, <1>8 DEF MaoInv

LEMMA FollowPathStep ==
    ASSUME MaoInv, FollowPath
    PROVE  MaoInv'
<1> DEFINE t == Last(path)
<1>1. PICK p \in Latest(parents[t]) :
         parents' = [parents EXCEPT ![t] = @ \ {p}] /\ path' = Append(path, p)
  BY DEF FollowPath
<1>2. path \in Seq(Tasks) /\ path # <<>> /\ maoPhase = "path" /\ t \notin withDeadline
  BY DEF MaoInv, MaoTypeOK, PathFresh, FollowPath, PathGoesOn
<1>3. t \in Tasks /\ t \in ToSet(path) /\ t = path[Len(path)]
  BY <1>2 DEF Last, ToSet
<1>4. p \in parents[t] /\ p \in Tasks
  BY <1>3 DEF MaoInv, MaoTypeOK, Latest
<1> HIDE DEF t
<1>5. /\ maoPhase' = "path" /\ taskVM' = taskVM /\ withDeadline' = withDeadline
      /\ endTasks' = endTasks /\ endTask' = endTask
  BY <1>2 DEF FollowPath
<1>6. /\ path' \in Seq(Tasks) /\ path' # <<>> /\ Len(path') = Len(path) + 1
      /\ \A i \in 1..Len(path) : path'[i] = path[i]
      /\ path'[Len(path) + 1] = p
  BY <1>1, <1>2, <1>4
<1>7. ToSet(path') = ToSet(path) \cup {p}
  BY <1>2, <1>6 DEF ToSet
<1>8. Given' = Given \cup {t, p}
  BY <1>3, <1>5, <1>7 DEF Given
<1>9. ParentsGiven'
  BY <1>1, <1>3, <1>4, <1>5, <1>8, PathGrows
<1>10. \A i \in 1..(Len(path') - 1) : path'[i] \notin withDeadline'
  <2> SUFFICES ASSUME NEW i \in 1..(Len(path') - 1) PROVE path'[i] \notin withDeadline
    BY <1>5
  <2>1. i \in 1..Len(path) /\ Len(path) \in Nat
    BY <1>2, <1>6
  <2>2. \A j \in 1..(Len(path) - 1) : path[j] \notin withDeadline
    BY <1>2 DEF MaoInv, PathFresh
  <2>3. CASE i = Len(path)
    BY <1>2, <1>3, <1>6, <2>1, <2>3
  <2>4. CASE i \in 1..(Len(path) - 1)
    BY <1>6, <2>1, <2>2, <2>4
  <2> QED BY <2>1, <2>3, <2>4
<1>11. MaoTypeOK'
  BY <1>1, <1>3, <1>4, <1>5, <1>6 DEF MaoInv, MaoTypeOK, MaoPhases
<1>12. PathFresh' /\ DeadlinesOnce' /\ DeadlinesForConnected' /\ MachinesWorth'
  BY <1>5, <1>6, <1>10, <1>2
     DEF MaoInv, MachinesWorth, PathFresh, DeadlinesOnce, DeadlinesForConnected
<1> QED BY <1>9, <1>11, <1>12 DEF MaoInv

\* The tasks of a path that get a deadline have none.
LEMMA NewOnPathFresh ==
    ASSUME MaoInv, maoPhase = "path"
    PROVE  /\ NewOnPath \cap withDeadline = {}
           /\ NewOnPath \cup withDeadline = Given
           /\ NewOnPath \subseteq Tasks
<1>1. /\ path \in Seq(Tasks) /\ path # <<>> /\ Len(path) \in Nat \ {0}
      /\ \A i \in 1..(Len(path) - 1) : path[i] \notin withDeadline
  BY DEF MaoInv, MaoTypeOK, PathFresh
<1>2. DOMAIN path = 1..Len(path) /\ Last(path) = path[Len(path)]
  BY <1>1 DEF Last
<1>3. CASE Last(path) \in withDeadline
  <2>1. /\ Front(path) \in Seq(Tasks) /\ Len(Front(path)) = Len(path) - 1
        /\ \A i \in 1..(Len(path) - 1) : Front(path)[i] = path[i]
    <3> DEFINE n == Len(path) - 1
               front == SubSeq(path, 1, n)
    <3>1. n \in Nat /\ \A i \in 1..n : path[i] \in Tasks
      BY <1>1
    <3>2. /\ front \in Seq(Tasks) /\ Len(front) = IF 1 <= n THEN n - 1 + 1 ELSE 0
          /\ \A i \in 1..(n - 1 + 1) : front[i] = path[1 + i - 1]
      <4> HIDE DEF n
      <4> QED BY <3>1, SubSeqProperties
    <3>3. Front(path) = front
      BY DEF Front
    <3> HIDE DEF front, n
    <3>4. Len(front) = n /\ \A i \in 1..n : front[i] = path[i]
      BY <3>1, <3>2
    <3> QED BY <3>2, <3>3, <3>4 DEF n
  <2>2. NewOnPath = {path[i] : i \in 1..(Len(path) - 1)}
    BY <1>3, <2>1 DEF NewOnPath, ToSet
  <2>3. ToSet(path) = NewOnPath \cup {Last(path)}
    BY <1>1, <1>2, <2>2 DEF ToSet
  <2> QED BY <1>1, <1>3, <2>2, <2>3 DEF Given, ToSet
<1>4. CASE Last(path) \notin withDeadline
  <2>1. NewOnPath = ToSet(path)
    BY <1>4 DEF NewOnPath
  <2>2. \A i \in 1..Len(path) : path[i] \notin withDeadline
    BY <1>1, <1>2, <1>4
  <2> QED BY <1>1, <1>2, <2>1, <2>2 DEF Given, ToSet
<1> QED BY <1>3, <1>4

LEMMA SplitPathStep ==
    ASSUME MaoInv, SplitPath
    PROVE  MaoInv'
<1>1. NewOnPath \cap withDeadline = {} /\ NewOnPath \cup withDeadline = Given /\ NewOnPath \subseteq Tasks
  BY NewOnPathFresh DEF SplitPath
<1>2. /\ withDeadline' = Given /\ maoPhase' = "deadlines" /\ path' = <<>>
      /\ taskVM' = taskVM /\ parents' = parents /\ endTasks' = endTasks /\ endTask' = endTask
      /\ maoPhase = "path"
  BY <1>1 DEF SplitPath
<1>3. Given' = Given
  BY <1>2 DEF Given, ToSet
<1>4. ParentsGiven'
  BY <1>2, <1>3 DEF MaoInv, ParentsGiven
<1>5. MaoTypeOK'
  BY <1>1, <1>2 DEF MaoInv, MaoTypeOK, MaoPhases
<1>6. PathFresh' /\ DeadlinesOnce' /\ DeadlinesForConnected' /\ MachinesWorth'
  BY <1>2 DEF MaoInv, MachinesWorth, PathFresh, DeadlinesOnce, DeadlinesForConnected
<1> QED BY <1>4, <1>5, <1>6 DEF MaoInv

\* The end of the list is the end of all lists of parents.
LEMMA DeadlinesCalculatedStep ==
    ASSUME MaoInv, DeadlinesCalculated
    PROVE  MaoInv'
<1> USE DEF MaoInv
<1>1. /\ maoPhase = "deadlines" /\ maoPhase' = "planned" /\ UNCHANGED <<taskVM, pathVars>>
      /\ ~HasParents(endTask) /\ (withDeadline = Tasks \/ endTasks = {})
  BY DEF DeadlinesCalculated
<1>2. path = <<>> /\ Given = withDeadline /\ withDeadline \subseteq Tasks
  BY <1>1 DEF PathFresh, Given, ToSet, MaoTypeOK
<1>5. ASSUME endTasks = {} PROVE \A t \in Tasks : ~Isolated(t) => t \in withDeadline
  <2>1. \A t \in Tasks : parents[t] = {}
    <3>1. \A t \in Tasks : t # NoTask
      BY MaoTypes DEF NoTask
    <3> QED BY <1>1, <1>5, <3>1 DEF ParentsGiven, HasParents
  <2>2. \A t \in Tasks : \A p \in Dependencies[t] : t \in withDeadline /\ p \in withDeadline
    BY <1>2, <2>1 DEF ParentsGiven
  <2> QED BY <2>2 DEF Isolated
<1>6. \A t \in Tasks : ~Isolated(t) => t \in withDeadline
  BY <1>1, <1>5
<1>7. DeadlinesForConnected'
  BY <1>1, <1>6 DEF DeadlinesForConnected, pathVars
<1>8. MaoTypeOK' /\ PathFresh' /\ DeadlinesOnce' /\ MachinesWorth'
  BY <1>1, <1>2 DEF MaoTypeOK, MaoPhases, PathFresh, DeadlinesOnce, MachinesWorth, pathVars
<1>9. ParentsGiven'
  BY <1>1 DEF ParentsGiven, Given, pathVars
<1> QED BY <1>7, <1>8, <1>9

LEMMA NextEndTaskStep ==
    ASSUME MaoInv, NEW t \in Tasks, NextEndTask(t)
    PROVE  MaoInv'
<1> USE DEF MaoInv
<1>1. /\ endTask' = t /\ endTasks' = endTasks \ {t} /\ ~HasParents(endTask)
      /\ maoPhase = "deadlines" /\ UNCHANGED <<taskVM, maoPhase, parents, path, withDeadline>>
  BY DEF NextEndTask
<1>2. \A u \in Tasks \ endTasks' : u # endTask' => parents'[u] = {}
  <2> SUFFICES ASSUME NEW u \in Tasks, u \notin endTasks, u # t PROVE parents[u] = {}
    BY <1>1
  <2>1. u # NoTask
    BY MaoTypes DEF NoTask
  <2> QED BY <1>1, <2>1 DEF ParentsGiven, HasParents
<1>3. ParentsGiven'
  BY <1>1, <1>2 DEF ParentsGiven, Given
<1> QED BY <1>1, <1>3
       DEF MaoTypeOK, MachinesWorth, PathFresh, DeadlinesOnce, DeadlinesForConnected

(* ----------------------------- every step ------------------------------- *)

LEMMA MaoStep == MaoInv /\ [MaoNext]_maoVars => MaoInv'
<1> SUFFICES ASSUME MaoInv, [MaoNext]_maoVars PROVE MaoInv'
  OBVIOUS
<1>1. CASE GetCheapestVMs
  <2>1. taskVM' \in [Tasks -> Types] /\ MachinesWorth'
    BY <1>1, CheapestWorth
  <2> QED BY <1>1, <2>1 DEF GetCheapestVMs, MaoInv, MaoTypeOK, MaoPhases, PathFresh,
             ParentsGiven, Given, DeadlinesOnce, DeadlinesForConnected, pathVars
<1>2. CASE ReduceMakespan
  <2>1. taskVM' \in [Tasks -> Types] /\ MachinesWorth'
    BY <1>2, ReducedWorth
  <2>2. maoPhase = "reduce" /\ maoPhase' \in {"reduce", "can't speedup current plan"} /\ UNCHANGED pathVars
    BY <1>2 DEF ReduceMakespan
  <2> QED BY <2>1, <2>2 DEF MaoInv, MaoTypeOK, MaoPhases, PathFresh,
             ParentsGiven, Given, DeadlinesOnce, DeadlinesForConnected, pathVars
<1>3. CASE MeetsDeadline
  BY <1>3 DEF MeetsDeadline, MaoInv, MaoTypeOK, MaoPhases, MachinesWorth, PathFresh,
              ParentsGiven, Given, DeadlinesOnce, DeadlinesForConnected, pathVars
<1>4. CASE \E t \in Tasks : NextEndTask(t)
  BY <1>4, NextEndTaskStep
<1>5. CASE StartPath
  BY <1>5, StartPathStep
<1>6. CASE FollowPath
  BY <1>6, FollowPathStep
<1>7. CASE SplitPath
  BY <1>7, SplitPathStep
<1>8. CASE DeadlinesCalculated
  BY <1>8, DeadlinesCalculatedStep
<1>9. CASE UNCHANGED maoVars
  BY <1>9 DEF maoVars, MaoInv, MaoTypeOK, MachinesWorth, PathFresh,
              ParentsGiven, Given, DeadlinesOnce, DeadlinesForConnected
<1> QED BY <1>1, <1>2, <1>3, <1>4, <1>5, <1>6, <1>7, <1>8, <1>9 DEF MaoNext

LEMMA MaoInvariant == MaoSpec => []MaoInv
BY MaoInit_Inv, MaoStep, PTL DEF MaoSpec

(* ------------------------------ theorems -------------------------------- *)

\* However often a task is sped up, no faster type it could be given is
\* cheaper than the one it has: line 150 never divides by a negative
\* difference.
THEOREM MaoNoCheaperFaster == MaoSpec => []NoCheaperFaster
<1>1. MaoInv => NoCheaperFaster
  BY DEF MaoInv, MachinesWorth, NoCheaperFaster
<1> QED BY <1>1, MaoInvariant, PTL

\* The assertion "Task %d already has a deadline!" never fails.
THEOREM MaoDeadlinesOnce == MaoSpec => []DeadlinesOnce
<1>1. MaoInv => DeadlinesOnce
  BY DEF MaoInv
<1> QED BY <1>1, MaoInvariant, PTL

\* When the plan is made, every task with a neighbour has a deadline.
THEOREM MaoDeadlinesForConnected == MaoSpec => []DeadlinesForConnected
<1>1. MaoInv => DeadlinesForConnected
  BY DEF MaoInv
<1> QED BY <1>1, MaoInvariant, PTL

\* Every task is planned on a machine that can run it.
THEOREM MaoMachinesFit ==
    MaoSpec => [](maoPhase = "planned" => \A t \in Tasks : CanBeExecuted(t, taskVM[t]))
<1>1. MaoInv => (maoPhase = "planned" => \A t \in Tasks : CanBeExecuted(t, taskVM[t]))
  BY DEF MaoInv, MachinesWorth, RunnableVMs
<1> QED BY <1>1, MaoInvariant, PTL

-----------------------------------------------------------------------------
(*                     From the machine list to the run.                    *)

(* ---------------------------- largest types ----------------------------- *)

LEMMA MaxOfTypes ==
    ASSUME NEW f \in [Types -> Nat]
    PROVE  \A x \in Types : f[x] <= Max({f[type] : type \in Types})
<1> DEFINE S == {f[type] : type \in Types}
<1>1. PICK m \in Types : \A x \in Types : f[x] <= f[m]
  BY Bounded
<1>2. f[m] \in S /\ \A y \in S : f[m] >= y
  BY <1>1
<1>3. Max(S) \in S /\ \A y \in S : Max(S) >= y
  BY <1>2 DEF Max
<1>4. \A x \in Types : f[x] \in S /\ f[x] \in Nat
  OBVIOUS
<1>5. S \subseteq Nat
  OBVIOUS
<1> HIDE DEF S
<1>6. \A x \in Types : f[x] <= Max(S)
  BY <1>3, <1>4, <1>5
<1> QED BY <1>6 DEF S

LEMMA LargestFitsAll ==
    ASSUME NEW type \in Types
    PROVE  VMList[type].cores <= MaxCores /\ VMList[type].memory <= MaxMemory
<1> DEFINE cores == [x \in Types |-> VMList[x].cores]
           memory == [x \in Types |-> VMList[x].memory]
<1>1. \A x \in Types : VMList[x].cores \in Nat /\ VMList[x].memory \in Nat
  BY ViewAssumption
<1>2. cores \in [Types -> Nat] /\ memory \in [Types -> Nat]
  BY <1>1
<1>3. {cores[x] : x \in Types} = {VMList[x].cores : x \in Types}
  OBVIOUS
<1>4. {memory[x] : x \in Types} = {VMList[x].memory : x \in Types}
  OBVIOUS
<1>5. cores[type] = VMList[type].cores /\ memory[type] = VMList[type].memory
  OBVIOUS
<1> HIDE DEF cores, memory
<1>6. cores[type] <= MaxCores
  BY <1>2, <1>3, MaxOfTypes DEF MaxCores
<1>7. memory[type] <= MaxMemory
  BY <1>2, <1>4, MaxOfTypes DEF MaxMemory
<1> QED BY <1>5, <1>6, <1>7

LEMMA WholeUnits ==
    ASSUME NEW f \in Nat, NEW g \in Nat \ {0}
    PROVE  f - g < (f \div g) * g /\ (f \div g) * g <= f
OBVIOUS

(* --------------------------- the invariant ------------------------------ *)

\* A scheduler that was not chosen does nothing; the machines are bought
\* from a finished plan.
PlanMade ==
    /\ algorithm \in Algorithms /\ pstate \in PStates
    /\ stage \in {"generate", "plan", "buy", "run", "bad pstate id"}
    /\ algorithm # "baseline" => phase = "place"
    /\ algorithm # "mao" => maoPhase = "cheapest"
    /\ stage \in {"buy", "run"} => phase = "done" \/ maoPhase = "planned"
    /\ stage \in {"plan", "buy", "run"} => ValidPStates /\ speeds = HostSpeeds

\* The first host that fits is the next worker, always.
HostsInOrder ==
    /\ bought \in 0..Len(Machines)
    /\ stage \notin {"buy", "run"} => bought = 0
    /\ machineOn = [h \in Hosts |-> IF h <= bought THEN h ELSE NoMachine]

PlanInv == BaselineInv /\ MaoInv /\ PlanMade /\ HostsInOrder /\ AllTasksAssigned

\* The machines of a finished plan hold all tasks and are not too many.
LEMMA MachinesHoldTasks ==
    ASSUME PlanInv, stage \in {"buy", "run"}
    PROVE  /\ Len(Machines) \in 0..Size /\ DOMAIN Machines = 1..Len(Machines)
           /\ \A i \in DOMAIN Machines : /\ Machines[i].type \in Types
                                         /\ ToSet(Machines[i].queue) \subseteq Tasks
           /\ \A t \in Tasks : \E i \in DOMAIN Machines :
                  t \in ToSet(Machines[i].queue) /\ CanBeExecuted(t, Machines[i].type)
<1> USE DEF PlanInv
<1>1. CASE algorithm = "baseline"
  <2>1. Machines = vms /\ phase = "done"
    BY <1>1 DEF Machines, PlanMade
  <2>2. vms \in Seq(Machine) /\ Len(vms) <= Size /\ next = Size /\ Size \in Nat
    BY <2>1, ViewTypes DEF BaselineInv, BaselineTypeOK
  <2>3. \A q \in Seq(Tasks) : ToSet(q) \subseteq Tasks
    BY DEF ToSet
  <2>4. ASSUME NEW t \in Tasks
        PROVE  \E v \in DOMAIN vms : t \in ToSet(vms[v].queue) /\ CanBeExecuted(t, vms[v].type)
    <3>1. PICK i \in Tasks : Order[i] = t
      BY ViewTypes
    <3>2. i \in 0..(next - 1)
      BY <2>2, ViewTypes
    <3> QED BY <3>1, <3>2 DEF BaselineInv, PlacedAreQueued, MachinesFit, Fits
  <2>5. /\ Len(vms) \in 0..Size /\ DOMAIN vms = 1..Len(vms)
        /\ \A v \in DOMAIN vms : vms[v].type \in Types /\ ToSet(vms[v].queue) \subseteq Tasks
    BY <2>2, <2>3, MachineTypes
  <2> QED BY <2>1, <2>4, <2>5
<1>2. CASE algorithm # "baseline"
  <2>1. /\ maoPhase = "planned" /\ algorithm = "mao"
        /\ Machines = [i \in 1..Size |-> [type |-> taskVM[i - 1], queue |-> <<i - 1>>]]
    BY <1>2, PlanningAssumption DEF PlanMade, Machines
  <2>2. Size \in Nat /\ Len(Machines) = Size /\ DOMAIN Machines = 1..Size
    BY <2>1, ViewTypes
  <2>3. ASSUME NEW i \in 1..Size
        PROVE  /\ i - 1 \in Tasks /\ Machines[i].type = taskVM[i - 1] /\ taskVM[i - 1] \in Types
               /\ ToSet(Machines[i].queue) = {i - 1} /\ CanBeExecuted(i - 1, taskVM[i - 1])
    <3>0. i - 1 \in Tasks
      BY ViewTypes
    <3>1. Machines[i] = [type |-> taskVM[i - 1], queue |-> <<i - 1>>]
      BY <2>1
    <3>2. taskVM[i - 1] \in Types /\ taskVM[i - 1] \in RunnableVMs(i - 1)
      BY <2>1, <3>0 DEF MaoInv, MaoTypeOK, MachinesWorth
    <3>3. Machines[i].type = taskVM[i - 1] /\ Machines[i].queue = <<i - 1>>
      BY <3>1
    <3>4. ToSet(<<i - 1>>) = {i - 1}
      BY DEF ToSet
    <3>5. CanBeExecuted(i - 1, taskVM[i - 1])
      BY <3>2 DEF RunnableVMs
    <3> QED BY <3>0, <3>2, <3>3, <3>4, <3>5
  <2>4. \A t \in Tasks : t + 1 \in 1..Size /\ (t + 1) - 1 = t
    BY ViewTypes
  <2>5. \A t \in Tasks : \E i \in DOMAIN Machines :
            t \in ToSet(Machines[i].queue) /\ CanBeExecuted(t, Machines[i].type)
    <3> SUFFICES ASSUME NEW t \in Tasks
                 PROVE  t \in ToSet(Machines[t + 1].queue) /\ CanBeExecuted(t, Machines[t + 1].type)
      BY <2>2, <2>4
    <3> DEFINE i == t + 1
    <3>1. i \in 1..Size /\ i - 1 = t
      BY <2>4
    <3> HIDE DEF i
    <3>2. t \in ToSet(Machines[i].queue) /\ CanBeExecuted(t, Machines[i].type)
      BY <2>3, <3>1
    <3> QED BY <3>2 DEF i
  <2>6. \A i \in DOMAIN Machines : Machines[i].type \in Types /\ ToSet(Machines[i].queue) \subseteq Tasks
    BY <2>2, <2>3
  <2> QED BY <2>2, <2>5, <2>6
<1> QED BY <1>1, <1>2

LEMMA PlanMadeKept ==
    ASSUME PlanMade, algorithm' = algorithm, pstate' = pstate, phase' = phase, maoPhase' = maoPhase,
           stage' = stage, speeds' = speeds
    PROVE  PlanMade'
<1>1. ValidPStates' = ValidPStates /\ HostSpeeds' = HostSpeeds
  BY DEF ValidPStates, HostSpeeds
<1> QED BY <1>1 DEF PlanMade

LEMMA PlanInit_Inv == PlanInit => PlanInv
<1> SUFFICES ASSUME PlanInit PROVE PlanInv
  OBVIOUS
<1> USE DEF PlanInit
<1>1. BaselineInv
  BY BaselineInit_Inv
<1>2. MaoInv
  BY MaoInit_Inv
<1>3. PlanMade
  BY DEF PlanMade, Init, MaoInit
<1>4. Len(Machines) \in Nat
  <2>1. vms = <<>>
    BY DEF Init
  <2> QED BY <2>1, ViewTypes DEF Machines
<1>5. HostsInOrder
  <2>1. \A h \in Hosts : ~(h <= 0)
    BY ViewTypes DEF Hosts, Workers, Master
  <2> QED BY <1>4, <2>1 DEF HostsInOrder
<1>6. AllTasksAssigned
  BY DEF AllTasksAssigned
<1> QED BY <1>1, <1>2, <1>3, <1>5, <1>6 DEF PlanInv

\* First fit puts the next machine on the next worker.
LEMMA BuyVMStep ==
    ASSUME PlanInv, BuyVM
    PROVE  HostsInOrder'
<1>1. /\ stage = "buy" /\ bought < Len(Machines) /\ bought' = bought + 1 /\ stage' = stage
      /\ Machines' = Machines
  BY DEF BuyVM, Machines, chosen, vars, maoVars
<1>2. /\ bought \in 0..Len(Machines) /\ Len(Machines) \in 0..Size /\ bought + 1 \in DOMAIN Machines
      /\ Size \in Nat /\ DOMAIN Machines = 1..Len(Machines)
  BY <1>1, MachinesHoldTasks, ViewTypes DEF PlanInv, HostsInOrder
<1> DEFINE type == Machines[bought + 1].type
           host == bought + 1
           empty == GetEmptyHost(type)
<1>3. type \in Types
  BY <1>1, <1>2, MachinesHoldTasks
<1>4. machineOn' = [h \in Hosts |-> IF h \in empty /\ \A g \in empty : h <= g
                                    THEN bought + 1 ELSE machineOn[h]]
  BY DEF BuyVM
<1> HIDE DEF type
<1>5. machineOn = [h \in Hosts |-> IF h <= bought THEN h ELSE NoMachine]
  BY DEF PlanInv, HostsInOrder
<1>6. Hosts \subseteq 1..(Size + 1) /\ host \in Workers /\ Workers \subseteq Hosts /\ host # Master
  BY <1>2 DEF Hosts, Workers, Master
<1>7. host \in empty
  <2>1. machineOn[host] = NoMachine
    BY <1>2, <1>5, <1>6
  <2>2. VMList[type].cores \in Nat /\ VMList[type].memory \in Nat
    BY <1>3, ViewAssumption
  <2>3. HostSpec(host).cores = MaxCores /\ HostSpec(host).memory = MaxMemory
    BY <1>6 DEF HostSpec
  <2>4. HostSpec(host).cores >= VMList[type].cores /\ HostSpec(host).memory >= VMList[type].memory
    BY <1>3, <2>3, LargestFitsAll
  <2> HIDE DEF host
  <2> QED BY <1>6, <2>1, <2>4 DEF GetEmptyHost
<1>8. \A h \in empty : host <= h
  <2> SUFFICES ASSUME NEW h \in empty PROVE host <= h
    OBVIOUS
  <2>1. h \in Hosts /\ machineOn[h] = NoMachine
    BY DEF GetEmptyHost
  <2>2. h \in 1..(Size + 1) /\ NoMachine = 0
    BY <1>6, <2>1 DEF NoMachine
  <2>3. ~(h <= bought)
    BY <1>5, <2>1, <2>2
  <2> QED BY <1>2, <2>2, <2>3
<1> HIDE DEF empty
<1>9. ASSUME NEW h \in Hosts
      PROVE  machineOn'[h] = IF h <= bought + 1 THEN h ELSE NoMachine
  <2>1. h \in 1..(Size + 1) /\ bought \in Nat
    BY <1>2, <1>6
  <2>2. CASE h = host
    BY <1>4, <1>7, <1>8, <2>1, <2>2
  <2>3. CASE h # host
    <3>1. ~(h \in empty /\ \A g \in empty : h <= g)
      BY <1>7, <1>8, <2>1, <2>3
    <3>2. machineOn'[h] = machineOn[h]
      BY <1>4, <3>1
    <3>3. h <= bought + 1 <=> h <= bought
      BY <2>1, <2>3
    <3> QED BY <1>5, <3>2, <3>3
  <2> QED BY <2>2, <2>3
<1>10. machineOn' = [h \in Hosts |-> IF h <= bought' THEN h ELSE NoMachine]
  BY <1>1, <1>4, <1>9
<1>11. bought' \in 0..Len(Machines')
  BY <1>1, <1>2
<1> QED BY <1>1, <1>10, <1>11 DEF HostsInOrder

LEMMA ResetScheduleStep ==
    ASSUME PlanInv, ResetSchedule
    PROVE  assigned' = Tasks
<1>1. stage = "buy" /\ bought = Len(Machines) /\ assigned' = UNION {Assignable(i) : i \in DOMAIN Machines}
  BY DEF ResetSchedule
<1>2. \A i \in DOMAIN Machines : Assignable(i) \subseteq Tasks
  BY <1>1, MachinesHoldTasks DEF Assignable
<1>3. ASSUME NEW t \in Tasks PROVE \E i \in DOMAIN Machines : t \in Assignable(i)
  <2>1. PICK i \in DOMAIN Machines : t \in ToSet(Machines[i].queue) /\ CanBeExecuted(t, Machines[i].type)
    BY <1>1, MachinesHoldTasks
  <2>2. i \in 1..Len(Machines) /\ Len(Machines) \in 0..Size /\ Size \in Nat
    BY <1>1, MachinesHoldTasks, ViewTypes
  <2>3. i \in Hosts /\ i <= bought
    BY <1>1, <2>2 DEF Hosts, Workers
  <2>4. machineOn[i] = i
    BY <2>3 DEF PlanInv, HostsInOrder
  <2> QED BY <2>1, <2>3, <2>4 DEF Assignable
<1> QED BY <1>1, <1>2, <1>3

LEMMA PlanStep == PlanInv /\ [PlanNext]_planVars => PlanInv'
<1> SUFFICES ASSUME PlanInv, [PlanNext]_planVars PROVE PlanInv'
  OBVIOUS
<1> USE DEF PlanInv
<1>1. CASE GeneratePlatform
  <2>1. UNCHANGED <<vars, maoVars, chosen, machineOn, bought, assigned>> /\ stage = "generate"
    BY <1>1 DEF GeneratePlatform
  <2>2. BaselineInv'
    BY <2>1, BaselineStep
  <2>3. MaoInv'
    BY <2>1, MaoStep
  <2>4. PlanMade'
    <3>1. /\ algorithm' = algorithm /\ pstate' = pstate /\ phase' = phase /\ maoPhase' = maoPhase
          /\ ValidPStates' = ValidPStates /\ HostSpeeds' = HostSpeeds
      BY <2>1 DEF ValidPStates, HostSpeeds, chosen, vars, maoVars
    <3>2. \/ ValidPStates /\ stage' = "plan" /\ speeds' = HostSpeeds
          \/ stage' = "bad pstate id"
      BY <1>1 DEF GeneratePlatform
    <3> QED BY <3>1, <3>2 DEF PlanMade
  <2>5. Machines' = Machines
    BY <2>1 DEF Machines, chosen, vars, maoVars
  <2>6. HostsInOrder' /\ AllTasksAssigned'
    BY <1>1, <2>1, <2>5 DEF GeneratePlatform, HostsInOrder, AllTasksAssigned
  <2> QED BY <2>2, <2>3, <2>4, <2>6
<1>2. CASE PlanBaseline
  <2>1. /\ stage = "plan" /\ algorithm = "baseline" /\ [Next]_vars
        /\ UNCHANGED <<maoVars, chosen, mainVars>>
    BY <1>2 DEF PlanBaseline, Next
  <2>2. BaselineInv'
    BY <2>1, BaselineStep
  <2>3. MaoInv'
    BY <2>1, MaoStep
  <2>4. PlanMade'
    BY <2>1 DEF PlanMade, ValidPStates, HostSpeeds, chosen, mainVars, maoVars
  <2>5. Len(Machines') \in Nat
    BY <2>1, <2>2 DEF Machines, BaselineInv, BaselineTypeOK, chosen
  <2>6. HostsInOrder' /\ AllTasksAssigned'
    BY <2>1, <2>5 DEF HostsInOrder, AllTasksAssigned, mainVars
  <2> QED BY <2>2, <2>3, <2>4, <2>6
<1>3. CASE PlanMao
  <2>1. stage = "plan" /\ algorithm = "mao" /\ MaoNext /\ UNCHANGED <<vars, chosen, mainVars>>
    BY <1>3 DEF PlanMao
  <2>2. BaselineInv'
    BY <2>1, BaselineStep
  <2>3. MaoInv'
    BY <2>1, MaoStep
  <2>4. PlanMade'
    BY <2>1 DEF PlanMade, ValidPStates, HostSpeeds, chosen, mainVars, vars
  <2>5. Len(Machines') \in Nat
    BY <2>1, ViewTypes DEF Machines, chosen
  <2>6. HostsInOrder' /\ AllTasksAssigned'
    BY <2>1, <2>5 DEF HostsInOrder, AllTasksAssigned, mainVars
  <2> QED BY <2>2, <2>3, <2>4, <2>6
<1>4. CASE Planned
  <2>1. /\ UNCHANGED <<vars, maoVars, chosen, speeds, machineOn, bought, assigned>>
        /\ stage = "plan" /\ stage' = "buy" /\ (phase = "done" \/ maoPhase = "planned")
    BY <1>4 DEF Planned
  <2>2. BaselineInv'
    BY <2>1, BaselineStep
  <2>3. MaoInv'
    BY <2>1, MaoStep
  <2>4. PlanMade'
    BY <2>1 DEF PlanMade, ValidPStates, HostSpeeds, chosen, vars, maoVars
  <2>5. Machines' = Machines
    BY <2>1 DEF Machines, chosen, vars, maoVars
  <2>6. HostsInOrder' /\ AllTasksAssigned'
    BY <2>1, <2>5 DEF HostsInOrder, AllTasksAssigned
  <2> QED BY <2>2, <2>3, <2>4, <2>6
<1>5. CASE BuyVM
  <2>1. UNCHANGED <<vars, maoVars, chosen, stage, speeds, assigned>> /\ stage = "buy"
    BY <1>5 DEF BuyVM
  <2>2. BaselineInv'
    BY <2>1, BaselineStep
  <2>3. MaoInv'
    BY <2>1, MaoStep
  <2>4. PlanMade'
    BY <2>1 DEF PlanMade, ValidPStates, HostSpeeds, chosen, vars, maoVars
  <2>5. HostsInOrder'
    BY <1>5, BuyVMStep
  <2>6. AllTasksAssigned'
    BY <2>1 DEF AllTasksAssigned
  <2> QED BY <2>2, <2>3, <2>4, <2>5, <2>6
<1>6. CASE ResetSchedule
  <2>1. UNCHANGED <<vars, maoVars, chosen, speeds, machineOn, bought>> /\ stage = "buy" /\ stage' = "run"
    BY <1>6 DEF ResetSchedule
  <2>2. BaselineInv'
    BY <2>1, BaselineStep
  <2>3. MaoInv'
    BY <2>1, MaoStep
  <2>4. PlanMade'
    BY <2>1 DEF PlanMade, ValidPStates, HostSpeeds, chosen, vars, maoVars
  <2>5. Machines' = Machines
    BY <2>1 DEF Machines, chosen, vars, maoVars
  <2>6. HostsInOrder'
    BY <2>1, <2>5 DEF HostsInOrder
  <2>7. AllTasksAssigned'
    BY <1>6, ResetScheduleStep DEF AllTasksAssigned
  <2> QED BY <2>2, <2>3, <2>4, <2>6, <2>7
<1>7. CASE UNCHANGED planVars
  <2>1. UNCHANGED <<vars, maoVars, chosen, mainVars>>
    BY <1>7 DEF planVars
  <2>2. BaselineInv'
    BY <2>1, BaselineStep
  <2>3. MaoInv'
    BY <2>1, MaoStep
  <2>4. PlanMade'
    BY <2>1, PlanMadeKept DEF chosen, vars, maoVars, mainVars
  <2>5. Machines' = Machines
    BY <2>1 DEF Machines, chosen, vars, maoVars
  <2>6. HostsInOrder' /\ AllTasksAssigned'
    BY <2>1, <2>5 DEF HostsInOrder, AllTasksAssigned, mainVars
  <2> QED BY <2>2, <2>3, <2>4, <2>6
<1> QED BY <1>1, <1>2, <1>3, <1>4, <1>5, <1>6, <1>7 DEF PlanNext, PlanEnded

LEMMA PlanInvariant == PlanSpec => []PlanInv
BY PlanInit_Inv, PlanStep, PTL DEF PlanSpec

(* ------------------------------- times ---------------------------------- *)

\* The tasks before the i-th that it depends on, by their places.
Places(i) == {j \in 0..(i - 1) : Order[j] \in Dependencies[Order[i]]}

LEMMA PlacesAre ==
    ASSUME NEW i \in Tasks
    PROVE  /\ Places(i) \subseteq Tasks /\ \A j \in Places(i) : j < i
           /\ \A d \in Dependencies[Order[i]] : \E j \in Places(i) : d = Order[j]
<1>1. \A j \in Places(i) : j \in Tasks /\ j < i
  BY Earlier DEF Places
<1>2. ASSUME NEW d \in Dependencies[Order[i]] PROVE \E j \in Places(i) : d = Order[j]
  <2>1. d \in Tasks
    BY ViewTypes, ViewAssumption
  <2>2. PICK j \in Tasks : Order[j] = d
    BY <2>1, ViewTypes
  <2>3. j < i
    BY <2>2, OrderRises
  <2>4. j \in 0..(i - 1)
    BY <2>3, Earlier
  <2> QED BY <2>2, <2>4 DEF Places
<1> QED BY <1>1, <1>2

LEMMA LatestAtPlaces ==
    ASSUME NEW i \in Tasks, NEW f, NEW e, \A j \in Places(i) : f[j] = e[Order[j]]
    PROVE  LatestEnd(Places(i), f) = LatestEnd(Dependencies[Order[i]], e)
<1> DEFINE S == {f[j] : j \in Places(i)}
           T == {e[d] : d \in Dependencies[Order[i]]}
<1>1. \A y \in S : y \in T
  BY DEF Places
<1>2. \A y \in T : y \in S
  <2> SUFFICES ASSUME NEW d \in Dependencies[Order[i]] PROVE e[d] \in S
    OBVIOUS
  <2>1. PICK j \in Places(i) : d = Order[j]
    BY PlacesAre
  <2> QED BY <2>1
<1>3. S = T
  <2> HIDE DEF S, T
  <2> QED BY <1>1, <1>2
<1> QED BY <1>3 DEF LatestEnd

\* The end times of Mao, task by task in the order.
EndsBody(machines, lag, f) ==
    [i \in Tasks |-> LatestEnd(Places(i), f) + lag + GetExecutionTime(Order[i], machines[Order[i]])]

LEMMA TaskEndTimesAre ==
    ASSUME NEW machines \in [Tasks -> Types], NEW lag \in Nat,
           NEW g, g = EndsBody(machines, lag, g)
    PROVE  \E f \in [Tasks -> Nat] :
              /\ f = EndsBody(machines, lag, f)
              /\ \A i \in Tasks : TaskEndTimes(machines, lag)[Order[i]] = f[i]
<1> DEFINE Body(End) == [i \in Tasks |-> 
               LET t == Order[i]
                   before == {j \in 0..(i - 1) : Order[j] \in Dependencies[t]}
               IN  Max({0} \cup {End[j] : j \in before}) + lag + GetExecutionTime(t, machines[t])]
           f == CHOOSE End : End = Body(End)
<1>1. \A h : Body(h) = EndsBody(machines, lag, h)
  BY DEF EndsBody, LatestEnd, Places
<1>2. TaskEndTimes(machines, lag) = [t \in Tasks |-> f[CHOOSE i \in Tasks : Order[i] = t]]
  BY DEF TaskEndTimes
<1>3. f = EndsBody(machines, lag, f)
  <2>1. g = Body(g)
    BY <1>1
  <2>2. f = Body(f)
    <3> HIDE DEF Body
    <3> QED BY <2>1
  <2> HIDE DEF f, Body
  <2> QED BY <1>1, <2>2
<1> HIDE DEF f, Body
<1>4. DOMAIN f = Tasks
  BY <1>3 DEF EndsBody
<1> DEFINE Bad == {i \in Tasks : f[i] \notin Nat}
<1>5. Bad = {}
  <2> SUFFICES ASSUME Bad # {} PROVE FALSE
    OBVIOUS
  <2>1. PICK i \in Bad : \A j \in Bad : i <= j
    <3>1. Bad \subseteq Nat
      BY ViewTypes
    <3> HIDE DEF Bad
    <3> QED BY <3>1, LeastExists
  <2>2. i \in Tasks /\ f[i] \notin Nat
    OBVIOUS
  <2>3. \A j \in Places(i) : f[j] \in Nat
    <3> SUFFICES ASSUME NEW j \in Places(i) PROVE f[j] \in Nat
      OBVIOUS
    <3>1. j \in Tasks /\ j < i /\ i \in Nat /\ j \in Nat
      BY <2>2, PlacesAre, ViewTypes
    <3>2. j \notin Bad
      <4> HIDE DEF Bad
      <4> QED BY <2>1, <3>1
    <3> QED BY <3>1, <3>2
  <2>4. LatestEnd(Places(i), f) \in Nat
    BY <2>2, <2>3, PlacesAre, LatestExists
  <2>5. GetExecutionTime(Order[i], machines[Order[i]]) \in Nat
    BY <2>2, ViewTypes, ExecutionTakesTime
  <2>6. f[i] = LatestEnd(Places(i), f) + lag + GetExecutionTime(Order[i], machines[Order[i]])
    BY <1>3, <2>2 DEF EndsBody
  <2> QED BY <2>2, <2>4, <2>5, <2>6
<1>6. f \in [Tasks -> Nat]
  <2>1. \A i \in Tasks : f[i] \in Nat
    BY <1>5
  <2>2. f = [i \in Tasks |-> f[i]]
    BY <1>3 DEF EndsBody
  <2> QED BY <2>1, <2>2
<1>7. ASSUME NEW i \in Tasks PROVE TaskEndTimes(machines, lag)[Order[i]] = f[i]
  <2>1. Order[i] \in Tasks
    BY ViewTypes
  <2>2. (CHOOSE j \in Tasks : Order[j] = Order[i]) = i
    BY OrderInjective
  <2> QED BY <1>2, <2>1, <2>2
<1> QED BY <1>3, <1>6, <1>7

\* A machine for each task, as Mao buys them.
MachineEach(machines) == [i \in 1..Size |-> [type |-> machines[i - 1], queue |-> <<i - 1>>]]

LEMMA EachWellQueued ==
    ASSUME NEW machines \in [Tasks -> Types]
    PROVE  /\ WellQueued(MachineEach(machines)) /\ AllQueued(MachineEach(machines))
           /\ \A t \in Tasks : /\ t + 1 \in DOMAIN MachineEach(machines)
                               /\ MachineEach(machines)[t + 1].type = machines[t]
                               /\ MachineEach(machines)[t + 1].queue[1] = t
                               /\ 1 \in DOMAIN MachineEach(machines)[t + 1].queue
<1> DEFINE M == MachineEach(machines)
<1>0. \A t \in Tasks : t + 1 \in 1..Size /\ (t + 1) - 1 = t
  BY ViewTypes
<1>1. Size \in Nat /\ DOMAIN M = 1..Size
  BY ViewTypes DEF MachineEach
<1>2. ASSUME NEW v \in 1..Size
      PROVE  /\ M[v] \in Machine /\ v - 1 \in Tasks /\ M[v].type = machines[v - 1]
             /\ M[v].queue = <<v - 1>> /\ DOMAIN M[v].queue = {1} /\ M[v].queue[1] = v - 1
  <2>1. v - 1 \in Tasks
    BY ViewTypes
  <2>2. M[v] = [type |-> machines[v - 1], queue |-> <<v - 1>>]
    BY DEF MachineEach
  <2>3. M[v] \in Machine
    <3>1. <<v - 1>> \in Seq(Tasks) /\ machines[v - 1] \in Types
      BY <2>1
    <3> QED BY <2>2, <3>1 DEF Machine
  <2>4. M[v].type = machines[v - 1] /\ M[v].queue = <<v - 1>>
    BY <2>2
  <2>5. DOMAIN <<v - 1>> = {1} /\ <<v - 1>>[1] = v - 1
    OBVIOUS
  <2> QED BY <2>1, <2>3, <2>4, <2>5
<1>3. M \in Seq(Machine)
  <2>1. M \in [1..Size -> Machine]
    BY <1>2 DEF MachineEach
  <2> HIDE DEF M
  <2> QED BY <1>1, <2>1
<1> HIDE DEF M
<1>4. ASSUME NEW v \in DOMAIN M, NEW w \in DOMAIN M, NEW i \in DOMAIN M[v].queue,
             NEW j \in DOMAIN M[w].queue, M[v].queue[i] = M[w].queue[j]
      PROVE  v = w /\ i = j
  <2>1. v \in 1..Size /\ w \in 1..Size /\ i = 1 /\ j = 1
    BY <1>1, <1>2
  <2>2. v - 1 = w - 1
    BY <1>2, <1>4, <2>1
  <2> QED BY <2>1, <2>2
<1>5. \A v \in DOMAIN M : \A i, j \in DOMAIN M[v].queue : i = 1 /\ j = 1
  BY <1>1, <1>2
<1>6. WellQueued(M)
  BY <1>3, <1>4, <1>5 DEF WellQueued
<1>7. ASSUME NEW t \in Tasks
      PROVE  /\ t + 1 \in DOMAIN M /\ M[t + 1].type = machines[t] /\ M[t + 1].queue[1] = t
             /\ 1 \in DOMAIN M[t + 1].queue
  <2>1. t + 1 \in 1..Size /\ (t + 1) - 1 = t
    BY <1>0
  <2> QED BY <1>1, <1>2, <2>1
<1>8. AllQueued(M)
  BY <1>7 DEF AllQueued, ToSet
<1> QED BY <1>6, <1>7, <1>8 DEF M

\* With a machine each, the lag counts for every task.
LEMMA EachEnds ==
    ASSUME NEW machines \in [Tasks -> Types]
    PROVE  TaskEndTimes(machines, AvgLag) = EndTimes(MachineEach(machines))
<1> DEFINE M == MachineEach(machines)
           e == EndTimes(M)
           Ends1(t, h) == LatestEnd(Dependencies[t], h) + AvgLag + GetExecutionTime(t, machines[t])
<1>1. WellQueued(M) /\ AllQueued(M)
  BY EachWellQueued
<1>2. ASSUME NEW t \in Tasks, NEW h PROVE EndTime(M, h, t) = Ends1(t, h)
  <2> DEFINE v == t + 1
             q == M[v].queue
             type == M[v].type
  <2>1. v \in DOMAIN M /\ type = machines[t] /\ q[1] = t /\ 1 \in DOMAIN q
    BY EachWellQueued
  <2> HIDE DEF v, M
  <2>2. EndTime(M, h, t) = QueueEnd(q, type, 1, h)
    BY <1>1, <2>1, EndTimeIs
  <2> HIDE DEF q, type
  <2>3. Before(q, 1) = {}
    BY DEF Before
  <2> QED BY <2>1, <2>2, <2>3 DEF QueueEnd
<1>3. e \in [Tasks -> Nat] /\ \A i \in Tasks : e[Order[i]] = EndTime(M, e, Order[i])
  BY <1>1, EndTimesAre
<1> HIDE DEF M, e
<1> DEFINE g == [i \in Tasks |-> e[Order[i]]]
<1>4. g = EndsBody(machines, AvgLag, g)
  <2>1. ASSUME NEW i \in Tasks
        PROVE  g[i] = LatestEnd(Places(i), g) + AvgLag + GetExecutionTime(Order[i], machines[Order[i]])
    <3>1. \A j \in Places(i) : g[j] = e[Order[j]]
      BY PlacesAre
    <3>2. LatestEnd(Places(i), g) = LatestEnd(Dependencies[Order[i]], e)
      <4> HIDE DEF g
      <4> QED BY <3>1, LatestAtPlaces
    <3>3. g[i] = Ends1(Order[i], e)
      BY <1>2, <1>3, ViewTypes
    <3> QED BY <3>2, <3>3
  <2> QED BY <2>1 DEF EndsBody
<1>5. AvgLag \in Nat
  BY ViewAssumption
<1>6. PICK f \in [Tasks -> Nat] :
         /\ f = EndsBody(machines, AvgLag, f)
         /\ \A i \in Tasks : TaskEndTimes(machines, AvgLag)[Order[i]] = f[i]
  <2> HIDE DEF g
  <2> QED BY <1>4, <1>5, TaskEndTimesAre
<1> DEFINE times == TaskEndTimes(machines, AvgLag)
<1>7. times \in [Tasks -> Nat]
  <2>1. times = [t \in Tasks |-> times[t]]
    BY DEF TaskEndTimes
  <2>2. ASSUME NEW t \in Tasks PROVE times[t] \in Nat
    <3>1. PICK i \in Tasks : Order[i] = t
      BY ViewTypes
    <3> QED BY <1>6, <3>1
  <2> HIDE DEF times
  <2> QED BY <2>1, <2>2
<1>8. ASSUME NEW i \in Tasks PROVE times[Order[i]] = EndTime(M, times, Order[i])
  <2>1. \A j \in Places(i) : f[j] = times[Order[j]]
    BY <1>6, PlacesAre
  <2> HIDE DEF times
  <2>2. LatestEnd(Places(i), f) = LatestEnd(Dependencies[Order[i]], times)
    BY <2>1, LatestAtPlaces
  <2>3. f[i] = LatestEnd(Places(i), f) + AvgLag + GetExecutionTime(Order[i], machines[Order[i]])
    BY <1>6 DEF EndsBody
  <2>4. times[Order[i]] = f[i]
    BY <1>6 DEF times
  <2>5. EndTime(M, times, Order[i]) = Ends1(Order[i], times)
    BY <1>2, ViewTypes
  <2> QED BY <2>2, <2>3, <2>4, <2>5
<1> HIDE DEF times
<1>9. e = times
  BY <1>1, <1>7, <1>8, EndTimesUnique DEF e
<1> QED BY <1>9 DEF times, e, M

\* A plan is handed over when its makespan meets the deadline.
DeadlineMet ==
    /\ phase = "done" => makespan <= Deadline
    /\ maoPhase \in {"deadlines", "path", "planned"} => Makespan(taskVM) <= Deadline

PlanTimes == TimesInv /\ DeadlineMet

LEMMA PlanTimesInit == PlanInit => PlanTimes
<1> SUFFICES ASSUME PlanInit PROVE PlanTimes
  OBVIOUS
<1>1. Init /\ MaoInit
  BY DEF PlanInit
<1> QED BY <1>1, TimesInit DEF PlanTimes, DeadlineMet, Init, MaoInit

LEMMA PlanStepsAreSteps == [PlanNext]_planVars => [Next]_vars /\ [MaoNext]_maoVars
BY DEF PlanNext, GeneratePlatform, PlanBaseline, PlanMao, Planned, BuyVM, ResetSchedule, PlanEnded,
       planVars, Next

LEMMA PlanTimesStep == PlanInv /\ PlanTimes /\ [PlanNext]_planVars => PlanTimes'
<1> SUFFICES ASSUME PlanInv, PlanTimes, [PlanNext]_planVars PROVE PlanTimes'
  OBVIOUS
<1>1. [Next]_vars /\ [MaoNext]_maoVars
  BY PlanStepsAreSteps
<1>2. TimesInv'
  BY <1>1, TimesStep DEF PlanInv, PlanTimes
<1>3. phase' = "done" => makespan' <= Deadline
  BY <1>1 DEF PlanTimes, DeadlineMet, vars, Next, PlaceTask, FirstMakespan, UpgradeRandomVM,
          MakeActions, Ended, Calculated
<1>4. maoPhase' \in {"deadlines", "path", "planned"} => Makespan(taskVM') <= Deadline
  BY <1>1 DEF PlanTimes, DeadlineMet, maoVars, MaoNext, GetCheapestVMs, ReduceMakespan, MeetsDeadline,
          NextEndTask, StartPath, FollowPath, SplitPath, DeadlinesCalculated
<1> QED BY <1>2, <1>3, <1>4 DEF PlanTimes, DeadlineMet

LEMMA PlanTimesInvariant == PlanSpec => []PlanTimes
<1>1. PlanInv /\ PlanTimes /\ [PlanNext]_planVars => PlanTimes'
  BY PlanTimesStep
<1> QED BY <1>1, PlanTimesInit, PlanInvariant, PTL DEF PlanSpec

(* ------------------------------ theorems -------------------------------- *)

\* On the generated platform every machine of either plan finds a host and
\* every task is assigned.
THEOREM PlanAssignsAllTasks == PlanSpec => []AllTasksAssigned
<1>1. PlanInv => AllTasksAssigned
  BY DEF PlanInv
<1> QED BY <1>1, PlanInvariant, PTL

\* The machines fit their queues through the whole program, not only while
\* the scheduler plans.
THEOREM PlanMachinesFit == PlanSpec => []MachinesFit
<1>1. PlanInv => MachinesFit
  BY DEF PlanInv, BaselineInv
<1> QED BY <1>1, PlanInvariant, PTL

\* What holds of Mao alone holds of it in the program.
THEOREM PlanKeepsMaosPromises == PlanSpec => [](NoCheaperFaster /\ DeadlinesOnce /\ DeadlinesForConnected)
<1>1. PlanInv => NoCheaperFaster /\ DeadlinesOnce /\ DeadlinesForConnected
  BY DEF PlanInv, MaoInv, MachinesWorth, NoCheaperFaster
<1> QED BY <1>1, PlanInvariant, PTL

\* Every host with a machine runs at the speed of the machine's type, less
\* than one unit slower.
THEOREM PlanRunsAtPlannedSpeed == PlanSpec => []RunsAtPlannedSpeed
<1>1. PlanInv => RunsAtPlannedSpeed
  <2> SUFFICES ASSUME PlanInv, NEW h \in Hosts, machineOn[h] # NoMachine
               PROVE  LET type == Machines[machineOn[h]].type
                          speed == speeds[pstate[type]] * Giga
                      IN  VMList[type].flops - Giga < speed /\ speed <= VMList[type].flops
    BY DEF RunsAtPlannedSpeed
  <2> DEFINE type == Machines[machineOn[h]].type
  <2>1. h <= bought /\ machineOn[h] = h
    <3>1. machineOn[h] = IF h <= bought THEN h ELSE NoMachine
      BY DEF PlanInv, HostsInOrder
    <3>2. h \in Int /\ bought \in Int
      BY ViewTypes DEF Hosts, Workers, Master, PlanInv, HostsInOrder
    <3>3. CASE h <= bought
      BY <3>1, <3>3
    <3>4. CASE ~(h <= bought)
      BY <3>1, <3>4
    <3> QED BY <3>3, <3>4
  <2>2. h \in 1..(Size + 1) /\ Size \in Nat
    <3>1. Size \in Nat
      BY ViewTypes
    <3>2. Hosts \subseteq 1..(Size + 1)
      BY <3>1 DEF Hosts, Workers, Master
    <3> QED BY <3>1, <3>2
  <2>3. stage \in {"buy", "run"}
    BY <2>1, <2>2 DEF PlanInv, HostsInOrder
  <2>4. h \in DOMAIN Machines
    BY <2>1, <2>2, <2>3, MachinesHoldTasks DEF PlanInv, HostsInOrder
  <2>5. type \in Types
    BY <2>1, <2>3, <2>4, MachinesHoldTasks
  <2>6. ValidPStates /\ speeds = HostSpeeds
    BY <2>3 DEF PlanInv, PlanMade
  <2> HIDE DEF type
  <2>7. pstate[type] \in Types /\ (CHOOSE x \in Types : pstate[x] = pstate[type]) = type
    BY <2>5, <2>6 DEF ValidPStates
  <2>8. speeds[pstate[type]] = VMList[type].flops \div Giga
    BY <2>6, <2>7 DEF HostSpeeds
  <2>9. VMList[type].flops \in Nat /\ Giga \in Nat \ {0}
    BY <2>5, ViewTypes, PlanningAssumption
  <2> QED BY <2>8, <2>9, WholeUnits DEF type
<1> QED BY <1>1, PlanInvariant, PTL

\* The plan that is bought meets the deadline by its queues and the types of
\* its machines, whichever of the two schedulers made it, although they
\* estimate the makespan in different ways.
THEOREM PlanMeetsDeadline == PlanSpec => []PlanInTime
<1>1. PlanInv /\ PlanTimes => PlanInTime
  <2> SUFFICES ASSUME PlanInv, PlanTimes, stage \in {"buy", "run"}, NEW t \in Tasks
               PROVE  EndTimes(Machines)[t] <= Deadline
    BY DEF PlanInTime
  <2>0. Deadline \in Nat
    BY ViewAssumption
  <2>1. CASE algorithm = "baseline"
    <3>1. Machines = vms /\ phase = "done"
      BY <2>1 DEF Machines, PlanInv, PlanMade
    <3>2. makespan = LastEndOf(EndTimes(vms)) /\ makespan <= Deadline /\ next = Size
      BY <3>1 DEF PlanTimes, DeadlineMet, TimesInv, MakespanCalculated, LastEndOf,
                  PlanInv, BaselineInv, BaselineTypeOK
    <3>3. EndTimes(vms) \in [Tasks -> Nat]
      BY <3>2, AllPlacedQueued, EndTimesAre DEF PlanTimes, TimesInv, PlanInv
    <3>4. LastEndOf(EndTimes(vms)) \in Nat /\ EndTimes(vms)[t] <= LastEndOf(EndTimes(vms))
      BY <3>3, LastEndIs
    <3>5. EndTimes(vms)[t] \in Nat
      BY <3>3
    <3> QED BY <2>0, <3>1, <3>2, <3>4, <3>5
  <2>2. CASE algorithm # "baseline"
    <3>1. /\ maoPhase = "planned" /\ Machines = MachineEach(taskVM) /\ taskVM \in [Tasks -> Types]
          /\ Makespan(taskVM) <= Deadline
      BY <2>2 DEF Machines, MachineEach, PlanInv, PlanMade, MaoInv, MaoTypeOK, PlanTimes, DeadlineMet
    <3>2. TaskEndTimes(taskVM, AvgLag) = EndTimes(Machines)
      BY <3>1, EachEnds
    <3>3. EndTimes(Machines) \in [Tasks -> Nat]
      BY <3>1, EachWellQueued, EndTimesAre
    <3>4. Makespan(taskVM) = LastEndOf(EndTimes(Machines))
      BY <3>2 DEF Makespan, LastEndOf
    <3>5. LastEndOf(EndTimes(Machines)) \in Nat /\ EndTimes(Machines)[t] <= LastEndOf(EndTimes(Machines))
      BY <3>3, LastEndIs
    <3>6. EndTimes(Machines)[t] \in Nat
      BY <3>3
    <3> QED BY <2>0, <3>1, <3>4, <3>5, <3>6
  <2> QED BY <2>1, <2>2
<1> QED BY <1>1, PlanInvariant, PlanTimesInvariant, PTL

\* What holds of the baseline scheduler's times alone holds in the program.
THEOREM PlanKeepsBaselinesPromises == PlanSpec => []PlacedAsCalculated /\ UpgradesNeverHurt
<1> DEFINE Unhurt == phase = "check" =>
                         /\ \A v \in DOMAIN vms : ~Faster(vms[v].type, vms'[v].type)
                         /\ makespan' <= makespan
<1>1. PlanInv /\ PlanTimes => PlacedAsCalculated
  BY PlacedTimes DEF PlanInv, PlanTimes
<1>2. PlanInv /\ PlanTimes /\ [PlanNext]_planVars => [Unhurt]_vars
  BY UpgradeStepNeverHurts, PlanStepsAreSteps DEF PlanInv, PlanTimes
<1>3. UpgradesNeverHurt <=> [][Unhurt]_vars
  BY DEF UpgradesNeverHurt
<1> QED BY <1>1, <1>2, <1>3, PlanInvariant, PlanTimesInvariant, PTL DEF PlanSpec
=============================================================================
