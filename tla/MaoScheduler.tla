---------------------------- MODULE MaoScheduler ----------------------------
(***************************************************************************)
(* The Mao scheduler (schedulers/mao_scheduler.cpp): a machine of the      *)
(* cheapest type for each task, then the task whose next faster type gains *)
(* most time for its price is given that type, until the deadline is met.  *)
(* After that the deadline is split into deadlines of the tasks, along     *)
(* critical paths.                                                         *)
(*                                                                         *)
(* The values of these deadlines and the load vectors made of them decide  *)
(* nothing; kept is which tasks have one.  Ties between equal end times    *)
(* are left open, as std::sort leaves them.  A list of parents is a set:   *)
(* in the code it holds a parent once for each file that is read from it,  *)
(* but a further entry is met when both tasks have a deadline, and makes   *)
(* an empty path.  X_Y is a bug that X could have (see WorkflowGraph).     *)
(***************************************************************************)
EXTENDS SchedulerView, SequencesExt

VARIABLES
    taskVM,     \* task -> type of its machine
    maoPhase,
    parents,    \* endTimeParentList
    endTasks,   \* tasksEndTimeSorted: what the loop has still to visit
    endTask,    \* endTaskId
    path,       \* currentPath
    withDeadline   \* tasks whose deadline is not EMPTY_PAIR

maoVars == <<taskVM, maoPhase, parents, endTasks, endTask, path, withDeadline>>
pathVars == <<parents, endTasks, endTask, path, withDeadline>>

NoTask == -1

MaoPhases == {"cheapest", "reduce", "deadlines", "path", "planned",
              "can't speedup current plan", "already has a deadline"}

MaoTypeOK ==
    /\ taskVM \in [Tasks -> Types]
    /\ maoPhase \in MaoPhases
    /\ parents \in [Tasks -> SUBSET Tasks]
    /\ endTasks \in SUBSET Tasks
    /\ endTask \in Tasks \cup {NoTask}
    /\ path \in Seq(Tasks)
    /\ withDeadline \in SUBSET Tasks

MaoInit ==
    /\ taskVM = [t \in Tasks |-> 0]
    /\ maoPhase = "cheapest"
    /\ parents = Dependencies
    /\ endTasks = Tasks
    /\ endTask = NoTask
    /\ path = <<>>
    /\ withDeadline = {}

-----------------------------------------------------------------------------
(* The machines *)

Price(type) == VMList[type].price

RunnableVMs(t) == {type \in Types : CanBeExecuted(t, type)}

\* The first type that will do.
CheapestVM_First(t) == CHOOSE x \in RunnableVMs(t) : \A y \in RunnableVMs(t) : x <= y

CheapestVM(t) ==
    CHOOSE x \in RunnableVMs(t) : \A y \in RunnableVMs(t) :
        Price(x) <= Price(y) /\ (y < x => Price(x) < Price(y))

GetCheapestVMs ==
    /\ maoPhase = "cheapest"
    /\ taskVM' = [t \in Tasks |-> CheapestVM(t)]
    /\ maoPhase' = "reduce"
    /\ UNCHANGED pathVars

\* CalculateMakespan counts the lag for every task, CalculateTasksEndTimes
\* does not count it.
TaskEndTimes(machines, lag) ==
    LET End[i \in Tasks] ==
            LET t == Order[i]
                before == {j \in 0..(i - 1) : Order[j] \in Dependencies[t]}
            IN  Max({0} \cup {End[j] : j \in before}) + lag + GetExecutionTime(t, machines[t])
    IN  [t \in Tasks |-> End[CHOOSE i \in Tasks : Order[i] = t]]

Makespan(machines) ==
    LET ends == TaskEndTimes(machines, AvgLag) IN Max({ends[t] : t \in Tasks})

-----------------------------------------------------------------------------
(* ReduceMakespan *)

FasterVMs(t, machines) == {type \in RunnableVMs(t) : Faster(type, machines[t])}

\* The last of the cheapest, as the test is <=.
NewVM(t, machines) ==
    CHOOSE x \in FasterVMs(t, machines) : \A y \in FasterVMs(t, machines) :
        Price(x) <= Price(y) /\ (y > x => Price(x) < Price(y))

SpedUp(t, machines) == [machines EXCEPT ![t] = NewVM(t, machines)]

Speedup(i, machines) ==
    [at |-> i,
     gain |-> Makespan(machines) - Makespan(SpedUp(Order[i], machines)),
     priceDiff |-> Price(NewVM(Order[i], machines)) - Price(machines[Order[i]])]

\* gain / priceDiff compared as doubles: a gain for nothing is infinite, no
\* gain for nothing is not a number and above nothing.
Above(x, y) ==
    IF x.priceDiff = 0
    THEN x.gain > 0 /\ y.priceDiff # 0
    ELSE /\ y.priceDiff # 0
         /\ x.gain * x.priceDiff * y.priceDiff * y.priceDiff
              > y.gain * y.priceDiff * x.priceDiff * x.priceDiff

InitialMaxSpeedup == [at |-> -1, gain |-> -1, priceDiff |-> 1]

Candidates(machines) ==
    {s \in {Speedup(i, machines) : i \in {i \in Tasks : FasterVMs(Order[i], machines) # {}}} :
        Above(s, InitialMaxSpeedup)}

\* The first in the order of the tasks with the highest quotient.
IsMaxSpeedup(x, machines) ==
    \A y \in Candidates(machines) : ~Above(y, x) /\ (y.at < x.at => Above(x, y))

ReduceMakespan ==
    /\ maoPhase = "reduce" /\ Makespan(taskVM) > Deadline
    /\ IF Candidates(taskVM) = {}
       THEN maoPhase' = "can't speedup current plan" /\ UNCHANGED taskVM
       ELSE /\ \E s \in Candidates(taskVM) : /\ IsMaxSpeedup(s, taskVM)
                                             /\ taskVM' = SpedUp(Order[s.at], taskVM)
            /\ UNCHANGED maoPhase
    /\ UNCHANGED pathVars

MeetsDeadline ==
    /\ maoPhase = "reduce" /\ Makespan(taskVM) <= Deadline
    /\ maoPhase' = "deadlines"
    /\ UNCHANGED <<taskVM, pathVars>>

-----------------------------------------------------------------------------
(* CalculateDeadlines *)

Latest(S) ==
    LET ends == TaskEndTimes(taskVM, 0) IN {t \in S : \A u \in S : ends[u] <= ends[t]}

HasParents(t) == t # NoTask /\ parents[t] # {}

NextEndTask(t) ==
    /\ maoPhase = "deadlines" /\ ~HasParents(endTask)
    /\ withDeadline # Tasks
    /\ t \in Latest(endTasks)
    /\ endTask' = t
    /\ endTasks' = endTasks \ {t}
    /\ UNCHANGED <<taskVM, maoPhase, parents, path, withDeadline>>

\* The last task of a path is on it although it has a deadline.
StartPath_Included ==
    /\ maoPhase = "deadlines" /\ HasParents(endTask)
    /\ \E p \in Latest(parents[endTask]) :
         /\ parents' = [parents EXCEPT ![endTask] = @ \ {p}]
         /\ path' = <<endTask, p>>
    /\ maoPhase' = "path"
    /\ UNCHANGED <<taskVM, endTasks, endTask, withDeadline>>

\* The parent stays in its list.
StartPath_NotPopped ==
    /\ maoPhase = "deadlines" /\ HasParents(endTask)
    /\ \E p \in Latest(parents[endTask]) :
         path' = (IF endTask \in withDeadline THEN <<>> ELSE <<endTask>>) \o <<p>>
    /\ maoPhase' = "path"
    /\ UNCHANGED <<taskVM, parents, endTasks, endTask, withDeadline>>

StartPath ==
    /\ maoPhase = "deadlines" /\ HasParents(endTask)
    /\ \E p \in Latest(parents[endTask]) :
         /\ parents' = [parents EXCEPT ![endTask] = @ \ {p}]
         /\ path' = (IF endTask \in withDeadline THEN <<>> ELSE <<endTask>>) \o <<p>>
    /\ maoPhase' = "path"
    /\ UNCHANGED <<taskVM, endTasks, endTask, withDeadline>>

PathGoesOn == Last(path) \notin withDeadline /\ parents[Last(path)] # {}

FollowPath ==
    /\ maoPhase = "path" /\ PathGoesOn
    /\ \E p \in Latest(parents[Last(path)]) :
         /\ parents' = [parents EXCEPT ![Last(path)] = @ \ {p}]
         /\ path' = Append(path, p)
    /\ UNCHANGED <<taskVM, maoPhase, endTasks, endTask, withDeadline>>

\* A path that ran into a task with a deadline ends before it.
NewOnPath == ToSet(IF Last(path) \in withDeadline THEN Front(path) ELSE path)

\* The first task of a path gets no deadline.
SplitPath_Short ==
    /\ maoPhase = "path" /\ ~PathGoesOn
    /\ withDeadline' = withDeadline \cup ToSet(Front(path))
    /\ maoPhase' = "deadlines"
    /\ path' = <<>>
    /\ UNCHANGED <<taskVM, parents, endTasks, endTask>>

SplitPath ==
    /\ maoPhase = "path" /\ ~PathGoesOn
    /\ IF NewOnPath \cap withDeadline = {}
       THEN /\ withDeadline' = withDeadline \cup NewOnPath
            /\ maoPhase' = "deadlines"
       ELSE /\ maoPhase' = "already has a deadline"
            /\ UNCHANGED withDeadline
    /\ path' = <<>>
    /\ UNCHANGED <<taskVM, parents, endTasks, endTask>>

\* Left when all deadlines are counted, or at the end of the list.
DeadlinesCalculated ==
    /\ maoPhase = "deadlines" /\ ~HasParents(endTask)
    /\ withDeadline = Tasks \/ endTasks = {}
    /\ maoPhase' = "planned"
    /\ UNCHANGED <<taskVM, pathVars>>

MaoNext ==
    \/ GetCheapestVMs \/ ReduceMakespan \/ MeetsDeadline
    \/ \E t \in Tasks : NextEndTask(t)
    \/ StartPath \/ FollowPath \/ SplitPath \/ DeadlinesCalculated

MaoSpec == MaoInit /\ [][MaoNext]_maoVars

-----------------------------------------------------------------------------
(* Properties *)

(***************************************************************************)
(* "priceDiff <= 0?" (line 149): the price difference is never negative,   *)
(* because no faster type that can run the task is cheaper than the one it *)
(* has, however often it has been sped up.                                 *)
(***************************************************************************)
NoCheaperFaster ==
    maoPhase # "cheapest" =>
        \A t \in Tasks : \A type \in FasterVMs(t, taskVM) : Price(taskVM[t]) <= Price(type)

(***************************************************************************)
(* "Can't speedup current plan!" (line 162): the scheduler gives up only   *)
(* when every task has the fastest type that can run it.                   *)
(***************************************************************************)
GivesUpAtFullSpeed ==
    maoPhase = "can't speedup current plan" => \A t \in Tasks : FasterVMs(t, taskVM) = {}

(***************************************************************************)
(* "Task %d already has a deadline!" (line 265) never fails, in whichever  *)
(* order equal end times are sorted: a path stops at the first task that   *)
(* has a deadline, and may both begin and end at one.                      *)
(***************************************************************************)
DeadlinesOnce == maoPhase # "already has a deadline"

(***************************************************************************)
(* Every task with a dependency or a dependent gets a deadline, in         *)
(* whichever order equal end times are sorted: no task is lost between the *)
(* paths, which are cut out of lists that are consumed on the way.         *)
(***************************************************************************)
Isolated(t) == Dependencies[t] = {} /\ \A u \in Tasks : t \notin Dependencies[u]

DeadlinesForConnected ==
    maoPhase = "planned" => \A t \in Tasks : ~Isolated(t) => t \in withDeadline

(***************************************************************************)
(* "Something went wrong, not all tasks have deadlines assigned!" (line    *)
(* 279): a plan in which some task has no deadline is not accepted.        *)
(***************************************************************************)
AllDeadlinesAssigned == maoPhase = "planned" => withDeadline = Tasks
=============================================================================
