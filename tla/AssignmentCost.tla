--------------------------- MODULE AssignmentCost ---------------------------
(***************************************************************************)
(* DoCalculateCostAndMakespan of the genetic scheduler, and what the plan  *)
(* made from an assignment would take: a task starts when the one before   *)
(* it in its queue and all it depends on have ended.  The plan keeps the    *)
(* queues of the machines only, not the scheduling string.                 *)
(* X_Y is a bug that X could have (see WorkflowGraph).                     *)
(***************************************************************************)
EXTENDS GeneticScheduler

NoTask == -1

\* The task before this one in the string, on whatever machine.
PreviousOn_AnyMachine(values, a, i) ==
    IF i = 1 THEN NoTask ELSE a.SchedulingString[i - 2]

\* prevTaskId[vmId]
PreviousOn(values, a, i) == values.prevTaskId[a.MatchingString[a.SchedulingString[i - 1]]]

\* One pass of the loop: the i-th task of the string.
NextValues(values, a, i) ==
    LET task == a.SchedulingString[i - 1]
        vm == a.MatchingString[task]
        prev == PreviousOn(values, a, i)
        kept == prev # NoTask /\ a.KeepVMStandbyString[prev]
        ends == {values.endTimes[d] : d \in Dependencies[task]}
                \cup (IF prev = NoTask THEN {0} ELSE {values.endTimes[prev]})
        earliestBegin == Max(ends \cup {0}) + (IF kept THEN 0 ELSE AvgLag)
        end == earliestBegin + GetExecutionTime(task, TypeOf(vm))
        idle == IF kept THEN earliestBegin - values.endTimes[prev] ELSE 0
    IN  [endTimes |-> [values.endTimes EXCEPT ![task] = end],
         prevTaskId |-> [values.prevTaskId EXCEPT ![vm] = task],
         makespan |-> Max({values.makespan, end}),
         cost |-> values.cost + GetExecutionCost(task, TypeOf(vm))
                  + VMList[TypeOf(vm)].price * idle]

DoCalculateCostAndMakespan(a) ==
    LET Values[i \in 0..Size] ==
            IF i = 0
            THEN [endTimes |-> [t \in Tasks |-> -1],
                  prevTaskId |-> [vm \in AvailableVMs |-> NoTask],
                  makespan |-> 0, cost |-> 0]
            ELSE NextValues(Values[i - 1], a, i)
    IN  Values[Size]

ComputedCost(a) == DoCalculateCostAndMakespan(a).cost
ComputedMakespan(a) == DoCalculateCostAndMakespan(a).makespan

-----------------------------------------------------------------------------
(* Properties *)

MachineOf(t) == CHOOSE k \in DOMAIN plan.queue : \E i \in DOMAIN plan.queue[k] : plan.queue[k][i] = t
PlaceOf(t) == CHOOSE i \in DOMAIN plan.queue[MachineOf(t)] : plan.queue[MachineOf(t)][i] = t
QueuedBefore(t) == IF PlaceOf(t) = 1 THEN {} ELSE {plan.queue[MachineOf(t)][PlaceOf(t) - 1]}

(***************************************************************************)
(* What the simulator takes for granted of a schedule (ResetSchedule, and  *)
(* a queue is worked off from its head): each task is in one queue, once,  *)
(* on a machine it fits, and some order of all tasks agrees with the       *)
(* workflow and with every queue, so that the run can end.                 *)
(***************************************************************************)
PlanCanBeRun ==
    phase = "done" =>
        /\ \A t \in Tasks : \E k \in DOMAIN plan.bought \cap DOMAIN plan.queue :
                        \E i \in DOMAIN plan.queue[k] :
              /\ plan.queue[k][i] = t
              /\ CanBeExecuted(t, plan.bought[k])
              /\ \A l \in DOMAIN plan.queue : \A j \in DOMAIN plan.queue[l] :
                    plan.queue[l][j] = t => l = k /\ j = i
        /\ \E s \in Strings :
              /\ InOrder(s)
              /\ \A t \in Tasks : \A u \in QueuedBefore(t) : PositionOf(s, u) < PositionOf(s, t)

\* When the tasks of the plan end, from its queues alone.
PlanTimes(standby) ==
    LET End[t \in Tasks] ==
            Max({0} \cup {End[u] : u \in Dependencies[t] \cup QueuedBefore(t)})
            + (IF \E u \in QueuedBefore(t) : standby[u] THEN 0 ELSE AvgLag)
            + GetExecutionTime(t, plan.bought[MachineOf(t)])
    IN  End

(***************************************************************************)
(* The makespan an assignment was chosen for is the one its plan has: it   *)
(* does not depend on what of the scheduling string the plan drops, and    *)
(* the renumbered machines are those the assignment was valued with.       *)
(***************************************************************************)
PlanWorthItsScore ==
    phase = "done" =>
        LET best == BestAssignment
            end == PlanTimes(best.KeepVMStandbyString)
        IN  MakespanOf(best) = Max({end[t] : t \in Tasks})
=============================================================================
