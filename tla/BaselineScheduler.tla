------------------------- MODULE BaselineScheduler -------------------------
(***************************************************************************)
(* The baseline scheduler (schedulers/baseline_scheduler.cpp): the tasks   *)
(* are placed in topological order on the slowest machine that is free,    *)
(* then machines are made faster until the deadline is met.  The cost is   *)
(* only printed and left out.  X_Y is a bug that X could have (see         *)
(* WorkflowGraph).                                                         *)
(***************************************************************************)
EXTENDS SchedulerView, SequencesExt

VARIABLES
    next,         \* tasks of Order placed so far
    vms,          \* availableVMs
    vmEndTime,
    taskEndTime,
    makespan,
    phase

vars == <<next, vms, vmEndTime, taskEndTime, makespan, phase>>

Init ==
    /\ next = 0
    /\ vms = <<>>
    /\ vmEndTime = <<>>
    /\ taskEndTime = [t \in Tasks |-> 0]
    /\ makespan = 0
    /\ phase = "place"

-----------------------------------------------------------------------------
(* List scheduling *)

Ends(t, endTime) == {0} \cup {endTime[d] : d \in Dependencies[t]}

\* A machine that is still busy is taken too.
FreeVMs_Busy(t, begin) == {v \in DOMAIN vms : CanBeExecuted(t, vms[v].type)}

FreeVMs(t, begin) ==
    {v \in DOMAIN vms : vmEndTime[v] <= begin /\ CanBeExecuted(t, vms[v].type)}

\* The scans replace what they have by what is strictly slower.
FirstSlowest(S, type) ==
    CHOOSE x \in S : \A y \in S : /\ ~Faster(type[x], type[y])
                                  /\ y < x => Faster(type[y], type[x])

GetBestVM(t) ==
    FirstSlowest({type \in Types : CanBeExecuted(t, type)}, [type \in Types |-> type])

PlaceTask ==
    /\ phase = "place" /\ next < Size
    /\ LET t == Order[next]
           begin == Max(Ends(t, taskEndTime))
           free == FreeVMs(t, begin)
           best == FirstSlowest(free, [v \in free |-> vms[v].type])
           type == IF free = {} THEN GetBestVM(t) ELSE vms[best].type
           end == begin + GetExecutionTime(t, type) + (IF free = {} THEN AvgLag ELSE 0)
       IN  /\ IF free = {}
              THEN /\ vms' = Append(vms, [type |-> type, queue |-> <<t>>])
                   /\ vmEndTime' = Append(vmEndTime, end)
              ELSE /\ vms' = [vms EXCEPT ![best].queue = Append(@, t)]
                   /\ vmEndTime' = [vmEndTime EXCEPT ![best] = end]
           /\ taskEndTime' = [taskEndTime EXCEPT ![t] = end]
    /\ next' = next + 1
    /\ UNCHANGED <<makespan, phase>>

-----------------------------------------------------------------------------
(* DoCalculateMakespanAndCost *)

MachineOf(machines, t) == CHOOSE v \in DOMAIN machines : t \in ToSet(machines[v].queue)

QueuedBefore(machines, t) ==
    LET queue == machines[MachineOf(machines, t)].queue
    IN  {queue[i - 1] : i \in {i \in DOMAIN queue \ {1} : queue[i] = t}}

EndTime(machines, endTime, t) ==
    LET previous == QueuedBefore(machines, t)
    IN  Max(Ends(t, endTime) \cup {endTime[p] : p \in previous})
        + (IF previous = {} THEN AvgLag ELSE 0)
        + GetExecutionTime(t, machines[MachineOf(machines, t)].type)

EndTimes(machines) ==
    LET After[i \in 0..Size] ==
            IF i = 0 THEN [t \in Tasks |-> 0]
            ELSE [After[i - 1] EXCEPT ![Order[i - 1]] =
                     EndTime(machines, After[i - 1], Order[i - 1])]
    IN  After[Size]

\* The assertion on vmEndTime.
EndsGrow(machines, endTime) ==
    \A t \in Tasks : \A p \in {0} \cup {endTime[u] : u \in QueuedBefore(machines, t)} :
        p < endTime[t]

\* The makespan is the end of the last task in the order.
Calculated_LastTask(machines) ==
    /\ makespan' = EndTimes(machines)[Order[Size - 1]]
    /\ phase' = "check"

Calculated(machines) ==
    IF EndsGrow(machines, EndTimes(machines))
    THEN /\ makespan' = Max({EndTimes(machines)[t] : t \in Tasks})
         /\ phase' = "check"
    ELSE /\ phase' = "task order is inconsistent"
         /\ UNCHANGED makespan

FirstMakespan ==
    /\ phase = "place" /\ next = Size
    /\ Calculated(vms)
    /\ UNCHANGED <<next, vms, vmEndTime, taskEndTime>>

-----------------------------------------------------------------------------
(* UpgradeRandomVM *)

Fits(v, type) == \A t \in ToSet(vms[v].queue) : CanBeExecuted(t, type)

\* The tasks are held against the type the machine has.
Upgradable ==
    {v \in DOMAIN vms : /\ Fits(v, vms[v].type)
                        /\ \E type \in Types : Faster(type, vms[v].type)}

\* upgradableVMs[r]
UpgradableVM(r) ==
    CHOOSE v \in Upgradable : Cardinality({u \in Upgradable : u <= v}) = r

\* r is an index into upgradableVMs, and is used as one into availableVMs too.
NewTypes_TestedIsOther(r) ==
    {type \in Types : /\ Fits(UpgradableVM(r), type)
                      /\ Faster(type, vms[UpgradableVM(r)].type)}

NewTypes(r) ==
    {type \in Types : /\ Fits(r, type)
                      /\ Faster(type, vms[UpgradableVM(r)].type)}

\* The first of the slowest instead of the fastest.
NewVMType_Slowest(r) ==
    CHOOSE x \in NewTypes(r) : \A y \in NewTypes(r) :
        ~Faster(x, y) /\ (y < x => Faster(y, x))

NewVMType(r) ==
    CHOOSE x \in NewTypes(r) : \A y \in NewTypes(r) :
        ~Faster(y, x) /\ (y < x => Faster(x, y))

\* The body of the loop: upgrade and calculate.  With nothing left to
\* upgrade the result is ignored and the loop goes on.
UpgradeRandomVM ==
    /\ phase = "check" /\ makespan > Deadline
    /\ IF Upgradable = {}
       THEN UNCHANGED <<vms, makespan, phase>>
       ELSE \E r \in 1..Cardinality(Upgradable) :
              IF NewTypes(r) = {}
              THEN phase' = "can't upgrade VM type" /\ UNCHANGED <<vms, makespan>>
              ELSE /\ vms' = [vms EXCEPT ![r].type = NewVMType(r)]
                   /\ Calculated(vms')
    /\ UNCHANGED <<next, vmEndTime, taskEndTime>>

MakeActions ==
    /\ phase = "check" /\ makespan <= Deadline
    /\ phase' = "done"
    /\ UNCHANGED <<next, vms, vmEndTime, taskEndTime, makespan>>

Ended == phase \notin {"place", "check"} /\ UNCHANGED vars

Next ==
    \/ PlaceTask \/ FirstMakespan \/ UpgradeRandomVM
    \/ MakeActions \/ Ended

Spec == Init /\ [][Next]_vars

-----------------------------------------------------------------------------
(* Properties *)

(***************************************************************************)
(* Whatever is upgraded, each machine suits every task in its queue: the   *)
(* choice of machine and the choice of its new type go through two         *)
(* different indices (lines 161, 168 and 174), and the type must fit the    *)
(* machine that is changed.                                                *)
(***************************************************************************)
MachinesFit == \A v \in DOMAIN vms : Fits(v, vms[v].type)

(***************************************************************************)
(* The times the tasks were placed by are the times the queues give        *)
(* (lines 27-62 and 92-136 compute them independently): a machine taken as *)
(* free really is, and the lag is counted once for each machine.           *)
(***************************************************************************)
PlacedAsCalculated == phase = "place" /\ next = Size => EndTimes(vms) = taskEndTime

(***************************************************************************)
(* No upgrade makes a machine slower or the makespan longer, although the   *)
(* new type is compared with the type of another machine (line 168).       *)
(***************************************************************************)
UpgradesNeverHurt ==
    [][phase = "check" =>
          /\ \A v \in DOMAIN vms : ~Faster(vms[v].type, vms'[v].type)
          /\ makespan' <= makespan]_vars

(***************************************************************************)
(* "Something went wrong, can't upgrade VM type!" (line 173): a machine     *)
(* counted as upgradable has a faster type it can be given.                *)
(***************************************************************************)
UpgradableHasNewType == phase # "can't upgrade VM type"

(***************************************************************************)
(* "Something went wrong, task order is inconsistent!" (line 127) fails for *)
(* inconsistent orders only; Order is consistent (ViewAssumption).          *)
(***************************************************************************)
FailsForBadOrderOnly == phase # "task order is inconsistent"
=============================================================================
