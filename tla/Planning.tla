------------------------------ MODULE Planning ------------------------------
(***************************************************************************)
(* From the start of the program to the run (main.cpp): the platform is    *)
(* generated for the machine types and the workflow                        *)
(* (platform_generator.cpp, tools/plat_gen.py), a scheduler plans, its     *)
(* machines are bought and its tasks assigned.  The schedulers are those   *)
(* of BaselineScheduler and MaoScheduler; the genetic scheduler, whose     *)
(* search is much larger, has runs of its own.                             *)
(* X_Y is a bug that X could have (see WorkflowGraph).                     *)
(***************************************************************************)
EXTENDS BaselineScheduler, MaoScheduler

CONSTANTS
    Algorithms,   \* values of --scheduling_algorithm
    PStates,      \* the pstate_id of each type: type -> number
    Giga          \* flops of one unit of speed in the platform file

ASSUME PlanningAssumption ==
    /\ Algorithms \subseteq {"baseline", "mao"}
    /\ PStates \subseteq [Types -> Int]
    /\ Giga \in Nat \ {0}

VARIABLES
    algorithm,    \* chosen once
    pstate,       \* chosen once
    stage,
    speeds,       \* the speeds of every host of the file, in order
    machineOn,    \* host -> the number of the machine on it, from 1
    bought,       \* BuyVMActions processed
    assigned      \* tasks ResetSchedule has assigned

NoMachine == 0
Workers == 1..Size          \* hostCnt
Master == Size + 1          \* the last by name
Hosts == Workers \cup {Master}

mainVars == <<stage, speeds, machineOn, bought, assigned>>
chosen == <<algorithm, pstate>>
planVars == <<vars, maoVars, chosen, mainVars>>

PlanInit ==
    /\ Init /\ MaoInit
    /\ algorithm \in Algorithms
    /\ pstate \in PStates
    /\ stage = "generate"
    /\ speeds = <<>>
    /\ machineOn = [h \in Hosts |-> NoMachine]
    /\ bought = 0
    /\ assigned = {}

-----------------------------------------------------------------------------
(* GeneratePlatform *)

MaxCores == Max({VMList[type].cores : type \in Types})
MaxMemory == Max({VMList[type].memory : type \in Types})

\* In the order of the list of types.
HostSpeeds_Unsorted == [i \in Types |-> VMList[i].flops \div Giga]

HostSpeeds ==
    [i \in Types |-> LET type == CHOOSE type \in Types : pstate[type] = i
                     IN  VMList[type].flops \div Giga]

ValidPStates ==
    /\ \A type \in Types : pstate[type] \in Types
    /\ \A type1, type2 \in Types : pstate[type1] = pstate[type2] => type1 = type2

GeneratePlatform ==
    /\ stage = "generate"
    /\ IF ValidPStates
       THEN stage' = "plan" /\ speeds' = HostSpeeds
       ELSE stage' = "bad pstate id" /\ UNCHANGED speeds
    /\ UNCHANGED <<vars, maoVars, chosen, machineOn, bought, assigned>>

\* Every host has the cores of the largest type but the master, which has
\* one; CloudSimulator gives each the memory of the largest type.
HostSpec_Smallest(h) ==
    [cores |-> CHOOSE c \in {VMList[type].cores : type \in Types} :
                 \A type \in Types : c <= VMList[type].cores,
     memory |-> MaxMemory]

HostSpec(h) == [cores |-> IF h = Master THEN 1 ELSE MaxCores, memory |-> MaxMemory]

-----------------------------------------------------------------------------
(* PrepareForRun of the scheduler *)

PlanBaseline ==
    /\ stage = "plan" /\ algorithm = "baseline"
    /\ PlaceTask \/ FirstMakespan \/ UpgradeRandomVM \/ MakeActions
    /\ UNCHANGED <<maoVars, chosen, mainVars>>

PlanMao ==
    /\ stage = "plan" /\ algorithm = "mao"
    /\ MaoNext
    /\ UNCHANGED <<vars, chosen, mainVars>>

\* The machines to buy, the ids in order: Mao buys one for each task.
Machines ==
    IF algorithm = "baseline" THEN vms
    ELSE [i \in 1..Size |-> [type |-> taskVM[i - 1], queue |-> <<i - 1>>]]

Planned ==
    /\ stage = "plan"
    /\ phase = "done" \/ maoPhase = "planned"
    /\ stage' = "buy"
    /\ UNCHANGED <<vars, maoVars, chosen, speeds, machineOn, bought, assigned>>

-----------------------------------------------------------------------------
(* The actions *)

GetEmptyHost(type) ==
    {h \in Hosts : /\ machineOn[h] = NoMachine
                   /\ HostSpec(h).cores >= VMList[type].cores
                   /\ HostSpec(h).memory >= VMList[type].memory}

BuyVM ==
    /\ stage = "buy" /\ bought < Len(Machines)
    /\ LET empty == GetEmptyHost(Machines[bought + 1].type)
       IN  machineOn' = [h \in Hosts |-> IF h \in empty /\ \A g \in empty : h <= g
                                         THEN bought + 1 ELSE machineOn[h]]
    /\ bought' = bought + 1
    /\ UNCHANGED <<vars, maoVars, chosen, stage, speeds, assigned>>

\* CheckTask: a machine that found no host does not exist.
Assignable(i) ==
    {t \in ToSet(Machines[i].queue) : /\ \E h \in Hosts : machineOn[h] = i
                                      /\ CanBeExecuted(t, Machines[i].type)}

ResetSchedule ==
    /\ stage = "buy" /\ bought = Len(Machines)
    /\ assigned' = UNION {Assignable(i) : i \in DOMAIN Machines}
    /\ stage' = "run"
    /\ UNCHANGED <<vars, maoVars, chosen, speeds, machineOn, bought>>

Stopped ==
    \/ stage \in {"run", "bad pstate id"}
    \/ phase \in {"can't upgrade VM type", "task order is inconsistent"}
    \/ maoPhase \in {"can't speedup current plan", "already has a deadline"}

PlanEnded == Stopped /\ UNCHANGED planVars

PlanNext ==
    \/ GeneratePlatform \/ PlanBaseline \/ PlanMao \/ Planned
    \/ BuyVM \/ ResetSchedule \/ PlanEnded

PlanSpec == PlanInit /\ [][PlanNext]_planVars /\ WF_planVars(GeneratePlatform \/ PlanMao)

-----------------------------------------------------------------------------
(* Properties *)

(***************************************************************************)
(* On the platform the program generates for itself every machine of       *)
(* either plan finds a host, first fit and all, and every task is assigned *)
(* to its machine: none is left out of the run with a warning              *)
(* (cloud_simulator.cpp, AssignTask and RegisterVirtualMachine).           *)
(***************************************************************************)
AllTasksAssigned == stage = "run" => assigned = Tasks

(***************************************************************************)
(* The host a machine was put on runs at the speed of the machine's type,  *)
(* less than one unit of the platform file slower: the speeds of the file  *)
(* are sorted by pstate and picked by pstate (platform_generator.cpp 43,   *)
(* host.cpp 23), whatever the order of the types.                          *)
(***************************************************************************)
RunsAtPlannedSpeed ==
    \A h \in Hosts : machineOn[h] # NoMachine =>
        LET type == Machines[machineOn[h]].type
            speed == speeds[pstate[type]] * Giga
        IN  VMList[type].flops - Giga < speed /\ speed <= VMList[type].flops

(***************************************************************************)
(* The plan that is bought meets the deadline by its queues and the types  *)
(* of its machines, with the lag counted once for each machine, although   *)
(* the two schedulers estimate the makespan in different ways.             *)
(***************************************************************************)
PlanInTime == stage \in {"buy", "run"} => \A t \in Tasks : EndTimes(Machines)[t] <= Deadline

(***************************************************************************)
(* The loop of Mao (line 28) ends, with a plan or in an assertion: each    *)
(* round gives some task a strictly faster type.  So does the construction *)
(* of the critical paths.                                                  *)
(***************************************************************************)
MaoEnds == algorithm = "mao" ~> (maoPhase = "planned" \/ Stopped)
=============================================================================
