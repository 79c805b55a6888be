--------------------------- MODULE SchedulerView ---------------------------
(***************************************************************************)
(* What the schedulers see of the workflow and of the machine types        *)
(* (view/viewer.cpp, workflow/task.h, vm_list.cpp).  Times and costs are    *)
(* integers: the instances choose sizes that the speeds divide.            *)
(***************************************************************************)
EXTENDS Integers

CONSTANTS
    Size,           \* WorkflowSize()
    Dependencies,   \* task -> the tasks it depends on
    Requirements,   \* task -> [cores, memory, size]
    Order,          \* position -> task: the result of MakeTasksOrder()
    VMTypes,        \* number of machine types
    VMList,         \* type -> [cores, memory, flops, price]
    AvgLag,         \* (GetMinLag() + GetMaxLag()) / 2
    Deadline        \* GetDeadline()

Tasks == 0..(Size - 1)
Types == 0..(VMTypes - 1)

\* Every task once; in order, if each comes after all it depends on.
Strings ==
    {s \in [Tasks -> Tasks] : /\ \A i, j \in Tasks : s[i] = s[j] => i = j
                              /\ \A t \in Tasks : \E i \in Tasks : s[i] = t}
InOrder(s) == \A i, j \in Tasks : s[i] \in Dependencies[s[j]] => i < j

CanBeExecuted(t, type) ==
    /\ Requirements[t].cores <= VMList[type].cores
    /\ Requirements[t].memory <= VMList[type].memory

GetExecutionTime(t, type) == Requirements[t].size \div VMList[type].flops
GetExecutionCost(t, type) == VMList[type].price * GetExecutionTime(t, type)

\* VMDescription::operator > looks at the speed only.
Faster(type1, type2) == VMList[type1].flops > VMList[type2].flops

\* What TasksOrder proves of Order, and a machine for every task: without
\* one each scheduler ends in an assertion before it plans anything.
ASSUME ViewAssumption ==
    /\ Size \in Nat \ {0}
    /\ VMTypes \in Nat \ {0}
    /\ Dependencies \in [Tasks -> SUBSET Tasks]
    /\ Requirements \in [Tasks -> [cores : Nat, memory : Nat, size : Nat]]
    /\ VMList \in [Types -> [cores : Nat, memory : Nat, flops : Nat \ {0}, price : Nat]]
    /\ AvgLag \in Nat
    /\ Deadline \in Nat
    /\ Order \in Strings /\ InOrder(Order)
    /\ \A t \in Tasks : \E type \in Types : CanBeExecuted(t, type)
=============================================================================
