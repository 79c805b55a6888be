----------------------------- MODULE MCBaseline -----------------------------
(***************************************************************************)
(* Eight tasks to begin with and two that need several of them.  Of the    *)
(* two fastest types one has too little memory for some tasks, so that a   *)
(* mixed up index matters; with too little memory in both, as in           *)
(* MCBaselineUpgrade.cfg, some machines cannot be made faster at all.      *)
(***************************************************************************)
EXTENDS BaselineScheduler

CONSTANT LastMemory   \* memory of the last type

MCDependencies ==
    [t \in Tasks |-> CASE t = 8 -> {0, 1} [] t = 9 -> {2, 8} [] OTHER -> {}]
MCOrder == [i \in Tasks |-> i]
MCRequirements ==
    [t \in Tasks |-> [cores |-> 1, memory |-> 1 + (t % 3),
                     size |-> IF t = 7 THEN 36 ELSE 12]]
MCVMList ==
    [type \in Types |-> [cores |-> 1,
                         memory |-> CASE type = 0 -> 1 [] type = 1 -> 3
                                      [] type = 2 -> 2 [] type = 3 -> LastMemory,
                         flops |-> CASE type = 0 -> 1 [] type = 1 -> 2 [] OTHER -> 3,
                         price |-> 1 + type]]

\* A workflow whose first task has no size, and a machine without lag.
EmptyTask == [t \in Tasks |-> [cores |-> 1, memory |-> 1, size |-> 12 * t]]
=============================================================================
