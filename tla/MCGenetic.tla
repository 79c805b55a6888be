----------------------------- MODULE MCGenetic -----------------------------
(***************************************************************************)
(* Two tasks without dependencies, a slow and a fast type; the first task   *)
(* needs the memory of the slow one.                                       *)
(***************************************************************************)
EXTENDS AssignmentCost

MCDependencies == [t \in Tasks |-> {}]
MCOrder == [i \in Tasks |-> 1 - i]
MCRequirements ==
    [t \in Tasks |-> [cores |-> 1, memory |-> 2 - t, size |-> 2]]
MCVMList ==
    [type \in Types |-> [cores |-> 1, memory |-> 2 - type,
                         flops |-> 1 + type, price |-> 1 + 2 * type]]

MCMutations == <<"SchedulingMutation", "MatchingMutation", "KeepVMStandbyMutation">>
MCModifications ==
    <<"SchedulingCrossover", "MatchingCrossover", "KeepVMStandbyCrossover">> \o MCMutations
=============================================================================
