--------------------------- MODULE MCGeneticOrder ---------------------------
(***************************************************************************)
(* Four tasks, of which the last needs the first two and the third the     *)
(* second; one type of machine.  Five orders agree with this.              *)
(***************************************************************************)
EXTENDS AssignmentCost

MCDependencies == [t \in Tasks |-> CASE t = 2 -> {1} [] t = 3 -> {0, 1} [] OTHER -> {}]
MCOrder == [i \in Tasks |-> CASE i = 0 -> 1 [] i = 1 -> 2 [] i = 2 -> 0 [] i = 3 -> 3]
MCRequirements ==
    [t \in Tasks |-> [cores |-> 1, memory |-> 1, size |-> 1 + t]]
MCVMList ==
    [type \in Types |-> [cores |-> 1, memory |-> 1, flops |-> 1, price |-> 2]]

MCModifications ==
    <<"SchedulingCrossover", "MatchingCrossover", "KeepVMStandbyCrossover",
      "SchedulingMutation", "MatchingMutation", "KeepVMStandbyMutation">>
=============================================================================
