----------------------------- MODULE MCPlanning -----------------------------
(***************************************************************************)
(* The tasks and the types of MCBaseline; two more tasks wait for the      *)
(* first, so that critical paths run into tasks that have a deadline.  The *)
(* flops are in units of the platform file that do not divide them, and    *)
(* the lists of pstates are in order, out of order and in error.           *)
(***************************************************************************)
EXTENDS Planning, TLC

MCDependencies ==
    [t \in Tasks |-> CASE t = 6 -> {0} [] t = 8 -> {0, 1} [] t = 9 -> {0, 2, 8} [] OTHER -> {}]
MCOrder == [i \in Tasks |-> i]
MCRequirements ==
    [t \in Tasks |-> [cores |-> 1 + (t % 2), memory |-> 1 + (t % 3),
                     size |-> IF t = 7 THEN 108 ELSE 36]]
MCVMList ==
    [type \in Types |-> [cores |-> IF type = 3 THEN 4 ELSE 2,
                         memory |-> CASE type = 0 -> 1 [] type = 2 -> 2 [] OTHER -> 3,
                         flops |-> CASE type = 0 -> 3 [] type = 1 -> 6 [] OTHER -> 9,
                         price |-> CASE type = 0 -> 1 [] type = 1 -> 3 [] type = 2 -> 2 [] type = 3 -> 4]]

MCPStates ==
    {[type \in Types |-> type], 0 :> 2 @@ 1 :> 0 @@ 2 :> 3 @@ 3 :> 1,
     0 :> 1 @@ 1 :> 1 @@ 2 :> 0 @@ 3 :> 2, 0 :> 1 @@ 1 :> 2 @@ 2 :> 3 @@ 3 :> 4}
=============================================================================
