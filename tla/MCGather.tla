------------------------------- MODULE MCGather -------------------------------
(***************************************************************************)
(* Two producers and one consumer of both on up to three machines, so that *)
(* two machines may send to a third and one mailer may receive, send and   *)
(* deliver locally at once.  One pair of tasks shares two files, two tasks *)
(* read the input of the workflow, and nobody reads its output:            *)
(*                                                                         *)
(*   0 --f1--> 2 <--f0-- 1         f4 is an input of the workflow,         *)
(*   0 --f1--> 1                   f2 its output                           *)
(*   0 --f3--> 2                                                           *)
(***************************************************************************)
EXTENDS CloudSimulator, SequencesExt

MCTasks == 0..2
MCFiles == 0..4
MCInputs == 0 :> <<4>> @@ 1 :> <<1>> @@ 2 :> <<0, 1, 3, 4>>
MCOutputs == 0 :> <<1, 3>> @@ 1 :> <<0>> @@ 2 :> <<2>>
MCWorkflowOutputs == {2}

MCVMs == 0..2
MCHosts == 0..2
MCVMSpec == [v \in MCVMs |-> [cores |-> IF v = 0 THEN 3 ELSE v, memory |-> 2]]
MCHostSpec == 0 :> [cores |-> 1, memory |-> 2] @@ 1 :> [cores |-> 4, memory |-> 3]
              @@ 2 :> [cores |-> 2, memory |-> 2]
MCNeed == [t \in MCTasks |-> [cores |-> 1, memory |-> 1 + (t % 2)]]

MCPlans == {[v \in MCVMs |-> SelectSeq(<<0, 1, 2>>, LAMBDA t : place[t] = v)] :
               place \in [MCTasks -> MCVMs]}
=============================================================================
