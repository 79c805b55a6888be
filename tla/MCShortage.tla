------------------------------ MODULE MCShortage ------------------------------
(***************************************************************************)
(* A platform given on the command line with fewer hosts than the schedule *)
(* buys machines: the second purchase fails, and ResetSchedule, which      *)
(* visits only the machines there are, drops the tasks planned for it.     *)
(*                                                                         *)
(*   0 --f1--> 1,   0 --f1--> 2                                            *)
(***************************************************************************)
EXTENDS CloudSimulator, SequencesExt

MCTasks == 0..2
MCFiles == 0..1
MCInputs == 0 :> <<0>> @@ 1 :> <<1>> @@ 2 :> <<1>>
MCOutputs == 0 :> <<1>> @@ 1 :> <<>> @@ 2 :> <<>>
MCWorkflowOutputs == {1}

MCVMs == 0..1
MCHosts == {0}
MCVMSpec == [v \in MCVMs |-> [cores |-> 1, memory |-> 2]]
MCHostSpec == [h \in MCHosts |-> [cores |-> 1, memory |-> 2]]
MCNeed == [t \in MCTasks |-> [cores |-> 1, memory |-> 1]]

\* Task 2 alone on the machine that cannot be had.
MCPlans == {0 :> <<0, 1>> @@ 1 :> <<2>>}

\* Both readers of f1 are on it: no file becomes ready, nothing is sent.
MCPlansAllReaders == {0 :> <<0>> @@ 1 :> <<1, 2>>}
=============================================================================
