--------------------------- MODULE MCCloudSimulator ---------------------------
(***************************************************************************)
(* A diamond on two machines:                                              *)
(*                                                                         *)
(*   0 --f1--> 1 --f2--> 3         f0 is an input of the workflow,         *)
(*   0 --f1--> 2 --f3--> 3         f4 its output                           *)
(*                                                                         *)
(* Plans are all the schedules whose queues follow one of the two          *)
(* topological orders, as the schedulers' do.                              *)
(***************************************************************************)
EXTENDS EventLog, SequencesExt

MCTasks == 0..3
MCFiles == 0..4
MCInputs == 0 :> <<0>> @@ 1 :> <<1>> @@ 2 :> <<1>> @@ 3 :> <<2, 3>>
MCOutputs == 0 :> <<1>> @@ 1 :> <<2>> @@ 2 :> <<3>> @@ 3 :> <<4>>
MCWorkflowOutputs == {4}

MCVMs == 0..1
MCHosts == 0..1
MCVMSpec == [v \in MCVMs |-> [cores |-> 2, memory |-> 4]]
MCHostSpec == [h \in MCHosts |-> [cores |-> 2, memory |-> 4]]
MCNeed == [t \in MCTasks |-> [cores |-> 1 + (t % 2), memory |-> 3]]

PlansFor(order, vms) ==
    {[v \in vms |-> SelectSeq(order, LAMBDA t : place[t] = v)] : place \in [MCTasks -> vms]}

MCPlans == PlansFor(<<0, 1, 2, 3>>, MCVMs) \cup PlansFor(<<0, 2, 1, 3>>, MCVMs)
=============================================================================
