---------------------------- MODULE CloudPlatform ----------------------------
(***************************************************************************)
(* Hosts and virtual machines: CloudPlatform (platform/cloud_platform.cpp) *)
(* on top of AbstractPlatform and Host.  A host holds at most one virtual  *)
(* machine, because GetEmptyHost only offers hosts that hold none.         *)
(* X_Y is a bug that X could have (see WorkflowGraph).                     *)
(***************************************************************************)
EXTENDS Integers, FiniteSets

CONSTANTS
    VMs,       \* ids of the machines the schedule buys
    Hosts,     \* ids of the hosts, in the order of HostsList
    VMSpec,    \* machine -> [cores, memory] of its type
    HostSpec   \* host -> [cores, memory]

Resources == [cores : Int, memory : Int]

ASSUME PlatformAssumption ==
    /\ VMs \subseteq Nat /\ IsFiniteSet(VMs)
    /\ Hosts \subseteq Nat /\ IsFiniteSet(Hosts)
    /\ VMSpec \in [VMs -> Resources]
    /\ HostSpec \in [Hosts -> Resources]

NoVM == -1

VARIABLES
    hostVM,           \* host -> the machine in Host::VirtualMachines
    virtualMachines,  \* ids in CloudPlatform::VirtualMachines
    freeSpec,         \* CloudPlatform::VirtualMachineSpecs
    vmStarted         \* machines that have left the state CREATED

platformVars == <<hostVM, virtualMachines, freeSpec, vmStarted>>

PlatformTypeOK ==
    /\ hostVM \in [Hosts -> VMs \cup {NoVM}]
    /\ virtualMachines \subseteq VMs
    /\ freeSpec \in [VMs -> Resources]
    /\ vmStarted \subseteq virtualMachines

PlatformInit ==
    /\ hostVM = [h \in Hosts |-> NoVM]
    /\ virtualMachines = {}
    /\ freeSpec = [v \in VMs |-> [cores |-> 0, memory |-> 0]]
    /\ vmStarted = {}

Fits(need, spec) == need.cores <= spec.cores /\ need.memory <= spec.memory

Less(spec, need) == [cores |-> spec.cores - need.cores, memory |-> spec.memory - need.memory]
More(spec, need) == [cores |-> spec.cores + need.cores, memory |-> spec.memory + need.memory]

\* Host::CreateVM checks the free part of the host: on an empty host, all of it.
EmptyHosts(v) == {h \in Hosts : hostVM[h] = NoVM /\ Fits(VMSpec[v], HostSpec[h])}

\* RegisterVirtualMachine, GetEmptyHost and CreateVM: the first empty host
\* that is large enough gets the machine; without one, nothing changes.
RegisterVirtualMachine(v) ==
    IF EmptyHosts(v) = {} \/ v \in virtualMachines
    THEN UNCHANGED platformVars
    ELSE /\ \E h \in EmptyHosts(v) :
              /\ \A g \in EmptyHosts(v) : h <= g
              /\ hostVM' = [hostVM EXCEPT ![h] = v]
         /\ virtualMachines' = virtualMachines \cup {v}
         /\ freeSpec' = [freeSpec EXCEPT ![v] = VMSpec[v]]
         /\ UNCHANGED vmStarted

CheckTask(v, need) == v \in virtualMachines /\ Fits(need, freeSpec[v])

\* PlatformAssignTask yields while the machine starts and while the actor is
\* created; the resources are taken only after that.
StartMachine(v) ==
    /\ vmStarted' = vmStarted \cup {v}
    /\ UNCHANGED <<hostVM, virtualMachines, freeSpec>>

TakeResources(v, need) ==
    /\ freeSpec' = [freeSpec EXCEPT ![v] = Less(@, need)]
    /\ UNCHANGED <<hostVM, virtualMachines, vmStarted>>

PlatformFinishTask_Forgets(v, need) == UNCHANGED platformVars

PlatformFinishTask(v, need) ==
    /\ freeSpec' = [freeSpec EXCEPT ![v] = More(@, need)]
    /\ UNCHANGED <<hostVM, virtualMachines, vmStarted>>
=============================================================================
