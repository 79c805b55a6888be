--------------------------- MODULE WorkflowLoader ---------------------------
(***************************************************************************)
(* The constructor of Workflow::Graph (workflow/graph.cpp) and what it     *)
(* calls: the registry of files (Manager::TryAddFile), the tasks and their *)
(* requirements (Task, TaskSpec), BuildDependencies; then MakeTasksOrder,  *)
(* which TasksOrder models, over the successors that were built.           *)
(*                                                                         *)
(* A document is what yaml-cpp hands out.  A text that should be a number  *)
(* is that number, NotGiven when it is not there, Unreadable when ParseSize *)
(* throws.  A document without one of the required sections or names, which *)
(* ends the constructor before it has done anything, is left out.          *)
(***************************************************************************)
EXTENDS TasksOrder, SequencesExt

CONSTANTS
    Names,      \* names of files
    Documents,  \* the workflow files, with the deadline option of the command line
    Garbage     \* what an uninitialised TaskSpec::Size may hold

NotGiven == -1
Unreadable == -2
NoAuthor == -1

\* What a document may hold.
Number == Nat \cup {NotGiven, Unreadable}
File == [name : Names, size : Number]
Description ==
    [inputs : Seq(Names), outputs : Seq(File), cores : Number, memory : Number, size : Number]
Document ==
    [option : Number, deadline : Number, inputs : Seq(File),
     tasks : [Tasks -> Description], outputs : Seq(Names)]

ASSUME LoaderAssumption == Documents \subseteq Document /\ Garbage # {}

VARIABLES
    doc,          \* the document: chosen once
    phase,        \* which loop of the constructor comes next
    node, at,     \* the task and the place in its list that the loop is at
    deadline,     \* Graph::Deadline
    registry,     \* Manager: Files, FileIdMapping, and FileDescription's counter
    author,       \* FileDescription::Author
    receivers,    \* FileDescription::Receivers
    inputs,       \* Graph::Inputs, ids of files
    nodes,        \* task -> inputs and outputs (ids of files), requirements
    outputs,      \* Manager::WorkflowOutputs
    dependencies, \* Task::Dependencies
    transfers     \* Task::FinishedTransfers

loopVars == <<phase, node, at>>
fileVars == <<registry, author, receivers>>
nodeVars == <<inputs, nodes, outputs>>
tableVars == <<dependencies, transfers>>
walkVars == <<used, stack, order, next, done>>
loaderVars == <<doc, loopVars, deadline, fileVars, nodeVars, tableVars, vars>>

LoaderInit ==
    /\ doc \in Documents
    /\ phase = "deadline" /\ node = 0 /\ at = 0
    /\ deadline = NotGiven
    /\ registry = [files |-> <<>>, names |-> <<>>, counter |-> 0]
    /\ author = <<>> /\ receivers = <<>>
    /\ inputs = <<>> /\ nodes = <<>> /\ outputs = {}
    /\ dependencies = [t \in Tasks |-> <<>>]
    /\ transfers = [t \in Tasks |-> 0]
    /\ succ = [t \in Tasks |-> <<>>]
    /\ used = {} /\ stack = <<>> /\ order = <<>> /\ next = 0 /\ done = FALSE

-----------------------------------------------------------------------------
(* Deadline and files *)

GivenDeadline == IF doc.option # NotGiven THEN doc.option ELSE doc.deadline

ReadDeadline ==
    /\ phase = "deadline"
    /\ GivenDeadline \notin {NotGiven, Unreadable, 0}
    /\ deadline' = GivenDeadline
    /\ phase' = "inputs"
    /\ UNCHANGED <<doc, node, at, fileVars, nodeVars, tableVars, vars>>

\* The previous entry is replaced, as the warning of TryAddFile announces.
Insert_Replaced(map, key, value) ==
    [k \in DOMAIN map \cup {key} |-> IF k = key THEN value ELSE map[k]]

\* std::map::insert keeps the entry that is there.
Insert(map, key, value) ==
    [k \in DOMAIN map \cup {key} |-> IF k \in DOMAIN map THEN map[k] ELSE value]

\* Every description takes a number, the ones that are not kept too.
TryAddFile(f) ==
    LET new == [id |-> registry.counter, size |-> IF f.size = Unreadable THEN 0 ELSE f.size]
        files == Insert(registry.files, f.name, new)
        id == files[f.name].id
    IN  /\ f.size # NotGiven
        /\ registry' = [files   |-> files,
                        names   |-> Insert(registry.names, id, f.name),
                        counter |-> registry.counter + 1]
        /\ author' = Insert(author, id, NoAuthor)
        /\ receivers' = Insert(receivers, id, {})

AddInput ==
    /\ phase = "inputs" /\ at < Len(doc.inputs)
    /\ TryAddFile(doc.inputs[at + 1])
    /\ inputs' = Append(inputs, registry'.files[doc.inputs[at + 1].name].id)
    /\ at' = at + 1
    /\ UNCHANGED <<doc, phase, node, deadline, nodes, outputs, tableVars, vars>>

\* The list that the loop over the tasks goes through.
InnerList == IF phase = "files" THEN doc.tasks[node].outputs ELSE nodes[node].inputs

AtEntry(loop) == phase = loop /\ node < Size /\ at < Len(InnerList)

AddFile ==
    /\ AtEntry("files")
    /\ TryAddFile(InnerList[at + 1])
    /\ at' = at + 1
    /\ UNCHANGED <<doc, phase, node, deadline, nodeVars, tableVars, vars>>

NextTask ==
    /\ phase \in {"files", "dependencies"}
    /\ node < Size /\ at = Len(InnerList)
    /\ node' = node + 1 /\ at' = 0
    /\ UNCHANGED <<doc, phase, deadline, fileVars, nodeVars, tableVars, vars>>

LoopEnds ==
    /\ \/ phase = "inputs" /\ at = Len(doc.inputs) /\ phase' = "files"
       \/ phase = "files" /\ node = Size /\ phase' = "tasks"
       \/ phase = "dependencies" /\ node = Size /\ phase' = "loaded"
    /\ node' = 0 /\ at' = 0
    /\ UNCHANGED <<doc, deadline, fileVars, nodeVars, tableVars, vars>>

-----------------------------------------------------------------------------
(* Tasks and outputs *)

Known(names) == names \subseteq DOMAIN registry.files
FileId(name) == registry.files[name].id
NamesOf(files) == [i \in DOMAIN files |-> files[i].name]

\* TaskSpec: the assertion after a size that cannot be parsed is on a string, which is true.
TaskSpec(d, uninitialised) ==
    [cores  |-> IF d.cores = NotGiven THEN 1 ELSE d.cores,
     memory |-> IF d.memory \in {NotGiven, Unreadable} THEN 0 ELSE d.memory,
     size   |-> IF d.size = Unreadable THEN uninitialised ELSE d.size]

Constructible(d) ==
    /\ d.cores # Unreadable /\ d.size # NotGiven
    /\ Known(ToSet(d.inputs) \cup ToSet(NamesOf(d.outputs)))

AddTasks ==
    /\ phase = "tasks"
    /\ \A t \in Tasks : Constructible(doc.tasks[t])
    /\ phase' = "outputs"
    /\ \E uninitialised \in [{t \in Tasks : doc.tasks[t].size = Unreadable} -> Garbage] :
           nodes' = [t \in Tasks |-> LET d == doc.tasks[t] IN
                       [inputs  |-> [i \in DOMAIN d.inputs |-> FileId(d.inputs[i])],
                        outputs |-> [i \in DOMAIN d.outputs |-> FileId(d.outputs[i].name)],
                        spec    |-> TaskSpec(d, uninitialised[t])]]
    /\ UNCHANGED <<doc, node, at, deadline, fileVars, inputs, outputs, tableVars, vars>>

NameOutputs ==
    /\ phase = "outputs"
    /\ Known(ToSet(doc.outputs))
    /\ phase' = "dependencies"
    /\ outputs' = {FileId(name) : name \in ToSet(doc.outputs)}
    /\ UNCHANGED <<doc, node, at, deadline, fileVars, inputs, nodes, tableVars, vars>>

\* An assertion or an exception nobody catches ends the program.
Die ==
    /\ \/ phase = "deadline" /\ GivenDeadline \in {NotGiven, Unreadable, 0}
       \/ phase = "inputs" /\ at < Len(doc.inputs) /\ doc.inputs[at + 1].size = NotGiven
       \/ AtEntry("files") /\ InnerList[at + 1].size = NotGiven
       \/ phase = "tasks" /\ \E t \in Tasks : ~Constructible(doc.tasks[t])
       \/ phase = "outputs" /\ ~Known(ToSet(doc.outputs))
    /\ phase' = "died"
    /\ UNCHANGED <<doc, node, at, deadline, fileVars, nodeVars, tableVars, vars>>

-----------------------------------------------------------------------------
(* BuildDependencies *)

Writers(f) == {t \in Tasks : f \in ToSet(nodes[t].outputs)}

\* FileId2Owner: a later writer replaces an earlier one.
FileOwner(f) == CHOOSE t \in Writers(f) : \A u \in Writers(f) : u <= t

\* Only the first file that another task writes becomes a dependency.
AddDependency_First(t, d) ==
    IF dependencies[t] = <<>> THEN [dependencies EXCEPT ![t] = <<d>>] ELSE dependencies

AddDependency(t, d) == [dependencies EXCEPT ![t] = Append(@, d)]

\* A task that reads two files of one task is its successor once.
AddSuccessor_Once(t, d) ==
    IF d \in ToSet(succ[t]) THEN succ ELSE [succ EXCEPT ![t] = Append(@, d)]

AddSuccessor(t, d) == [succ EXCEPT ![t] = Append(@, d)]

\* A file nobody writes counts as transferred once, however often it is read.
IncFinishedTransfers_Files(t) ==
    IF \E i \in 1..at : nodes[t].inputs[i] = nodes[t].inputs[at + 1]
    THEN transfers ELSE [transfers EXCEPT ![t] = @ + 1]

IncFinishedTransfers(t) == [transfers EXCEPT ![t] = @ + 1]

\* The body of the inner loop, for the next file that the task reads.
BuildDependency ==
    /\ AtEntry("dependencies")
    /\ LET f == InnerList[at + 1]
       IN  /\ receivers' = [receivers EXCEPT ![f] = @ \cup {node}]
           /\ IF Writers(f) # {}
              THEN /\ dependencies' = AddDependency(node, FileOwner(f))
                   /\ succ' = AddSuccessor(FileOwner(f), node)
                   /\ author' = [author EXCEPT ![f] = FileOwner(f)]
                   /\ UNCHANGED transfers
              ELSE /\ transfers' = IncFinishedTransfers(node)
                   /\ UNCHANGED <<dependencies, succ, author>>
    /\ at' = at + 1
    /\ UNCHANGED <<doc, phase, node, deadline, registry, nodeVars, walkVars>>

-----------------------------------------------------------------------------
MakeTasksOrder ==
    /\ phase = "loaded"
    /\ Next
    /\ UNCHANGED <<doc, loopVars, deadline, fileVars, nodeVars, tableVars>>

Died == phase = "died" /\ UNCHANGED loaderVars

-----------------------------------------------------------------------------
(* What the schedulers make of the order.                                   *)

Unknown == -1

\* What their vectors of end times hold of a task they have not come to.
InitialEndTime(scheduler) == IF scheduler = "baseline" THEN 0 ELSE Unknown

\* The end of a dependency of the task they come to next is not unknown.
EndTimeKnown(scheduler, dependency, before) ==
    \/ dependency \in ToSet(before)
    \/ InitialEndTime(scheduler) # Unknown

AcceptsOrder(scheduler) ==
    /\ done
    /\ \A i \in DOMAIN order : \A dependency \in ToSet(dependencies[order[i]]) :
           EndTimeKnown(scheduler, dependency, SubSeq(order, 1, i - 1))

LoaderNext ==
    \/ ReadDeadline \/ AddInput \/ AddFile \/ NextTask \/ LoopEnds
    \/ AddTasks \/ NameOutputs \/ Die
    \/ BuildDependency \/ MakeTasksOrder \/ Died

LoaderSpec == LoaderInit /\ [][LoaderNext]_loaderVars

-----------------------------------------------------------------------------
(* Properties *)

(***************************************************************************)
(* An id that TryAddFile returned stays the id of one file, and of the one *)
(* the document names there, although a name may be described repeatedly   *)
(* and the counter runs on each time.  Tasks, Inputs and Outputs keep ids  *)
(* only, and FileIdMapping keeps pointers.                                 *)
(***************************************************************************)
Resolves(id, name) ==
    /\ id \in DOMAIN registry.names /\ registry.names[id] = name
    /\ registry.files[name].id = id

IdsStayValid ==
    /\ \A i \in DOMAIN inputs : Resolves(inputs[i], doc.inputs[i].name)
    /\ \A t \in DOMAIN nodes :
           /\ \A i \in DOMAIN nodes[t].inputs :
                  Resolves(nodes[t].inputs[i], doc.tasks[t].inputs[i])
           /\ \A i \in DOMAIN nodes[t].outputs :
                  Resolves(nodes[t].outputs[i], doc.tasks[t].outputs[i].name)

(***************************************************************************)
(* What FinishTask will count and what IsReady will demand are the same    *)
(* number: t is once in the successors of a for each time a is in the      *)
(* dependencies of t, and every input is either a dependency or counted as *)
(* transferred.                                                            *)
(***************************************************************************)
Occurrences(s, x) == Cardinality({i \in DOMAIN s : s[i] = x})

DependenciesMirrored ==
    phase = "loaded" => \A t \in Tasks :
        /\ \A a \in Tasks : Occurrences(succ[a], t) = Occurrences(dependencies[t], a)
        /\ Len(dependencies[t]) + transfers[t] = Len(nodes[t].inputs)

(***************************************************************************)
(* Which tasks can ever start: a file is delivered once to each receiver,  *)
(* and IsReady waits for as many transfers as there are inputs in the list. *)
(* That number is reached exactly by the tasks that list no file of        *)
(* another task twice; a file nobody writes may be listed repeatedly.      *)
(***************************************************************************)
DeliveriesTo(t) == {f \in DOMAIN author : author[f] # NoAuthor /\ t \in receivers[f]}

FedIffReadOnce ==
    phase = "loaded" => \A t \in Tasks :
        transfers[t] + Cardinality(DeliveriesTo(t)) = Len(nodes[t].inputs) <=>
            \A f \in DeliveriesTo(t) : Occurrences(nodes[t].inputs, f) = 1

(***************************************************************************)
(* What becomes of a cyclic workflow.  MakeTasksOrder (line 98) refuses it *)
(* exactly if some task cannot be reached from a task without              *)
(* dependencies.  Otherwise Mao and the genetic scheduler refuse it when   *)
(* they calculate end times, and refuse no other; the baseline, whose      *)
(* vectors begin with 0, tests them for -1 in vain and plans it.  So for   *)
(* 0 -> 1 -> 2 -> 1 the assertion "Can't process next task, task order is  *)
(* inconsistent!" (baseline_scheduler.cpp 32 and 113) never fails.         *)
(***************************************************************************)
Closed(S) == \A t \in Tasks :
    /\ HasNoDependencies(t) => t \in S
    /\ t \in S => SuccessorsOf(succ, t) \subseteq S

AllReachable == \A S \in SUBSET Tasks : Closed(S) => S = Tasks

CyclesCaught ==
    done \/ NotAllIncluded =>
        /\ \A scheduler \in {"mao", "genetic"} : AcceptsOrder(scheduler) <=> Acyclic(succ)
        /\ AcceptsOrder("baseline") <=> AllReachable
=============================================================================
