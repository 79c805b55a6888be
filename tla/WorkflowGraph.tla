---------------------------- MODULE WorkflowGraph ----------------------------
(***************************************************************************)
(* The run-time state of a workflow: Workflow::Graph (workflow/graph.cpp), *)
(* Workflow::Task (workflow/task.h) and the file Manager                   *)
(* (files/manager.cpp) they own.  Every operation of the graph that        *)
(* changes state is an action here.  The operations contain no SimGrid     *)
(* call that yields, so each is one atomic step of whichever actor calls   *)
(* it.                                                                     *)
(*                                                                         *)
(* Tasks are named by their ids, files by numbers in the order of their    *)
(* addresses, which is the order of the set ReadyFiles.  A task's inputs   *)
(* and outputs are vectors in the code and sequences here: a file listed   *)
(* twice counts twice.                                                     *)
(*                                                                         *)
(* An operator named X_Y, beside the operator X it varies, is a bug that X *)
(* could have; nothing uses it but the check that the properties would     *)
(* find it ("mutants" in PROJECT.json).                                    *)
(***************************************************************************)
EXTENDS Integers, Sequences, FiniteSets

CONSTANTS
    Tasks,           \* ids of the tasks, in the order of the workflow file
    Files,           \* the files, in the order of their addresses
    Inputs,          \* task -> sequence of files it reads
    Outputs,         \* task -> sequence of files it writes
    WorkflowOutputs  \* set of the files listed as outputs of the workflow

ASSUME GraphAssumption ==
    /\ Tasks \subseteq Nat /\ IsFiniteSet(Tasks)
    /\ Files \subseteq Nat /\ IsFiniteSet(Files)
    /\ Inputs \in [Tasks -> Seq(Files)]
    /\ Outputs \in [Tasks -> Seq(Files)]
    /\ WorkflowOutputs \subseteq Files

NoTask == -1

-----------------------------------------------------------------------------
(* What Graph::BuildDependencies derives from the workflow file.            *)

FilesIn(s) == {s[i] : i \in DOMAIN s}

Receivers == [f \in Files |-> {t \in Tasks : f \in FilesIn(Inputs[t])}]

Producers(f) == {t \in Tasks : f \in FilesIn(Outputs[t])}

\* FileId2Owner is overwritten by every later producer of the same file.
Owner(f) == CHOOSE t \in Producers(f) : \A u \in Producers(f) : u <= t

\* Only a file that some task reads gets its Author set.
Author == [f \in Files |->
             IF Producers(f) # {} /\ Receivers[f] # {} THEN Owner(f) ELSE NoTask]

\* The inputs of t that another task writes: one dependency for each.
DependencyIdx == [t \in Tasks |-> {i \in DOMAIN Inputs[t] : Author[Inputs[t][i]] # NoTask}]

\* Successors kept as a set: one entry for two files between the same tasks.
SuccessorIdx_AsSet == [a \in Tasks |-> [t \in Tasks |->
                         IF \E i \in DependencyIdx[t] : Author[Inputs[t][i]] = a THEN {1} ELSE {}]]

\* t occurs this many times in the successors of a.
SuccessorIdx == [a \in Tasks |-> [t \in Tasks |->
                   {i \in DependencyIdx[t] : Author[Inputs[t][i]] = a}]]

-----------------------------------------------------------------------------
VARIABLES
    taskState,          \* Task::State
    finishedDeps,       \* Task::FinishedDeps
    finishedTransfers,  \* Task::FinishedTransfers
    finishedTasks,      \* Graph::FinishedTasks
    fileState,          \* FileDescription::State
    readyFiles,         \* Manager::ReadyFiles
    outputProduced,     \* Manager::OutputProduced
    taskToHost,         \* the keys of Manager::TaskToHost (values are never read)
    delivered           \* history: the <<file, task>> FinishTransfer was called for

graphVars == <<taskState, finishedDeps, finishedTransfers, finishedTasks,
               fileState, readyFiles, outputProduced, taskToHost, delivered>>

TaskStates == {"NOT_SCHEDULED", "SCHEDULED", "READY", "RUNNING", "DONE"}
FileStates == {"NOT_STARTED", "READY", "TRANSFERING", "DONE"}

GraphTypeOK ==
    /\ taskState \in [Tasks -> TaskStates]
    /\ finishedDeps \in [Tasks -> Nat]
    /\ finishedTransfers \in [Tasks -> Nat]
    /\ finishedTasks \subseteq Tasks
    /\ fileState \in [Files -> FileStates]
    /\ readyFiles \subseteq Files
    /\ outputProduced \in Nat
    /\ taskToHost \subseteq Tasks
    /\ delivered \subseteq Files \X Tasks

\* An input nobody writes is counted as transferred from the start.
GraphInit ==
    /\ taskState = [t \in Tasks |-> "NOT_SCHEDULED"]
    /\ finishedDeps = [t \in Tasks |-> 0]
    /\ finishedTransfers = [t \in Tasks |-> Cardinality(DOMAIN Inputs[t] \ DependencyIdx[t])]
    /\ finishedTasks = {}
    /\ fileState = [f \in Files |-> "NOT_STARTED"]
    /\ readyFiles = {}
    /\ outputProduced = 0
    /\ taskToHost = {}
    /\ delivered = {}

-----------------------------------------------------------------------------
(* Task *)

AllArrived_DependenciesOnly(t, deps, transfers) == deps = Cardinality(DependencyIdx[t])

AllArrived(t, deps, transfers) ==
    /\ deps = Cardinality(DependencyIdx[t])
    /\ transfers = Len(Inputs[t])

IsReady(t) ==
    /\ taskState[t] \notin {"RUNNING", "DONE"}
    /\ AllArrived(t, finishedDeps[t], finishedTransfers[t])

StartExecuting(t) ==
    /\ IsReady(t)
    /\ taskState' = [taskState EXCEPT ![t] = "RUNNING"]
    /\ UNCHANGED <<finishedDeps, finishedTransfers, finishedTasks, fileState,
                   readyFiles, outputProduced, taskToHost, delivered>>

-----------------------------------------------------------------------------
(* Graph and Manager *)

GraphIsFinished ==
    /\ finishedTasks = Tasks
    /\ outputProduced = Cardinality(WorkflowOutputs)

\* Outputs of t that become READY: some receiver already has a host.
Released(t) == {f \in FilesIn(Outputs[t]) :
                  /\ fileState[f] = "NOT_STARTED"
                  /\ Author[f] # NoTask
                  /\ Receivers[f] \cap taskToHost # {}}

\* Manager::FinishTask runs first, then the early return for a DONE task.
GraphFinishTask(t) ==
    /\ fileState' = [f \in Files |->
           CASE f \in FilesIn(Outputs[t]) /\ Author[f] = NoTask -> "DONE"
             [] f \in Released(t) -> "READY"
             [] OTHER -> fileState[f]]
    /\ readyFiles' = readyFiles \cup Released(t)
    /\ outputProduced' = outputProduced +
           Cardinality({i \in DOMAIN Outputs[t] : Outputs[t][i] \in WorkflowOutputs})
    /\ UNCHANGED <<finishedTransfers, taskToHost, delivered>>
    /\ IF taskState[t] = "DONE"
       THEN UNCHANGED <<taskState, finishedDeps, finishedTasks>>
       ELSE /\ finishedTasks' = finishedTasks \cup {t}
            /\ finishedDeps' = [s \in Tasks |->
                   finishedDeps[s] + Cardinality(SuccessorIdx[t][s])]
            /\ taskState' = [s \in Tasks |->
                   IF s = t THEN "DONE"
                   ELSE IF /\ SuccessorIdx[t][s] # {}
                           /\ taskState[s] \notin {"RUNNING", "DONE"}
                           /\ AllArrived(s, finishedDeps'[s], finishedTransfers[s])
                        THEN "READY"
                        ELSE taskState[s]]

GraphStartTransfer_NotErased(f) ==
    /\ fileState' = [fileState EXCEPT ![f] = "TRANSFERING"]
    /\ UNCHANGED <<taskState, finishedDeps, finishedTransfers, finishedTasks, readyFiles,
                   outputProduced, taskToHost, delivered>>

GraphStartTransfer(f) ==
    /\ readyFiles' = readyFiles \ {f}
    /\ fileState' = [fileState EXCEPT ![f] = "TRANSFERING"]
    /\ UNCHANGED <<taskState, finishedDeps, finishedTransfers, finishedTasks,
                   outputProduced, taskToHost, delivered>>

GraphFinishTransfer(f, t) ==
    /\ finishedTransfers' = [finishedTransfers EXCEPT ![t] = @ + 1]
    /\ delivered' = delivered \cup {<<f, t>>}
    /\ UNCHANGED <<taskState, finishedDeps, finishedTasks, fileState,
                   readyFiles, outputProduced, taskToHost>>

\* Inputs whose author has already finished when t gets its host.
ReadyOnAssign(t) == {f \in FilesIn(Inputs[t]) :
                       /\ fileState[f] = "NOT_STARTED"
                       /\ Author[f] # NoTask
                       /\ taskState[Author[f]] = "DONE"}

GraphAssignTask(t) ==
    /\ taskToHost' = taskToHost \cup {t}
    /\ fileState' = [f \in Files |-> IF f \in ReadyOnAssign(t) THEN "READY" ELSE fileState[f]]
    /\ readyFiles' = readyFiles \cup ReadyOnAssign(t)
    /\ UNCHANGED <<taskState, finishedDeps, finishedTransfers, finishedTasks,
                   outputProduced, delivered>>

-----------------------------------------------------------------------------
(* The graph on its own: the calls its owner, the simulator, may make.      *)

\* The compute actor of a running task reports its end.
CallFinishTask(t) == taskState[t] = "RUNNING" /\ GraphFinishTask(t)

\* The file iterator hands out a ready file.
CallStartTransfer(f) == f \in readyFiles /\ GraphStartTransfer(f)

\* A transfer of a released file to one of its receivers ends; it may end
\* before StartTransfer marks the file, which waits for all the handshakes.
CallFinishTransfer(f, t) ==
    /\ fileState[f] \in {"READY", "TRANSFERING"}
    /\ t \in Receivers[f]
    /\ <<f, t>> \notin delivered
    /\ GraphFinishTransfer(f, t)

GraphNext ==
    \/ \E t \in Tasks : \/ StartExecuting(t)
                        \/ CallFinishTask(t)
                        \/ GraphAssignTask(t)
    \/ \E f \in Files : \/ CallStartTransfer(f)
                        \/ \E t \in Tasks : CallFinishTransfer(f, t)

GraphSpec == GraphInit /\ [][GraphNext]_graphVars

-----------------------------------------------------------------------------
(* Properties *)

(***************************************************************************)
(* The workflows the bundled generators write: no task lists an input      *)
(* twice and no file has two producers.                                    *)
(***************************************************************************)
WellFormedWorkflow ==
    /\ \A t \in Tasks : \A i, j \in DOMAIN Inputs[t] : Inputs[t][i] = Inputs[t][j] => i = j
    /\ \A t, u \in Tasks : FilesIn(Outputs[t]) \cap FilesIn(Outputs[u]) # {} => t = u

(***************************************************************************)
(* The two counters a start is decided by (Task::IsReady) count exactly    *)
(* what they are meant to: the dependencies whose author has finished, and *)
(* the inputs that need no transfer plus those that have been delivered.   *)
(***************************************************************************)
DoneDependencies(t) ==
    {i \in DependencyIdx[t] : taskState[Author[Inputs[t][i]]] = "DONE"}

ArrivedInputs(t) ==
    {i \in DOMAIN Inputs[t] : \/ i \notin DependencyIdx[t]
                              \/ <<Inputs[t][i], t>> \in delivered}

CountersExact ==
    \A t \in Tasks : /\ finishedDeps[t] = Cardinality(DoneDependencies(t))
                     /\ finishedTransfers[t] = Cardinality(ArrivedInputs(t))

(***************************************************************************)
(* A task that runs or has run had every author of its inputs finished and *)
(* every such input delivered to it.                                       *)
(***************************************************************************)
StartedOnlyWhenFed ==
    \A t \in Tasks : taskState[t] \in {"RUNNING", "DONE"} =>
        \A i \in DependencyIdx[t] : /\ taskState[Author[Inputs[t][i]]] = "DONE"
                                    /\ <<Inputs[t][i], t>> \in delivered

(***************************************************************************)
(* ReadyFiles and the file states are two copies of the same fact: a file  *)
(* is in the set exactly while its state is READY, and it left NOT_STARTED *)
(* only because its author is DONE.                                        *)
(***************************************************************************)
ReadyFilesMatchStates ==
    \A f \in Files : /\ f \in readyFiles <=> fileState[f] = "READY"
                     /\ fileState[f] \in {"READY", "TRANSFERING"} =>
                            Author[f] # NoTask /\ taskState[Author[f]] = "DONE"

(***************************************************************************)
(* Refinement: counters, file states and host marks implement the promise  *)
(* of WorkflowRun.                                                         *)
(***************************************************************************)
StatusOf(s) == CASE s = "RUNNING" -> "running"
                 [] s = "DONE" -> "done"
                 [] OTHER -> "waiting"

Run == INSTANCE WorkflowRun WITH
    Feeds <- {e \in Tasks \X Files \X Tasks : Author[e[2]] = e[1] /\ e[3] \in Receivers[e[2]]},
    status <- [t \in Tasks |-> StatusOf(taskState[t])],
    delivered <- {<<Author[p[1]], p[1], p[2]>> : p \in delivered}

RunsTheWorkflow == Run!RunSpec
=============================================================================
