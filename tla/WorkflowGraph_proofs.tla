------------------------ MODULE WorkflowGraph_proofs ------------------------
(***************************************************************************)
(* Proofs about WorkflowGraph, for every workflow.  Type correctness needs *)
(* nothing; the rest holds of well-formed workflows (no input listed twice *)
(* by a task, no file with two producers).                                 *)
(***************************************************************************)
EXTENDS WorkflowGraph, FiniteSetTheorems, TLAPS

-----------------------------------------------------------------------------
(* Facts about the constants.                                               *)

\* The positions of a task's inputs form a finite set, and so do the parts of it
\* that the counters count.
LEMMA InputPositions ==
    ASSUME NEW t \in Tasks
    PROVE  /\ DOMAIN Inputs[t] = 1..Len(Inputs[t])
           /\ IsFiniteSet(DOMAIN Inputs[t])
           /\ Cardinality(DOMAIN Inputs[t]) = Len(Inputs[t])
           /\ Len(Inputs[t]) \in Nat
           /\ \A i \in DOMAIN Inputs[t] : Inputs[t][i] \in Files
           /\ \A S \in SUBSET DOMAIN Inputs[t] : IsFiniteSet(S) /\ Cardinality(S) \in Nat
<1>1. Inputs[t] \in Seq(Files)
  BY GraphAssumption
<1>2. /\ DOMAIN Inputs[t] = 1..Len(Inputs[t])
      /\ Len(Inputs[t]) \in Nat
      /\ \A i \in DOMAIN Inputs[t] : Inputs[t][i] \in Files
  BY <1>1
<1>3. /\ IsFiniteSet(1..Len(Inputs[t]))
      /\ Cardinality(1..Len(Inputs[t])) = Len(Inputs[t])
  BY <1>2, FS_Interval
<1>4. \A S \in SUBSET DOMAIN Inputs[t] : IsFiniteSet(S)
  BY <1>2, <1>3, FS_Subset
<1>5. \A S \in SUBSET DOMAIN Inputs[t] : Cardinality(S) \in Nat
  BY <1>4, FS_CardinalityType
<1> QED
  BY <1>2, <1>3, <1>4, <1>5

LEMMA OutputPositions ==
    ASSUME NEW t \in Tasks, NEW S \in SUBSET DOMAIN Outputs[t]
    PROVE  Cardinality(S) \in Nat
<1>1. /\ DOMAIN Outputs[t] = 1..Len(Outputs[t])
      /\ Len(Outputs[t]) \in Nat
  BY GraphAssumption
<1>2. IsFiniteSet(DOMAIN Outputs[t])
  BY <1>1, FS_Interval
<1>3. IsFiniteSet(S)
  BY <1>2, FS_Subset
<1> QED
  BY <1>3, FS_CardinalityType

\* A finite nonempty set of numbers has a largest element: among the sets of
\* the elements above one of them, a minimal one is empty.
LEMMA LargestExists ==
    ASSUME NEW S \in SUBSET Nat, IsFiniteSet(S), S # {}
    PROVE  \E t \in S : \A u \in S : u <= t
<1> DEFINE Above(t) == {u \in S : u > t}
           Aboves == {Above(t) : t \in S}
<1>1. IsWellFoundedOn(StrictSubsetOrdering(S), FiniteSubsetsOf(S))
  BY FS_StrictSubsetOrderingWellFounded
<1>2. FiniteSubsetsOf(S) = SUBSET S
  BY FS_FiniteSubsetsOfFinite
<1>3. Aboves \subseteq FiniteSubsetsOf(S) /\ Aboves # {}
  <2>1. \A t \in S : Above(t) \subseteq S
    OBVIOUS
  <2>2. Aboves \subseteq SUBSET S
    BY <2>1
  <2>3. PICK t \in S : TRUE
    OBVIOUS
  <2>4. Above(t) \in Aboves
    BY <2>3
  <2> QED
    BY <1>2, <2>2, <2>4
<1>4. PICK A \in Aboves : \A B \in Aboves : ~(<<B, A>> \in StrictSubsetOrdering(S))
  BY <1>1, <1>3, WFMin
<1>5. PICK t \in S : A = Above(t)
  BY <1>4
<1>6. ASSUME NEW u \in S, ~(u <= t) PROVE FALSE
  <2>0. u \in Nat /\ t \in Nat /\ u > t
    BY <1>6
  <2>1. u \in Above(t) /\ u \notin Above(u)
    BY <2>0
  <2>2. Above(u) \subseteq Above(t)
    <3>1. ASSUME NEW w \in S, w > u PROVE w > t
      <4>1. w \in Nat
        OBVIOUS
      <4> QED
        BY <2>0, <3>1, <4>1
    <3> QED
      BY <3>1
  <2>3. <<Above(u), Above(t)>> \in StrictSubsetOrdering(S)
    BY <2>1, <2>2 DEF StrictSubsetOrdering
  <2>4. Above(u) \in Aboves
    OBVIOUS
  <2> QED
    BY <2>3, <2>4, <1>4, <1>5
<1> QED
  BY <1>5, <1>6

\* The recorded author of a file is a task that writes it.
LEMMA AuthorWrites ==
    ASSUME NEW f \in Files, Author[f] # NoTask
    PROVE  /\ Author[f] \in Tasks
           /\ f \in FilesIn(Outputs[Author[f]])
<1>1. Producers(f) # {} /\ Author[f] = Owner(f)
  BY DEF Author
<1>2. Producers(f) \subseteq Tasks
  BY DEF Producers
<1>3. Producers(f) \subseteq Nat /\ IsFiniteSet(Producers(f))
  BY <1>2, GraphAssumption, FS_Subset
<1>4. \E t \in Producers(f) : \A u \in Producers(f) : u <= t
  BY <1>1, <1>3, LargestExists
<1>5. Owner(f) \in Producers(f)
  BY <1>4 DEF Owner
<1> QED
  BY <1>1, <1>5 DEF Producers

-----------------------------------------------------------------------------
(* Type correctness.                                                        *)

LEMMA GraphTypeInit == GraphInit => GraphTypeOK
<1> SUFFICES ASSUME GraphInit PROVE GraphTypeOK
  OBVIOUS
<1>1. \A t \in Tasks : Cardinality(DOMAIN Inputs[t] \ DependencyIdx[t]) \in Nat
  BY InputPositions
<1> QED
  BY <1>1 DEF GraphInit, GraphTypeOK, TaskStates, FileStates

LEMMA GraphTypeFinishTask ==
    ASSUME GraphTypeOK, NEW t \in Tasks, GraphFinishTask(t)
    PROVE  GraphTypeOK'
<1>1. \A s \in Tasks : Cardinality(SuccessorIdx[t][s]) \in Nat
  BY InputPositions DEF SuccessorIdx, DependencyIdx
<1>2. finishedDeps' \in [Tasks -> Nat]
  BY <1>1 DEF GraphTypeOK, GraphFinishTask
<1>3. taskState' \in [Tasks -> TaskStates]
  BY DEF GraphTypeOK, GraphFinishTask, TaskStates
<1>4. finishedTasks' \subseteq Tasks
  BY DEF GraphTypeOK, GraphFinishTask
<1>5. fileState' \in [Files -> FileStates]
  BY DEF GraphTypeOK, GraphFinishTask, FileStates
<1>6. readyFiles' \subseteq Files
  <2>1. Released(t) \subseteq Files
    BY GraphAssumption DEF Released, FilesIn
  <2> QED
    BY <2>1 DEF GraphTypeOK, GraphFinishTask
<1>7. outputProduced' \in Nat
  <2>1. Cardinality({i \in DOMAIN Outputs[t] : Outputs[t][i] \in WorkflowOutputs}) \in Nat
    BY OutputPositions
  <2> QED
    BY <2>1 DEF GraphTypeOK, GraphFinishTask
<1> QED
  BY <1>2, <1>3, <1>4, <1>5, <1>6, <1>7 DEF GraphTypeOK, GraphFinishTask

LEMMA GraphTypeAssignTask ==
    ASSUME GraphTypeOK, NEW t \in Tasks, GraphAssignTask(t)
    PROVE  GraphTypeOK'
<1>1. ReadyOnAssign(t) \subseteq Files
  BY GraphAssumption DEF ReadyOnAssign, FilesIn
<1> QED
  BY <1>1 DEF GraphTypeOK, GraphAssignTask, FileStates

LEMMA GraphTypeFinishTransfer ==
    ASSUME GraphTypeOK, NEW f \in Files, NEW t \in Tasks, GraphFinishTransfer(f, t)
    PROVE  GraphTypeOK'
BY DEF GraphTypeOK, GraphFinishTransfer

LEMMA GraphTypeStartTransfer ==
    ASSUME GraphTypeOK, NEW f \in Files, GraphStartTransfer(f)
    PROVE  GraphTypeOK'
BY DEF GraphTypeOK, GraphStartTransfer, FileStates

LEMMA GraphTypeStartExecuting ==
    ASSUME GraphTypeOK, NEW t \in Tasks, StartExecuting(t)
    PROVE  GraphTypeOK'
BY DEF GraphTypeOK, StartExecuting, TaskStates

LEMMA GraphTypeUnchanged ==
    ASSUME GraphTypeOK, UNCHANGED graphVars
    PROVE  GraphTypeOK'
BY DEF GraphTypeOK, graphVars

LEMMA GraphTypeNext == GraphTypeOK /\ [GraphNext]_graphVars => GraphTypeOK'
<1> SUFFICES ASSUME GraphTypeOK, [GraphNext]_graphVars
             PROVE  GraphTypeOK'
  OBVIOUS
<1>1. ASSUME NEW t \in Tasks, StartExecuting(t) PROVE GraphTypeOK'
  BY <1>1, GraphTypeStartExecuting
<1>2. ASSUME NEW t \in Tasks, CallFinishTask(t) PROVE GraphTypeOK'
  BY <1>2, GraphTypeFinishTask DEF CallFinishTask
<1>3. ASSUME NEW t \in Tasks, GraphAssignTask(t) PROVE GraphTypeOK'
  BY <1>3, GraphTypeAssignTask
<1>4. ASSUME NEW f \in Files, CallStartTransfer(f) PROVE GraphTypeOK'
  BY <1>4, GraphTypeStartTransfer DEF CallStartTransfer
<1>5. ASSUME NEW f \in Files, NEW t \in Tasks, CallFinishTransfer(f, t) PROVE GraphTypeOK'
  BY <1>5, GraphTypeFinishTransfer DEF CallFinishTransfer
<1>6. CASE UNCHANGED graphVars
  BY <1>6, GraphTypeUnchanged
<1> QED
  BY <1>1, <1>2, <1>3, <1>4, <1>5, <1>6 DEF GraphNext

(***************************************************************************)
(* Type correctness of the graph, whatever the workflow.                   *)
(***************************************************************************)
THEOREM GraphTypeCorrect == GraphSpec => []GraphTypeOK
BY GraphTypeInit, GraphTypeNext, PTL DEF GraphSpec

-----------------------------------------------------------------------------
(* The inductive invariant of a well-formed workflow.  A counter says that  *)
(* a start is due only if what it counts is known: deliveries are counted   *)
(* once each, and only of files whose author is DONE.                       *)

DeliveredByAuthor ==
    \A p \in delivered : /\ p[2] \in Receivers[p[1]]
                         /\ Author[p[1]] # NoTask
                         /\ taskState[Author[p[1]]] = "DONE"

GraphInv ==
    /\ GraphTypeOK
    /\ ReadyFilesMatchStates
    /\ DeliveredByAuthor
    /\ CountersExact
    /\ StartedOnlyWhenFed

\* A task never leaves RUNNING but for DONE, nor DONE at all.
Onward == \A t \in Tasks :
    /\ taskState[t] = "DONE" => taskState'[t] = "DONE"
    /\ taskState[t] = "RUNNING" => taskState'[t] \in {"RUNNING", "DONE"}

LEMMA DependencyFacts ==
    ASSUME NEW t \in Tasks, NEW i \in DependencyIdx[t]
    PROVE  /\ i \in DOMAIN Inputs[t]
           /\ Inputs[t][i] \in Files
           /\ Author[Inputs[t][i]] \in Tasks
           /\ t \in Receivers[Inputs[t][i]]
<1>1. i \in DOMAIN Inputs[t] /\ Author[Inputs[t][i]] # NoTask
  BY DEF DependencyIdx
<1>2. Inputs[t][i] \in Files
  BY <1>1, InputPositions
<1>3. Author[Inputs[t][i]] \in Tasks
  BY <1>1, <1>2, AuthorWrites
<1> QED
  BY <1>1, <1>2, <1>3 DEF Receivers, FilesIn

LEMMA GraphInvInit == WellFormedWorkflow /\ GraphInit => GraphInv
<1> SUFFICES ASSUME WellFormedWorkflow, GraphInit PROVE GraphInv
  OBVIOUS
<1>1. ReadyFilesMatchStates /\ DeliveredByAuthor /\ StartedOnlyWhenFed
  BY DEF GraphInit, ReadyFilesMatchStates, DeliveredByAuthor, StartedOnlyWhenFed
<1>2. ASSUME NEW t \in Tasks
      PROVE  /\ finishedDeps[t] = Cardinality(DoneDependencies(t))
             /\ finishedTransfers[t] = Cardinality(ArrivedInputs(t))
  <2>1. \A i \in DependencyIdx[t] : taskState[Author[Inputs[t][i]]] # "DONE"
    BY DependencyFacts DEF GraphInit
  <2>2. DoneDependencies(t) = {}
    BY <2>1 DEF DoneDependencies
  <2>3. ArrivedInputs(t) = DOMAIN Inputs[t] \ DependencyIdx[t]
    BY DEF ArrivedInputs, GraphInit
  <2> QED
    BY <2>2, <2>3, FS_EmptySet DEF GraphInit
<1> QED
  BY <1>1, <1>2, GraphTypeInit DEF GraphInv, CountersExact

\* What the two counters stand for is finite.
LEMMA CountedFinite ==
    ASSUME NEW t \in Tasks
    PROVE  /\ DoneDependencies(t) \subseteq DependencyIdx[t]
           /\ DependencyIdx[t] \subseteq DOMAIN Inputs[t]
           /\ ArrivedInputs(t) \subseteq DOMAIN Inputs[t]
           /\ IsFiniteSet(DependencyIdx[t])
           /\ IsFiniteSet(DoneDependencies(t))
           /\ IsFiniteSet(ArrivedInputs(t))
<1>1. /\ DoneDependencies(t) \subseteq DependencyIdx[t]
      /\ DependencyIdx[t] \subseteq DOMAIN Inputs[t]
      /\ ArrivedInputs(t) \subseteq DOMAIN Inputs[t]
  BY DEF DoneDependencies, DependencyIdx, ArrivedInputs
<1> QED
  BY <1>1, InputPositions

\* Counters at their targets mean that everything has arrived.
LEMMA ReadyMeansFed ==
    ASSUME GraphInv, NEW t \in Tasks, IsReady(t)
    PROVE  \A i \in DependencyIdx[t] : /\ taskState[Author[Inputs[t][i]]] = "DONE"
                                       /\ <<Inputs[t][i], t>> \in delivered
<1>1. Cardinality(DoneDependencies(t)) = Cardinality(DependencyIdx[t])
  BY DEF IsReady, AllArrived, GraphInv, CountersExact
<1>2. Cardinality(ArrivedInputs(t)) = Cardinality(DOMAIN Inputs[t])
  BY InputPositions DEF IsReady, AllArrived, GraphInv, CountersExact
<1>3. DoneDependencies(t) = DependencyIdx[t]
  BY <1>1, CountedFinite, FS_Subset
<1>4. ArrivedInputs(t) = DOMAIN Inputs[t]
  BY <1>2, CountedFinite, InputPositions, FS_Subset
<1> QED
  BY <1>3, <1>4, CountedFinite DEF DoneDependencies, ArrivedInputs

\* A step that leaves task states and deliveries alone, or only lets waiting
\* tasks wait on, keeps what the counters and starts depend on.
LEMMA StartExecutingInv ==
    ASSUME WellFormedWorkflow, GraphInv, NEW t \in Tasks, StartExecuting(t)
    PROVE  GraphInv'
<1> USE DEF GraphInv
<1>1. GraphTypeOK'
  BY GraphTypeStartExecuting
<1>2. /\ taskState[t] # "DONE" /\ taskState'[t] = "RUNNING"
      /\ \A s \in Tasks : s # t => taskState'[s] = taskState[s]
      /\ \A s \in Tasks : taskState[s] = "DONE" <=> taskState'[s] = "DONE"
  BY DEF StartExecuting, IsReady, GraphTypeOK
<1>3. ReadyFilesMatchStates'
  BY <1>2, AuthorWrites DEF ReadyFilesMatchStates, StartExecuting
<1>4. DeliveredByAuthor'
  BY <1>2, AuthorWrites DEF DeliveredByAuthor, StartExecuting, GraphTypeOK
<1>5. CountersExact'
  <2>1. ASSUME NEW s \in Tasks
        PROVE  DoneDependencies(s)' = DoneDependencies(s) /\ ArrivedInputs(s)' = ArrivedInputs(s)
    BY <1>2, DependencyFacts DEF DoneDependencies, ArrivedInputs, StartExecuting
  <2> QED
    BY <2>1 DEF CountersExact, StartExecuting
<1>6. StartedOnlyWhenFed'
  <2> SUFFICES ASSUME NEW s \in Tasks, taskState'[s] \in {"RUNNING", "DONE"},
                      NEW i \in DependencyIdx[s]
               PROVE  /\ taskState'[Author[Inputs[s][i]]] = "DONE"
                      /\ <<Inputs[s][i], s>> \in delivered'
    BY DEF StartedOnlyWhenFed
  <2>1. /\ taskState[Author[Inputs[s][i]]] = "DONE"
        /\ <<Inputs[s][i], s>> \in delivered
    <3>1. CASE s = t
      BY <3>1, ReadyMeansFed DEF StartExecuting
    <3>2. CASE s # t
      BY <3>2, <1>2 DEF StartedOnlyWhenFed
    <3> QED
      BY <3>1, <3>2
  <2> QED
    BY <2>1, <1>2, DependencyFacts DEF StartExecuting
<1> QED
  BY <1>1, <1>3, <1>4, <1>5, <1>6

LEMMA FinishTaskInv ==
    ASSUME WellFormedWorkflow, GraphInv, NEW t \in Tasks, CallFinishTask(t)
    PROVE  GraphInv'
<1> USE DEF GraphInv
<1>0. GraphFinishTask(t) /\ taskState[t] = "RUNNING"
  BY DEF CallFinishTask
<1>1. GraphTypeOK'
  BY <1>0, GraphTypeFinishTask
<1>2. /\ taskState'[t] = "DONE"
      /\ \A s \in Tasks : s # t => /\ taskState'[s] = "DONE" <=> taskState[s] = "DONE"
                                   /\ taskState'[s] = "RUNNING" <=> taskState[s] = "RUNNING"
  BY <1>0 DEF GraphFinishTask, GraphTypeOK
<1>3. \A s \in Tasks : taskState[s] = "DONE" => taskState'[s] = "DONE"
  BY <1>0, <1>2
<1>4. ReadyFilesMatchStates'
  <2> SUFFICES ASSUME NEW f \in Files
               PROVE  /\ f \in readyFiles' <=> fileState'[f] = "READY"
                      /\ fileState'[f] \in {"READY", "TRANSFERING"} =>
                            Author[f] # NoTask /\ taskState'[Author[f]] = "DONE"
    BY DEF ReadyFilesMatchStates
  <2>1. CASE f \in Released(t)
    <3>1. f \in FilesIn(Outputs[t]) /\ Author[f] # NoTask
      BY <2>1 DEF Released
    <3>2. Author[f] = t
      BY <3>1, AuthorWrites DEF WellFormedWorkflow
    <3>3. fileState'[f] = "READY" /\ f \in readyFiles'
      BY <1>0, <2>1, <3>1 DEF GraphFinishTask
    <3> QED
      BY <3>1, <3>2, <3>3, <1>2
  <2>2. CASE f \notin Released(t) /\ f \in FilesIn(Outputs[t]) /\ Author[f] = NoTask
    <3>1. fileState'[f] = "DONE"
      BY <1>0, <2>2 DEF GraphFinishTask
    <3>2. f \notin readyFiles'
      BY <1>0, <2>2 DEF GraphFinishTask, ReadyFilesMatchStates
    <3> QED
      BY <3>1, <3>2
  <2>3. CASE f \notin Released(t) /\ ~(f \in FilesIn(Outputs[t]) /\ Author[f] = NoTask)
    <3>1. fileState'[f] = fileState[f] /\ (f \in readyFiles' <=> f \in readyFiles)
      BY <1>0, <2>3 DEF GraphFinishTask
    <3> QED
      BY <3>1, <1>3, AuthorWrites DEF ReadyFilesMatchStates
  <2> QED
    BY <2>1, <2>2, <2>3
<1>5. DeliveredByAuthor'
  BY <1>0, <1>3, AuthorWrites DEF DeliveredByAuthor, GraphFinishTask, GraphTypeOK
<1>6. CountersExact'
  <2> SUFFICES ASSUME NEW s \in Tasks
               PROVE  /\ finishedDeps'[s] = Cardinality(DoneDependencies(s)')
                      /\ finishedTransfers'[s] = Cardinality(ArrivedInputs(s)')
    BY DEF CountersExact
  <2>1. ArrivedInputs(s)' = ArrivedInputs(s)
    BY <1>0 DEF ArrivedInputs, GraphFinishTask
  <2>2. DoneDependencies(s)' = DoneDependencies(s) \cup SuccessorIdx[t][s]
    BY <1>2, DependencyFacts DEF DoneDependencies, SuccessorIdx
  <2>3. DoneDependencies(s) \cap SuccessorIdx[t][s] = {}
    BY <1>0 DEF DoneDependencies, SuccessorIdx
  <2>4. IsFiniteSet(SuccessorIdx[t][s])
    BY InputPositions DEF SuccessorIdx, DependencyIdx
  <2>5. Cardinality(DoneDependencies(s)') =
            Cardinality(DoneDependencies(s)) + Cardinality(SuccessorIdx[t][s])
    <3>1. /\ Cardinality(DoneDependencies(s)) \in Nat
          /\ Cardinality(SuccessorIdx[t][s]) \in Nat
      BY <2>4, CountedFinite, FS_CardinalityType
    <3>2. Cardinality(DoneDependencies(s) \cup SuccessorIdx[t][s]) =
              Cardinality(DoneDependencies(s)) + Cardinality(SuccessorIdx[t][s])
              - Cardinality(DoneDependencies(s) \cap SuccessorIdx[t][s])
      <4>1. IsFiniteSet(DoneDependencies(s))
        BY CountedFinite
      <4> QED
        BY <4>1, <2>4, FS_Union
    <3>3. Cardinality(DoneDependencies(s) \cap SuccessorIdx[t][s]) = 0
      BY <2>3, FS_EmptySet
    <3> QED
      BY <3>1, <3>2, <3>3, <2>2
  <2> QED
    BY <2>1, <2>5, <1>0 DEF CountersExact, GraphFinishTask
<1>7. StartedOnlyWhenFed'
  <2> SUFFICES ASSUME NEW s \in Tasks, taskState'[s] \in {"RUNNING", "DONE"},
                      NEW i \in DependencyIdx[s]
               PROVE  /\ taskState'[Author[Inputs[s][i]]] = "DONE"
                      /\ <<Inputs[s][i], s>> \in delivered'
    BY DEF StartedOnlyWhenFed
  <2>1. taskState[s] \in {"RUNNING", "DONE"}
    BY <1>0, <1>2
  <2> QED
    BY <2>1, <1>0, <1>3, DependencyFacts DEF StartedOnlyWhenFed, GraphFinishTask
<1> QED
  BY <1>1, <1>4, <1>5, <1>6, <1>7

LEMMA AssignTaskInv ==
    ASSUME WellFormedWorkflow, GraphInv, NEW t \in Tasks, GraphAssignTask(t)
    PROVE  GraphInv'
<1> USE DEF GraphInv
<1>1. GraphTypeOK'
  BY GraphTypeAssignTask
<1>2. UNCHANGED <<taskState, finishedDeps, finishedTransfers, delivered>>
  BY DEF GraphAssignTask
<1>3. ReadyFilesMatchStates'
  <2> SUFFICES ASSUME NEW f \in Files
               PROVE  /\ f \in readyFiles' <=> fileState'[f] = "READY"
                      /\ fileState'[f] \in {"READY", "TRANSFERING"} =>
                            Author[f] # NoTask /\ taskState[Author[f]] = "DONE"
    BY <1>2 DEF ReadyFilesMatchStates
  <2>1. CASE f \in ReadyOnAssign(t)
    BY <2>1 DEF GraphAssignTask, ReadyOnAssign
  <2>2. CASE f \notin ReadyOnAssign(t)
    BY <2>2 DEF GraphAssignTask, ReadyFilesMatchStates
  <2> QED
    BY <2>1, <2>2
<1>4. DeliveredByAuthor' /\ CountersExact' /\ StartedOnlyWhenFed'
  BY <1>2 DEF DeliveredByAuthor, CountersExact, StartedOnlyWhenFed,
              DoneDependencies, ArrivedInputs
<1> QED
  BY <1>1, <1>3, <1>4

LEMMA StartTransferInv ==
    ASSUME WellFormedWorkflow, GraphInv, NEW f \in Files, CallStartTransfer(f)
    PROVE  GraphInv'
<1> USE DEF GraphInv
<1>0. f \in readyFiles /\ GraphStartTransfer(f)
  BY DEF CallStartTransfer
<1>1. GraphTypeOK'
  BY <1>0, GraphTypeStartTransfer
<1>2. UNCHANGED <<taskState, finishedDeps, finishedTransfers, delivered>>
  BY <1>0 DEF GraphStartTransfer
<1>3. ReadyFilesMatchStates'
  <2> SUFFICES ASSUME NEW g \in Files
               PROVE  /\ g \in readyFiles' <=> fileState'[g] = "READY"
                      /\ fileState'[g] \in {"READY", "TRANSFERING"} =>
                            Author[g] # NoTask /\ taskState[Author[g]] = "DONE"
    BY <1>2 DEF ReadyFilesMatchStates
  <2>1. fileState'[f] = "TRANSFERING" /\ f \notin readyFiles'
    BY <1>0 DEF GraphStartTransfer, GraphTypeOK
  <2>2. g # f => fileState'[g] = fileState[g] /\ (g \in readyFiles' <=> g \in readyFiles)
    BY <1>0 DEF GraphStartTransfer, GraphTypeOK
  <2> QED
    BY <1>0, <2>1, <2>2 DEF ReadyFilesMatchStates
<1>4. DeliveredByAuthor' /\ CountersExact' /\ StartedOnlyWhenFed'
  BY <1>2 DEF DeliveredByAuthor, CountersExact, StartedOnlyWhenFed,
              DoneDependencies, ArrivedInputs
<1> QED
  BY <1>1, <1>3, <1>4

LEMMA FinishTransferInv ==
    ASSUME WellFormedWorkflow, GraphInv,
           NEW f \in Files, NEW t \in Tasks, CallFinishTransfer(f, t)
    PROVE  GraphInv'
<1> USE DEF GraphInv
<1>0. /\ fileState[f] \in {"READY", "TRANSFERING"}
      /\ t \in Receivers[f]
      /\ <<f, t>> \notin delivered
      /\ GraphFinishTransfer(f, t)
  BY DEF CallFinishTransfer
<1>1. GraphTypeOK'
  BY <1>0, GraphTypeFinishTransfer
<1>2. /\ UNCHANGED <<taskState, finishedDeps, fileState, readyFiles>>
      /\ delivered' = delivered \cup {<<f, t>>}
      /\ finishedTransfers' = [finishedTransfers EXCEPT ![t] = @ + 1]
  BY <1>0 DEF GraphFinishTransfer
<1>3. Author[f] # NoTask /\ taskState[Author[f]] = "DONE"
  BY <1>0 DEF ReadyFilesMatchStates
<1>4. ReadyFilesMatchStates'
  BY <1>2 DEF ReadyFilesMatchStates
<1>5. DeliveredByAuthor'
  <2> SUFFICES ASSUME NEW p \in delivered'
               PROVE  /\ p[2] \in Receivers[p[1]]
                      /\ Author[p[1]] # NoTask
                      /\ taskState[Author[p[1]]] = "DONE"
    BY <1>2 DEF DeliveredByAuthor
  <2>1. CASE p \in delivered
    BY <2>1 DEF DeliveredByAuthor
  <2>2. CASE p = <<f, t>>
    BY <2>2, <1>0, <1>3
  <2> QED
    BY <2>1, <2>2, <1>2
<1>6. CountersExact'
  <2> SUFFICES ASSUME NEW s \in Tasks
               PROVE  /\ finishedDeps[s] = Cardinality(DoneDependencies(s)')
                      /\ finishedTransfers'[s] = Cardinality(ArrivedInputs(s)')
    BY <1>2 DEF CountersExact
  <2>1. DoneDependencies(s)' = DoneDependencies(s)
    BY <1>2 DEF DoneDependencies
  <2>2. CASE s # t
    <3>1. ArrivedInputs(s)' = ArrivedInputs(s)
      BY <2>2, <1>2 DEF ArrivedInputs
    <3>2. finishedTransfers'[s] = finishedTransfers[s]
      BY <2>2, <1>2 DEF GraphTypeOK
    <3> QED
      BY <2>1, <3>1, <3>2 DEF CountersExact
  <2>3. CASE s = t
    <3>1. PICK j \in DOMAIN Inputs[t] : Inputs[t][j] = f
      BY <1>0 DEF Receivers, FilesIn
    <3>2. \A i \in DOMAIN Inputs[t] : Inputs[t][i] = f <=> i = j
      BY <3>1 DEF WellFormedWorkflow
    <3>3. j \in DependencyIdx[t]
      BY <3>1, <1>3 DEF DependencyIdx
    <3>4. j \notin ArrivedInputs(t)
      BY <3>1, <3>3, <1>0 DEF ArrivedInputs
    <3>5. ArrivedInputs(t)' = ArrivedInputs(t) \cup {j}
      BY <3>1, <3>2, <1>2 DEF ArrivedInputs
    <3>6. IsFiniteSet(ArrivedInputs(t))
      BY CountedFinite
    <3>7. Cardinality(ArrivedInputs(t) \cup {j}) = Cardinality(ArrivedInputs(t)) + 1
      BY <3>4, <3>6, FS_AddElement
    <3>8. finishedTransfers'[t] = finishedTransfers[t] + 1
      BY <1>2 DEF GraphTypeOK
    <3> QED
      BY <2>1, <2>3, <3>5, <3>7, <3>8 DEF CountersExact
  <2> QED
    BY <2>2, <2>3
<1>7. StartedOnlyWhenFed'
  BY <1>2 DEF StartedOnlyWhenFed
<1> QED
  BY <1>1, <1>4, <1>5, <1>6, <1>7

LEMMA GraphInvNext == WellFormedWorkflow /\ GraphInv /\ [GraphNext]_graphVars => GraphInv'
<1> SUFFICES ASSUME WellFormedWorkflow, GraphInv, [GraphNext]_graphVars
             PROVE  GraphInv'
  OBVIOUS
<1>1. ASSUME NEW t \in Tasks, StartExecuting(t) PROVE GraphInv'
  BY <1>1, StartExecutingInv
<1>2. ASSUME NEW t \in Tasks, CallFinishTask(t) PROVE GraphInv'
  BY <1>2, FinishTaskInv
<1>3. ASSUME NEW t \in Tasks, GraphAssignTask(t) PROVE GraphInv'
  BY <1>3, AssignTaskInv
<1>4. ASSUME NEW f \in Files, CallStartTransfer(f) PROVE GraphInv'
  BY <1>4, StartTransferInv
<1>5. ASSUME NEW f \in Files, NEW t \in Tasks, CallFinishTransfer(f, t) PROVE GraphInv'
  BY <1>5, FinishTransferInv
<1>6. CASE UNCHANGED graphVars
  BY <1>6 DEF graphVars, GraphInv, GraphTypeOK, ReadyFilesMatchStates, DeliveredByAuthor,
              CountersExact, StartedOnlyWhenFed, DoneDependencies, ArrivedInputs
<1> QED
  BY <1>1, <1>2, <1>3, <1>4, <1>5, <1>6 DEF GraphNext

THEOREM GraphInvariant == WellFormedWorkflow => (GraphSpec => []GraphInv)
<1> SUFFICES ASSUME WellFormedWorkflow PROVE GraphSpec => []GraphInv
  OBVIOUS
<1>1. GraphInit => GraphInv
  BY GraphInvInit
<1>2. GraphInv /\ [GraphNext]_graphVars => GraphInv'
  BY GraphInvNext
<1> QED
  BY <1>1, <1>2, PTL DEF GraphSpec

(***************************************************************************)
(* The counters of Task::IsReady count what they are meant to count.       *)
(***************************************************************************)
THEOREM GraphCountersExact == WellFormedWorkflow => (GraphSpec => []CountersExact)
<1> SUFFICES ASSUME WellFormedWorkflow PROVE GraphSpec => []CountersExact
  OBVIOUS
<1>1. GraphSpec => []GraphInv
  BY GraphInvariant
<1>2. GraphInv => CountersExact
  BY DEF GraphInv
<1> QED
  BY <1>1, <1>2, PTL

(***************************************************************************)
(* No task starts before every author of its inputs is DONE and every such *)
(* input has been delivered to it.                                         *)
(***************************************************************************)
THEOREM GraphStartedOnlyWhenFed == WellFormedWorkflow => (GraphSpec => []StartedOnlyWhenFed)
<1> SUFFICES ASSUME WellFormedWorkflow PROVE GraphSpec => []StartedOnlyWhenFed
  OBVIOUS
<1>1. GraphSpec => []GraphInv
  BY GraphInvariant
<1>2. GraphInv => StartedOnlyWhenFed
  BY DEF GraphInv
<1> QED
  BY <1>1, <1>2, PTL

(***************************************************************************)
(* ReadyFiles is the set of the files in state READY, and a file leaves    *)
(* NOT_STARTED for a transfer only once its author is DONE.                *)
(***************************************************************************)
THEOREM GraphReadyFilesMatchStates == WellFormedWorkflow => (GraphSpec => []ReadyFilesMatchStates)
<1> SUFFICES ASSUME WellFormedWorkflow PROVE GraphSpec => []ReadyFilesMatchStates
  OBVIOUS
<1>1. GraphSpec => []GraphInv
  BY GraphInvariant
<1>2. GraphInv => ReadyFilesMatchStates
  BY DEF GraphInv
<1> QED
  BY <1>1, <1>2, PTL

-----------------------------------------------------------------------------
(* The graph implements WorkflowRun.                                        *)

Feeds == {e \in Tasks \X Files \X Tasks : Author[e[2]] = e[1] /\ e[3] \in Receivers[e[2]]}

LEMMA StartImplements ==
    ASSUME WellFormedWorkflow, GraphInv, NEW t \in Tasks, StartExecuting(t)
    PROVE  Run!Start(t)
<1> DEFINE status == [s \in Tasks |-> StatusOf(taskState[s])]
<1>1. status[t] = "waiting"
  BY DEF StartExecuting, IsReady, StatusOf
<1>2. ASSUME NEW e \in Feeds, e[3] = t
      PROVE  \E p \in delivered : e = <<Author[p[1]], p[1], p[2]>>
  <2>1. /\ e[2] \in Files /\ e[1] \in Tasks /\ Author[e[2]] = e[1]
        /\ t \in Receivers[e[2]] /\ e = <<e[1], e[2], e[3]>>
    BY <1>2 DEF Feeds
  <2>2. PICK i \in DOMAIN Inputs[t] : Inputs[t][i] = e[2]
    BY <2>1 DEF Receivers, FilesIn
  <2>3. e[1] # NoTask
    BY <2>1, GraphAssumption DEF NoTask
  <2>4. i \in DependencyIdx[t]
    BY <2>1, <2>2, <2>3 DEF DependencyIdx
  <2>5. <<e[2], t>> \in delivered
    BY <2>2, <2>4, ReadyMeansFed DEF StartExecuting
  <2> QED
    BY <2>1, <2>5, <1>2
<1>3. Run!FeedsOf(t) \subseteq {<<Author[p[1]], p[1], p[2]>> : p \in delivered}
  BY <1>2 DEF Run!FeedsOf, Feeds
<1>4. status' = [status EXCEPT ![t] = "running"]
  <2>1. /\ taskState'[t] = "RUNNING"
        /\ \A s \in Tasks : s # t => taskState'[s] = taskState[s]
    BY DEF StartExecuting, GraphInv, GraphTypeOK
  <2> QED
    BY <2>1 DEF StatusOf
<1>5. UNCHANGED delivered
  BY DEF StartExecuting
<1> QED
  BY <1>1, <1>3, <1>4, <1>5 DEF Run!Start

LEMMA FinishImplements ==
    ASSUME GraphInv, NEW t \in Tasks, CallFinishTask(t)
    PROVE  Run!Finish(t)
<1> DEFINE status == [s \in Tasks |-> StatusOf(taskState[s])]
<1>1. status[t] = "running"
  BY DEF CallFinishTask, StatusOf
<1>2. status' = [status EXCEPT ![t] = "done"]
  <2>1. taskState'[t] = "DONE"
    BY DEF CallFinishTask, GraphFinishTask, GraphInv, GraphTypeOK
  <2>2. \A s \in Tasks : s # t => StatusOf(taskState'[s]) = StatusOf(taskState[s])
    BY DEF CallFinishTask, GraphFinishTask, GraphInv, GraphTypeOK, StatusOf
  <2> QED
    BY <2>1, <2>2 DEF StatusOf
<1>3. UNCHANGED delivered
  BY DEF CallFinishTask, GraphFinishTask
<1> QED
  BY <1>1, <1>2, <1>3 DEF Run!Finish

LEMMA DeliverImplements ==
    ASSUME WellFormedWorkflow, GraphInv,
           NEW f \in Files, NEW t \in Tasks, CallFinishTransfer(f, t)
    PROVE  \E e \in Feeds : Run!Deliver(e)
<1> DEFINE e == <<Author[f], f, t>>
<1>0. /\ fileState[f] \in {"READY", "TRANSFERING"}
      /\ t \in Receivers[f]
      /\ <<f, t>> \notin delivered
      /\ GraphFinishTransfer(f, t)
  BY DEF CallFinishTransfer
<1>1. Author[f] # NoTask /\ taskState[Author[f]] = "DONE"
  BY <1>0 DEF GraphInv, ReadyFilesMatchStates
<1>2. Author[f] \in Tasks
  BY <1>1, AuthorWrites
<1>3. e \in Feeds
  BY <1>0, <1>2 DEF Feeds
<1>4. e \notin {<<Author[p[1]], p[1], p[2]>> : p \in delivered}
  <2> SUFFICES ASSUME NEW p \in delivered, e = <<Author[p[1]], p[1], p[2]>> PROVE FALSE
    OBVIOUS
  <2>1. p = <<f, t>>
    BY DEF GraphInv, GraphTypeOK
  <2> QED
    BY <2>1, <1>0
<1>5. [s \in Tasks |-> StatusOf(taskState[s])][e[1]] = "done"
  BY <1>1, <1>2 DEF StatusOf
<1>6. {<<Author[p[1]], p[1], p[2]>> : p \in delivered'}
        = {<<Author[p[1]], p[1], p[2]>> : p \in delivered} \cup {e}
  BY <1>0 DEF GraphFinishTransfer
<1>7. UNCHANGED taskState
  BY <1>0 DEF GraphFinishTransfer
<1>8. Run!Deliver(e)
  BY <1>4, <1>5, <1>6, <1>7 DEF Run!Deliver
<1> QED
  BY <1>3, <1>8

LEMMA StutterImplements ==
    ASSUME UNCHANGED <<taskState, delivered>>
    PROVE  UNCHANGED Run!runVars
BY DEF Run!runVars

LEMMA InitImplements == GraphInit => Run!RunInit
BY DEF GraphInit, Run!RunInit, StatusOf

LEMMA NextImplements ==
    WellFormedWorkflow /\ GraphInv /\ [GraphNext]_graphVars => [Run!RunNext]_(Run!runVars)
<1> SUFFICES ASSUME WellFormedWorkflow, GraphInv, [GraphNext]_graphVars
             PROVE  Run!RunNext \/ UNCHANGED Run!runVars
  OBVIOUS
<1>1. ASSUME NEW t \in Tasks, StartExecuting(t) PROVE Run!RunNext
  BY <1>1, StartImplements DEF Run!RunNext
<1>2. ASSUME NEW t \in Tasks, CallFinishTask(t) PROVE Run!RunNext
  BY <1>2, FinishImplements DEF Run!RunNext
<1>3. ASSUME NEW t \in Tasks, GraphAssignTask(t) PROVE UNCHANGED Run!runVars
  BY <1>3, StutterImplements DEF GraphAssignTask
<1>4. ASSUME NEW f \in Files, CallStartTransfer(f) PROVE UNCHANGED Run!runVars
  BY <1>4, StutterImplements DEF CallStartTransfer, GraphStartTransfer
<1>5. ASSUME NEW f \in Files, NEW t \in Tasks, CallFinishTransfer(f, t) PROVE Run!RunNext
  BY <1>5, DeliverImplements DEF Run!RunNext, Feeds
<1>6. CASE UNCHANGED graphVars
  BY <1>6, StutterImplements DEF graphVars
<1> QED
  BY <1>1, <1>2, <1>3, <1>4, <1>5, <1>6 DEF GraphNext

(***************************************************************************)
(* The graph, its counters and its file states implement WorkflowRun: each *)
(* task starts once and only when fed, each file is delivered once to each *)
(* reader and only after its author is done.                               *)
(***************************************************************************)
THEOREM GraphRunsTheWorkflow == WellFormedWorkflow => (GraphSpec => RunsTheWorkflow)
<1> SUFFICES ASSUME WellFormedWorkflow PROVE GraphSpec => RunsTheWorkflow
  OBVIOUS
<1>1. GraphInit => Run!RunInit
  BY InitImplements
<1>2. GraphInv /\ [GraphNext]_graphVars => [Run!RunNext]_(Run!runVars)
  BY NextImplements
<1>3. GraphSpec => []GraphInv
  BY GraphInvariant
<1> QED
  BY <1>1, <1>2, <1>3, PTL DEF GraphSpec, RunsTheWorkflow, Run!RunSpec
=============================================================================
