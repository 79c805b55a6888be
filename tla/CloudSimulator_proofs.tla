------------------------ MODULE CloudSimulator_proofs ------------------------
(***************************************************************************)
(* Proofs about CloudSimulator, for every workflow, platform and schedule. *)
(***************************************************************************)
EXTENDS CloudSimulator, WorkflowGraph_proofs, SequenceTheorems

LEMMA ProcsFacts ==
    /\ Main \in Procs
    /\ \A t \in Tasks : Compute(t) \in Procs /\ Compute(t) # Main
    /\ \A v \in VMs : Mailer(v) \in Procs /\ Mailer(v) # Main
    /\ \A t \in Tasks, v \in VMs : Compute(t) # Mailer(v)
    /\ \A t, u \in Tasks : Compute(t) = Compute(u) => t = u
    /\ \A v, u \in VMs : Mailer(v) = Mailer(u) => v = u
BY DEF Procs, Main, Compute, Mailer

-----------------------------------------------------------------------------
(* Type correctness.  What a type depends on beyond the types: whoever is   *)
(* creating an actor knows for which task, and CheckReadyFiles only ever    *)
(* sees files that have an author.                                          *)

JobIsTask == \A p \in Procs : pc[p] = "create" => job[p] \in Tasks

FilesAuthored ==
    /\ \A f \in readyFiles : Author[f] # NoTask
    /\ cursor.iter # NoFile => Author[cursor.iter] # NoTask
    /\ cursor.file # NoFile => Author[cursor.file] # NoTask
    /\ cursor.receivers # {} => cursor.file # NoFile

TypeInv == TypeOK /\ JobIsTask /\ FilesAuthored

LEMMA PlatformUnchanged ==
    ASSUME PlatformTypeOK, UNCHANGED platformVars PROVE PlatformTypeOK'
BY DEF PlatformTypeOK, platformVars

LEMMA SimUnchanged ==
    ASSUME SimTypeOK, UNCHANGED simVars PROVE SimTypeOK'
BY DEF SimTypeOK, simVars

LEMMA CommUnchanged ==
    ASSUME CommTypeOK, UNCHANGED mbox, UNCHANGED dataVars PROVE CommTypeOK'
BY DEF CommTypeOK, dataVars

\* A step that moves a process, other than to "create", and leaves the graph
\* and the cursor alone.
LEMMA FilesUnchanged ==
    ASSUME FilesAuthored, UNCHANGED readyFiles, UNCHANGED cursor PROVE FilesAuthored'
BY DEF FilesAuthored

LEMMA JobUnchanged ==
    ASSUME TypeInv, NEW p \in Procs, NEW l \in Labels \ {"create"}, Goto(p, l), UNCHANGED job
    PROVE  pc' \in [Procs -> Labels] /\ JobIsTask'
BY DEF TypeInv, TypeOK, ProcTypeOK, Goto, JobIsTask

LEMMA TypeInit == Init => TypeInv
<1> SUFFICES ASSUME Init PROVE TypeInv
  OBVIOUS
<1>1. GraphTypeOK
  BY GraphTypeInit DEF Init
<1>2. PlatformTypeOK
  BY DEF Init, PlatformInit, PlatformTypeOK, Resources
<1>3. SimTypeOK
  BY SimulatorAssumption DEF Init, SimTypeOK, Coordinators
<1>4. Terminator \in Specs
  BY DEF Specs
<1>5. ProcTypeOK
  BY <1>4, ProcsFacts DEF Init, ProcTypeOK, Labels, NoCursor, Cursors, FileIterators, NoTask
<1>6. CommTypeOK
  BY DEF Init, CommTypeOK, Coordinators
<1>7. JobIsTask
  BY DEF Init, JobIsTask
<1>8. FilesAuthored
  BY DEF Init, GraphInit, FilesAuthored, NoCursor
<1> QED
  BY <1>1, <1>2, <1>3, <1>5, <1>6, <1>7, <1>8 DEF TypeInv, TypeOK

LEMMA TypeBuyVM ==
    ASSUME TypeInv, NEW v \in VMs, BuyVM(v) PROVE TypeInv'
<1> USE DEF TypeInv, TypeOK
<1>1. GraphTypeOK' /\ SimTypeOK' /\ CommTypeOK' /\ FilesAuthored'
  BY GraphTypeUnchanged, SimUnchanged, CommUnchanged, FilesUnchanged DEF BuyVM, graphVars
<1>2. PlatformTypeOK'
  BY PlatformAssumption DEF BuyVM, RegisterVirtualMachine, platformVars, PlatformTypeOK
<1>3. ProcTypeOK' /\ JobIsTask'
  BY ProcsFacts DEF BuyVM, Visited, ProcTypeOK, Labels, JobIsTask
<1> QED
  BY <1>1, <1>2, <1>3

\* A loop over machines begins: todo becomes some set of machines.
LEMMA LoopBegins ==
    ASSUME TypeInv, NEW p \in Procs, NEW l \in Labels \ {"create"}, Goto(p, l),
           NEW S \in SUBSET VMs, todo' = [todo EXCEPT ![p] = S],
           UNCHANGED <<resume, job, cursor, filesMutex, joined>>
    PROVE  ProcTypeOK' /\ JobIsTask'
<1>1. pc' \in [Procs -> Labels] /\ JobIsTask'
  BY JobUnchanged
<1>2. todo' \in [Procs -> SUBSET VMs]
  BY DEF TypeInv, TypeOK, ProcTypeOK
<1> QED
  BY <1>1, <1>2 DEF TypeInv, TypeOK, ProcTypeOK

\* A process visits a machine of its loop.
LEMMA VisitedType ==
    ASSUME ProcTypeOK, NEW p \in Procs, NEW v, Visited(p, v) PROVE todo' \in [Procs -> SUBSET VMs]
BY DEF ProcTypeOK, Visited

\* A process moves, and nothing else of the simulator does.
LEMMA MoveKeepsType ==
    ASSUME TypeInv, NEW p \in Procs, NEW l \in Labels \ {"create"}, Goto(p, l),
           UNCHANGED <<graphVars, platformVars, simVars, todo, resume, job, cursor,
                       filesMutex, joined>>,
           CommTypeOK'
    PROVE  TypeInv'
<1>1. GraphTypeOK' /\ PlatformTypeOK' /\ SimTypeOK' /\ FilesAuthored'
  BY GraphTypeUnchanged, PlatformUnchanged, SimUnchanged, FilesUnchanged
     DEF TypeInv, TypeOK, graphVars
<1>2. ProcTypeOK' /\ JobIsTask'
  BY JobUnchanged DEF TypeInv, TypeOK, ProcTypeOK
<1> QED
  BY <1>1, <1>2 DEF TypeInv, TypeOK

LEMMA TypeResetSchedule ==
    ASSUME TypeInv, ResetSchedule PROVE TypeInv'
<1> USE DEF TypeInv, TypeOK
<1>1. GraphTypeOK' /\ PlatformTypeOK' /\ CommTypeOK' /\ FilesAuthored'
  BY GraphTypeUnchanged, PlatformUnchanged, CommUnchanged, FilesUnchanged
     DEF ResetSchedule, graphVars
<1>2. SimTypeOK'
  BY DEF ResetSchedule, SimTypeOK, Coordinators
<1>3. virtualMachines \in SUBSET VMs /\ "assign" \in Labels \ {"create"}
  BY DEF PlatformTypeOK, Labels
<1>4. ProcTypeOK' /\ JobIsTask'
  BY <1>3, ProcsFacts, LoopBegins DEF ResetSchedule
<1> QED
  BY <1>1, <1>2, <1>4

LEMMA TypeAssignTask ==
    ASSUME TypeInv, NEW v \in VMs, AssignTask(v) PROVE TypeInv'
<1> USE DEF TypeInv, TypeOK
<1> DEFINE t == Head(copy[v])
<1>1. t \in Tasks /\ Tail(copy[v]) \in Seq(Tasks)
  BY DEF AssignTask, SimTypeOK
<1>2. PlatformTypeOK' /\ CommTypeOK' /\ ProcTypeOK' /\ JobIsTask'
  BY PlatformUnchanged, CommUnchanged DEF AssignTask, procVars, ProcTypeOK, JobIsTask
<1>3. SimTypeOK'
  <2>1. copy' \in [VMs -> Seq(Tasks)] /\ actors' = actors /\ transfers' = transfers
    BY <1>1 DEF AssignTask, SimTypeOK
  <2>2. CASE CheckTask(v, Need[t])
    <3>1. queue' = [queue EXCEPT ![v] = Append(@, t)] /\ hostOf' = [hostOf EXCEPT ![t] = v]
      BY <2>2 DEF AssignTask
    <3>2. queue[v] \in Seq(Tasks) /\ Append(queue[v], t) \in Seq(Tasks)
      BY <1>1 DEF SimTypeOK
    <3> QED
      BY <1>1, <2>1, <3>1, <3>2 DEF SimTypeOK, Coordinators
  <2>3. CASE ~CheckTask(v, Need[t])
    BY <2>1, <2>3 DEF AssignTask, SimTypeOK
  <2> QED
    BY <2>2, <2>3
<1>4. GraphTypeOK'
  BY <1>1, GraphTypeAssignTask, GraphTypeUnchanged DEF AssignTask
<1>5. FilesAuthored'
  BY <1>1 DEF AssignTask, GraphAssignTask, ReadyOnAssign, FilesAuthored, graphVars, procVars
<1> QED
  BY <1>2, <1>3, <1>4, <1>5

-----------------------------------------------------------------------------
(* Checks of ready jobs. *)

\* A process looks at a machine of its loop, and nothing else changes.
LEMMA VisitKeepsType ==
    ASSUME TypeInv, NEW p \in Procs, NEW v \in VMs, Visited(p, v),
           UNCHANGED <<graphVars, platformVars, simVars, pc, resume, job, cursor,
                       filesMutex, joined, mbox, dataVars>>
    PROVE  TypeInv'
<1> USE DEF TypeInv, TypeOK
<1>1. GraphTypeOK' /\ PlatformTypeOK' /\ SimTypeOK' /\ CommTypeOK' /\ FilesAuthored'
  BY GraphTypeUnchanged, PlatformUnchanged, SimUnchanged, CommUnchanged, FilesUnchanged
     DEF graphVars
<1>2. ProcTypeOK' /\ JobIsTask'
  BY VisitedType DEF ProcTypeOK, JobIsTask
<1> QED
  BY <1>1, <1>2

LEMMA TypeCheckReadyJobOnVM ==
    ASSUME TypeInv, NEW p \in Procs, NEW v \in VMs, CheckReadyJobOnVM(p, v) PROVE TypeInv'
<1> USE DEF TypeInv, TypeOK
<1> DEFINE t == Head(queue[v])
<1>1. t \in Tasks
  BY DEF CheckReadyJobOnVM, HeadReady, SimTypeOK
<1>2. GraphTypeOK' /\ CommTypeOK' /\ FilesAuthored'
  BY <1>1, GraphTypeStartExecuting, CommUnchanged, FilesUnchanged
     DEF CheckReadyJobOnVM, StartExecuting
<1>3. SimTypeOK'
  <2>1. actors' = actors \/ actors' = Append(actors, NullActor)
    BY DEF CheckReadyJobOnVM
  <2>2. Append(actors, NullActor) \in Seq(Tasks \cup {NullActor})
    BY DEF SimTypeOK
  <2> QED
    BY <2>1, <2>2 DEF CheckReadyJobOnVM, SimTypeOK
<1>4. PlatformTypeOK'
  BY PlatformUnchanged DEF CheckReadyJobOnVM, StartMachine, CheckTask, PlatformTypeOK
<1>5. UNCHANGED <<resume, cursor, filesMutex, joined>>
  BY DEF CheckReadyJobOnVM
<1>6. CASE CheckTask(v, Need[t])
  <2>1. /\ Goto(p, "create")
        /\ job' = [job EXCEPT ![p] = t]
        /\ todo' = todo
    BY <1>6 DEF CheckReadyJobOnVM
  <2>2. ProcTypeOK' /\ JobIsTask'
    BY <1>1, <1>5, <2>1 DEF Goto, ProcTypeOK, Labels, JobIsTask
  <2> QED
    BY <1>2, <1>3, <1>4, <2>2
<1>7. CASE ~CheckTask(v, Need[t])
  <2>1. Visited(p, v) /\ pc' = pc /\ job' = job
    BY <1>7 DEF CheckReadyJobOnVM
  <2>2. ProcTypeOK' /\ JobIsTask'
    BY <1>5, <2>1, VisitedType DEF ProcTypeOK, JobIsTask
  <2> QED
    BY <1>2, <1>3, <1>4, <2>2
<1> QED
  BY <1>6, <1>7

LEMMA TypeCreateActor ==
    ASSUME TypeInv, NEW p \in Procs, NEW v \in VMs, CreateActor(p, v) PROVE TypeInv'
<1> USE DEF TypeInv, TypeOK
<1>1. job[p] \in Tasks /\ Need[job[p]] \in Resources
  BY SimulatorAssumption DEF CreateActor, JobIsTask
<1>2. GraphTypeOK' /\ CommTypeOK' /\ FilesAuthored'
  BY GraphTypeUnchanged, CommUnchanged, FilesUnchanged DEF CreateActor, graphVars
<1>3. PlatformTypeOK'
  BY <1>1 DEF CreateActor, TakeResources, Less, Resources, PlatformTypeOK
<1>4. SimTypeOK'
  BY <1>1 DEF CreateActor, SimTypeOK
<1>5. pc' \in [Procs -> Labels] /\ job' \in [Procs -> Tasks \cup {NoTask}] /\ JobIsTask'
  BY <1>1, ProcsFacts DEF CreateActor, ProcTypeOK, Labels, JobIsTask
<1>6. ProcTypeOK'
  BY <1>5, VisitedType DEF CreateActor, ProcTypeOK
<1> QED
  BY <1>2, <1>3, <1>4, <1>5, <1>6

LEMMA TypeJobStep ==
    ASSUME TypeInv, NEW p \in Procs, JobStep(p) PROVE TypeInv'
<1>1. ASSUME NEW v \in VMs, NothingToStart(p, v) PROVE TypeInv'
  BY <1>1, VisitKeepsType DEF NothingToStart
<1>2. ASSUME JobsChecked(p) PROVE TypeInv'
  <2>1. resume[p] \in Labels \ {"create"}
    BY DEF TypeInv, TypeOK, ProcTypeOK, Labels
  <2>2. CommTypeOK'
    BY <1>2, CommUnchanged DEF JobsChecked, TypeInv, TypeOK
  <2> QED
    BY <1>2, <2>1, <2>2, MoveKeepsType DEF JobsChecked
<1> QED
  BY <1>1, <1>2, TypeCheckReadyJobOnVM, TypeCreateActor DEF JobStep

-----------------------------------------------------------------------------
(* A compute actor. *)

\* The actor of CheckReadyFiles moves the cursor, and reads no other file
\* than one that is ready.
LEMMA CursorKeepsType ==
    ASSUME TypeInv, NEW p \in Procs, NEW l \in Labels \ {"create"}, Goto(p, l),
           UNCHANGED <<graphVars, platformVars, simVars, todo, resume, job, joined>>,
           CommTypeOK', filesMutex' \in Tasks \cup {NoTask},
           cursor' \in Cursors, FilesAuthored'
    PROVE  TypeInv'
<1>1. GraphTypeOK' /\ PlatformTypeOK' /\ SimTypeOK'
  BY GraphTypeUnchanged, PlatformUnchanged, SimUnchanged DEF TypeInv, TypeOK
<1>2. ProcTypeOK' /\ JobIsTask'
  BY JobUnchanged DEF TypeInv, TypeOK, ProcTypeOK
<1> QED
  BY <1>1, <1>2 DEF TypeInv, TypeOK

LEMMA TypeDoRefreshAfterTask ==
    ASSUME TypeInv, NEW t \in Tasks, DoRefreshAfterTask(t) PROVE TypeInv'
<1> USE DEF TypeInv, TypeOK
<1>1. GraphTypeOK' /\ CommTypeOK'
  BY GraphTypeFinishTask, CommUnchanged DEF DoRefreshAfterTask
<1>2. PlatformTypeOK'
  <2>1. Need[t] \in Resources
    BY SimulatorAssumption
  <2>2. ASSUME NEW v \in VMs PROVE More(freeSpec[v], Need[t]) \in Resources
    BY <2>1 DEF More, Resources, PlatformTypeOK
  <2> QED
    BY <2>2 DEF DoRefreshAfterTask, PlatformFinishTask, PlatformTypeOK
<1>3. SimTypeOK'
  <2>1. ASSUME NEW v \in VMs, queue[v] # <<>> PROVE Tail(queue[v]) \in Seq(Tasks)
    BY <2>1 DEF SimTypeOK
  <2> QED
    BY <2>1 DEF DoRefreshAfterTask, SimTypeOK
<1>4. ProcTypeOK' /\ JobIsTask'
  <2>1. virtualMachines \in SUBSET VMs /\ "jobs" \in Labels \ {"create"}
    BY DEF PlatformTypeOK, Labels
  <2> QED
    BY <2>1, ProcsFacts, LoopBegins DEF DoRefreshAfterTask
<1>5. FilesAuthored'
  BY DEF DoRefreshAfterTask, GraphFinishTask, Released, FilesAuthored
<1> QED
  BY <1>1, <1>2, <1>3, <1>4, <1>5

LEMMA TypeStartTransfer ==
    ASSUME TypeInv, NEW t \in Tasks, NEW r \in Tasks, StartTransfer(t, r) PROVE TypeInv'
<1> USE DEF TypeInv, TypeOK
<1> DEFINE s == [sender |-> hostOf[Author[cursor.file]], receiver |-> hostOf[r],
                 task |-> r, file |-> cursor.file]
<1>1. cursor \in Cursors /\ r \in cursor.receivers
  BY DEF StartTransfer, ProcTypeOK
<1>2. cursor.file \in Files /\ Author[cursor.file] \in Tasks
  BY <1>1, AuthorWrites DEF FilesAuthored, Cursors, FileIterators
<1>3. s \in Specs
  BY <1>2 DEF Specs, Transfers, SimTypeOK
<1>4. Request(s) \in Messages
  BY <1>3 DEF Request, Messages
<1>5. cursor' = [cursor EXCEPT !.receivers = @ \ {r}, !.spec = s]
  BY DEF StartTransfer
<1>6. cursor' \in Cursors /\ FilesAuthored'
  BY <1>1, <1>3, <1>5 DEF Cursors, FilesAuthored, StartTransfer, graphVars
<1>7. CommTypeOK'
  <2>1. ASSUME NEW v \in Coordinators PROVE Append(mbox[v], Request(s)) \in Seq(Messages)
    BY <1>4 DEF CommTypeOK
  <2>2. mbox' = [v \in Coordinators |-> IF v \in {s.sender, s.receiver}
                                        THEN Append(mbox[v], Request(s))
                                        ELSE mbox[v]]
    BY DEF StartTransfer
  <2>3. mbox' \in [Coordinators -> Seq(Messages)]
    BY <2>1, <2>2 DEF CommTypeOK
  <2> QED
    BY <2>3 DEF StartTransfer, CommTypeOK, dataVars
<1>8. "request" \in Labels \ {"create"} /\ filesMutex' \in Tasks \cup {NoTask}
  BY DEF Labels, StartTransfer, ProcTypeOK
<1> QED
  BY <1>6, <1>7, <1>8, ProcsFacts, CursorKeepsType DEF StartTransfer

LEMMA TypeCheckReadyFiles ==
    ASSUME TypeInv, NEW t \in Tasks,
           CheckReadyFiles(t) \/ NextFile(t) \/ RequestTaken(t) \/ FilesChecked(t)
    PROVE TypeInv'
<1> USE DEF TypeInv, TypeOK
<1>1. /\ CommTypeOK' /\ cursor \in Cursors
      /\ UNCHANGED <<graphVars, platformVars, simVars, todo, resume, job, joined>>
      /\ filesMutex' \in Tasks \cup {NoTask}
  BY CommUnchanged DEF CheckReadyFiles, NextFile, RequestTaken, FilesChecked, ProcTypeOK
<1>2. {"files", "receivers", "acks", "dead"} \subseteq Labels \ {"create"}
  BY DEF Labels
<1>3. NoCursor \in Cursors /\ NoCursor.file = NoFile /\ NoCursor.receivers = {}
  BY DEF NoCursor, Cursors, FileIterators, Specs
<1>4. ASSUME NEW from, NEW next, NextReady(from, next), next # NoFile
      PROVE  next \in readyFiles /\ Author[next] # NoTask
  BY <1>4 DEF NextReady, FilesAuthored
<1>5. CASE CheckReadyFiles(t)
  <2>1. PICK next \in FileIterators : /\ NextReady(NoFile, next)
                                      /\ cursor' = [NoCursor EXCEPT !.iter = next]
    BY <1>5 DEF CheckReadyFiles
  <2>2. cursor' \in Cursors /\ cursor'.iter = next /\ cursor'.file = NoFile /\ cursor'.receivers = {}
    BY <1>3, <2>1 DEF Cursors
  <2>3. FilesAuthored'
    BY <1>1, <1>4, <2>1, <2>2 DEF FilesAuthored, graphVars
  <2> QED
    BY <1>1, <1>2, <1>5, <2>2, <2>3, ProcsFacts, CursorKeepsType DEF CheckReadyFiles
<1>6. CASE NextFile(t)
  <2>1. PICK next \in FileIterators :
           /\ NextReady(cursor.iter, next)
           /\ cursor' = [cursor EXCEPT !.file = cursor.iter, !.iter = next,
                                       !.receivers = Receivers[cursor.iter]]
    BY <1>6 DEF NextFile
  <2>2. cursor.iter # NoFile /\ cursor.iter \in Files
    BY <1>1, <1>6 DEF NextFile, Cursors, FileIterators
  <2>3. Receivers[cursor.iter] \subseteq Tasks
    BY <2>2 DEF Receivers
  <2>4. cursor' \in Cursors /\ cursor'.iter = next /\ cursor'.file = cursor.iter
    BY <1>1, <2>1, <2>2, <2>3 DEF Cursors
  <2>5. FilesAuthored'
    BY <1>1, <1>4, <2>1, <2>2, <2>4 DEF FilesAuthored, graphVars
  <2> QED
    BY <1>1, <1>2, <1>6, <2>4, <2>5, ProcsFacts, CursorKeepsType DEF NextFile
<1>7. CASE RequestTaken(t)
  <2>1. cursor.spec.sender \in Coordinators /\ cursor.spec.receiver \in Coordinators
    BY <1>1 DEF Cursors, Specs, Transfers, Terminator, Coordinators
  <2> DEFINE a == IF cursor.spec.sender = cursor.spec.receiver
                  THEN <<cursor.spec.sender>>
                  ELSE <<cursor.spec.sender, cursor.spec.receiver>>
  <2>2. a \in Seq(Coordinators) /\ cursor' = [cursor EXCEPT !.acks = a]
    BY <1>7, <2>1 DEF RequestTaken
  <2>3. cursor' \in Cursors /\ FilesAuthored'
    BY <1>1, <2>2 DEF Cursors, FilesAuthored, graphVars
  <2> QED
    BY <1>1, <1>2, <1>7, <2>3, ProcsFacts, CursorKeepsType DEF RequestTaken
<1>8. CASE FilesChecked(t)
  <2>1. cursor' \in Cursors /\ FilesAuthored'
    BY <1>1, <1>3, <1>8 DEF FilesChecked, FilesAuthored, graphVars, NoCursor
  <2> QED
    BY <1>1, <1>2, <1>8, <2>1, ProcsFacts, CursorKeepsType DEF FilesChecked
<1> QED
  BY <1>5, <1>6, <1>7, <1>8

LEMMA TypeTakeAck ==
    ASSUME TypeInv, NEW t \in Tasks, TakeAck(t) PROVE TypeInv'
<1> USE DEF TypeInv, TypeOK
<1> DEFINE v == Head(cursor.acks)
<1>1. cursor \in Cursors /\ v \in Coordinators /\ Tail(cursor.acks) \in Seq(Coordinators)
  BY DEF TakeAck, ProcTypeOK, Cursors
<1>2. cursor' \in Cursors /\ FilesAuthored'
  BY <1>1 DEF TakeAck, Cursors, FilesAuthored, graphVars
<1>3. Tail(mbox[v]) \in Seq(Messages)
  BY <1>1 DEF TakeAck, CommTypeOK
<1>4. CommTypeOK'
  BY <1>3 DEF TakeAck, CommTypeOK, dataVars
<1>5. GraphTypeOK' /\ PlatformTypeOK' /\ SimTypeOK'
  BY GraphTypeUnchanged, PlatformUnchanged, SimUnchanged DEF TakeAck
<1>6. ProcTypeOK' /\ JobIsTask'
  BY <1>2 DEF TakeAck, ProcTypeOK, JobIsTask
<1> QED
  BY <1>2, <1>4, <1>5, <1>6

LEMMA TypeFileStarted ==
    ASSUME TypeInv, NEW t \in Tasks, FileStarted(t) PROVE TypeInv'
<1> USE DEF TypeInv, TypeOK
<1>1. GraphTypeOK'
  BY DEF FileStarted, GraphStartTransfer, GraphTypeOK, FileStates
<1>2. PlatformTypeOK' /\ SimTypeOK' /\ CommTypeOK'
  BY PlatformUnchanged, SimUnchanged, CommUnchanged DEF FileStarted
<1>3. FilesAuthored'
  BY DEF FileStarted, GraphStartTransfer, FilesAuthored
<1>4. "files" \in Labels \ {"create"}
  BY DEF Labels
<1>5. ProcTypeOK' /\ JobIsTask'
  BY <1>4, ProcsFacts, JobUnchanged DEF FileStarted, ProcTypeOK
<1> QED
  BY <1>1, <1>2, <1>3, <1>5

LEMMA TypeComputeStep ==
    ASSUME TypeInv, NEW t \in Tasks, ComputeStep(t) PROVE TypeInv'
<1>1. {"finish", "receivers"} \subseteq Labels \ {"create"} /\ Compute(t) \in Procs
  BY ProcsFacts DEF Labels
<1>2. ASSUME DoExecute(t) \/ TransferStarted(t) PROVE TypeInv'
  <2>1. CommTypeOK'
    BY <1>2, CommUnchanged DEF DoExecute, TransferStarted, TypeInv, TypeOK
  <2> QED
    BY <1>1, <1>2, <2>1, MoveKeepsType DEF DoExecute, TransferStarted
<1> QED
  BY <1>1, <1>2, TypeJobStep, TypeDoRefreshAfterTask, TypeCheckReadyFiles, TypeStartTransfer,
     TypeTakeAck, TypeFileStarted DEF ComputeStep

-----------------------------------------------------------------------------
(* A mailer, and the data on its way. *)

LEMMA DeliverableFacts ==
    ASSUME NEW s \in Deliverable
    PROVE  /\ s.file \in Files /\ s.task \in Tasks
           /\ s.receiver \in VMs /\ s.sender \in Coordinators
BY DEF Deliverable

\* A request with a receiver can be delivered.
LEMMA RequestIsDeliverable ==
    ASSUME NEW s \in Specs, s.receiver # NoVM PROVE s \in Deliverable
BY DEF Specs, Transfers, Deliverable, Terminator, Coordinators

LEMMA IncomingType ==
    ASSUME TypeInv, NEW v \in VMs, Incoming(v)
    PROVE  /\ mbox' \in [Coordinators -> Seq(Messages)]
           /\ Received(v) \in Specs
<1>1. v \in Coordinators
  BY DEF Coordinators
<1>2. mbox \in [Coordinators -> Seq(Messages)] /\ mbox[v] \in Seq(Messages) /\ mbox[v] # <<>>
  BY <1>1 DEF TypeInv, TypeOK, CommTypeOK, Incoming
<1>3. Head(mbox[v]) \in Messages /\ Tail(mbox[v]) \in Seq(Messages)
  BY <1>2
<1> QED
  BY <1>2, <1>3 DEF Incoming, Received, Messages

\* A mailer has delivered and goes to look at the receiver's queue.
LEMMA DeliveryKeepsProcType ==
    ASSUME TypeInv, NEW v \in VMs, NEW r \in VMs, NEW l \in {"wait", "ack"},
           Goto(Mailer(v), "jobs"),
           todo' = [todo EXCEPT ![Mailer(v)] = {r}],
           resume' = [resume EXCEPT ![Mailer(v)] = l],
           UNCHANGED <<job, cursor, filesMutex, joined>>
    PROVE  ProcTypeOK' /\ JobIsTask'
<1>1. "jobs" \in Labels \ {"create"} /\ Mailer(v) \in Procs
  BY ProcsFacts DEF Labels
<1>2. pc' \in [Procs -> Labels] /\ JobIsTask'
  BY <1>1, JobUnchanged
<1> QED
  BY <1>2 DEF TypeInv, TypeOK, ProcTypeOK

LEMMA TypeFirstEndReported ==
    ASSUME TypeInv, NEW v \in VMs, NEW s, FirstEndReported(v, s) PROVE TypeInv'
<1> USE DEF TypeInv, TypeOK
<1>1. s \in Deliverable
  BY DEF FirstEndReported, CommTypeOK
<1>2. GraphTypeOK' /\ PlatformTypeOK' /\ FilesAuthored'
  BY GraphTypeUnchanged, PlatformUnchanged, FilesUnchanged
     DEF FirstEndReported, graphVars, procVars
<1>3. SimTypeOK' /\ CommTypeOK'
  BY <1>1 DEF FirstEndReported, SimTypeOK, CommTypeOK
<1>4. ProcTypeOK' /\ JobIsTask'
  BY DEF FirstEndReported, procVars, ProcTypeOK, JobIsTask
<1> QED
  BY <1>2, <1>3, <1>4

LEMMA TypeSecondEndReported ==
    ASSUME TypeInv, NEW v \in VMs, NEW s, SecondEndReported(v, s) PROVE TypeInv'
<1> USE DEF TypeInv, TypeOK
<1>1. s \in Deliverable
  BY DEF SecondEndReported, CommTypeOK
<1>2. GraphTypeOK' /\ PlatformTypeOK'
  BY <1>1, DeliverableFacts, GraphTypeFinishTransfer, PlatformUnchanged DEF SecondEndReported
<1>3. FilesAuthored'
  BY FilesUnchanged DEF SecondEndReported, GraphFinishTransfer
<1>4. SimTypeOK' /\ CommTypeOK'
  BY DEF SecondEndReported, SimTypeOK, CommTypeOK
<1>5. ProcTypeOK' /\ JobIsTask'
  BY <1>1, DeliverableFacts, DeliveryKeepsProcType DEF SecondEndReported
<1> QED
  BY <1>2, <1>3, <1>4, <1>5

LEMMA TypeLocalTransfer ==
    ASSUME TypeInv, NEW v \in VMs, LocalTransfer(v) PROVE TypeInv'
<1> USE DEF TypeInv, TypeOK
<1> DEFINE s == Received(v)
<1>1. s \in Deliverable /\ mbox' \in [Coordinators -> Seq(Messages)]
  BY IncomingType, RequestIsDeliverable DEF LocalTransfer
<1>2. GraphTypeOK' /\ PlatformTypeOK' /\ SimTypeOK'
  BY <1>1, DeliverableFacts, GraphTypeFinishTransfer, PlatformUnchanged, SimUnchanged
     DEF LocalTransfer
<1>3. FilesAuthored'
  BY FilesUnchanged DEF LocalTransfer, GraphFinishTransfer
<1>4. CommTypeOK'
  BY <1>1 DEF LocalTransfer, dataVars, CommTypeOK
<1>5. ProcTypeOK' /\ JobIsTask'
  BY <1>1, DeliverableFacts, DeliveryKeepsProcType DEF LocalTransfer
<1> QED
  BY <1>2, <1>3, <1>4, <1>5

LEMMA TypeBeginTransfer ==
    ASSUME TypeInv, NEW v \in VMs, BeginReceiving(v) \/ BeginSending(v) PROVE TypeInv'
<1> USE DEF TypeInv, TypeOK
<1> DEFINE s == Received(v)
<1>1. mbox' \in [Coordinators -> Seq(Messages)] /\ s \in Specs /\ arrived' = arrived
  BY IncomingType DEF BeginReceiving, BeginSending
<1>2. /\ unmatchedPut \in [VMs -> Seq(Deliverable)]
      /\ unmatchedGet \in [VMs -> Nat]
      /\ moving \subseteq Deliverable
      /\ arrived \subseteq Coordinators \X Deliverable
  BY DEF CommTypeOK
<1> DEFINE Kept == /\ unmatchedPut' \in [VMs -> Seq(Deliverable)]
                   /\ unmatchedGet' \in [VMs -> Nat]
                   /\ moving' \subseteq Deliverable
<1>3. ASSUME BeginReceiving(v) PROVE Kept
  <2>1. CASE unmatchedPut[v] = <<>>
    <3>1. /\ unmatchedGet' = [unmatchedGet EXCEPT ![v] = @ + 1]
          /\ unmatchedPut' = unmatchedPut /\ moving' = moving
      BY <1>3, <2>1 DEF BeginReceiving
    <3> QED
      BY <1>2, <3>1
  <2>2. CASE unmatchedPut[v] # <<>>
    <3>1. Head(unmatchedPut[v]) \in Deliverable /\ Tail(unmatchedPut[v]) \in Seq(Deliverable)
      BY <1>2, <2>2
    <3>2. /\ unmatchedPut' = [unmatchedPut EXCEPT ![v] = Tail(@)]
          /\ moving' = moving \cup {Head(unmatchedPut[v])} /\ unmatchedGet' = unmatchedGet
      BY <1>3, <2>2 DEF BeginReceiving
    <3> QED
      BY <1>2, <3>1, <3>2
  <2> QED
    BY <2>1, <2>2
<1>4. ASSUME BeginSending(v) PROVE Kept
  <2>1. s \in Deliverable /\ s.receiver \in VMs
    BY <1>1, <1>4, RequestIsDeliverable, DeliverableFacts DEF BeginSending
  <2>2. CASE unmatchedGet[s.receiver] = 0
    <3>1. Append(unmatchedPut[s.receiver], s) \in Seq(Deliverable)
      BY <1>2, <2>1
    <3>2. /\ unmatchedPut' = [unmatchedPut EXCEPT ![s.receiver] = Append(@, s)]
          /\ unmatchedGet' = unmatchedGet /\ moving' = moving
      BY <1>4, <2>2 DEF BeginSending
    <3> QED
      BY <1>2, <3>1, <3>2
  <2>3. CASE unmatchedGet[s.receiver] # 0
    <3>1. unmatchedGet[s.receiver] - 1 \in Nat
      BY <1>2, <2>1, <2>3
    <3>2. /\ unmatchedGet' = [unmatchedGet EXCEPT ![s.receiver] = @ - 1]
          /\ unmatchedPut' = unmatchedPut /\ moving' = moving \cup {s}
      BY <1>4, <2>3 DEF BeginSending
    <3> QED
      BY <1>2, <2>1, <3>1, <3>2
  <2> QED
    BY <2>2, <2>3
<1>5. CommTypeOK'
  BY <1>1, <1>2, <1>3, <1>4 DEF CommTypeOK
<1>6. "ack" \in Labels \ {"create"} /\ Mailer(v) \in Procs
  BY ProcsFacts DEF Labels
<1> QED
  BY <1>5, <1>6, MoveKeepsType DEF BeginReceiving, BeginSending

LEMMA TypeMailerMoves ==
    ASSUME TypeInv, NEW v \in VMs, KillMailer(v) \/ PutAck(v) \/ AckTaken(v) \/ Drain(v)
    PROVE  TypeInv'
<1> USE DEF TypeInv, TypeOK
<1>1. {"drain", "replied", "wait", "dead"} \subseteq Labels \ {"create"} /\ Mailer(v) \in Procs
  BY ProcsFacts DEF Labels
<1>2. CASE KillMailer(v)
  <2>1. CommTypeOK'
    BY <1>2, IncomingType DEF KillMailer, CommTypeOK, dataVars
  <2> QED
    BY <1>1, <1>2, <2>1, MoveKeepsType DEF KillMailer
<1>3. CASE PutAck(v)
  <2>1. v \in Coordinators /\ Ack \in Messages
    BY DEF Coordinators, Ack, Messages, Specs
  <2>2. CommTypeOK'
    BY <1>3, <2>1 DEF PutAck, CommTypeOK, dataVars
  <2> QED
    BY <1>1, <1>3, <2>2, MoveKeepsType DEF PutAck
<1>4. CASE AckTaken(v)
  BY <1>1, <1>4, CommUnchanged, MoveKeepsType DEF AckTaken
<1>5. CASE Drain(v)
  <2>1. CommTypeOK'
    BY <1>5 DEF Drain, CommTypeOK
  <2> QED
    BY <1>1, <1>5, <2>1, MoveKeepsType DEF Drain
<1> QED
  BY <1>2, <1>3, <1>4, <1>5

LEMMA TypeMailerStep ==
    ASSUME TypeInv, NEW v \in VMs, MailerStep(v) PROVE TypeInv'
BY ProcsFacts, TypeJobStep, TypeFirstEndReported, TypeSecondEndReported, TypeLocalTransfer,
   TypeBeginTransfer, TypeMailerMoves DEF MailerStep

LEMMA TypeArrive ==
    ASSUME TypeInv, NEW s \in moving, Arrive(s) PROVE TypeInv'
<1> USE DEF TypeInv, TypeOK
<1>1. s \in Deliverable /\ s.sender \in Coordinators /\ s.receiver \in Coordinators
  BY DeliverableFacts DEF CommTypeOK, Coordinators
<1>2. GraphTypeOK' /\ PlatformTypeOK' /\ SimTypeOK' /\ FilesAuthored'
  BY GraphTypeUnchanged, PlatformUnchanged, SimUnchanged, FilesUnchanged
     DEF Arrive, graphVars, procVars
<1>3. CommTypeOK'
  BY <1>1 DEF Arrive, CommTypeOK
<1>4. ProcTypeOK' /\ JobIsTask'
  BY DEF Arrive, procVars, ProcTypeOK, JobIsTask
<1> QED
  BY <1>2, <1>3, <1>4

-----------------------------------------------------------------------------
(* The main actor. *)

\* The main actor begins a loop over the machines.
LEMMA LoopKeepsType ==
    ASSUME TypeInv, NEW l \in Labels \ {"create"}, Goto(Main, l),
           todo' = [todo EXCEPT ![Main] = virtualMachines],
           UNCHANGED <<graphVars, platformVars, simVars, resume, job, cursor,
                       filesMutex, joined, mbox, dataVars>>
    PROVE  TypeInv'
<1> USE DEF TypeInv, TypeOK
<1>1. GraphTypeOK' /\ PlatformTypeOK' /\ SimTypeOK' /\ CommTypeOK' /\ FilesAuthored'
  BY GraphTypeUnchanged, PlatformUnchanged, SimUnchanged, CommUnchanged, FilesUnchanged
     DEF graphVars
<1>2. virtualMachines \in SUBSET VMs
  BY DEF PlatformTypeOK
<1>3. ProcTypeOK' /\ JobIsTask'
  BY <1>2, ProcsFacts, LoopBegins
<1> QED
  BY <1>1, <1>3

LEMMA TypeTestFinished ==
    ASSUME TypeInv, TestFinished PROVE TypeInv'
<1> USE DEF TypeInv, TypeOK
<1>1. {"shut", "join"} \subseteq Labels \ {"create"} /\ Main \in Procs
  BY ProcsFacts DEF Labels
<1>2. CASE GraphIsFinished
  BY <1>1, <1>2, LoopKeepsType DEF TestFinished
<1>3. CASE ~GraphIsFinished
  <2>1. GraphTypeOK' /\ PlatformTypeOK' /\ SimTypeOK' /\ CommTypeOK' /\ FilesAuthored'
    BY GraphTypeUnchanged, PlatformUnchanged, SimUnchanged, CommUnchanged, FilesUnchanged
       DEF TestFinished, graphVars
  <2>2. pc' \in [Procs -> Labels] /\ JobIsTask'
    BY <1>1, <1>3, JobUnchanged DEF TestFinished
  <2>3. ProcTypeOK'
    BY <1>3, <2>2 DEF TestFinished, ProcTypeOK
  <2> QED
    BY <2>1, <2>2, <2>3
<1> QED
  BY <1>2, <1>3

LEMMA TypeShutdown ==
    ASSUME TypeInv, JoinActor \/ EndMainLoop \/ \E v \in VMs : PutTerminator(v) \/ JoinMailer(v)
    PROVE  TypeInv'
<1> USE DEF TypeInv, TypeOK
<1>1. {"shut", "closing", "dead"} \subseteq Labels \ {"create"} /\ Main \in Procs
  BY ProcsFacts DEF Labels
<1>2. CASE JoinActor
  <2>1. GraphTypeOK' /\ PlatformTypeOK' /\ SimTypeOK' /\ CommTypeOK' /\ FilesAuthored'
    BY <1>2, GraphTypeUnchanged, PlatformUnchanged, SimUnchanged, CommUnchanged, FilesUnchanged
       DEF JoinActor, graphVars
  <2>2. ProcTypeOK' /\ JobIsTask'
    BY <1>2 DEF JoinActor, ProcTypeOK, JobIsTask
  <2> QED
    BY <2>1, <2>2
<1>3. CASE EndMainLoop
  BY <1>1, <1>3, CommUnchanged, MoveKeepsType DEF EndMainLoop
<1>4. ASSUME NEW v \in VMs, PutTerminator(v) PROVE TypeInv'
  <2>1. v \in Coordinators /\ Request(Terminator) \in Messages
    BY DEF Coordinators, Request, Messages, Specs
  <2>2. CommTypeOK'
    BY <1>4, <2>1 DEF PutTerminator, CommTypeOK, dataVars
  <2> QED
    BY <1>1, <1>4, <2>2, MoveKeepsType DEF PutTerminator
<1>5. ASSUME NEW v \in VMs, JoinMailer(v) PROVE TypeInv'
  <2>1. GraphTypeOK' /\ PlatformTypeOK' /\ SimTypeOK' /\ CommTypeOK' /\ FilesAuthored'
    BY <1>5, GraphTypeUnchanged, PlatformUnchanged, SimUnchanged, CommUnchanged, FilesUnchanged
       DEF JoinMailer, graphVars
  <2>2. pc' \in [Procs -> Labels] /\ JobIsTask'
    BY <1>1, <1>5, JobUnchanged DEF JoinMailer
  <2>3. ProcTypeOK'
    BY <1>1, <1>5, <2>2, VisitedType DEF JoinMailer, ProcTypeOK
  <2> QED
    BY <2>1, <2>2, <2>3
<1> QED
  BY <1>2, <1>3, <1>4, <1>5

LEMMA TypeMainStep ==
    ASSUME TypeInv, MainStep PROVE TypeInv'
<1>1. "jobs" \in Labels \ {"create"} /\ Main \in Procs
  BY ProcsFacts DEF Labels
<1>2. ASSUME BeginMainLoop PROVE TypeInv'
  BY <1>1, <1>2, LoopKeepsType DEF BeginMainLoop
<1>3. ASSUME NEW v \in VMs, AssignedAll(v) PROVE TypeInv'
  BY <1>1, <1>3, VisitKeepsType DEF AssignedAll
<1> QED
  BY <1>1, <1>2, <1>3, TypeResetSchedule, TypeBuyVM, TypeAssignTask, TypeJobStep,
     TypeTestFinished, TypeShutdown DEF MainStep

LEMMA TypeNext == TypeInv /\ [Next]_vars => TypeInv'
<1> SUFFICES ASSUME TypeInv, [Next]_vars PROVE TypeInv'
  OBVIOUS
<1>1. CASE UNCHANGED vars
  BY <1>1, GraphTypeUnchanged, PlatformUnchanged, SimUnchanged, CommUnchanged, FilesUnchanged
     DEF vars, TypeInv, TypeOK, ProcTypeOK, JobIsTask, procVars, graphVars
<1>2. CASE Ended
  BY <1>1, <1>2 DEF Ended
<1> QED
  BY <1>1, <1>2, TypeMainStep, TypeComputeStep, TypeMailerStep, TypeArrive DEF Next

(***************************************************************************)
(* Every variable of the simulator keeps its type, for every workflow,     *)
(* platform and schedule, well formed or not: no queue, mailbox or counter *)
(* is read outside its range.                                              *)
(***************************************************************************)
THEOREM SimulatorTypeCorrect == Spec => []TypeOK
<1>1. TypeInv => TypeOK
  BY DEF TypeInv
<1> QED
  BY <1>1, TypeInit, TypeNext, PTL DEF Spec

-----------------------------------------------------------------------------
(* The running task is the head of its queue, and the account of resources. *)

Setup == pc[Main] \in {"buy", "assign"}

\* Nothing runs before the main loop.
QuietSetup ==
    Setup => /\ \A t \in Tasks : taskState[t] = "NOT_SCHEDULED" /\ pc[Compute(t)] = "none"
             /\ \A v \in VMs : pc[Mailer(v)] \in {"none", "wait"} /\ mbox[v] = <<>>
             /\ moving = {} /\ arrived = {}

\* A task waits in one place to be assigned, and not in a queue too.
AssignedOnce ==
    /\ PlannedOnce(copy)
    /\ \A v, u \in VMs : \A i \in DOMAIN copy[v], j \in DOMAIN queue[u] : copy[v][i] # queue[u][j]

\* A queue belongs to the machine of its tasks, which is large enough.
QueuedPlaced ==
    \A v \in VMs : \A i \in DOMAIN queue[v] :
        /\ hostOf[queue[v][i]] = v /\ v \in virtualMachines
        /\ Fits(Need[queue[v][i]], VMSpec[v])

\* A task computes only while it is RUNNING, and its actor is only made then.
ActorOfRunning ==
    \A t \in Tasks :
        /\ pc[Compute(t)] \in {"exec", "finish"} => taskState[t] = "RUNNING"
        /\ taskState[t] \notin {"RUNNING", "DONE"} => pc[Compute(t)] = "none"

\* Whoever creates an actor is alone in doing so, at the machine of the task.
CreatorOfRunning ==
    /\ \A p \in Procs : pc[p] = "create" =>
          /\ taskState[job[p]] = "RUNNING" /\ pc[Compute(job[p])] = "none"
          /\ AtMachine(p, hostOf[job[p]])
    /\ \A p, q \in Procs : pc[p] = "create" /\ pc[q] = "create" /\ job[p] = job[q] => p = q

MachinesInv ==
    /\ TypeInv /\ QuietSetup /\ AssignedOnce /\ QueuedPlaced /\ ActorOfRunning /\ CreatorOfRunning
    /\ RunningIsHead /\ ResourcesAccounted

LEMMA MachinesInit == Init => MachinesInv
<1> SUFFICES ASSUME Init PROVE MachinesInv
  OBVIOUS
<1>1. TypeInv
  BY TypeInit
<1>2. \A t \in Tasks : taskState[t] = "NOT_SCHEDULED" /\ pc[Compute(t)] = "none"
  BY ProcsFacts DEF Init, GraphInit
<1>3. QuietSetup
  BY <1>2, ProcsFacts DEF Init, QuietSetup, Coordinators
<1>4. AssignedOnce
  BY SimulatorAssumption DEF Init, AssignedOnce
<1>5. QueuedPlaced
  BY DEF Init, QueuedPlaced
<1>6. ActorOfRunning /\ CreatorOfRunning /\ RunningIsHead
  BY <1>2 DEF Init, ActorOfRunning, CreatorOfRunning, RunningIsHead
<1>7. ResourcesAccounted
  BY DEF Init, PlatformInit, ResourcesAccounted
<1> QED BY <1>1, <1>3, <1>4, <1>5, <1>6, <1>7 DEF MachinesInv

\* Whoever is at work is so after the set-up.
LEMMA AtWork ==
    ASSUME MachinesInv, NEW p \in Procs, pc[p] \notin {"none", "wait", "buy", "assign"}
    PROVE  ~Setup
BY DEF MachinesInv, QuietSetup, Setup, Procs

LEMMA MailAfterSetup ==
    ASSUME MachinesInv, (\E v \in VMs : mbox[v] # <<>>) \/ arrived # {} \/ moving # {}
    PROVE  ~Setup
BY DEF MachinesInv, QuietSetup

\* A process moves between places where it neither computes nor creates.
LEMMA MoveKeepsMachines ==
    ASSUME MachinesInv, TypeInv', ~Setup,
           NEW p \in Procs, NEW l \in Labels, Goto(p, l),
           l \notin {"none", "create", "buy", "assign"}, pc[p] \notin {"none", "create"},
           pc[p] \in {"exec", "finish"} <=> l \in {"exec", "finish"},
           \A q \in Procs \ {p} : todo'[q] = todo[q],
           UNCHANGED <<taskState, platformVars, copy, queue, hostOf, actors, job>>
    PROVE  MachinesInv'
<1> USE DEF MachinesInv
<1>1. pc' = [pc EXCEPT ![p] = l] /\ pc \in [Procs -> Labels]
  BY DEF Goto, TypeInv, TypeOK, ProcTypeOK
<1>2. QuietSetup'
  BY <1>1, ProcsFacts DEF QuietSetup, Setup
<1>3. AssignedOnce' /\ QueuedPlaced' /\ RunningIsHead'
  BY DEF AssignedOnce, PlannedOnce, QueuedPlaced, RunningIsHead, platformVars
<1>4. \A t \in Tasks : pc'[Compute(t)] \in {"exec", "finish"} <=> pc[Compute(t)] \in {"exec", "finish"}
  BY <1>1, ProcsFacts
<1>5. ActorOfRunning'
  BY <1>1, <1>4, ProcsFacts DEF ActorOfRunning
<1>6. CreatorOfRunning'
  <2>1. \A q \in Procs : pc'[q] = "create" => q # p /\ pc[q] = "create" /\ job[q] \in Tasks
    BY <1>1 DEF TypeInv, JobIsTask
  <2> QED BY <1>1, <2>1, ProcsFacts DEF CreatorOfRunning, AtMachine
<1>7. \A v : Computing(v)' = Computing(v)
  BY <1>4 DEF Computing
<1>8. ResourcesAccounted'
  BY <1>7 DEF ResourcesAccounted, platformVars
<1> QED BY <1>2, <1>3, <1>5, <1>6, <1>8

\* No process moves.
LEMMA StayKeepsMachines ==
    ASSUME MachinesInv, TypeInv', ~Setup, UNCHANGED pc,
           \A q \in Procs : pc[q] = "create" => todo'[q] = todo[q],
           UNCHANGED <<taskState, platformVars, copy, queue, hostOf, actors, job>>
    PROVE  MachinesInv'
<1> USE DEF MachinesInv
<1>1. QuietSetup'
  BY DEF QuietSetup, Setup
<1>2. AssignedOnce' /\ QueuedPlaced' /\ RunningIsHead' /\ ActorOfRunning'
  BY DEF AssignedOnce, PlannedOnce, QueuedPlaced, RunningIsHead, ActorOfRunning, platformVars
<1>3. CreatorOfRunning'
  BY DEF CreatorOfRunning, AtMachine
<1>4. \A v : Computing(v)' = Computing(v)
  BY DEF Computing
<1>5. ResourcesAccounted'
  BY <1>4 DEF ResourcesAccounted, platformVars
<1> QED BY <1>1, <1>2, <1>3, <1>5

-----------------------------------------------------------------------------
(* The set-up. *)

\* Nobody computes or creates during the set-up.
LEMMA SetupIdle ==
    ASSUME MachinesInv, Setup
    PROVE  /\ \A p \in Procs : pc[p] \in {"none", "wait", "buy", "assign"}
           /\ \A t \in Tasks : taskState[t] = "NOT_SCHEDULED" /\ pc[Compute(t)] = "none"
           /\ \A v : Computing(v) = {}
<1>1. \A t \in Tasks : taskState[t] = "NOT_SCHEDULED" /\ pc[Compute(t)] = "none"
  BY DEF MachinesInv, QuietSetup
<1>2. \A p \in Procs : pc[p] \in {"none", "wait", "buy", "assign"}
  BY DEF MachinesInv, QuietSetup, Setup, Procs
<1> QED BY <1>1, <1>2 DEF Computing

\* What holds of the actors as long as the set-up goes on, or just ended.
LEMMA IdleActors ==
    ASSUME \A t \in Tasks : taskState'[t] = "NOT_SCHEDULED" /\ pc'[Compute(t)] = "none",
           \A p \in Procs : pc'[p] # "create"
    PROVE  ActorOfRunning' /\ CreatorOfRunning' /\ RunningIsHead'
BY DEF ActorOfRunning, CreatorOfRunning, RunningIsHead

LEMMA MachinesBuyVM ==
    ASSUME MachinesInv, NEW v \in VMs, BuyVM(v) PROVE MachinesInv'
<1> USE DEF MachinesInv
<1>1. TypeInv' /\ Setup /\ pc[Main] = "buy"
  BY TypeBuyVM DEF BuyVM, Setup
<1>2. /\ UNCHANGED <<taskState, copy, queue, hostOf, actors, mbox, moving, arrived>>
      /\ pc' = pc \/ pc' = [pc EXCEPT ![Mailer(v)] = "wait"]
      /\ RegisterVirtualMachine(v)
  BY DEF BuyVM, graphVars, simVars, dataVars
<1>3. pc \in [Procs -> Labels]
  BY DEF TypeInv, TypeOK, ProcTypeOK
<1>4. /\ \A t \in Tasks : taskState'[t] = "NOT_SCHEDULED" /\ pc'[Compute(t)] = "none"
      /\ \A p \in Procs : pc'[p] # "create"
  BY <1>1, <1>2, <1>3, SetupIdle, ProcsFacts
<1>5. QuietSetup'
  BY <1>1, <1>2, <1>3, <1>4, ProcsFacts DEF QuietSetup
<1>6. AssignedOnce'
  BY <1>2 DEF AssignedOnce, PlannedOnce
<1>7. /\ virtualMachines \subseteq virtualMachines'
      /\ \A u \in virtualMachines' : freeSpec'[u] = VMSpec[u]
  <2>1. \A u \in virtualMachines : freeSpec[u] = VMSpec[u]
    BY <1>1, SetupIdle DEF ResourcesAccounted
  <2> QED BY <1>2, <2>1 DEF RegisterVirtualMachine, platformVars, TypeInv, TypeOK, PlatformTypeOK
<1>8. QueuedPlaced'
  BY <1>2, <1>7 DEF QueuedPlaced
<1>9. \A u : Computing(u)' = {}
  BY <1>4 DEF Computing
<1>10. ResourcesAccounted'
  BY <1>2, <1>7, <1>9 DEF ResourcesAccounted
<1> QED BY <1>1, <1>4, <1>5, <1>6, <1>8, <1>10, IdleActors

\* A step of the set-up that leaves the platform alone.
LEMMA SetupKeeps ==
    ASSUME MachinesInv, Setup, NEW l \in {"assign", "jobs"}, pc' = [pc EXCEPT ![Main] = l],
           UNCHANGED <<taskState, platformVars, actors, mbox, dataVars>>
    PROVE  /\ QuietSetup' /\ ResourcesAccounted'
           /\ ActorOfRunning' /\ CreatorOfRunning' /\ RunningIsHead'
<1> USE DEF MachinesInv
<1>1. pc \in [Procs -> Labels]
  BY DEF TypeInv, TypeOK, ProcTypeOK
<1>2. /\ \A t \in Tasks : taskState'[t] = "NOT_SCHEDULED" /\ pc'[Compute(t)] = "none"
      /\ \A p \in Procs : pc'[p] # "create"
  BY <1>1, SetupIdle, ProcsFacts
<1>3. QuietSetup'
  BY <1>1, <1>2, ProcsFacts DEF QuietSetup, dataVars
<1>4. \A v : Computing(v)' = {}
  BY <1>2 DEF Computing
<1>5. \A v \in virtualMachines : freeSpec[v] = VMSpec[v]
  BY SetupIdle DEF ResourcesAccounted
<1>6. ResourcesAccounted'
  BY <1>4, <1>5 DEF ResourcesAccounted, platformVars
<1> QED BY <1>2, <1>3, <1>6, IdleActors

LEMMA MachinesSetup ==
    ASSUME MachinesInv, ResetSchedule \/ BeginMainLoop \/ \E v \in VMs : AssignedAll(v)
    PROVE  MachinesInv'
<1> USE DEF MachinesInv
<1>1. Setup /\ TypeInv'
  <2>1. MainStep
    BY DEF MainStep
  <2> QED BY <2>1, TypeMainStep DEF ResetSchedule, BeginMainLoop, AssignedAll, Setup
<1>2. CASE ResetSchedule
  <2>1. /\ pc' = [pc EXCEPT ![Main] = "assign"]
        /\ UNCHANGED <<taskState, platformVars, actors, mbox, dataVars, copy>>
        /\ queue' = [v \in VMs |-> <<>>]
    BY <1>2 DEF ResetSchedule, Goto, graphVars
  <2>2. AssignedOnce' /\ QueuedPlaced'
    BY <2>1 DEF AssignedOnce, PlannedOnce, QueuedPlaced
  <2> QED BY <1>1, <2>1, <2>2, SetupKeeps
<1>3. CASE BeginMainLoop
  <2>1. /\ pc' = [pc EXCEPT ![Main] = "jobs"]
        /\ UNCHANGED <<taskState, platformVars, actors, mbox, dataVars, copy, queue, hostOf>>
    BY <1>3 DEF BeginMainLoop, Goto, graphVars, simVars
  <2>2. AssignedOnce' /\ QueuedPlaced'
    BY <2>1 DEF AssignedOnce, PlannedOnce, QueuedPlaced, platformVars
  <2> QED BY <1>1, <2>1, <2>2, SetupKeeps
<1>4. CASE \E v \in VMs : AssignedAll(v)
  <2>1. /\ pc[Main] = "assign" /\ pc' = pc
        /\ UNCHANGED <<taskState, platformVars, actors, mbox, dataVars, copy, queue, hostOf>>
    BY <1>4 DEF AssignedAll, graphVars, simVars
  <2>2. pc' = [pc EXCEPT ![Main] = "assign"]
    BY <2>1, ProcsFacts DEF TypeInv, TypeOK, ProcTypeOK
  <2>3. AssignedOnce' /\ QueuedPlaced'
    BY <2>1 DEF AssignedOnce, PlannedOnce, QueuedPlaced, platformVars
  <2> QED BY <1>1, <2>1, <2>2, <2>3, SetupKeeps
<1> QED BY <1>2, <1>3, <1>4

LEMMA MachinesAssignTask ==
    ASSUME MachinesInv, NEW v \in VMs, AssignTask(v) PROVE MachinesInv'
<1> USE DEF MachinesInv
<1> DEFINE t == Head(copy[v])
<1>1. TypeInv' /\ Setup /\ pc[Main] = "assign"
  BY TypeAssignTask DEF AssignTask, Setup
<1>2. /\ copy \in [VMs -> Seq(Tasks)] /\ queue \in [VMs -> Seq(Tasks)]
      /\ hostOf \in [Tasks -> Coordinators] /\ pc \in [Procs -> Labels]
  BY DEF TypeInv, TypeOK, SimTypeOK, ProcTypeOK
<1>3. /\ copy[v] # <<>> /\ copy' = [copy EXCEPT ![v] = Tail(@)] /\ t \in Tasks
      /\ UNCHANGED <<platformVars, actors, pc, mbox, dataVars>>
  BY <1>2 DEF AssignTask, procVars
<1>4. \/ UNCHANGED <<queue, hostOf, taskState>>
      \/ /\ CheckTask(v, Need[t])
         /\ queue' = [queue EXCEPT ![v] = Append(@, t)] /\ hostOf' = [hostOf EXCEPT ![t] = v]
         /\ UNCHANGED taskState
  BY DEF AssignTask, GraphAssignTask, graphVars
<1>5. /\ QuietSetup' /\ ResourcesAccounted'
      /\ ActorOfRunning' /\ CreatorOfRunning' /\ RunningIsHead'
  <2>1. pc' = [pc EXCEPT ![Main] = "assign"]
    BY <1>1, <1>2, <1>3, ProcsFacts
  <2> QED BY <1>1, <1>3, <1>4, <2>1, SetupKeeps
\* What is left of the schedule is part of what was left, without t.
<1>6. \A u \in VMs : \A i \in DOMAIN copy'[u] :
         /\ copy'[u][i] # t
         /\ \E j \in DOMAIN copy[u] : copy'[u][i] = copy[u][j] /\ j = IF u = v THEN i + 1 ELSE i
  <2> TAKE u \in VMs
  <2> TAKE i \in DOMAIN copy'[u]
  <2>1. 1 \in DOMAIN copy[v] /\ copy[v][1] = t
    BY <1>2, <1>3
  <2>2. CASE u = v
    <3>1. copy'[u] = Tail(copy[v])
      BY <1>2, <1>3, <2>2
    <3>2. i \in Nat /\ i > 0 /\ i + 1 \in DOMAIN copy[v] /\ copy'[u][i] = copy[v][i + 1]
      BY <1>2, <1>3, <3>1
    <3>3. copy[v][i + 1] # t
      BY <2>1, <3>2 DEF AssignedOnce, PlannedOnce
    <3> QED BY <2>2, <3>2, <3>3
  <2>3. CASE u # v
    <3>1. copy'[u] = copy[u]
      BY <1>2, <1>3, <2>3
    <3> QED BY <2>1, <2>3, <3>1 DEF AssignedOnce, PlannedOnce
  <2> QED BY <2>2, <2>3
<1>7. PlannedOnce(copy')
  <2> SUFFICES ASSUME NEW w \in VMs, NEW u \in VMs,
                      NEW i \in DOMAIN copy'[w], NEW j \in DOMAIN copy'[u],
                      copy'[w][i] = copy'[u][j]
               PROVE  w = u /\ i = j
    BY DEF PlannedOnce
  <2>1. PICK k \in DOMAIN copy[w] : copy'[w][i] = copy[w][k] /\ k = IF w = v THEN i + 1 ELSE i
    BY <1>6
  <2>2. PICK l \in DOMAIN copy[u] : copy'[u][j] = copy[u][l] /\ l = IF u = v THEN j + 1 ELSE j
    BY <1>6
  <2>3. w = u /\ k = l
    <3>1. copy[w][k] = copy[u][l] /\ PlannedOnce(copy)
      BY <2>1, <2>2 DEF AssignedOnce
    <3> HIDE DEF MachinesInv
    <3> QED BY <3>1 DEF PlannedOnce
  <2>4. copy' \in [VMs -> Seq(Tasks)]
    BY <1>1 DEF TypeInv, TypeOK, SimTypeOK
  <2>5. i \in Nat /\ j \in Nat
    BY <2>4
  <2> QED BY <2>1, <2>2, <2>3, <2>5
<1>8. CASE UNCHANGED <<queue, hostOf, taskState>>
  <2>1. AssignedOnce'
    BY <1>6, <1>7, <1>8 DEF AssignedOnce
  <2>2. QueuedPlaced'
    BY <1>3, <1>8 DEF QueuedPlaced, platformVars
  <2> QED BY <1>1, <1>5, <2>1, <2>2
<1>9. CASE CheckTask(v, Need[t]) /\ queue' = [queue EXCEPT ![v] = Append(@, t)]
           /\ hostOf' = [hostOf EXCEPT ![t] = v] /\ UNCHANGED taskState
  <2>1. \A u \in VMs : \A i \in DOMAIN queue'[u] :
           \/ u = v /\ queue'[u][i] = t
           \/ i \in DOMAIN queue[u] /\ queue'[u][i] = queue[u][i]
    BY <1>2, <1>3, <1>9
  <2>2. AssignedOnce'
    <3>1. ASSUME NEW w \in VMs, NEW u \in VMs,
                 NEW i \in DOMAIN copy'[w], NEW j \in DOMAIN queue'[u]
          PROVE  copy'[w][i] # queue'[u][j]
      BY <1>6, <2>1 DEF AssignedOnce
    <3> QED BY <1>7, <3>1 DEF AssignedOnce
  <2>3. v \in virtualMachines /\ Fits(Need[t], VMSpec[v])
    BY <1>1, <1>9, SetupIdle DEF CheckTask, ResourcesAccounted
  <2>4. \A u \in VMs : \A i \in DOMAIN queue[u] : queue[u][i] # t /\ queue[u][i] \in Tasks
    <3>1. 1 \in DOMAIN copy[v] /\ copy[v][1] = t
      BY <1>2, <1>3
    <3> QED BY <1>2, <3>1 DEF AssignedOnce
  <2>5. QueuedPlaced'
    <3> SUFFICES ASSUME NEW u \in VMs, NEW i \in DOMAIN queue'[u]
                 PROVE  /\ hostOf'[queue'[u][i]] = u /\ u \in virtualMachines'
                        /\ Fits(Need[queue'[u][i]], VMSpec[u])
      BY DEF QueuedPlaced
    <3>1. CASE u = v /\ queue'[u][i] = t
      BY <1>2, <1>3, <1>9, <2>3, <3>1 DEF platformVars
    <3>2. CASE i \in DOMAIN queue[u] /\ queue'[u][i] = queue[u][i]
      BY <1>2, <1>3, <1>9, <2>4, <3>2 DEF platformVars, QueuedPlaced
    <3> QED BY <2>1, <3>1, <3>2
  <2> QED BY <1>1, <1>5, <2>2, <2>5
<1> QED BY <1>4, <1>8, <1>9


-----------------------------------------------------------------------------
(* Checks of ready jobs. *)

\* Only the head of a queue computes, so with a head that does not, nothing does.
LEMMA HeadAlone ==
    ASSUME MachinesInv, NEW v \in VMs, queue[v] # <<>>,
           pc[Compute(Head(queue[v]))] \notin {"exec", "finish"}
    PROVE  Computing(v) = {} /\ (v \in virtualMachines => freeSpec[v] = VMSpec[v])
<1> USE DEF MachinesInv
<1>1. \A u \in Tasks : u \notin Computing(v)
  BY DEF ActorOfRunning, RunningIsHead, Computing
<1>2. Computing(v) = {}
  BY <1>1 DEF Computing
<1> QED BY <1>2 DEF ResourcesAccounted

LEMMA MachinesCheckReadyJobOnVM ==
    ASSUME MachinesInv, NEW p \in Procs, NEW v \in VMs, CheckReadyJobOnVM(p, v)
    PROVE  MachinesInv'
<1> USE DEF MachinesInv
<1> DEFINE t == Head(queue[v])
<1>1. /\ queue \in [VMs -> Seq(Tasks)] /\ pc \in [Procs -> Labels]
      /\ taskState \in [Tasks -> TaskStates] /\ job \in [Procs -> Tasks \cup {NoTask}]
  BY DEF TypeInv, TypeOK, GraphTypeOK, SimTypeOK, ProcTypeOK
<1>2. TypeInv' /\ pc[p] = "jobs" /\ AtMachine(p, v) /\ queue[v] # <<>> /\ StartExecuting(t)
  BY TypeCheckReadyJobOnVM DEF CheckReadyJobOnVM, HeadReady
<1>3. ~Setup
  BY <1>2, AtWork
<1>4. t \in Tasks /\ 1 \in DOMAIN queue[v] /\ queue[v][1] = t
  BY <1>1, <1>2
<1>5. hostOf[t] = v /\ v \in virtualMachines /\ Fits(Need[t], VMSpec[v])
  BY <1>4 DEF QueuedPlaced
<1>6. taskState[t] \notin {"RUNNING", "DONE"} /\ taskState' = [taskState EXCEPT ![t] = "RUNNING"]
  BY <1>2 DEF StartExecuting, IsReady
<1>7. pc[Compute(t)] = "none"
  BY <1>4, <1>6 DEF ActorOfRunning
<1>8. CheckTask(v, Need[t])
  BY <1>2, <1>5, <1>7, HeadAlone DEF CheckTask
<1>9. /\ pc' = [pc EXCEPT ![p] = "create"] /\ job' = [job EXCEPT ![p] = t]
      /\ UNCHANGED <<todo, actors, copy, queue, hostOf, freeSpec, virtualMachines>>
  BY <1>8 DEF CheckReadyJobOnVM, Goto, StartMachine
<1>10. QuietSetup'
  BY <1>1, <1>2, <1>3, <1>9, ProcsFacts DEF QuietSetup, Setup
<1>11. AssignedOnce' /\ QueuedPlaced'
  BY <1>9 DEF AssignedOnce, PlannedOnce, QueuedPlaced
<1>12. /\ pc'[p] = "create" /\ job'[p] = t
       /\ \A q \in Procs : q # p => pc'[q] = pc[q] /\ job'[q] = job[q]
       /\ \A u \in Tasks : pc'[Compute(u)] \in {"exec", "finish"} <=> pc[Compute(u)] \in {"exec", "finish"}
       /\ p # Compute(t)
  BY <1>1, <1>2, <1>7, <1>9, ProcsFacts
<1>13. \A u \in Tasks : taskState'[u] = IF u = t THEN "RUNNING" ELSE taskState[u]
  BY <1>1, <1>4, <1>6
<1>14. ActorOfRunning'
  <2>1. ASSUME NEW u \in Tasks, taskState'[u] \notin {"RUNNING", "DONE"} PROVE pc'[Compute(u)] = "none"
    BY <1>2, <1>12, <1>13, <2>1, ProcsFacts DEF ActorOfRunning
  <2> QED BY <1>12, <1>13, <2>1 DEF ActorOfRunning
<1>15. CreatorOfRunning'
  <2>1. \A q \in Procs : q # p /\ pc'[q] = "create" =>
           /\ job[q] # t /\ job[q] \in Tasks /\ taskState[job[q]] = "RUNNING"
           /\ pc[Compute(job[q])] = "none" /\ AtMachine(q, hostOf[job[q]])
    BY <1>6, <1>12 DEF CreatorOfRunning, TypeInv, JobIsTask
  <2>2. \A q \in Procs : pc'[q] = "create" =>
           /\ taskState'[job'[q]] = "RUNNING" /\ pc'[Compute(job'[q])] = "none"
           /\ AtMachine(q, hostOf[job'[q]])
    BY <1>2, <1>4, <1>5, <1>7, <1>12, <1>13, <2>1, ProcsFacts
  <2>3. \A q, r \in Procs : pc'[q] = "create" /\ pc'[r] = "create" /\ job'[q] = job'[r] => q = r
    BY <1>12, <2>1 DEF CreatorOfRunning
  <2> QED BY <1>9, <2>2, <2>3 DEF CreatorOfRunning, AtMachine
<1>16. RunningIsHead'
  BY <1>2, <1>5, <1>9, <1>13 DEF RunningIsHead
<1>17. \A u : Computing(u)' = Computing(u)
  BY <1>9, <1>12 DEF Computing
<1>18. ResourcesAccounted'
  BY <1>9, <1>17 DEF ResourcesAccounted
<1> QED BY <1>2, <1>10, <1>11, <1>14, <1>15, <1>16, <1>18

\* The task whose actor is being created is the head of the queue looked at.
LEMMA CreatedIsHead ==
    ASSUME MachinesInv, NEW p \in Procs, NEW v \in VMs, pc[p] = "create", AtMachine(p, v)
    PROVE  /\ job[p] \in Tasks /\ taskState[job[p]] = "RUNNING" /\ pc[Compute(job[p])] = "none"
           /\ hostOf[job[p]] = v /\ queue[v] # <<>> /\ Head(queue[v]) = job[p]
<1> USE DEF MachinesInv
<1>1. /\ job[p] \in Tasks /\ taskState[job[p]] = "RUNNING" /\ pc[Compute(job[p])] = "none"
      /\ AtMachine(p, hostOf[job[p]])
  BY DEF TypeInv, JobIsTask, CreatorOfRunning
<1>2. hostOf[job[p]] \in VMs /\ hostOf[job[p]] <= v /\ v <= hostOf[job[p]]
  BY <1>1 DEF AtMachine, TypeInv, TypeOK, ProcTypeOK
<1>3. hostOf[job[p]] = v
  BY <1>2, PlatformAssumption
<1> QED BY <1>1, <1>3 DEF RunningIsHead

LEMMA MachinesCreateActor ==
    ASSUME MachinesInv, NEW p \in Procs, NEW v \in VMs, CreateActor(p, v) PROVE MachinesInv'
<1> USE DEF MachinesInv
<1> DEFINE t == job[p]
<1>1. /\ todo \in [Procs -> SUBSET VMs] /\ pc \in [Procs -> Labels]
      /\ actors \in Seq(Tasks \cup {NullActor}) /\ freeSpec \in [VMs -> Resources]
      /\ job \in [Procs -> Tasks \cup {NoTask}] /\ queue \in [VMs -> Seq(Tasks)]
      /\ virtualMachines \subseteq VMs
  BY DEF TypeInv, TypeOK, PlatformTypeOK, SimTypeOK, ProcTypeOK
<1>2. /\ TypeInv' /\ pc[p] = "create" /\ AtMachine(p, v)
      /\ freeSpec' = [freeSpec EXCEPT ![v] = Less(@, Need[t])]
      /\ actors' = Append(actors, t) /\ job' = [job EXCEPT ![p] = NoTask]
      /\ pc' = [pc EXCEPT ![p] = "jobs", ![Compute(t)] = "exec"]
      /\ todo' = [todo EXCEPT ![p] = @ \ {v}]
      /\ UNCHANGED <<taskState, copy, queue, hostOf, virtualMachines>>
  BY TypeCreateActor DEF CreateActor, TakeResources, Visited, graphVars
<1>3. ~Setup
  BY <1>2, AtWork
<1>4. t \in Tasks /\ taskState[t] = "RUNNING" /\ pc[Compute(t)] = "none"
  BY <1>2, CreatedIsHead
<1>5. hostOf[t] = v
  BY <1>2, CreatedIsHead
<1>6. queue[v] # <<>> /\ Head(queue[v]) = t
  BY <1>2, CreatedIsHead
<1>7. v \in virtualMachines /\ Fits(Need[t], VMSpec[v])
  <2>1. 1 \in DOMAIN queue[v] /\ queue[v][1] = t
    BY <1>1, <1>6
  <2> QED BY <2>1 DEF QueuedPlaced
<1>8. Computing(v) = {} /\ freeSpec[v] = VMSpec[v]
  BY <1>4, <1>6, <1>7, HeadAlone
<1>9. /\ pc'[p] = "jobs" /\ pc'[Compute(t)] = "exec" /\ p # Compute(t)
      /\ \A q \in Procs : q # p /\ q # Compute(t) => pc'[q] = pc[q] /\ todo'[q] = todo[q] /\ job'[q] = job[q]
  BY <1>1, <1>2, <1>4, ProcsFacts
<1>10. QuietSetup'
  BY <1>3, <1>9, ProcsFacts DEF QuietSetup, Setup
<1>11. AssignedOnce' /\ QueuedPlaced' /\ RunningIsHead'
  BY <1>2 DEF AssignedOnce, PlannedOnce, QueuedPlaced, RunningIsHead
<1>12. ActorOfRunning'
  <2>1. ASSUME NEW u \in Tasks, u # t
        PROVE  /\ pc'[Compute(u)] \in {"exec", "finish"} => pc[Compute(u)] \in {"exec", "finish"}
               /\ pc[Compute(u)] = "none" => pc'[Compute(u)] = "none"
    BY <1>2, <1>4, <1>9, <2>1, ProcsFacts
  <2> QED BY <1>2, <1>4, <1>9, <2>1 DEF ActorOfRunning
<1>13. CreatorOfRunning'
  <2> SUFFICES ASSUME NEW q \in Procs, pc'[q] = "create"
               PROVE  /\ taskState'[job'[q]] = "RUNNING" /\ pc'[Compute(job'[q])] = "none"
                      /\ hostOf[job'[q]] \in todo'[q] /\ \A u \in todo'[q] : hostOf[job'[q]] <= u
                      /\ \A r \in Procs : pc'[r] = "create" /\ job'[q] = job'[r] => q = r
    BY <1>2 DEF CreatorOfRunning, AtMachine
  <2>1. \A r \in Procs : pc'[r] = "create" =>
           r # p /\ pc[r] = "create" /\ job'[r] = job[r] /\ todo'[r] = todo[r]
    BY <1>9
  <2>2. job[q] \in Tasks
    BY <2>1 DEF TypeInv, JobIsTask
  <2>3. /\ job[q] # t /\ taskState[job[q]] = "RUNNING" /\ pc[Compute(job[q])] = "none"
        /\ AtMachine(q, hostOf[job[q]])
        /\ \A r \in Procs : pc[r] = "create" /\ job[q] = job[r] => q = r
    BY <1>2, <2>1 DEF CreatorOfRunning
  <2>4. pc'[Compute(job[q])] = "none"
    <3>1. Compute(job[q]) \in Procs /\ Compute(job[q]) # Compute(t) /\ Compute(job[q]) # p
      BY <1>2, <1>4, <2>2, <2>3, ProcsFacts
    <3> QED BY <1>9, <2>3, <3>1
  <2> QED BY <1>2, <2>1, <2>3, <2>4 DEF AtMachine
<1>14. Computing(v)' = {t} /\ \A u : u # v => Computing(u)' = Computing(u)
  <2>1. \A u \in Tasks : u # t =>
           (pc'[Compute(u)] \in {"exec", "finish"} <=> pc[Compute(u)] \in {"exec", "finish"})
    BY <1>2, <1>4, <1>9, ProcsFacts
  <2>2. \A u : Computing(u)' = {x \in Tasks : hostOf[x] = u /\ pc'[Compute(x)] \in {"exec", "finish"}}
    BY <1>2 DEF Computing
  <2>3. \A x \in Tasks : x # t => x \notin Computing(v)'
    BY <1>8, <2>1, <2>2 DEF Computing
  <2>4. Computing(v)' = {t}
    BY <1>4, <1>5, <1>9, <2>2, <2>3
  <2>5. \A u : u # v => Computing(u)' = Computing(u)
    BY <1>5, <2>1, <2>2 DEF Computing
  <2> QED BY <2>4, <2>5
<1>15. ResourcesAccounted'
  <2>1. \A i \in DOMAIN actors' : actors'[i] # NullActor
    <3>1. t # NullActor
      BY <1>4, GraphAssumption DEF NullActor
    <3>2. actors' = Append(actors, t) /\ t \in Tasks \cup {NullActor}
      BY <1>2, <1>4
    <3>3. /\ Len(actors') = Len(actors) + 1 /\ actors' \in Seq(Tasks \cup {NullActor})
          /\ \A i \in 1..Len(actors) : actors'[i] = actors[i]
          /\ actors'[Len(actors) + 1] = t
      BY <1>1, <3>2, AppendProperties
    <3>4. \A i \in 1..Len(actors) : actors[i] # NullActor
      BY <1>1 DEF ResourcesAccounted
    <3>5. DOMAIN actors' = 1..(Len(actors) + 1) /\ Len(actors) \in Nat
      BY <1>1, <3>3
    <3> QED BY <3>1, <3>3, <3>4, <3>5
  <2>2. freeSpec'[v] = Less(VMSpec[v], Need[t]) /\ \A u \in VMs : u # v => freeSpec'[u] = freeSpec[u]
    BY <1>1, <1>2, <1>8
  <2>3. ASSUME NEW u \in virtualMachines', u # v
        PROVE  \/ Computing(u)' = {} /\ freeSpec'[u] = VMSpec[u]
               \/ \E x \in Tasks : /\ Computing(u)' = {x}
                                   /\ freeSpec'[u] = Less(VMSpec[u], Need[x])
                                   /\ Fits(Need[x], VMSpec[u])
    BY <1>1, <1>2, <1>14, <2>2, <2>3 DEF ResourcesAccounted
  <2> QED BY <1>4, <1>7, <1>14, <2>1, <2>2, <2>3 DEF ResourcesAccounted
<1> QED BY <1>2, <1>10, <1>11, <1>12, <1>13, <1>15


-----------------------------------------------------------------------------
(* The end of a task. *)

LEMMA FinishStates ==
    ASSUME GraphTypeOK, NEW t \in Tasks, taskState[t] = "RUNNING", GraphFinishTask(t)
    PROVE  /\ taskState'[t] = "DONE"
           /\ \A s \in Tasks : s # t =>
                 \/ taskState'[s] = taskState[s]
                 \/ taskState[s] \notin {"RUNNING", "DONE"} /\ taskState'[s] = "READY"
BY DEF GraphFinishTask, GraphTypeOK

\* What a task gives back is what it took.
LEMMA MoreLess ==
    ASSUME NEW s \in Resources, NEW n \in Resources PROVE More(Less(s, n), n) = s
BY DEF Resources, More, Less

\* What is left of a queue is part of it.
LEMMA TailPart ==
    ASSUME NEW s \in Seq(Tasks), s # <<>>
    PROVE  \A i \in DOMAIN Tail(s) : i + 1 \in DOMAIN s /\ Tail(s)[i] = s[i + 1]
OBVIOUS

LEMMA MachinesDoRefreshAfterTask ==
    ASSUME MachinesInv, NEW t \in Tasks, DoRefreshAfterTask(t) PROVE MachinesInv'
<1> USE DEF MachinesInv
<1> DEFINE v == hostOf[t]
<1>1. /\ queue \in [VMs -> Seq(Tasks)] /\ pc \in [Procs -> Labels]
      /\ freeSpec \in [VMs -> Resources] /\ todo \in [Procs -> SUBSET VMs]
      /\ hostOf \in [Tasks -> Coordinators] /\ GraphTypeOK
  BY DEF TypeInv, TypeOK, PlatformTypeOK, SimTypeOK, ProcTypeOK
<1>2. /\ TypeInv' /\ pc[Compute(t)] = "finish"
      /\ GraphFinishTask(t) /\ PlatformFinishTask(v, Need[t])
      /\ pc' = [pc EXCEPT ![Compute(t)] = "jobs"]
      /\ todo' = [todo EXCEPT ![Compute(t)] = virtualMachines]
      /\ UNCHANGED <<copy, hostOf, actors, job>>
  BY TypeDoRefreshAfterTask DEF DoRefreshAfterTask, Goto
<1>3. ~Setup
  BY <1>2, ProcsFacts, AtWork
<1>4. taskState[t] = "RUNNING"
  BY <1>2 DEF ActorOfRunning
<1>5. v \in VMs /\ queue[v] # <<>> /\ Head(queue[v]) = t
  BY <1>4 DEF RunningIsHead
<1>6. queue' = [queue EXCEPT ![v] = Tail(@)]
  BY <1>5 DEF DoRefreshAfterTask
<1>7. v \in virtualMachines
  <2>1. 1 \in DOMAIN queue[v]
    BY <1>1, <1>5
  <2> QED BY <1>5, <2>1 DEF QueuedPlaced
<1>8. /\ taskState'[t] = "DONE"
      /\ \A s \in Tasks : s # t =>
            \/ taskState'[s] = taskState[s]
            \/ taskState[s] \notin {"RUNNING", "DONE"} /\ taskState'[s] = "READY"
  BY <1>1, <1>2, <1>4, FinishStates
<1>9. /\ pc'[Compute(t)] = "jobs"
      /\ \A q \in Procs : q # Compute(t) => pc'[q] = pc[q] /\ todo'[q] = todo[q]
      /\ \A u \in Tasks : u # t => pc'[Compute(u)] = pc[Compute(u)]
  BY <1>1, <1>2, ProcsFacts
<1>10. \A u \in VMs : \A i \in DOMAIN queue'[u] :
          \E j \in DOMAIN queue[u] : queue'[u][i] = queue[u][j]
  <2> TAKE u \in VMs
  <2>1. CASE u = v
    BY <1>1, <1>5, <1>6, <2>1, TailPart
  <2>2. CASE u # v
    BY <1>1, <1>6, <2>2
  <2> QED BY <2>1, <2>2
<1>11. QuietSetup'
  BY <1>3, <1>9, ProcsFacts DEF QuietSetup, Setup
<1>12. AssignedOnce'
  <2>1. \A w, u \in VMs : \A i \in DOMAIN copy[w], j \in DOMAIN queue'[u] : copy[w][i] # queue'[u][j]
    BY <1>10 DEF AssignedOnce
  <2> QED BY <1>2, <2>1 DEF AssignedOnce, PlannedOnce
<1>13. QueuedPlaced'
  <2>1. virtualMachines' = virtualMachines
    BY <1>2 DEF PlatformFinishTask
  <2> QED BY <1>2, <1>10, <2>1 DEF QueuedPlaced
<1>14. ActorOfRunning'
  <2>1. ASSUME NEW u \in Tasks, u # t
        PROVE  /\ pc'[Compute(u)] \in {"exec", "finish"} => taskState'[u] = "RUNNING"
               /\ taskState'[u] \notin {"RUNNING", "DONE"} => pc'[Compute(u)] = "none"
    BY <1>8, <1>9, <2>1 DEF ActorOfRunning
  <2> QED BY <1>8, <1>9, <2>1 DEF ActorOfRunning
<1>15. CreatorOfRunning'
  <2> SUFFICES ASSUME NEW q \in Procs, pc'[q] = "create"
               PROVE  /\ taskState'[job[q]] = "RUNNING" /\ pc'[Compute(job[q])] = "none"
                      /\ hostOf[job[q]] \in todo'[q] /\ \A u \in todo'[q] : hostOf[job[q]] <= u
                      /\ \A r \in Procs : pc'[r] = "create" /\ job[q] = job[r] => q = r
    BY <1>2 DEF CreatorOfRunning, AtMachine
  <2>1. \A r \in Procs : pc'[r] = "create" => pc[r] = "create" /\ todo'[r] = todo[r]
    BY <1>9
  <2>2. job[q] \in Tasks
    BY <2>1 DEF TypeInv, JobIsTask
  <2>3. /\ taskState[job[q]] = "RUNNING" /\ pc[Compute(job[q])] = "none"
        /\ AtMachine(q, hostOf[job[q]])
        /\ \A r \in Procs : pc[r] = "create" /\ job[q] = job[r] => q = r
    BY <2>1 DEF CreatorOfRunning
  <2>4. job[q] # t
    BY <1>2, <2>3
  <2> QED BY <1>8, <1>9, <2>1, <2>2, <2>3, <2>4 DEF AtMachine
<1>16. RunningIsHead'
  <2> SUFFICES ASSUME NEW u \in Tasks, taskState'[u] = "RUNNING"
               PROVE  /\ hostOf[u] \in VMs /\ queue'[hostOf[u]] # <<>>
                      /\ Head(queue'[hostOf[u]]) = u
    BY <1>2 DEF RunningIsHead
  <2>1. u # t /\ taskState[u] = "RUNNING"
    BY <1>8
  <2>2. hostOf[u] \in VMs /\ queue[hostOf[u]] # <<>> /\ Head(queue[hostOf[u]]) = u
    BY <2>1 DEF RunningIsHead
  <2>3. hostOf[u] # v
    BY <1>5, <2>1, <2>2
  <2> QED BY <1>1, <1>6, <2>2, <2>3
<1>17. Computing(v) = {t} /\ freeSpec[v] = Less(VMSpec[v], Need[t])
  <2>1. t \in Computing(v)
    BY <1>2 DEF Computing
  <2>2. \A u \in Computing(v) : u = t
    BY <1>5 DEF Computing, ActorOfRunning, RunningIsHead
  <2>3. Computing(v) = {t}
    BY <2>1, <2>2
  <2>4. PICK x \in Tasks : Computing(v) = {x} /\ freeSpec[v] = Less(VMSpec[v], Need[x])
    BY <1>7, <2>1 DEF ResourcesAccounted
  <2> QED BY <2>3, <2>4
<1>18. Computing(v)' = {} /\ \A u : u # v => Computing(u)' = Computing(u)
  <2>1. \A u : Computing(u)' = {x \in Tasks : hostOf[x] = u /\ pc'[Compute(x)] \in {"exec", "finish"}}
    BY <1>2 DEF Computing
  <2>2. \A x \in Tasks : x \notin Computing(v)'
    BY <1>2, <1>9, <1>17 DEF Computing
  <2>3. Computing(v)' = {}
    BY <2>1, <2>2
  <2>4. \A u : u # v => Computing(u)' = Computing(u)
    BY <1>9, <2>1 DEF Computing
  <2> QED BY <2>3, <2>4
<1>19. ResourcesAccounted'
  <2>1. /\ freeSpec' = [freeSpec EXCEPT ![v] = More(@, Need[t])]
        /\ virtualMachines' = virtualMachines /\ virtualMachines \subseteq VMs
    BY <1>2 DEF PlatformFinishTask, TypeInv, TypeOK, PlatformTypeOK
  <2>2. freeSpec'[v] = VMSpec[v] /\ \A u \in VMs : u # v => freeSpec'[u] = freeSpec[u]
    BY <1>1, <1>5, <1>17, <2>1, MoreLess, PlatformAssumption, SimulatorAssumption
  <2>3. ASSUME NEW u \in virtualMachines', u # v
        PROVE  \/ Computing(u)' = {} /\ freeSpec'[u] = VMSpec[u]
               \/ \E x \in Tasks : /\ Computing(u)' = {x}
                                   /\ freeSpec'[u] = Less(VMSpec[u], Need[x])
                                   /\ Fits(Need[x], VMSpec[u])
    BY <1>18, <2>1, <2>2, <2>3 DEF ResourcesAccounted
  <2> QED BY <1>2, <1>18, <2>1, <2>2, <2>3 DEF ResourcesAccounted
<1> QED BY <1>2, <1>11, <1>12, <1>13, <1>14, <1>15, <1>16, <1>19


-----------------------------------------------------------------------------
(* The other steps move a process, and leave the machines alone. *)

LEMMA MachinesJobStep ==
    ASSUME MachinesInv, NEW p \in Procs, JobStep(p) PROVE MachinesInv'
<1> USE DEF MachinesInv
<1>1. TypeInv'
  BY TypeJobStep
<1>2. ASSUME NEW v \in VMs, NothingToStart(p, v) PROVE MachinesInv'
  <2>1. pc[p] = "jobs" /\ todo \in [Procs -> SUBSET VMs]
    BY <1>2 DEF NothingToStart, TypeInv, TypeOK, ProcTypeOK
  <2>2. \A q \in Procs : pc[q] = "create" => todo'[q] = todo[q]
    BY <1>2, <2>1 DEF NothingToStart, Visited
  <2> QED BY <1>1, <1>2, <2>1, <2>2, AtWork, StayKeepsMachines DEF NothingToStart, graphVars, simVars
<1>3. ASSUME JobsChecked(p) PROVE MachinesInv'
  <2>1. resume[p] \in {"loop", "lock", "wait", "ack"} /\ resume[p] \in Labels /\ pc[p] = "jobs"
    BY <1>3 DEF JobsChecked, TypeInv, TypeOK, ProcTypeOK, Labels
  <2> QED BY <1>1, <1>3, <2>1, AtWork, MoveKeepsMachines DEF JobsChecked, graphVars, simVars
<1> QED BY <1>2, <1>3, MachinesCheckReadyJobOnVM, MachinesCreateActor DEF JobStep

LEMMA MachinesComputeStep ==
    ASSUME MachinesInv, NEW t \in Tasks, ComputeStep(t) PROVE MachinesInv'
<1> USE DEF MachinesInv
<1>1. TypeInv' /\ Compute(t) \in Procs
  BY TypeComputeStep, ProcsFacts
<1>2. {"finish", "receivers", "request", "acks", "files", "dead"} \subseteq Labels
  BY DEF Labels
<1>3. ASSUME DoExecute(t) PROVE MachinesInv'
  BY <1>1, <1>2, <1>3, AtWork, MoveKeepsMachines DEF DoExecute, graphVars, simVars
<1>4. ASSUME CheckReadyFiles(t) \/ NextFile(t) \/ FilesChecked(t) PROVE MachinesInv'
  <2>1. CASE CheckReadyFiles(t)
    BY <1>1, <1>2, <2>1, AtWork, MoveKeepsMachines DEF CheckReadyFiles, graphVars, simVars
  <2>2. CASE NextFile(t)
    BY <1>1, <1>2, <2>2, AtWork, MoveKeepsMachines DEF NextFile, graphVars, simVars
  <2>3. CASE FilesChecked(t)
    BY <1>1, <1>2, <2>3, AtWork, MoveKeepsMachines DEF FilesChecked, graphVars, simVars
  <2> QED BY <1>4, <2>1, <2>2, <2>3
<1>5. ASSUME FileStarted(t) PROVE MachinesInv'
  <2>1. UNCHANGED taskState
    BY <1>5 DEF FileStarted, GraphStartTransfer
  <2> QED BY <1>1, <1>2, <1>5, <2>1, AtWork, MoveKeepsMachines DEF FileStarted, simVars
<1>6. ASSUME NEW r \in Tasks, StartTransfer(t, r) PROVE MachinesInv'
  BY <1>1, <1>2, <1>6, AtWork, MoveKeepsMachines DEF StartTransfer, graphVars, simVars
<1>7. ASSUME RequestTaken(t) PROVE MachinesInv'
  BY <1>1, <1>2, <1>7, AtWork, MoveKeepsMachines DEF RequestTaken, graphVars, simVars
<1>8. ASSUME TakeAck(t) PROVE MachinesInv'
  BY <1>1, <1>8, AtWork, StayKeepsMachines DEF TakeAck, graphVars, simVars
<1>9. ASSUME TransferStarted(t) PROVE MachinesInv'
  BY <1>1, <1>2, <1>9, AtWork, MoveKeepsMachines DEF TransferStarted, graphVars, simVars
<1> QED
  BY <1>1, <1>3, <1>4, <1>5, <1>6, <1>7, <1>8, <1>9, MachinesJobStep, MachinesDoRefreshAfterTask
     DEF ComputeStep

\* A mailer moves between places of its loop.
LEMMA MailerKeepsMachines ==
    ASSUME MachinesInv, TypeInv', ~Setup, NEW v \in VMs,
           NEW l \in {"wait", "jobs", "ack", "replied", "drain", "dead"}, Goto(Mailer(v), l),
           pc[Mailer(v)] \in {"wait", "ack", "replied", "drain"},
           todo' = todo \/ \E S : todo' = [todo EXCEPT ![Mailer(v)] = S],
           UNCHANGED <<taskState, platformVars, copy, queue, hostOf, actors, job>>
    PROVE  MachinesInv'
<1>1. Mailer(v) \in Procs /\ l \in Labels
  BY ProcsFacts DEF Labels
<1>2. todo \in [Procs -> SUBSET VMs]
  BY DEF MachinesInv, TypeInv, TypeOK, ProcTypeOK
<1>3. \A q \in Procs \ {Mailer(v)} : todo'[q] = todo[q]
  BY <1>1, <1>2
<1> QED BY <1>1, <1>3, MoveKeepsMachines

LEMMA MachinesMailerStep ==
    ASSUME MachinesInv, NEW v \in VMs, MailerStep(v) PROVE MachinesInv'
<1>1. TypeInv' /\ Mailer(v) \in Procs
  BY TypeMailerStep, ProcsFacts DEF MachinesInv
<1>2. ASSUME NEW s, FirstEndReported(v, s) PROVE MachinesInv'
  BY <1>1, <1>2, MailAfterSetup, StayKeepsMachines DEF FirstEndReported, graphVars, procVars
<1>3. ASSUME NEW s, SecondEndReported(v, s) PROVE MachinesInv'
  <2>1. UNCHANGED taskState
    BY <1>3 DEF SecondEndReported, GraphFinishTransfer
  <2> QED BY <1>1, <1>3, <2>1, MailAfterSetup, MailerKeepsMachines DEF SecondEndReported
<1>4. ASSUME Incoming(v) PROVE ~Setup /\ pc[Mailer(v)] = "wait"
  BY <1>4, MailAfterSetup DEF Incoming
<1>5. ASSUME KillMailer(v) PROVE MachinesInv'
  BY <1>1, <1>4, <1>5, MailerKeepsMachines DEF KillMailer, graphVars, simVars
<1>6. ASSUME LocalTransfer(v) PROVE MachinesInv'
  <2>1. UNCHANGED taskState
    BY <1>6 DEF LocalTransfer, GraphFinishTransfer
  <2> QED BY <1>1, <1>4, <1>6, <2>1, MailerKeepsMachines DEF LocalTransfer, simVars
<1>7. ASSUME BeginReceiving(v) PROVE MachinesInv'
  BY <1>1, <1>4, <1>7, MailerKeepsMachines DEF BeginReceiving, graphVars, simVars
<1>8. ASSUME BeginSending(v) PROVE MachinesInv'
  BY <1>1, <1>4, <1>8, MailerKeepsMachines DEF BeginSending, graphVars, simVars
<1>9. ASSUME PutAck(v) PROVE MachinesInv'
  BY <1>1, <1>9, AtWork, MailerKeepsMachines DEF PutAck, graphVars, simVars
<1>10. ASSUME AckTaken(v) PROVE MachinesInv'
  BY <1>1, <1>10, AtWork, MailerKeepsMachines DEF AckTaken, graphVars, simVars
<1>11. ASSUME Drain(v) PROVE MachinesInv'
  BY <1>1, <1>11, AtWork, MailerKeepsMachines DEF Drain, graphVars, simVars
<1> QED
  BY <1>1, <1>2, <1>3, <1>5, <1>6, <1>7, <1>8, <1>9, <1>10, <1>11, MachinesJobStep DEF MailerStep

LEMMA MachinesArrive ==
    ASSUME MachinesInv, NEW s \in moving, Arrive(s) PROVE MachinesInv'
<1>1. TypeInv'
  BY TypeArrive DEF MachinesInv
<1> QED BY <1>1, MailAfterSetup, StayKeepsMachines DEF Arrive, graphVars, simVars, procVars

LEMMA MachinesMainStep ==
    ASSUME MachinesInv, MainStep PROVE MachinesInv'
<1>1. TypeInv' /\ Main \in Procs /\ {"shut", "join", "closing", "dead"} \subseteq Labels
  BY TypeMainStep, ProcsFacts DEF MachinesInv, Labels
<1>2. todo \in [Procs -> SUBSET VMs]
  BY DEF MachinesInv, TypeInv, TypeOK, ProcTypeOK
<1>3. ASSUME TestFinished PROVE MachinesInv'
  <2>1. pc[Main] \in {"loop", "join"} /\ ~Setup
    BY <1>3 DEF TestFinished, Setup
  <2>2. /\ UNCHANGED <<taskState, platformVars, copy, queue, hostOf, actors, job>>
        /\ \A q \in Procs \ {Main} : todo'[q] = todo[q]
    BY <1>1, <1>2, <1>3 DEF TestFinished, graphVars, simVars
  <2>3. Goto(Main, "shut") \/ Goto(Main, "join")
    BY <1>3 DEF TestFinished
  <2> QED BY <1>1, <2>1, <2>2, <2>3, MoveKeepsMachines
<1>4. ASSUME JoinActor PROVE MachinesInv'
  BY <1>1, <1>4, StayKeepsMachines DEF JoinActor, Setup, graphVars, simVars
<1>5. ASSUME NEW v \in VMs, PutTerminator(v) PROVE MachinesInv'
  BY <1>1, <1>5, MoveKeepsMachines DEF PutTerminator, Setup, graphVars, simVars
<1>6. ASSUME NEW v \in VMs, JoinMailer(v) PROVE MachinesInv'
  <2>1. \A q \in Procs \ {Main} : todo'[q] = todo[q]
    BY <1>1, <1>2, <1>6 DEF JoinMailer, Visited
  <2> QED BY <1>1, <1>6, <2>1, MoveKeepsMachines DEF JoinMailer, Setup, graphVars, simVars
<1>7. ASSUME EndMainLoop PROVE MachinesInv'
  BY <1>1, <1>7, MoveKeepsMachines DEF EndMainLoop, Setup, graphVars, simVars
<1> QED
  BY <1>1, <1>3, <1>4, <1>5, <1>6, <1>7, MachinesBuyVM, MachinesAssignTask, MachinesSetup,
     MachinesJobStep DEF MainStep

LEMMA MachinesNext == MachinesInv /\ [Next]_vars => MachinesInv'
<1> SUFFICES ASSUME MachinesInv, [Next]_vars PROVE MachinesInv'
  OBVIOUS
<1>1. CASE UNCHANGED vars
  <2>1. TypeInv'
    BY TypeNext DEF MachinesInv
  <2>2. UNCHANGED <<taskState, virtualMachines, freeSpec, copy, queue, hostOf, actors,
                    pc, todo, job, mbox, moving, arrived>>
    BY <1>1 DEF vars, graphVars, platformVars, simVars, procVars, dataVars
  <2>3. QuietSetup' /\ AssignedOnce' /\ QueuedPlaced' /\ ActorOfRunning'
    BY <2>2 DEF MachinesInv, QuietSetup, Setup, AssignedOnce, PlannedOnce, QueuedPlaced,
                ActorOfRunning
  <2>4. CreatorOfRunning' /\ RunningIsHead' /\ ResourcesAccounted'
    BY <2>2 DEF MachinesInv, CreatorOfRunning, AtMachine, RunningIsHead, ResourcesAccounted,
                Computing
  <2> QED BY <2>1, <2>3, <2>4 DEF MachinesInv
<1>2. CASE Ended
  BY <1>1, <1>2 DEF Ended
<1> QED
  BY <1>1, <1>2, MachinesMainStep, MachinesComputeStep, MachinesMailerStep, MachinesArrive DEF Next

(***************************************************************************)
(* A machine computes one task at a time, the head of its queue, for every *)
(* workflow, platform and schedule: DoRefreshAfterTask always finds the    *)
(* task it pops, and a task that is RUNNING has a machine.                 *)
(***************************************************************************)
THEOREM SimulatorRunningIsHead == Spec => []RunningIsHead
<1>1. MachinesInv => RunningIsHead
  BY DEF MachinesInv
<1> QED
  BY <1>1, MachinesInit, MachinesNext, PTL DEF Spec

(***************************************************************************)
(* The account CloudPlatform keeps of free resources is exact on every     *)
(* machine, though its check and its subtraction are separated by yields;  *)
(* and the check never refuses at run time, so no null pointer is joined.  *)
(***************************************************************************)
THEOREM SimulatorResourcesAccounted == Spec => []ResourcesAccounted
<1>1. MachinesInv => ResourcesAccounted
  BY DEF MachinesInv
<1> QED
  BY <1>1, MachinesInit, MachinesNext, PTL DEF Spec


-----------------------------------------------------------------------------
(* No start is missed.  A delivery looks only at the queue of the machine   *)
(* the transfer names, so the transfers must name the machines of tasks.    *)

\* A transfer is addressed to the machine of its task.
Addressed(s) == s.task \in Tasks => s.receiver = hostOf[s.task]

TransfersAddressed ==
    /\ \A v \in Coordinators : \A i \in DOMAIN mbox[v] : Addressed(mbox[v][i].spec)
    /\ \A v \in VMs : \A i \in DOMAIN unmatchedPut[v] : Addressed(unmatchedPut[v][i])
    /\ \A s \in moving : Addressed(s)
    /\ \A a \in arrived : Addressed(a[2])

\* Machines get their tasks before there is any transfer.
NoTransferInSetup ==
    Setup => /\ \A v \in Coordinators : mbox[v] = <<>>
             /\ \A v \in VMs : unmatchedPut[v] = <<>>
             /\ moving = {} /\ arrived = {}

AddressInv == TransfersAddressed /\ NoTransferInSetup

LEMMA AddressUnchanged ==
    ASSUME AddressInv, Setup' => Setup, UNCHANGED <<hostOf, mbox, unmatchedPut, moving>>,
           arrived' \subseteq arrived
    PROVE  AddressInv'
BY DEF AddressInv, TransfersAddressed, NoTransferInSetup, Addressed

\* While no transfer exists, machines are given out freely.
LEMMA AddressInSetup ==
    ASSUME AddressInv, Setup, UNCHANGED <<mbox, dataVars>> PROVE AddressInv'
BY DEF AddressInv, TransfersAddressed, NoTransferInSetup, dataVars

LEMMA AddressInit == Init => AddressInv
BY DEF Init, AddressInv, TransfersAddressed, NoTransferInSetup

LEMMA AddressKept ==
    ASSUME ~Setup', UNCHANGED hostOf,
           \A v \in Coordinators : \A i \in DOMAIN mbox'[v] : Addressed(mbox'[v][i].spec),
           \A v \in VMs : \A i \in DOMAIN unmatchedPut'[v] : Addressed(unmatchedPut'[v][i]),
           \A s \in moving' : Addressed(s),
           \A a \in arrived' : Addressed(a[2])
    PROVE  AddressInv'
BY DEF AddressInv, TransfersAddressed, NoTransferInSetup, Addressed

\* Nothing but the start of a transfer makes a new one.
LEMMA AddressMailbox ==
    ASSUME AddressInv, ~Setup', UNCHANGED <<hostOf, dataVars>>,
           \A v \in Coordinators : \A i \in DOMAIN mbox'[v] :
              \/ \E j \in DOMAIN mbox[v] : mbox'[v][i] = mbox[v][j]
              \/ Addressed(mbox'[v][i].spec)
    PROVE  AddressInv'
BY DEF AddressInv, TransfersAddressed, NoTransferInSetup, Addressed, dataVars

LEMMA AppendedMessages ==
    ASSUME NEW q \in Seq(Messages), NEW m \in Messages
    PROVE  \A i \in DOMAIN Append(q, m) :
              (\E j \in DOMAIN q : Append(q, m)[i] = q[j]) \/ Append(q, m)[i] = m
<1>1. /\ Len(Append(q, m)) = Len(q) + 1 /\ Append(q, m) \in Seq(Messages)
      /\ \A i \in 1..Len(q) : Append(q, m)[i] = q[i]
      /\ Append(q, m)[Len(q) + 1] = m
  BY AppendProperties
<1>2. DOMAIN Append(q, m) = 1..(Len(q) + 1) /\ DOMAIN q = 1..Len(q) /\ Len(q) \in Nat
  BY <1>1
<1> QED BY <1>1, <1>2

LEMMA TailMessages ==
    ASSUME NEW q \in Seq(Messages), q # <<>>
    PROVE  \A i \in DOMAIN Tail(q) : \E j \in DOMAIN q : Tail(q)[i] = q[j]
<1>1. \A i \in DOMAIN Tail(q) : i + 1 \in DOMAIN q /\ Tail(q)[i] = q[i + 1]
  OBVIOUS
<1> QED BY <1>1


\* The set-up does not come back.
LEMMA SetupOver ==
    ASSUME TypeInv, Next, ~Setup PROVE ~Setup'
<1>1. pc \in [Procs -> Labels] /\ resume \in [Procs -> {"loop", "lock", "wait", "ack"}]
  BY DEF TypeInv, TypeOK, ProcTypeOK
<1>2. ASSUME NEW p \in Procs, NEW l \in Labels \ {"buy", "assign"}, Goto(p, l) PROVE ~Setup'
  BY <1>1, <1>2, ProcsFacts DEF Goto, Setup
<1>3. ASSUME UNCHANGED pc PROVE ~Setup'
  BY <1>3 DEF Setup
<1>4. {"jobs", "create", "finish", "files", "dead", "receivers", "request", "acks", "drain", "ack",
       "replied", "wait", "shut", "join", "closing"} \subseteq Labels \ {"buy", "assign"}
  BY DEF Labels
<1>5. ASSUME NEW p \in Procs, JobStep(p) PROVE ~Setup'
  <2>1. ASSUME NEW v \in VMs, NothingToStart(p, v) PROVE ~Setup'
    BY <1>3, <2>1 DEF NothingToStart
  <2>2. ASSUME NEW v \in VMs, CheckReadyJobOnVM(p, v) PROVE ~Setup'
    BY <1>2, <1>3, <1>4, <2>2 DEF CheckReadyJobOnVM
  <2>3. ASSUME NEW v \in VMs, CreateActor(p, v) PROVE ~Setup'
    BY <1>1, <2>3, ProcsFacts DEF CreateActor, Setup, TypeInv, JobIsTask
  <2>4. ASSUME JobsChecked(p) PROVE ~Setup'
    <3>1. resume[p] \in Labels \ {"buy", "assign"}
      BY <1>1 DEF Labels
    <3> QED BY <1>2, <2>4, <3>1 DEF JobsChecked
  <2> QED BY <1>5, <2>1, <2>2, <2>3, <2>4 DEF JobStep
<1>6. ASSUME NEW t \in Tasks, ComputeStep(t) PROVE ~Setup'
  <2>1. Compute(t) \in Procs
    BY ProcsFacts
  <2>2. CASE \E r \in Tasks : StartTransfer(t, r)
    BY <1>2, <1>4, <2>1, <2>2 DEF StartTransfer
  <2>3. CASE TakeAck(t)
    BY <1>3, <2>3 DEF TakeAck
  <2>4. CASE DoExecute(t) \/ DoRefreshAfterTask(t) \/ CheckReadyFiles(t) \/ NextFile(t)
    BY <1>2, <1>4, <2>1, <2>4 DEF DoExecute, DoRefreshAfterTask, CheckReadyFiles, NextFile
  <2>5. CASE FileStarted(t) \/ FilesChecked(t) \/ RequestTaken(t) \/ TransferStarted(t)
    BY <1>2, <1>4, <2>1, <2>5 DEF FileStarted, FilesChecked, RequestTaken, TransferStarted
  <2> QED BY <1>5, <1>6, <2>1, <2>2, <2>3, <2>4, <2>5 DEF ComputeStep
<1>7. ASSUME NEW v \in VMs, MailerStep(v) PROVE ~Setup'
  <2>1. Mailer(v) \in Procs
    BY ProcsFacts
  <2>2. CASE \E a \in arrived : FirstEndReported(v, a[2]) \/ SecondEndReported(v, a[2])
    BY <1>2, <1>3, <1>4, <2>1, <2>2 DEF FirstEndReported, SecondEndReported, procVars
  <2>3. CASE PutAck(v) \/ AckTaken(v) \/ Drain(v)
    BY <1>2, <1>4, <2>1, <2>3 DEF PutAck, AckTaken, Drain
  <2>4. CASE KillMailer(v) \/ LocalTransfer(v) \/ BeginReceiving(v) \/ BeginSending(v)
    BY <1>2, <1>4, <2>1, <2>4 DEF KillMailer, LocalTransfer, BeginReceiving, BeginSending
  <2> QED BY <1>5, <1>7, <2>1, <2>2, <2>3, <2>4 DEF MailerStep
<1>8. ASSUME MainStep PROVE ~Setup'
  <2>1. Main \in Procs
    BY ProcsFacts
  <2>2. CASE ResetSchedule \/ BeginMainLoop \/ \E v \in VMs : BuyVM(v) \/ AssignTask(v) \/ AssignedAll(v)
    BY <2>2 DEF ResetSchedule, BeginMainLoop, BuyVM, AssignTask, AssignedAll, Setup
  <2>3. CASE TestFinished \/ JoinActor \/ EndMainLoop
    BY <1>2, <1>3, <1>4, <2>1, <2>3 DEF TestFinished, JoinActor, EndMainLoop
  <2>4. CASE \E v \in VMs : PutTerminator(v) \/ JoinMailer(v)
    BY <1>2, <1>4, <2>1, <2>4 DEF PutTerminator, JoinMailer
  <2> QED BY <1>5, <1>8, <2>1, <2>2, <2>3, <2>4 DEF MainStep
<1> QED
  BY <1>3, <1>6, <1>7, <1>8 DEF Next, Arrive, Ended, vars, procVars

LEMMA AddressJobStep ==
    ASSUME MachinesInv, AddressInv, NEW p \in Procs, JobStep(p), Setup' => Setup PROVE AddressInv'
<1>1. UNCHANGED <<hostOf, mbox, dataVars>>
  BY DEF JobStep, NothingToStart, CheckReadyJobOnVM, CreateActor, JobsChecked, simVars
<1> QED BY <1>1, AddressUnchanged DEF dataVars

LEMMA AddressComputeStep ==
    ASSUME MachinesInv, AddressInv, NEW t \in Tasks, ComputeStep(t), Setup' => Setup
    PROVE  AddressInv'
<1>1. /\ mbox \in [Coordinators -> Seq(Messages)] /\ cursor \in Cursors
  BY DEF MachinesInv, TypeInv, TypeOK, CommTypeOK, ProcTypeOK
<1>2. CASE DoExecute(t) \/ DoRefreshAfterTask(t) \/ CheckReadyFiles(t) \/ NextFile(t)
  <2>1. UNCHANGED <<hostOf, mbox, dataVars>>
    BY <1>2 DEF DoExecute, DoRefreshAfterTask, CheckReadyFiles, NextFile, simVars
  <2> QED BY <2>1, AddressUnchanged DEF dataVars
<1>3. CASE FileStarted(t) \/ FilesChecked(t) \/ RequestTaken(t) \/ TransferStarted(t)
  <2>1. UNCHANGED <<hostOf, mbox, dataVars>>
    BY <1>3 DEF FileStarted, FilesChecked, RequestTaken, TransferStarted, simVars
  <2> QED BY <2>1, AddressUnchanged DEF dataVars
<1>4. ASSUME NEW r \in Tasks, StartTransfer(t, r) PROVE AddressInv'
  <2> DEFINE s == [sender |-> hostOf[Author[cursor.file]], receiver |-> hostOf[r],
                   task |-> r, file |-> cursor.file]
  <2>1. /\ UNCHANGED <<hostOf, dataVars>> /\ pc[Compute(t)] = "receivers"
        /\ mbox' = [v \in Coordinators |-> IF v \in {s.sender, s.receiver}
                                           THEN Append(mbox[v], Request(s))
                                           ELSE mbox[v]]
    BY <1>4 DEF StartTransfer, simVars
  <2>2. ~Setup
    BY <2>1, ProcsFacts, AtWork
  <2>3. Request(s).spec = s /\ s.task = r /\ s.receiver = hostOf[r]
    BY DEF Request
  <2>4. Addressed(Request(s).spec)
    BY <2>3 DEF Addressed
  <2>5. Request(s) \in Messages
    <3>1. cursor.file \in Files /\ Author[cursor.file] \in Tasks
      BY <1>1, <1>4, AuthorWrites
         DEF StartTransfer, MachinesInv, TypeInv, FilesAuthored, Cursors, FileIterators
    <3>2. s \in Transfers
      BY <3>1 DEF Transfers, MachinesInv, TypeInv, TypeOK, SimTypeOK
    <3> QED BY <3>2 DEF Request, Messages, Specs
  <2>6. ASSUME NEW v \in Coordinators, NEW i \in DOMAIN mbox'[v]
        PROVE  (\E j \in DOMAIN mbox[v] : mbox'[v][i] = mbox[v][j]) \/ mbox'[v][i] = Request(s)
    <3>1. CASE v \in {s.sender, s.receiver}
      <4>1. mbox'[v] = Append(mbox[v], Request(s))
        BY <2>1, <3>1
      <4> HIDE DEF s
      <4> QED BY <1>1, <2>5, <4>1, AppendedMessages
    <3>2. CASE v \notin {s.sender, s.receiver}
      BY <2>1, <3>2
    <3> QED BY <3>1, <3>2
  <2> QED BY <2>1, <2>2, <2>4, <2>6, AddressMailbox
<1>5. CASE TakeAck(t)
  <2> DEFINE c == Head(cursor.acks)
  <2>1. /\ c \in Coordinators /\ mbox[c] # <<>> /\ mbox' = [mbox EXCEPT ![c] = Tail(@)]
        /\ UNCHANGED <<hostOf, dataVars>> /\ pc[Compute(t)] = "acks"
    BY <1>1, <1>5 DEF TakeAck, Cursors, simVars
  <2>2. ~Setup
    BY <2>1, ProcsFacts, AtWork
  <2>3. ASSUME NEW v \in Coordinators, NEW i \in DOMAIN mbox'[v]
        PROVE  \E j \in DOMAIN mbox[v] : mbox'[v][i] = mbox[v][j]
    BY <1>1, <2>1, <2>3, TailMessages
  <2> QED BY <2>1, <2>2, <2>3, AddressMailbox
<1> QED BY <1>2, <1>3, <1>4, <1>5, ProcsFacts, AddressJobStep DEF ComputeStep


\* What a mailer reads was addressed, and the rest of its mailbox stays so.
LEMMA AddressIncoming ==
    ASSUME MachinesInv, AddressInv, NEW v \in VMs, Incoming(v), UNCHANGED hostOf
    PROVE  /\ Addressed(Received(v)) /\ ~Setup
           /\ \A u \in Coordinators : \A i \in DOMAIN mbox'[u] : Addressed(mbox'[u][i].spec)
<1>1. mbox \in [Coordinators -> Seq(Messages)] /\ v \in Coordinators
  BY DEF MachinesInv, TypeInv, TypeOK, CommTypeOK, Coordinators
<1>2. mbox[v] \in Seq(Messages) /\ mbox[v] # <<>> /\ mbox' = [mbox EXCEPT ![v] = Tail(@)]
  BY <1>1 DEF Incoming
<1>3. 1 \in DOMAIN mbox[v] /\ Received(v) = mbox[v][1].spec
  BY <1>2 DEF Received
<1>4. ASSUME NEW u \in Coordinators, NEW i \in DOMAIN mbox'[u]
      PROVE  \E j \in DOMAIN mbox[u] : mbox'[u][i] = mbox[u][j]
  BY <1>1, <1>2, <1>4, TailMessages
<1>5. ASSUME NEW u \in Coordinators, NEW i \in DOMAIN mbox'[u]
      PROVE  Addressed(mbox'[u][i].spec)
  BY <1>4 DEF AddressInv, TransfersAddressed, Addressed
<1> QED BY <1>1, <1>2, <1>3, <1>5, MailAfterSetup DEF AddressInv, TransfersAddressed

LEMMA TailDeliverable ==
    ASSUME NEW q \in Seq(Deliverable), q # <<>>
    PROVE  /\ 1 \in DOMAIN q /\ Head(q) = q[1]
           /\ \A i \in DOMAIN Tail(q) : \E j \in DOMAIN q : Tail(q)[i] = q[j]
<1>1. \A i \in DOMAIN Tail(q) : i + 1 \in DOMAIN q /\ Tail(q)[i] = q[i + 1]
  OBVIOUS
<1> QED BY <1>1

LEMMA AppendedDeliverable ==
    ASSUME NEW q \in Seq(Deliverable), NEW s \in Deliverable
    PROVE  \A i \in DOMAIN Append(q, s) :
              (\E j \in DOMAIN q : Append(q, s)[i] = q[j]) \/ Append(q, s)[i] = s
<1>1. /\ Len(Append(q, s)) = Len(q) + 1 /\ Append(q, s) \in Seq(Deliverable)
      /\ \A i \in 1..Len(q) : Append(q, s)[i] = q[i]
      /\ Append(q, s)[Len(q) + 1] = s
  BY AppendProperties
<1>2. DOMAIN Append(q, s) = 1..(Len(q) + 1) /\ DOMAIN q = 1..Len(q) /\ Len(q) \in Nat
  BY <1>1
<1> QED BY <1>1, <1>2

LEMMA AddressBeginTransfer ==
    ASSUME MachinesInv, AddressInv, NEW v \in VMs, BeginReceiving(v) \/ BeginSending(v),
           Setup' => Setup
    PROVE  AddressInv'
<1>1. UNCHANGED <<hostOf, arrived>> /\ Incoming(v)
  BY DEF BeginReceiving, BeginSending, simVars
<1>2. /\ Addressed(Received(v)) /\ ~Setup'
      /\ \A u \in Coordinators : \A i \in DOMAIN mbox'[u] : Addressed(mbox'[u][i].spec)
  BY <1>1, AddressIncoming
<1>3. /\ unmatchedPut \in [VMs -> Seq(Deliverable)]
      /\ \A u \in VMs : \A i \in DOMAIN unmatchedPut[u] : Addressed(unmatchedPut[u][i])
      /\ \A s \in moving : Addressed(s)
      /\ \A a \in arrived : Addressed(a[2])
  BY DEF MachinesInv, TypeInv, TypeOK, CommTypeOK, AddressInv, TransfersAddressed
<1>4. CASE UNCHANGED <<unmatchedPut, moving>>
  BY <1>1, <1>2, <1>3, <1>4, AddressKept
<1>5. CASE unmatchedPut[v] # <<>> /\ unmatchedPut' = [unmatchedPut EXCEPT ![v] = Tail(@)]
           /\ moving' = moving \cup {Head(unmatchedPut[v])}
  <2>1. ASSUME NEW u \in VMs, NEW i \in DOMAIN unmatchedPut'[u]
        PROVE  \E j \in DOMAIN unmatchedPut[u] : unmatchedPut'[u][i] = unmatchedPut[u][j]
    <3>1. CASE u = v
      <4>1. unmatchedPut'[u] = Tail(unmatchedPut[u]) /\ unmatchedPut[u] # <<>>
        BY <1>3, <1>5, <3>1
      <4> QED BY <1>3, <4>1, TailDeliverable
    <3>2. CASE u # v
      BY <1>3, <1>5, <3>2
    <3> QED BY <3>1, <3>2
  <2>2. Addressed(Head(unmatchedPut[v]))
    BY <1>3, <1>5, TailDeliverable
  <2>3. \A s \in moving' : Addressed(s)
    BY <1>3, <1>5, <2>2
  <2>4. \A u \in VMs : \A i \in DOMAIN unmatchedPut'[u] : Addressed(unmatchedPut'[u][i])
    BY <1>3, <2>1
  <2> QED
    BY <1>1, <1>2, <1>3, <2>3, <2>4, AddressKept
<1>6. CASE /\ Received(v).receiver # NoVM
           /\ unmatchedPut' = [unmatchedPut EXCEPT ![Received(v).receiver] = Append(@, Received(v))]
           /\ UNCHANGED moving
  <2>1. Received(v) \in Deliverable /\ Received(v).receiver \in VMs
    BY <1>1, <1>6, IncomingType, RequestIsDeliverable, DeliverableFacts DEF MachinesInv
  <2>2. ASSUME NEW u \in VMs, NEW i \in DOMAIN unmatchedPut'[u]
        PROVE  \/ \E j \in DOMAIN unmatchedPut[u] : unmatchedPut'[u][i] = unmatchedPut[u][j]
               \/ unmatchedPut'[u][i] = Received(v)
    BY <1>3, <1>6, <2>1, <2>2, AppendedDeliverable
  <2>3. \A u \in VMs : \A i \in DOMAIN unmatchedPut'[u] : Addressed(unmatchedPut'[u][i])
    BY <1>2, <1>3, <2>2
  <2> QED
    BY <1>1, <1>2, <1>3, <1>6, <2>3, AddressKept
<1>7. CASE moving' = moving \cup {Received(v)} /\ UNCHANGED unmatchedPut
  <2>1. \A s \in moving' : Addressed(s)
    BY <1>2, <1>3, <1>7
  <2> QED
    BY <1>1, <1>2, <1>3, <1>7, <2>1, AddressKept
<1> QED BY <1>4, <1>5, <1>6, <1>7 DEF BeginReceiving, BeginSending

LEMMA AddressMailerStep ==
    ASSUME MachinesInv, AddressInv, NEW v \in VMs, MailerStep(v), Setup' => Setup
    PROVE  AddressInv'
<1>1. mbox \in [Coordinators -> Seq(Messages)] /\ v \in Coordinators /\ Mailer(v) \in Procs
  BY ProcsFacts DEF MachinesInv, TypeInv, TypeOK, CommTypeOK, Coordinators
<1>2. CASE \E a \in arrived : FirstEndReported(v, a[2]) \/ SecondEndReported(v, a[2])
  <2>1. UNCHANGED <<hostOf, mbox, unmatchedPut, moving>> /\ arrived' \subseteq arrived
    BY <1>2 DEF FirstEndReported, SecondEndReported
  <2> QED BY <2>1, AddressUnchanged
<1>3. CASE AckTaken(v) \/ Drain(v)
  <2>1. UNCHANGED <<hostOf, mbox, unmatchedPut, moving>> /\ arrived' \subseteq arrived
    BY <1>3 DEF AckTaken, Drain, simVars, dataVars
  <2> QED BY <2>1, AddressUnchanged
<1>4. CASE KillMailer(v) \/ LocalTransfer(v)
  <2>1. UNCHANGED <<hostOf, dataVars>> /\ Incoming(v)
    BY <1>4 DEF KillMailer, LocalTransfer, simVars
  <2> QED
    BY <2>1, AddressIncoming, AddressKept DEF AddressInv, TransfersAddressed, dataVars
<1>5. CASE PutAck(v)
  <2>1. /\ UNCHANGED <<hostOf, dataVars>> /\ pc[Mailer(v)] = "ack"
        /\ mbox' = [mbox EXCEPT ![v] = Append(@, Ack)]
    BY <1>5 DEF PutAck, simVars
  <2>2. ~Setup
    BY <1>1, <2>1, AtWork
  <2>3. Ack \in Messages /\ Addressed(Ack.spec)
    BY GraphAssumption DEF Ack, Messages, Specs, Terminator, NoTask, Addressed
  <2>4. ASSUME NEW u \in Coordinators, NEW i \in DOMAIN mbox'[u]
        PROVE  (\E j \in DOMAIN mbox[u] : mbox'[u][i] = mbox[u][j]) \/ mbox'[u][i] = Ack
    BY <1>1, <2>1, <2>3, <2>4, AppendedMessages
  <2> QED BY <2>1, <2>2, <2>3, <2>4, AddressMailbox
<1> QED
  BY <1>1, <1>2, <1>3, <1>4, <1>5, AddressJobStep, AddressBeginTransfer DEF MailerStep

LEMMA AddressMainStep ==
    ASSUME MachinesInv, AddressInv, MainStep, Setup' => Setup PROVE AddressInv'
<1>1. mbox \in [Coordinators -> Seq(Messages)] /\ Main \in Procs
  BY ProcsFacts DEF MachinesInv, TypeInv, TypeOK, CommTypeOK
<1>2. CASE ResetSchedule \/ BeginMainLoop \/ \E v \in VMs : BuyVM(v) \/ AssignTask(v) \/ AssignedAll(v)
  <2>1. Setup /\ UNCHANGED <<mbox, dataVars>>
    BY <1>2 DEF ResetSchedule, BeginMainLoop, BuyVM, AssignTask, AssignedAll, Setup
  <2> QED BY <2>1, AddressInSetup
<1>3. CASE TestFinished \/ JoinActor \/ EndMainLoop \/ \E v \in VMs : JoinMailer(v)
  <2>1. UNCHANGED <<hostOf, mbox, dataVars>>
    BY <1>3 DEF TestFinished, JoinActor, EndMainLoop, JoinMailer, simVars
  <2> QED BY <2>1, AddressUnchanged DEF dataVars
<1>4. ASSUME NEW v \in VMs, PutTerminator(v) PROVE AddressInv'
  <2> DEFINE m == Request(Terminator)
  <2>1. /\ UNCHANGED <<hostOf, dataVars>> /\ ~Setup /\ v \in Coordinators
        /\ mbox' = [mbox EXCEPT ![v] = Append(@, m)]
    BY <1>4 DEF PutTerminator, Setup, Coordinators, simVars
  <2>2. m \in Messages /\ Addressed(m.spec)
    BY GraphAssumption DEF Request, Messages, Specs, Terminator, NoTask, Addressed
  <2>3. ASSUME NEW u \in Coordinators, NEW i \in DOMAIN mbox'[u]
        PROVE  (\E j \in DOMAIN mbox[u] : mbox'[u][i] = mbox[u][j]) \/ mbox'[u][i] = m
    <3> HIDE DEF m
    <3> QED BY <1>1, <2>1, <2>2, <2>3, AppendedMessages
  <2> QED BY <2>1, <2>2, <2>3, AddressMailbox
<1> QED BY <1>1, <1>2, <1>3, <1>4, AddressJobStep DEF MainStep

LEMMA AddressNext == MachinesInv /\ AddressInv /\ [Next]_vars => AddressInv'
<1> SUFFICES ASSUME MachinesInv, AddressInv, [Next]_vars PROVE AddressInv'
  OBVIOUS
<1>1. CASE UNCHANGED vars
  <2>1. UNCHANGED <<hostOf, mbox, unmatchedPut, moving, arrived, pc>>
    BY <1>1 DEF vars, simVars, procVars, dataVars
  <2> QED BY <2>1, AddressUnchanged DEF Setup
<1>2. CASE Next
  <2>1. Setup' => Setup
    BY <1>2, SetupOver DEF MachinesInv
  <2>2. ASSUME NEW s \in moving, Arrive(s) PROVE AddressInv'
    <3>1. /\ UNCHANGED <<hostOf, mbox, unmatchedPut>> /\ moving' \subseteq moving
          /\ \A a \in arrived' : a \in arrived \/ a[2] = s
      BY <2>2 DEF Arrive, simVars
    <3>2. ~Setup' /\ Addressed(s)
      BY <2>1, MailAfterSetup DEF AddressInv, TransfersAddressed
    <3> QED
      BY <3>1, <3>2 DEF AddressInv, TransfersAddressed, NoTransferInSetup, Addressed
  <2>3. CASE Ended
    BY <1>1, <2>3 DEF Ended
  <2> QED
    BY <1>2, <2>1, <2>2, <2>3, AddressMainStep, AddressComputeStep, AddressMailerStep DEF Next
<1> QED BY <1>1, <1>2


-----------------------------------------------------------------------------
(* Who looks at a queue whose head can start. *)

LEMMA HeadsUnchanged ==
    ASSUME UNCHANGED <<taskState, finishedDeps, finishedTransfers, queue>>
    PROVE  \A v : HeadReady(v)' => HeadReady(v)
BY DEF HeadReady, IsReady, AllArrived

\* A process moves that was not looking at queues.
LEMMA LookersStay ==
    ASSUME NoMissedStart, NEW p \in Procs, pc[p] \notin {"jobs", "create", "buy", "assign"},
           \A q \in Procs \ {p} : pc'[q] = pc[q] /\ todo'[q] = todo[q],
           UNCHANGED virtualMachines, \A v : HeadReady(v)' => HeadReady(v)
    PROVE  NoMissedStart'
<1> SUFFICES ASSUME NEW v \in virtualMachines, HeadReady(v)'
             PROVE  \/ pc'[Main] \in {"buy", "assign"}
                    \/ \E q \in Procs : pc'[q] \in {"jobs", "create"} /\ v \in todo'[q]
  BY DEF NoMissedStart
<1>1. HeadReady(v)
  OBVIOUS
<1>2. CASE pc[Main] \in {"buy", "assign"}
  BY <1>2, ProcsFacts
<1>3. CASE \E q \in Procs : pc[q] \in {"jobs", "create"} /\ v \in todo[q]
  BY <1>3
<1> QED BY <1>1, <1>2, <1>3 DEF NoMissedStart

\* The actor p moves from one place to another, and the graph is left alone.
LEMMA MoveMissesNone ==
    ASSUME TypeInv, NoMissedStart, NEW p \in Procs, NEW l, Goto(p, l),
           pc[p] \notin {"jobs", "create", "buy", "assign"},
           \A q \in Procs \ {p} : todo'[q] = todo[q],
           UNCHANGED <<virtualMachines, taskState, finishedDeps, finishedTransfers, queue>>
    PROVE  NoMissedStart'
<1>1. \A q \in Procs \ {p} : pc'[q] = pc[q]
  BY DEF TypeInv, TypeOK, ProcTypeOK, Goto
<1> QED BY <1>1, HeadsUnchanged, LookersStay

LEMMA StayMissesNone ==
    ASSUME NoMissedStart,
           UNCHANGED <<pc, todo, virtualMachines, taskState, finishedDeps, finishedTransfers, queue>>
    PROVE  NoMissedStart'
BY HeadsUnchanged DEF NoMissedStart

\* The set-up goes on.
LEMMA SetupMissesNone == ASSUME pc'[Main] \in {"buy", "assign"} PROVE NoMissedStart'
BY DEF NoMissedStart

\* Someone begins to look at every machine.
LEMMA AllLookedAt ==
    ASSUME NEW p \in Procs, pc'[p] = "jobs", todo'[p] = virtualMachines,
           UNCHANGED virtualMachines
    PROVE  NoMissedStart'
BY DEF NoMissedStart

\* A delivery can only make the task it is for ready, and its mailer goes to
\* look at the machine of that task.
LEMMA DeliveryMissesNone ==
    ASSUME MachinesInv, NoMissedStart, NEW v \in VMs, pc[Mailer(v)] = "wait",
           NEW s \in Deliverable, Addressed(s), GraphFinishTransfer(s.file, s.task),
           Goto(Mailer(v), "jobs"), todo' = [todo EXCEPT ![Mailer(v)] = {s.receiver}],
           UNCHANGED <<virtualMachines, queue>>
    PROVE  NoMissedStart'
<1> USE DEF MachinesInv
<1> DEFINE t == s.task
<1>1. /\ pc \in [Procs -> Labels] /\ todo \in [Procs -> SUBSET VMs]
      /\ queue \in [VMs -> Seq(Tasks)] /\ finishedTransfers \in [Tasks -> Nat]
      /\ virtualMachines \subseteq VMs
  BY DEF TypeInv, TypeOK, GraphTypeOK, PlatformTypeOK, SimTypeOK, ProcTypeOK
<1>2. t \in Tasks /\ hostOf[t] = s.receiver
  BY DeliverableFacts DEF Addressed
<1>3. /\ UNCHANGED <<taskState, finishedDeps>>
      /\ \A u \in Tasks : u # t => finishedTransfers'[u] = finishedTransfers[u]
  BY <1>1, <1>2 DEF GraphFinishTransfer
<1>4. /\ pc'[Mailer(v)] = "jobs" /\ todo'[Mailer(v)] = {s.receiver}
      /\ \A q \in Procs \ {Mailer(v)} : pc'[q] = pc[q] /\ todo'[q] = todo[q]
  BY <1>1, ProcsFacts DEF Goto
<1> SUFFICES ASSUME NEW w \in virtualMachines, HeadReady(w)'
             PROVE  \/ pc'[Main] \in {"buy", "assign"}
                    \/ \E q \in Procs : pc'[q] \in {"jobs", "create"} /\ w \in todo'[q]
  BY DEF NoMissedStart
<1>5. queue[w] # <<>> /\ IsReady(Head(queue[w]))'
  BY DEF HeadReady
<1>6. 1 \in DOMAIN queue[w] /\ Head(queue[w]) = queue[w][1] /\ Head(queue[w]) \in Tasks
  BY <1>1, <1>5
<1>7. CASE Head(queue[w]) = t
  <2>1. s.receiver = w
    BY <1>1, <1>2, <1>6, <1>7 DEF QueuedPlaced
  <2> QED BY <1>4, <2>1, ProcsFacts
<1>8. CASE Head(queue[w]) # t
  <2>1. HeadReady(w)
    BY <1>3, <1>5, <1>6, <1>8 DEF HeadReady, IsReady, AllArrived
  <2>2. CASE pc[Main] \in {"buy", "assign"}
    BY <1>4, <2>2, ProcsFacts
  <2>3. CASE \E q \in Procs : pc[q] \in {"jobs", "create"} /\ w \in todo[q]
    BY <1>4, <2>3
  <2> QED BY <2>1, <2>2, <2>3 DEF NoMissedStart
<1> QED BY <1>7, <1>8

LEMMA MissedJobStep ==
    ASSUME MachinesInv, NoMissedStart, NEW p \in Procs, JobStep(p) PROVE NoMissedStart'
<1> USE DEF MachinesInv
<1>1. /\ pc \in [Procs -> Labels] /\ todo \in [Procs -> SUBSET VMs]
      /\ queue \in [VMs -> Seq(Tasks)] /\ taskState \in [Tasks -> TaskStates]
      /\ virtualMachines \subseteq VMs
  BY DEF TypeInv, TypeOK, GraphTypeOK, PlatformTypeOK, SimTypeOK, ProcTypeOK
<1> DEFINE Seen(v) == \/ pc[Main] \in {"buy", "assign"}
                      \/ \E q \in Procs : pc[q] \in {"jobs", "create"} /\ v \in todo[q]
           SeenAfter(v) == \/ pc'[Main] \in {"buy", "assign"}
                           \/ \E q \in Procs : pc'[q] \in {"jobs", "create"} /\ v \in todo'[q]
<1>2. \A v \in virtualMachines : HeadReady(v) => Seen(v)
  BY DEF NoMissedStart
<1>3. ASSUME \A v \in virtualMachines : HeadReady(v)' => SeenAfter(v), UNCHANGED virtualMachines
      PROVE  NoMissedStart'
  BY <1>3 DEF NoMissedStart
<1>4. ASSUME NEW v \in VMs, NothingToStart(p, v) PROVE NoMissedStart'
  <2>1. /\ ~HeadReady(v) /\ todo' = [todo EXCEPT ![p] = @ \ {v}]
        /\ UNCHANGED <<pc, virtualMachines, taskState, finishedDeps, finishedTransfers, queue>>
    BY <1>4 DEF NothingToStart, Visited, graphVars, platformVars, simVars
  <2>2. ASSUME NEW w \in virtualMachines, HeadReady(w)' PROVE SeenAfter(w)
    <3>1. HeadReady(w) /\ w # v
      BY <2>1, <2>2, HeadsUnchanged
    <3>2. \A q \in Procs : w \in todo[q] => w \in todo'[q]
      BY <1>1, <2>1, <3>1
    <3> QED BY <1>2, <2>1, <3>1, <3>2
  <2> QED BY <1>3, <2>1, <2>2
<1>5. ASSUME NEW v \in VMs, CheckReadyJobOnVM(p, v) PROVE NoMissedStart'
  <2> DEFINE t == Head(queue[v])
  <2>0. /\ StartExecuting(t) /\ t \in Tasks /\ queue[v] # <<>> /\ AtMachine(p, v) /\ pc[p] = "jobs"
        /\ UNCHANGED <<virtualMachines, finishedDeps, finishedTransfers, queue>>
    BY <1>1, <1>5
       DEF CheckReadyJobOnVM, HeadReady, StartExecuting, StartMachine, platformVars
  <2>1. /\ \A q \in Procs : pc[q] \in {"jobs", "create"} /\ q # p =>
              pc'[q] = pc[q] /\ todo'[q] = todo[q]
        /\ pc'[p] \in {"jobs", "create"} /\ todo[p] \ {v} \subseteq todo'[p]
        /\ pc[Main] \in {"buy", "assign"} => pc'[Main] \in {"buy", "assign"}
    <3>1. CASE CheckTask(v, Need[t])
      <4>1. pc' = [pc EXCEPT ![p] = "create"] /\ todo' = todo
        BY <1>5, <3>1 DEF CheckReadyJobOnVM, Goto
      <4> QED BY <1>1, <2>0, <4>1, ProcsFacts
    <3>2. CASE ~CheckTask(v, Need[t])
      <4>1. pc' = pc /\ todo' = [todo EXCEPT ![p] = @ \ {v}]
        BY <1>5, <3>2 DEF CheckReadyJobOnVM, Visited
      <4> QED BY <1>1, <2>0, <4>1
    <3> QED BY <3>1, <3>2
  <2>2. taskState' = [taskState EXCEPT ![t] = "RUNNING"]
    BY <2>0 DEF StartExecuting
  <2>3. ASSUME NEW w \in virtualMachines, HeadReady(w)' PROVE SeenAfter(w)
    <3>1. Head(queue[w]) # t /\ HeadReady(w) /\ w # v
      BY <1>1, <2>0, <2>2, <2>3 DEF HeadReady, IsReady, AllArrived
    <3>2. Seen(w)
      BY <1>2, <3>1
    <3> QED BY <2>1, <3>1, <3>2
  <2> QED BY <1>3, <2>0, <2>3
<1>6. ASSUME NEW v \in VMs, CreateActor(p, v) PROVE NoMissedStart'
  <2>1. /\ pc[p] = "create" /\ AtMachine(p, v) /\ todo' = [todo EXCEPT ![p] = @ \ {v}]
        /\ pc' = [pc EXCEPT ![p] = "jobs", ![Compute(job[p])] = "exec"]
        /\ UNCHANGED <<virtualMachines, taskState, finishedDeps, finishedTransfers, queue>>
    BY <1>6 DEF CreateActor, Visited, TakeResources, graphVars
  <2>2. /\ job[p] \in Tasks /\ taskState[job[p]] = "RUNNING" /\ pc[Compute(job[p])] = "none"
        /\ Head(queue[v]) = job[p]
    BY <2>1, CreatedIsHead
  <2>3. /\ \A q \in Procs : pc[q] \in {"jobs", "create"} => pc'[q] \in {"jobs", "create"}
        /\ pc[Main] \in {"buy", "assign"} => pc'[Main] \in {"buy", "assign"}
    BY <1>1, <2>1, <2>2, ProcsFacts
  <2>4. ASSUME NEW w \in virtualMachines, HeadReady(w)' PROVE SeenAfter(w)
    <3>1. HeadReady(w)
      BY <2>1, <2>4, HeadsUnchanged
    <3>2. w # v
      BY <2>2, <3>1 DEF HeadReady, IsReady
    <3>3. \A q \in Procs : w \in todo[q] => w \in todo'[q]
      BY <1>1, <2>1, <3>2
    <3> QED BY <1>2, <2>3, <3>1, <3>3
  <2> QED BY <1>3, <2>1, <2>4
<1>7. ASSUME JobsChecked(p) PROVE NoMissedStart'
  <2>1. /\ pc[p] = "jobs" /\ todo[p] = {} /\ pc' = [pc EXCEPT ![p] = resume[p]]
        /\ UNCHANGED <<todo, virtualMachines, taskState, finishedDeps, finishedTransfers, queue>>
    BY <1>7 DEF JobsChecked, Goto, graphVars, platformVars, simVars
  <2>2. ASSUME NEW w \in virtualMachines, HeadReady(w)' PROVE SeenAfter(w)
    <3>1. Seen(w)
      BY <1>2, <2>1, <2>2, HeadsUnchanged
    <3> QED BY <1>1, <2>1, <3>1, ProcsFacts
  <2> QED BY <1>3, <2>1, <2>2
<1> QED BY <1>4, <1>5, <1>6, <1>7 DEF JobStep


LEMMA MissedComputeStep ==
    ASSUME MachinesInv, NoMissedStart, NEW t \in Tasks, ComputeStep(t) PROVE NoMissedStart'
<1> USE DEF MachinesInv
<1>1. /\ Compute(t) \in Procs /\ pc \in [Procs -> Labels] /\ todo \in [Procs -> SUBSET VMs]
  BY ProcsFacts DEF TypeInv, TypeOK, ProcTypeOK
<1>2. ASSUME DoRefreshAfterTask(t) PROVE NoMissedStart'
  <2>1. /\ pc'[Compute(t)] = "jobs" /\ todo'[Compute(t)] = virtualMachines
        /\ UNCHANGED virtualMachines
    BY <1>1, <1>2 DEF DoRefreshAfterTask, PlatformFinishTask, Goto
  <2> QED BY <1>1, <2>1, AllLookedAt
<1>3. CASE DoExecute(t) \/ CheckReadyFiles(t) \/ NextFile(t) \/ FilesChecked(t)
  BY <1>1, <1>3, MoveMissesNone
     DEF DoExecute, CheckReadyFiles, NextFile, FilesChecked, graphVars, platformVars, simVars
<1>4. CASE RequestTaken(t) \/ TransferStarted(t) \/ \E r \in Tasks : StartTransfer(t, r)
  BY <1>1, <1>4, MoveMissesNone
     DEF RequestTaken, TransferStarted, StartTransfer, graphVars, platformVars, simVars
<1>5. CASE FileStarted(t)
  BY <1>1, <1>5, MoveMissesNone DEF FileStarted, GraphStartTransfer, platformVars, simVars
<1>6. CASE TakeAck(t)
  BY <1>6, StayMissesNone DEF TakeAck, graphVars, platformVars, simVars
<1> QED BY <1>1, <1>2, <1>3, <1>4, <1>5, <1>6, MissedJobStep DEF ComputeStep

LEMMA MissedMailerStep ==
    ASSUME MachinesInv, AddressInv, NoMissedStart, NEW v \in VMs, MailerStep(v)
    PROVE  NoMissedStart'
<1> USE DEF MachinesInv
<1>1. Mailer(v) \in Procs
  BY ProcsFacts
<1>2. ASSUME NEW a \in arrived, FirstEndReported(v, a[2]) PROVE NoMissedStart'
  BY <1>2, StayMissesNone DEF FirstEndReported, graphVars, platformVars, procVars
<1>3. ASSUME NEW a \in arrived, SecondEndReported(v, a[2]) PROVE NoMissedStart'
  <2>1. a[2] \in Deliverable /\ Addressed(a[2])
    BY <1>3 DEF TypeInv, TypeOK, CommTypeOK, AddressInv, TransfersAddressed
  <2> QED BY <1>3, <2>1, DeliveryMissesNone DEF SecondEndReported, platformVars
<1>4. ASSUME LocalTransfer(v) PROVE NoMissedStart'
  <2>1. Incoming(v) /\ UNCHANGED <<hostOf, virtualMachines, queue>> /\ Received(v).receiver # NoVM
    BY <1>4 DEF LocalTransfer, platformVars, simVars
  <2>2. Received(v) \in Deliverable /\ Addressed(Received(v)) /\ pc[Mailer(v)] = "wait"
    BY <2>1, IncomingType, RequestIsDeliverable, AddressIncoming DEF Incoming
  <2> QED BY <1>4, <2>1, <2>2, DeliveryMissesNone DEF LocalTransfer
<1>5. CASE KillMailer(v) \/ BeginReceiving(v) \/ BeginSending(v)
  BY <1>1, <1>5, MoveMissesNone
     DEF KillMailer, BeginReceiving, BeginSending, Incoming, graphVars, platformVars, simVars
<1>6. CASE PutAck(v) \/ AckTaken(v) \/ Drain(v)
  BY <1>1, <1>6, MoveMissesNone DEF PutAck, AckTaken, Drain, graphVars, platformVars, simVars
<1> QED BY <1>1, <1>2, <1>3, <1>4, <1>5, <1>6, MissedJobStep DEF MailerStep

LEMMA MissedMainStep ==
    ASSUME MachinesInv, NoMissedStart, MainStep PROVE NoMissedStart'
<1> USE DEF MachinesInv
<1>1. /\ Main \in Procs /\ pc \in [Procs -> Labels] /\ todo \in [Procs -> SUBSET VMs]
  BY ProcsFacts DEF TypeInv, TypeOK, ProcTypeOK
<1>2. CASE ResetSchedule \/ \E v \in VMs : BuyVM(v) \/ AssignTask(v) \/ AssignedAll(v)
  <2>1. pc'[Main] \in {"buy", "assign"}
    BY <1>1, <1>2, ProcsFacts
       DEF ResetSchedule, BuyVM, AssignTask, AssignedAll, Goto, procVars
  <2> QED BY <2>1, SetupMissesNone
<1>3. CASE BeginMainLoop
  BY <1>1, <1>3, AllLookedAt DEF BeginMainLoop, Goto, platformVars
<1>4. CASE TestFinished
  <2>1. /\ pc[Main] \in {"loop", "join"} /\ \A q \in Procs \ {Main} : todo'[q] = todo[q]
        /\ Goto(Main, "shut") \/ Goto(Main, "join")
        /\ UNCHANGED <<virtualMachines, taskState, finishedDeps, finishedTransfers, queue>>
    BY <1>1, <1>4 DEF TestFinished, graphVars, platformVars, simVars
  <2> QED BY <1>1, <2>1, MoveMissesNone
<1>5. CASE JoinActor
  BY <1>5, StayMissesNone DEF JoinActor, graphVars, platformVars, simVars
<1>6. CASE EndMainLoop \/ \E v \in VMs : PutTerminator(v)
  BY <1>1, <1>6, MoveMissesNone DEF EndMainLoop, PutTerminator, graphVars, platformVars, simVars
<1>7. ASSUME NEW v \in VMs, JoinMailer(v) PROVE NoMissedStart'
  <2>1. \A q \in Procs \ {Main} : todo'[q] = todo[q]
    BY <1>1, <1>7 DEF JoinMailer, Visited
  <2> QED BY <1>1, <1>7, <2>1, MoveMissesNone DEF JoinMailer, graphVars, platformVars, simVars
<1> QED BY <1>1, <1>2, <1>3, <1>4, <1>5, <1>6, <1>7, MissedJobStep DEF MainStep

LEMMA MissedNext == MachinesInv /\ AddressInv /\ NoMissedStart /\ [Next]_vars => NoMissedStart'
<1> SUFFICES ASSUME MachinesInv, AddressInv, NoMissedStart, [Next]_vars PROVE NoMissedStart'
  OBVIOUS
<1>1. CASE UNCHANGED vars \/ Ended
  BY <1>1, StayMissesNone DEF Ended, vars, graphVars, platformVars, simVars, procVars
<1>2. ASSUME NEW s \in moving, Arrive(s) PROVE NoMissedStart'
  BY <1>2, StayMissesNone DEF Arrive, graphVars, platformVars, simVars, procVars
<1> QED
  BY <1>1, <1>2, MissedMainStep, MissedComputeStep, MissedMailerStep DEF Next

(***************************************************************************)
(* No start is missed, for every workflow, platform and schedule: a start  *)
(* is only tried when something completes, yet whenever the head of a      *)
(* queue can start, some actor is still on its way to look at that queue.  *)
(***************************************************************************)
THEOREM SimulatorNoMissedStart == Spec => []NoMissedStart
<1>1. Init => NoMissedStart
  BY DEF Init, PlatformInit, NoMissedStart
<1> QED
  BY <1>1, MachinesInit, MachinesNext, AddressInit, AddressNext, MissedNext, PTL DEF Spec


-----------------------------------------------------------------------------
(* No file is left behind.  The iterator of the one actor inside            *)
(* CheckReadyFiles, and whoever has still to get there.                     *)

AtFiles == {"files", "receivers", "request", "acks"}

\* The mutex is held by whoever is inside, so the cursor is that actor's.
MutexHeld == \A t \in Tasks : pc[Compute(t)] \in AtFiles <=> filesMutex = t

\* The actor of a task always goes on to the files.
FilesComeNext == \A t \in Tasks : resume[Compute(t)] = "lock"

\* A file that has been handed out is not ready again.
HandedOutOnce ==
    /\ \A f \in readyFiles : fileState[f] = "READY"
    /\ \A t \in Tasks : pc[Compute(t)] = "files" /\ cursor.file # NoFile
                           => fileState[cursor.file] = "TRANSFERING"

FilesInv == MutexHeld /\ FilesComeNext /\ HandedOutOnce /\ NoFileLeftBehind

OnTheWay == {"jobs", "create", "lock"}

LEMMA FilesInit == Init => FilesInv
<1> SUFFICES ASSUME Init PROVE FilesInv
  OBVIOUS
<1>1. \A t \in Tasks : pc[Compute(t)] = "none" /\ resume[Compute(t)] = "lock" /\ t # NoTask
  BY ProcsFacts, GraphAssumption DEF Init, NoTask
<1>2. readyFiles = {} /\ filesMutex = NoTask
  BY DEF Init, GraphInit
<1> QED
  BY <1>1, <1>2
     DEF FilesInv, MutexHeld, AtFiles, FilesComeNext, HandedOutOnce, NoFileLeftBehind

\* A step away from the files.
LEMMA FilesKept ==
    ASSUME FilesInv, UNCHANGED <<readyFiles, fileState, filesMutex>>,
           cursor'.iter = cursor.iter, cursor'.file = cursor.file,
           \A t \in Tasks :
              /\ pc'[Compute(t)] \in AtFiles <=> pc[Compute(t)] \in AtFiles
              /\ pc'[Compute(t)] = "files" => pc[Compute(t)] = "files"
              /\ pc[Compute(t)] \in OnTheWay => pc'[Compute(t)] \in OnTheWay
              /\ resume'[Compute(t)] = resume[Compute(t)]
    PROVE  FilesInv'
<1>1. MutexHeld' /\ FilesComeNext'
  BY DEF FilesInv, MutexHeld, FilesComeNext
<1>2. HandedOutOnce'
  BY DEF FilesInv, HandedOutOnce
<1>3. NoFileLeftBehind'
  BY DEF FilesInv, NoFileLeftBehind, OnTheWay
<1> QED BY <1>1, <1>2, <1>3 DEF FilesInv

\* No compute actor moves.
LEMMA OthersKeepFiles ==
    ASSUME FilesInv, UNCHANGED <<readyFiles, fileState, filesMutex, cursor>>,
           \A t \in Tasks : pc'[Compute(t)] = pc[Compute(t)] /\ resume'[Compute(t)] = resume[Compute(t)]
    PROVE  FilesInv'
BY FilesKept

LEMMA FilesJobStep ==
    ASSUME MachinesInv, FilesInv, NEW p \in Procs, JobStep(p) PROVE FilesInv'
<1>1. /\ pc \in [Procs -> Labels] /\ UNCHANGED <<readyFiles, fileState, filesMutex, cursor, resume>>
  BY DEF MachinesInv, TypeInv, TypeOK, ProcTypeOK, JobStep, NothingToStart, CheckReadyJobOnVM,
         StartExecuting, CreateActor, JobsChecked, graphVars
<1>2. ASSUME NEW v \in VMs, NothingToStart(p, v) PROVE FilesInv'
  BY <1>1, <1>2, OthersKeepFiles DEF NothingToStart
<1>3. ASSUME NEW v \in VMs, CheckReadyJobOnVM(p, v) PROVE FilesInv'
  <2>1. pc[p] = "jobs" /\ (pc' = pc \/ pc' = [pc EXCEPT ![p] = "create"])
    BY <1>3 DEF CheckReadyJobOnVM, Goto
  <2> QED BY <1>1, <2>1, ProcsFacts, FilesKept DEF AtFiles, OnTheWay
<1>4. ASSUME NEW v \in VMs, CreateActor(p, v) PROVE FilesInv'
  <2>1. /\ pc[p] = "create" /\ AtMachine(p, v)
        /\ pc' = [pc EXCEPT ![p] = "jobs", ![Compute(job[p])] = "exec"]
    BY <1>4 DEF CreateActor
  <2>2. job[p] \in Tasks /\ pc[Compute(job[p])] = "none"
    BY <2>1, CreatedIsHead
  <2>3. ASSUME NEW t \in Tasks
        PROVE  /\ pc'[Compute(t)] \in AtFiles <=> pc[Compute(t)] \in AtFiles
               /\ pc'[Compute(t)] = "files" => pc[Compute(t)] = "files"
               /\ pc[Compute(t)] \in OnTheWay => pc'[Compute(t)] \in OnTheWay
    BY <1>1, <2>1, <2>2, ProcsFacts DEF AtFiles, OnTheWay
  <2> QED BY <1>1, <2>3, FilesKept
<1>5. ASSUME JobsChecked(p) PROVE FilesInv'
  <2>1. pc[p] = "jobs" /\ pc' = [pc EXCEPT ![p] = resume[p]]
    BY <1>5 DEF JobsChecked, Goto
  <2>2. ASSUME NEW t \in Tasks
        PROVE  /\ pc'[Compute(t)] \in AtFiles <=> pc[Compute(t)] \in AtFiles
               /\ pc'[Compute(t)] = "files" => pc[Compute(t)] = "files"
               /\ pc[Compute(t)] \in OnTheWay => pc'[Compute(t)] \in OnTheWay
    BY <1>1, <2>1, ProcsFacts DEF FilesInv, FilesComeNext, AtFiles, OnTheWay
  <2> QED BY <1>1, <2>2, FilesKept
<1> QED BY <1>2, <1>3, <1>4, <1>5 DEF JobStep

\* What the iterator moves to is not past any ready file it has not passed.
LEMMA NextReadyCovers ==
    ASSUME GraphTypeOK, NEW from \in FileIterators, NEW next \in FileIterators,
           NextReady(from, next), NEW f \in readyFiles, f > from
    PROVE  next \in 0..f
<1>1. f \in Nat /\ from \in Int /\ (next \in Nat \/ next = NoFile)
  BY GraphAssumption DEF GraphTypeOK, FileIterators, NoFile
<1>2. next # NoFile \/ f <= from
  BY <1>1, GraphAssumption DEF NextReady, GraphTypeOK, NoFile
<1>3. next # NoFile /\ next <= f
  BY <1>1, <1>2 DEF NextReady
<1> QED BY <1>1, <1>3

LEMMA InputsAreFiles == \A t \in Tasks : FilesIn(Inputs[t]) \subseteq Files
BY GraphAssumption DEF FilesIn

LEMMA OutputsAreFiles == \A t \in Tasks : FilesIn(Outputs[t]) \subseteq Files
BY GraphAssumption DEF FilesIn

LEMMA FilesDoRefreshAfterTask ==
    ASSUME MachinesInv, FilesInv, NEW t \in Tasks, DoRefreshAfterTask(t) PROVE FilesInv'
<1>1. /\ pc \in [Procs -> Labels] /\ pc[Compute(t)] = "finish"
      /\ pc' = [pc EXCEPT ![Compute(t)] = "jobs"]
      /\ UNCHANGED <<filesMutex, cursor, resume>>
      /\ GraphFinishTask(t) /\ FilesAuthored /\ GraphTypeOK /\ cursor \in Cursors
  BY DEF DoRefreshAfterTask, Goto, MachinesInv, TypeInv, TypeOK, ProcTypeOK
<1>2. /\ pc'[Compute(t)] = "jobs"
      /\ \A u \in Tasks : u # t => pc'[Compute(u)] = pc[Compute(u)]
  BY <1>1, ProcsFacts
<1>3. MutexHeld' /\ FilesComeNext'
  BY <1>1, <1>2 DEF FilesInv, MutexHeld, FilesComeNext, AtFiles
<1>4. NoFileLeftBehind'
  BY <1>2 DEF NoFileLeftBehind
<1>5. ASSUME NEW f \in readyFiles' PROVE fileState'[f] = "READY"
  <2>1. readyFiles' = readyFiles \cup Released(t) /\ Released(t) \subseteq Files
    BY <1>1, OutputsAreFiles DEF GraphFinishTask, Released
  <2>2. f \in Files /\ Author[f] # NoTask /\ (f \notin Released(t) => fileState[f] = "READY")
    BY <1>1, <2>1 DEF Released, FilesAuthored, FilesInv, HandedOutOnce, GraphTypeOK
  <2> QED BY <1>1, <2>2 DEF GraphFinishTask
<1>6. ASSUME NEW u \in Tasks, pc'[Compute(u)] = "files", cursor'.file # NoFile
      PROVE  fileState'[cursor'.file] = "TRANSFERING"
  <2>1. /\ cursor.file \in Files /\ Author[cursor.file] # NoTask
        /\ fileState[cursor.file] = "TRANSFERING"
    BY <1>1, <1>2, <1>6 DEF FilesInv, HandedOutOnce, FilesAuthored, Cursors, FileIterators
  <2> QED BY <1>1, <2>1 DEF GraphFinishTask, Released
<1> QED BY <1>3, <1>4, <1>5, <1>6 DEF FilesInv, HandedOutOnce

LEMMA FilesChecks ==
    ASSUME MachinesInv, FilesInv, NEW t \in Tasks,
           CheckReadyFiles(t) \/ NextFile(t) \/ FileStarted(t) \/ FilesChecked(t)
    PROVE  FilesInv'
<1>1. /\ pc \in [Procs -> Labels] /\ cursor \in Cursors /\ GraphTypeOK
      /\ UNCHANGED resume
  BY DEF CheckReadyFiles, NextFile, FileStarted, FilesChecked, MachinesInv, TypeInv, TypeOK, ProcTypeOK
<1>2. \A f \in readyFiles : f \in Files /\ f \in Nat /\ f # NoFile
  BY <1>1, GraphAssumption DEF GraphTypeOK, NoFile
<1>3. \A u \in Tasks : u # NoTask
  BY GraphAssumption DEF NoTask
<1>4. ASSUME NEW l, Goto(Compute(t), l)
      PROVE  /\ pc'[Compute(t)] = l
             /\ \A u \in Tasks : u # t => pc'[Compute(u)] = pc[Compute(u)]
  BY <1>1, <1>4, ProcsFacts DEF Goto
<1>5. FilesComeNext'
  BY <1>1 DEF FilesInv, FilesComeNext
<1>6. CASE CheckReadyFiles(t)
  <2>1. PICK next \in FileIterators : /\ NextReady(NoFile, next)
                                      /\ cursor' = [NoCursor EXCEPT !.iter = next]
    BY <1>6 DEF CheckReadyFiles
  <2>2. /\ pc[Compute(t)] = "lock" /\ filesMutex = NoTask /\ filesMutex' = t
        /\ Goto(Compute(t), "files") /\ UNCHANGED <<readyFiles, fileState>>
    BY <1>6 DEF CheckReadyFiles, graphVars
  <2>3. cursor'.iter = next /\ cursor'.file = NoFile
    BY <2>1 DEF NoCursor
  <2>4. MutexHeld'
    BY <1>3, <1>4, <2>2 DEF FilesInv, MutexHeld, AtFiles
  <2>5. HandedOutOnce'
    BY <2>2, <2>3 DEF FilesInv, HandedOutOnce
  <2>6. ASSUME NEW f \in readyFiles PROVE next \in 0..f
    BY <1>1, <1>2, <2>1, NextReadyCovers DEF NoFile, FileIterators
  <2>7. NoFileLeftBehind'
    BY <2>2, <2>3, <2>6 DEF NoFileLeftBehind
  <2> QED BY <1>5, <2>4, <2>5, <2>7 DEF FilesInv
<1>7. CASE NextFile(t)
  <2>1. PICK next \in FileIterators :
           /\ NextReady(cursor.iter, next)
           /\ cursor' = [cursor EXCEPT !.file = cursor.iter, !.iter = next,
                                       !.receivers = Receivers[cursor.iter]]
    BY <1>7 DEF NextFile
  <2>2. /\ pc[Compute(t)] = "files" /\ Goto(Compute(t), "receivers")
        /\ UNCHANGED <<filesMutex, readyFiles, fileState>>
    BY <1>7 DEF NextFile, graphVars
  <2>3. cursor'.iter = next /\ cursor'.file = cursor.iter
    BY <1>1, <2>1 DEF Cursors
  <2>4. MutexHeld'
    BY <1>4, <2>2 DEF FilesInv, MutexHeld, AtFiles
  <2>5. HandedOutOnce'
    <3>1. ASSUME NEW u \in Tasks PROVE pc'[Compute(u)] # "files"
      BY <1>4, <2>2 DEF FilesInv, MutexHeld, AtFiles
    <3> QED BY <2>2, <3>1 DEF FilesInv, HandedOutOnce
  <2>6. ASSUME NEW f \in readyFiles, cursor.iter \in 0..f
        PROVE  cursor'.file = f \/ cursor'.iter \in 0..f
    <3>1. CASE cursor.iter = f
      BY <2>3, <3>1
    <3>2. CASE cursor.iter # f
      <4>1. f > cursor.iter
        BY <1>2, <2>6, <3>2
      <4> QED BY <1>1, <2>1, <2>3, <4>1, NextReadyCovers DEF Cursors
    <3> QED BY <3>1, <3>2
  <2>7. ASSUME NEW f \in readyFiles
        PROVE  \E u \in Tasks : \/ pc'[Compute(u)] \in OnTheWay
                                \/ filesMutex' = u /\ (cursor'.file = f \/ cursor'.iter \in 0..f)
    <3>1. cursor.file # f
      BY <1>2, <2>2 DEF FilesInv, HandedOutOnce
    <3>2. PICK u \in Tasks : \/ pc[Compute(u)] \in OnTheWay
                             \/ filesMutex = u /\ (cursor.file = f \/ cursor.iter \in 0..f)
      BY DEF FilesInv, NoFileLeftBehind, OnTheWay
    <3> QED BY <1>4, <2>2, <2>6, <3>1, <3>2 DEF OnTheWay
  <2> QED BY <1>5, <2>2, <2>4, <2>5, <2>7 DEF FilesInv, NoFileLeftBehind, OnTheWay
<1>8. CASE FileStarted(t)
  <2>1. /\ pc[Compute(t)] = "receivers" /\ Goto(Compute(t), "files")
        /\ readyFiles' = readyFiles \ {cursor.file}
        /\ fileState' = [fileState EXCEPT ![cursor.file] = "TRANSFERING"]
        /\ UNCHANGED <<filesMutex, cursor>>
    BY <1>8 DEF FileStarted, GraphStartTransfer
  <2>2. MutexHeld'
    BY <1>4, <2>1 DEF FilesInv, MutexHeld, AtFiles
  <2>3. HandedOutOnce'
    <3>1. \A f \in readyFiles' : fileState'[f] = "READY"
      BY <1>1, <2>1 DEF FilesInv, HandedOutOnce, GraphTypeOK
    <3>2. cursor.file # NoFile => fileState'[cursor.file] = "TRANSFERING"
      BY <1>1, <2>1 DEF GraphTypeOK, Cursors, FileIterators
    <3> QED BY <2>1, <3>1, <3>2 DEF HandedOutOnce
  <2>4. ASSUME NEW f \in readyFiles'
        PROVE  \E u \in Tasks : \/ pc'[Compute(u)] \in OnTheWay
                                \/ filesMutex' = u /\ (cursor'.file = f \/ cursor'.iter \in 0..f)
    <3>1. PICK u \in Tasks : \/ pc[Compute(u)] \in OnTheWay
                             \/ filesMutex = u /\ (cursor.file = f \/ cursor.iter \in 0..f)
      BY <2>1 DEF FilesInv, NoFileLeftBehind, OnTheWay
    <3> QED BY <1>4, <2>1, <3>1 DEF OnTheWay
  <2> QED BY <1>5, <2>2, <2>3, <2>4 DEF FilesInv, NoFileLeftBehind, OnTheWay
<1>9. CASE FilesChecked(t)
  <2>1. /\ pc[Compute(t)] = "files" /\ Goto(Compute(t), "dead") /\ cursor.iter = NoFile
        /\ filesMutex' = NoTask /\ cursor' = NoCursor /\ UNCHANGED <<readyFiles, fileState>>
    BY <1>9 DEF FilesChecked, graphVars
  <2>2. \A u \in Tasks : u # t => pc[Compute(u)] \notin AtFiles
    BY <2>1 DEF FilesInv, MutexHeld, AtFiles
  <2>3. MutexHeld'
    BY <1>3, <1>4, <2>1, <2>2 DEF MutexHeld, AtFiles
  <2>4. HandedOutOnce'
    BY <2>1 DEF FilesInv, HandedOutOnce, NoCursor
  <2>5. ASSUME NEW f \in readyFiles PROVE \E u \in Tasks : pc'[Compute(u)] \in OnTheWay
    <3>1. cursor.file # f /\ cursor.iter \notin 0..f
      BY <1>2, <2>1 DEF FilesInv, HandedOutOnce, NoFile
    <3>2. PICK u \in Tasks : pc[Compute(u)] \in OnTheWay
      BY <3>1 DEF FilesInv, NoFileLeftBehind, OnTheWay
    <3> QED BY <1>4, <2>1, <3>2 DEF OnTheWay
  <2> QED BY <1>5, <2>1, <2>3, <2>4, <2>5 DEF FilesInv, NoFileLeftBehind, OnTheWay
<1> QED BY <1>6, <1>7, <1>8, <1>9


LEMMA FilesComputeStep ==
    ASSUME MachinesInv, FilesInv, NEW t \in Tasks, ComputeStep(t) PROVE FilesInv'
<1>1. /\ pc \in [Procs -> Labels] /\ cursor \in Cursors /\ Compute(t) \in Procs
  BY ProcsFacts DEF MachinesInv, TypeInv, TypeOK, ProcTypeOK
<1>2. ASSUME NEW l, Goto(Compute(t), l)
      PROVE  /\ pc'[Compute(t)] = l
             /\ \A u \in Tasks : u # t => pc'[Compute(u)] = pc[Compute(u)]
  BY <1>1, <1>2, ProcsFacts DEF Goto
<1>3. ASSUME NEW r \in Tasks, StartTransfer(t, r) PROVE FilesInv'
  <2>1. /\ UNCHANGED <<readyFiles, fileState, filesMutex, resume>>
        /\ pc[Compute(t)] = "receivers" /\ Goto(Compute(t), "request")
        /\ cursor'.iter = cursor.iter /\ cursor'.file = cursor.file
    BY <1>1, <1>3 DEF StartTransfer, graphVars, Cursors
  <2> QED BY <1>2, <2>1, FilesKept DEF AtFiles, OnTheWay
<1>4. CASE RequestTaken(t)
  <2>1. /\ UNCHANGED <<readyFiles, fileState, filesMutex, resume>>
        /\ pc[Compute(t)] = "request" /\ Goto(Compute(t), "acks")
        /\ cursor'.iter = cursor.iter /\ cursor'.file = cursor.file
    BY <1>1, <1>4 DEF RequestTaken, graphVars, Cursors
  <2> QED BY <1>2, <2>1, FilesKept DEF AtFiles, OnTheWay
<1>5. CASE TakeAck(t)
  <2>1. /\ UNCHANGED <<readyFiles, fileState, filesMutex, resume, pc>>
        /\ cursor'.iter = cursor.iter /\ cursor'.file = cursor.file
    BY <1>1, <1>5 DEF TakeAck, graphVars, Cursors
  <2> QED BY <2>1, FilesKept
<1>6. CASE TransferStarted(t)
  <2>1. /\ UNCHANGED <<readyFiles, fileState, filesMutex, resume, cursor>>
        /\ pc[Compute(t)] = "acks" /\ Goto(Compute(t), "receivers")
    BY <1>6 DEF TransferStarted, graphVars
  <2> QED BY <1>2, <2>1, FilesKept DEF AtFiles, OnTheWay
<1>7. CASE DoExecute(t)
  <2>1. /\ UNCHANGED <<readyFiles, fileState, filesMutex, resume, cursor>>
        /\ pc[Compute(t)] = "exec" /\ Goto(Compute(t), "finish")
    BY <1>7 DEF DoExecute, graphVars
  <2> QED BY <1>2, <2>1, FilesKept DEF AtFiles, OnTheWay
<1> QED
  BY <1>1, <1>3, <1>4, <1>5, <1>6, <1>7, FilesJobStep, FilesDoRefreshAfterTask, FilesChecks
     DEF ComputeStep

\* A mailer moves between places of its loop.
LEMMA MailerKeepsFiles ==
    ASSUME TypeInv, FilesInv, NEW v \in VMs, NEW l, Goto(Mailer(v), l),
           resume' = resume \/ \E m : resume' = [resume EXCEPT ![Mailer(v)] = m],
           UNCHANGED <<readyFiles, fileState, filesMutex, cursor>>
    PROVE  FilesInv'
<1>1. pc \in [Procs -> Labels] /\ resume \in [Procs -> {"loop", "lock", "wait", "ack"}]
  BY DEF TypeInv, TypeOK, ProcTypeOK
<1>2. \A t \in Tasks : pc'[Compute(t)] = pc[Compute(t)] /\ resume'[Compute(t)] = resume[Compute(t)]
  BY <1>1, ProcsFacts DEF Goto
<1> QED BY <1>2, OthersKeepFiles

LEMMA FilesMailerStep ==
    ASSUME MachinesInv, FilesInv, NEW v \in VMs, MailerStep(v) PROVE FilesInv'
<1>1. TypeInv /\ Mailer(v) \in Procs
  BY ProcsFacts DEF MachinesInv
<1>2. ASSUME NEW a \in arrived, FirstEndReported(v, a[2]) PROVE FilesInv'
  BY <1>2, OthersKeepFiles DEF FirstEndReported, graphVars, procVars
<1>3. ASSUME NEW a \in arrived, SecondEndReported(v, a[2]) PROVE FilesInv'
  BY <1>1, <1>3, MailerKeepsFiles DEF SecondEndReported, GraphFinishTransfer
<1>4. CASE LocalTransfer(v)
  BY <1>1, <1>4, MailerKeepsFiles DEF LocalTransfer, GraphFinishTransfer
<1>5. CASE KillMailer(v) \/ BeginReceiving(v) \/ BeginSending(v)
  BY <1>1, <1>5, MailerKeepsFiles DEF KillMailer, BeginReceiving, BeginSending, graphVars
<1>6. CASE PutAck(v) \/ AckTaken(v) \/ Drain(v)
  BY <1>1, <1>6, MailerKeepsFiles DEF PutAck, AckTaken, Drain, graphVars
<1> QED BY <1>1, <1>2, <1>3, <1>4, <1>5, <1>6, FilesJobStep DEF MailerStep

LEMMA FilesMainStep ==
    ASSUME MachinesInv, FilesInv, MainStep PROVE FilesInv'
<1>1. pc \in [Procs -> Labels] /\ Main \in Procs
  BY ProcsFacts DEF MachinesInv, TypeInv, TypeOK, ProcTypeOK
<1>2. ASSUME NEW l, Goto(Main, l) PROVE \A t \in Tasks : pc'[Compute(t)] = pc[Compute(t)]
  BY <1>1, <1>2, ProcsFacts DEF Goto
<1>3. ASSUME NEW v \in VMs, BuyVM(v) PROVE FilesInv'
  <2>1. \A t \in Tasks : pc'[Compute(t)] = pc[Compute(t)]
    BY <1>1, <1>3, ProcsFacts DEF BuyVM
  <2> QED BY <1>3, <2>1, OthersKeepFiles DEF BuyVM, graphVars
<1>4. ASSUME NEW v \in VMs, AssignTask(v) PROVE FilesInv'
  <2>1. \A f \in Files : f \notin ReadyOnAssign(Head(copy[v]))
    <3>1. \A t \in Tasks : taskState[t] = "NOT_SCHEDULED"
      BY <1>4, SetupIdle DEF AssignTask, Setup
    <3>2. \A f \in Files : Author[f] # NoTask => taskState[Author[f]] # "DONE"
      BY <3>1, AuthorWrites
    <3> QED BY <3>2 DEF ReadyOnAssign
  <2>2. fileState \in [Files -> FileStates] /\ Head(copy[v]) \in Tasks
    BY <1>4 DEF AssignTask, MachinesInv, TypeInv, TypeOK, GraphTypeOK, SimTypeOK
  <2>3. ReadyOnAssign(Head(copy[v])) = {}
    BY <2>1, <2>2, InputsAreFiles DEF ReadyOnAssign
  <2>4. UNCHANGED <<readyFiles, fileState>>
    BY <1>4, <2>2, <2>3 DEF AssignTask, GraphAssignTask, graphVars
  <2> QED BY <1>4, <2>4, OthersKeepFiles DEF AssignTask, procVars
<1>5. CASE ResetSchedule \/ BeginMainLoop \/ \E v \in VMs : AssignedAll(v)
  BY <1>2, <1>5, OthersKeepFiles DEF ResetSchedule, BeginMainLoop, AssignedAll, graphVars
<1>6. CASE TestFinished \/ JoinActor \/ EndMainLoop
  BY <1>2, <1>6, OthersKeepFiles DEF TestFinished, JoinActor, EndMainLoop, graphVars
<1>7. CASE \E v \in VMs : PutTerminator(v) \/ JoinMailer(v)
  BY <1>2, <1>7, OthersKeepFiles DEF PutTerminator, JoinMailer, graphVars
<1> QED BY <1>1, <1>3, <1>4, <1>5, <1>6, <1>7, FilesJobStep DEF MainStep

LEMMA FilesNext == MachinesInv /\ FilesInv /\ [Next]_vars => FilesInv'
<1> SUFFICES ASSUME MachinesInv, FilesInv, [Next]_vars PROVE FilesInv'
  OBVIOUS
<1>1. CASE UNCHANGED vars \/ Ended
  BY <1>1, OthersKeepFiles DEF Ended, vars, graphVars, procVars
<1>2. ASSUME NEW s \in moving, Arrive(s) PROVE FilesInv'
  BY <1>2, OthersKeepFiles DEF Arrive, graphVars, procVars
<1> QED
  BY <1>1, <1>2, FilesMainStep, FilesComputeStep, FilesMailerStep DEF Next

(***************************************************************************)
(* No file is left behind, for every workflow, platform and schedule: a    *)
(* file that becomes ready behind the iterator of the actor holding the    *)
(* mutex is found by another actor that has still to run CheckReadyFiles.  *)
(***************************************************************************)
THEOREM SimulatorNoFileLeftBehind == Spec => []NoFileLeftBehind
<1>1. FilesInv => NoFileLeftBehind
  BY DEF FilesInv
<1> QED
  BY <1>1, MachinesInit, MachinesNext, FilesInit, FilesNext, PTL DEF Spec

=============================================================================
