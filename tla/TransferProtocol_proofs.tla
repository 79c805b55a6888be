---------------------- MODULE TransferProtocol_proofs -----------------------
(***************************************************************************)
(* Theorems about how a run moves files: the main loop, the compute actors,*)
(* the mailers that take requests and answers, and the transfers they join.*)
(* Whatever the workflow and the machines, no mailer takes what was meant for*)
(* another, no transfer is counted twice, and the simulator uses the graph as*)
(* the graph allows; from that, for a workflow that is well formed, what the*)
(* graph promises on its own holds of the run, and a run that has ended leaves*)
(* nothing behind.                                                         *)
(***************************************************************************)
EXTENDS CloudSimulator_proofs
-----------------------------------------------------------------------------
(* The end of a run: what ends, ends for good, and the main loop sees it.   *)

\* Where Main goes on after its checks of ready jobs.
MainGoesOn == resume[Main] = "loop"

\* The main loop knows every actor there is.
ActorsListed ==
    \A t \in Tasks : pc[Compute(t)] # "none" => \E i \in DOMAIN actors : actors[i] = t

\* Until the condition of the main loop is tested, no time has passed.
FirstRound ==
    pc[Main] \in {"buy", "assign", "jobs", "create", "loop"} =>
        finishedTasks = {} /\ \A t \in Tasks : pc[Compute(t)] \in {"none", "exec"}

JoinedDead ==
    pc[Main] = "join" => \A i \in 1..joined : /\ i \in DOMAIN actors /\ actors[i] \in Tasks
                                              /\ pc[Compute(actors[i])] = "dead"

FinishedDone == \A t \in finishedTasks : taskState[t] = "DONE"

DoneActed == \A t \in Tasks : taskState[t] = "DONE" => pc[Compute(t)] # "none"

ClosedQuiet == Closing => \A t \in Tasks : taskState[t] = "DONE" /\ pc[Compute(t)] = "dead"

EndInv ==
    /\ MainGoesOn /\ ActorsListed /\ FirstRound /\ JoinedDead /\ FinishedDone /\ DoneActed
    /\ ClosedQuiet

LEMMA EndInit == Init => EndInv
<1> SUFFICES ASSUME Init PROVE EndInv
  OBVIOUS
<1>1. /\ pc[Main] = "buy" /\ resume[Main] = "loop" /\ finishedTasks = {}
      /\ \A t \in Tasks : pc[Compute(t)] = "none" /\ taskState[t] = "NOT_SCHEDULED"
  BY ProcsFacts DEF Init, GraphInit
<1> QED
  BY <1>1 DEF EndInv, MainGoesOn, ActorsListed, FirstRound, JoinedDead, FinishedDone, DoneActed,
              ClosedQuiet, Closing

\* No task starts or ends, and the main loop stays where it is.
LEMMA EndKept ==
    ASSUME EndInv, UNCHANGED <<taskState, finishedTasks, actors, joined>>,
           pc'[Main] = pc[Main], resume'[Main] = resume[Main],
           \A t \in Tasks : \/ pc'[Compute(t)] = pc[Compute(t)]
                            \/ pc[Compute(t)] \notin {"none", "exec", "dead"} /\ pc'[Compute(t)] # "none"
    PROVE  EndInv'
<1>1. ActorsListed' /\ FirstRound' /\ JoinedDead'
  BY DEF EndInv, ActorsListed, FirstRound, JoinedDead
<1>2. MainGoesOn' /\ FinishedDone' /\ DoneActed' /\ ClosedQuiet'
  BY DEF EndInv, MainGoesOn, FinishedDone, DoneActed, ClosedQuiet, Closing
<1> QED BY <1>1, <1>2 DEF EndInv

\* What starting the head of a queue does: the platform never refuses it.
LEMMA HeadStarts ==
    ASSUME MachinesInv, NEW p \in Procs, NEW v \in VMs, CheckReadyJobOnVM(p, v)
    PROVE  /\ pc[p] = "jobs" /\ ~Setup /\ StartExecuting(Head(queue[v]))
           /\ Head(queue[v]) \in Tasks /\ pc[Compute(Head(queue[v]))] = "none"
           /\ taskState[Head(queue[v])] \notin {"RUNNING", "DONE"}
           /\ \A t \in Tasks : taskState'[t] = IF t = Head(queue[v]) THEN "RUNNING" ELSE taskState[t]
           /\ pc'[p] = "create" /\ \A q \in Procs \ {p} : pc'[q] = pc[q]
           /\ UNCHANGED <<actors, todo, hostOf, transfers, resume, cursor, filesMutex, joined,
                          mbox, dataVars>>
<1> USE DEF MachinesInv
<1> DEFINE t == Head(queue[v])
<1>1. /\ queue \in [VMs -> Seq(Tasks)] /\ taskState \in [Tasks -> TaskStates]
      /\ pc \in [Procs -> Labels]
  BY DEF TypeInv, TypeOK, GraphTypeOK, SimTypeOK, ProcTypeOK
<1>2. pc[p] = "jobs" /\ queue[v] # <<>> /\ StartExecuting(t)
  BY DEF CheckReadyJobOnVM, HeadReady
<1>3. ~Setup
  BY <1>2, AtWork
<1>4. t \in Tasks /\ 1 \in DOMAIN queue[v] /\ queue[v][1] = t
  BY <1>1, <1>2
<1>5. v \in virtualMachines /\ Fits(Need[t], VMSpec[v])
  BY <1>4 DEF QueuedPlaced
<1>6. taskState[t] \notin {"RUNNING", "DONE"} /\ taskState' = [taskState EXCEPT ![t] = "RUNNING"]
  BY <1>2 DEF StartExecuting, IsReady
<1>7. pc[Compute(t)] = "none"
  BY <1>4, <1>6 DEF ActorOfRunning
<1>8. CheckTask(v, Need[t])
  BY <1>2, <1>5, <1>7, HeadAlone DEF CheckTask
<1>9. pc' = [pc EXCEPT ![p] = "create"] /\ UNCHANGED <<actors, todo>>
  BY <1>8 DEF CheckReadyJobOnVM, Goto
<1>10. UNCHANGED <<hostOf, transfers, resume, cursor, filesMutex, joined, mbox, dataVars>>
  BY DEF CheckReadyJobOnVM
<1>11. \A u \in Tasks : taskState'[u] = IF u = t THEN "RUNNING" ELSE taskState[u]
  BY <1>1, <1>4, <1>6
<1> QED BY <1>1, <1>2, <1>3, <1>4, <1>6, <1>7, <1>9, <1>10, <1>11

\* What creating an actor does.
LEMMA ActorCreated ==
    ASSUME MachinesInv, NEW p \in Procs, NEW v \in VMs, CreateActor(p, v)
    PROVE  /\ pc[p] = "create" /\ ~Setup /\ job[p] \in Tasks
           /\ taskState[job[p]] = "RUNNING" /\ pc[Compute(job[p])] = "none"
           /\ p # Compute(job[p]) /\ pc'[p] = "jobs" /\ pc'[Compute(job[p])] = "exec"
           /\ \A q \in Procs : q # p /\ q # Compute(job[p]) => pc'[q] = pc[q]
           /\ actors' = Append(actors, job[p])
           /\ UNCHANGED <<graphVars, hostOf, transfers, resume, cursor, filesMutex, joined,
                          mbox, dataVars>>
<1>1. /\ pc[p] = "create" /\ AtMachine(p, v) /\ actors' = Append(actors, job[p])
      /\ pc' = [pc EXCEPT ![p] = "jobs", ![Compute(job[p])] = "exec"]
      /\ UNCHANGED <<graphVars, hostOf, transfers, resume, cursor, filesMutex, joined,
                     mbox, dataVars>>
  BY DEF CreateActor
<1>2. job[p] \in Tasks /\ taskState[job[p]] = "RUNNING" /\ pc[Compute(job[p])] = "none"
  BY <1>1, CreatedIsHead
<1>3. pc \in [Procs -> Labels] /\ ~Setup
  BY <1>1, AtWork DEF MachinesInv, TypeInv, TypeOK, ProcTypeOK
<1>4. p # Compute(job[p]) /\ Compute(job[p]) \in Procs
  BY <1>1, <1>2, ProcsFacts
<1> QED BY <1>1, <1>2, <1>3, <1>4

LEMMA EndJobStep ==
    ASSUME MachinesInv, FilesInv, EndInv, NEW p \in Procs, JobStep(p) PROVE EndInv'
<1>1. ASSUME NEW v \in VMs, NothingToStart(p, v) PROVE EndInv'
  BY <1>1, EndKept DEF NothingToStart, graphVars, simVars
<1>2. ASSUME NEW v \in VMs, CheckReadyJobOnVM(p, v) PROVE EndInv'
  <2> DEFINE t == Head(queue[v])
  <2>1. /\ pc[p] = "jobs" /\ pc'[p] = "create" /\ \A q \in Procs \ {p} : pc'[q] = pc[q]
        /\ UNCHANGED <<actors, resume, joined>> /\ StartExecuting(t)
        /\ t \in Tasks /\ taskState[t] \notin {"RUNNING", "DONE"}
        /\ \A u \in Tasks : taskState'[u] = IF u = t THEN "RUNNING" ELSE taskState[u]
    BY <1>2, HeadStarts
  <2>2. finishedTasks' = finishedTasks /\ finishedTasks \subseteq Tasks
    BY <2>1 DEF StartExecuting, MachinesInv, TypeInv, TypeOK, GraphTypeOK
  <2> HIDE DEF t
  <2>3. MainGoesOn' /\ FinishedDone'
    BY <2>1, <2>2 DEF EndInv, MainGoesOn, FinishedDone
  <2>4. \A u \in Tasks : \/ pc'[Compute(u)] = pc[Compute(u)]
                         \/ pc[Compute(u)] = "jobs" /\ pc'[Compute(u)] = "create"
    BY <2>1, ProcsFacts
  <2>5. ActorsListed' /\ DoneActed'
    <3>1. \A u \in Tasks : /\ pc'[Compute(u)] # "none" <=> pc[Compute(u)] # "none"
                           /\ taskState'[u] = "DONE" => taskState[u] = "DONE"
      BY <2>1, <2>4
    <3> QED BY <2>1, <3>1 DEF EndInv, ActorsListed, DoneActed
  <2>6. \/ pc'[Main] = pc[Main]
        \/ pc[Main] = "jobs" /\ pc'[Main] = "create"
    BY <2>1, ProcsFacts
  <2>7. FirstRound' /\ JoinedDead'
    BY <2>1, <2>2, <2>4, <2>6 DEF EndInv, FirstRound, JoinedDead
  <2>8. ClosedQuiet'
    BY <2>1, <2>6 DEF EndInv, ClosedQuiet, Closing
  <2> QED BY <2>3, <2>5, <2>7, <2>8 DEF EndInv
<1>3. ASSUME NEW v \in VMs, CreateActor(p, v) PROVE EndInv'
  <2> DEFINE t == job[p]
  <2>1. /\ pc[p] = "create" /\ t \in Tasks /\ taskState[t] = "RUNNING"
        /\ pc[Compute(t)] = "none" /\ p # Compute(t)
        /\ pc'[p] = "jobs" /\ pc'[Compute(t)] = "exec"
        /\ \A q \in Procs : q # p /\ q # Compute(t) => pc'[q] = pc[q]
        /\ actors' = Append(actors, t)
        /\ UNCHANGED <<graphVars, resume, joined>>
    BY <1>3, ActorCreated
  <2>2. UNCHANGED <<finishedTasks, taskState>>
    BY <2>1 DEF graphVars
  <2>3. /\ \A i \in DOMAIN actors : i \in DOMAIN actors' /\ actors'[i] = actors[i]
        /\ \E i \in DOMAIN actors' : actors'[i] = t
    <3>1. actors \in Seq(Tasks \cup {NullActor}) /\ t \in Tasks \cup {NullActor}
      BY <2>1 DEF MachinesInv, TypeInv, TypeOK, SimTypeOK
    <3> HIDE DEF t
    <3>2. /\ Len(actors') = Len(actors) + 1 /\ actors' \in Seq(Tasks \cup {NullActor})
          /\ \A i \in 1..Len(actors) : actors'[i] = actors[i]
          /\ actors'[Len(actors) + 1] = t
      BY <2>1, <3>1, AppendProperties
    <3>3. DOMAIN actors' = 1..(Len(actors) + 1) /\ DOMAIN actors = 1..Len(actors) /\ Len(actors) \in Nat
      BY <3>1, <3>2
    <3> QED BY <3>2, <3>3
  <2> HIDE DEF t
  <2>4. \A u \in Tasks : \/ pc'[Compute(u)] = pc[Compute(u)]
                         \/ pc[Compute(u)] = "create" /\ pc'[Compute(u)] = "jobs"
                         \/ u = t
    BY <2>1, ProcsFacts
  <2>5. \/ pc'[Main] = pc[Main]
        \/ pc[Main] = "create" /\ pc'[Main] = "jobs"
    BY <2>1, ProcsFacts
  <2>6. MainGoesOn' /\ FinishedDone' /\ DoneActed'
    BY <2>1, <2>2, <2>4 DEF EndInv, MainGoesOn, FinishedDone, DoneActed
  <2>7. ActorsListed'
    <3>1. ASSUME NEW u \in Tasks, pc'[Compute(u)] # "none", u # t
          PROVE  \E i \in DOMAIN actors' : actors'[i] = u
      <4>1. PICK i \in DOMAIN actors : actors[i] = u
        BY <2>4, <3>1 DEF EndInv, ActorsListed
      <4> QED BY <2>3, <4>1
    <3> QED BY <2>3, <3>1 DEF ActorsListed
  <2>8. FirstRound'
    <3>1. ASSUME pc'[Main] \in {"buy", "assign", "jobs", "create", "loop"}
          PROVE  \A u \in Tasks : pc'[Compute(u)] \in {"none", "exec"}
      BY <2>1, <2>4, <2>5, <3>1 DEF EndInv, FirstRound
    <3> QED BY <2>2, <2>5, <3>1 DEF EndInv, FirstRound
  <2>9. JoinedDead'
    <3>1. ASSUME pc'[Main] = "join", NEW i \in 1..joined
          PROVE  /\ i \in DOMAIN actors' /\ actors'[i] \in Tasks
                 /\ pc'[Compute(actors'[i])] = "dead"
      <4>1. i \in DOMAIN actors /\ actors[i] \in Tasks /\ pc[Compute(actors[i])] = "dead"
        BY <2>5, <3>1 DEF EndInv, JoinedDead
      <4>2. actors[i] # t
        BY <2>1, <4>1
      <4>3. pc'[Compute(actors[i])] = "dead"
        BY <2>4, <4>1, <4>2
      <4> QED BY <2>3, <4>1, <4>3
    <3> QED BY <2>1, <3>1 DEF JoinedDead
  <2>10. ClosedQuiet'
    BY <2>1, <2>5 DEF EndInv, ClosedQuiet, Closing
  <2> QED BY <2>6, <2>7, <2>8, <2>9, <2>10 DEF EndInv
<1>4. ASSUME JobsChecked(p) PROVE EndInv'
  <2>1. /\ pc[p] = "jobs" /\ pc' = [pc EXCEPT ![p] = resume[p]]
        /\ UNCHANGED <<taskState, finishedTasks, actors, joined, resume>>
        /\ pc \in [Procs -> Labels]
    BY <1>4 DEF JobsChecked, Goto, graphVars, simVars, MachinesInv, TypeInv, TypeOK, ProcTypeOK
  <2>2. CASE p = Main
    <3>1. /\ pc[Main] = "jobs" /\ pc'[Main] = "loop"
          /\ \A t \in Tasks : pc'[Compute(t)] = pc[Compute(t)]
      BY <2>1, <2>2, ProcsFacts DEF EndInv, MainGoesOn
    <3>2. MainGoesOn' /\ ActorsListed' /\ FinishedDone' /\ DoneActed'
      BY <2>1, <3>1 DEF EndInv, MainGoesOn, ActorsListed, FinishedDone, DoneActed
    <3>3. FirstRound' /\ JoinedDead' /\ ClosedQuiet'
      BY <2>1, <3>1 DEF EndInv, FirstRound, JoinedDead, ClosedQuiet, Closing
    <3> QED BY <3>2, <3>3 DEF EndInv
  <2>3. CASE p # Main
    <3>1. ASSUME NEW t \in Tasks, pc'[Compute(t)] # pc[Compute(t)]
          PROVE  pc[Compute(t)] = "jobs" /\ pc'[Compute(t)] = "lock"
      BY <2>1, <3>1, ProcsFacts DEF FilesInv, FilesComeNext
    <3> QED BY <2>1, <2>3, <3>1, ProcsFacts, EndKept
  <2> QED BY <2>2, <2>3
<1> QED BY <1>1, <1>2, <1>3, <1>4 DEF JobStep

LEMMA EndComputeStep ==
    ASSUME MachinesInv, FilesInv, EndInv, NEW t \in Tasks, ComputeStep(t) PROVE EndInv'
<1>1. Compute(t) \in Procs /\ pc \in [Procs -> Labels]
  BY ProcsFacts DEF MachinesInv, TypeInv, TypeOK, ProcTypeOK
<1>2. ASSUME NEW l, Goto(Compute(t), l)
      PROVE  /\ pc'[Compute(t)] = l /\ pc'[Main] = pc[Main]
             /\ \A u \in Tasks : u # t => pc'[Compute(u)] = pc[Compute(u)]
  BY <1>1, <1>2, ProcsFacts DEF Goto
<1>3. CASE DoExecute(t)
  <2>1. /\ pc[Compute(t)] = "exec" /\ TimePasses /\ Goto(Compute(t), "finish")
        /\ UNCHANGED <<taskState, finishedTasks, actors, joined, resume>>
    BY <1>3 DEF DoExecute, graphVars, simVars
  <2>2. ~Setup /\ pc[Main] \notin {"buy", "assign", "jobs", "create", "loop"}
    BY <1>1, <2>1, ProcsFacts, AtWork DEF TimePasses, Setup
  <2>3. MainGoesOn' /\ ActorsListed' /\ FirstRound'
    BY <1>2, <2>1, <2>2 DEF EndInv, MainGoesOn, ActorsListed, FirstRound
  <2>4. JoinedDead'
    BY <1>2, <2>1 DEF EndInv, JoinedDead
  <2>5. FinishedDone' /\ DoneActed' /\ ClosedQuiet'
    BY <1>2, <2>1 DEF EndInv, FinishedDone, DoneActed, ClosedQuiet, Closing
  <2> QED BY <2>3, <2>4, <2>5 DEF EndInv
<1>4. CASE DoRefreshAfterTask(t)
  <2>1. /\ pc[Compute(t)] = "finish" /\ GraphFinishTask(t) /\ Goto(Compute(t), "jobs")
        /\ UNCHANGED <<actors, joined, resume>>
    BY <1>4 DEF DoRefreshAfterTask
  <2>2. taskState[t] = "RUNNING" /\ GraphTypeOK
    BY <2>1 DEF MachinesInv, ActorOfRunning, TypeInv, TypeOK
  <2>3. /\ finishedTasks' = finishedTasks \cup {t} /\ taskState'[t] = "DONE"
        /\ \A u \in Tasks : u # t => (taskState'[u] = "DONE" <=> taskState[u] = "DONE")
    BY <2>1, <2>2, FinishStates DEF GraphFinishTask
  <2>4. finishedTasks \subseteq Tasks
    BY <2>2 DEF GraphTypeOK
  <2>5. MainGoesOn' /\ ActorsListed' /\ FirstRound'
    BY <1>2, <2>1 DEF EndInv, MainGoesOn, ActorsListed, FirstRound
  <2>6. JoinedDead'
    BY <1>2, <2>1 DEF EndInv, JoinedDead
  <2>7. FinishedDone' /\ DoneActed' /\ ClosedQuiet'
    BY <1>2, <2>1, <2>3, <2>4 DEF EndInv, FinishedDone, DoneActed, ClosedQuiet, Closing
  <2> QED BY <2>5, <2>6, <2>7 DEF EndInv
<1>5. CASE CheckReadyFiles(t) \/ NextFile(t) \/ FileStarted(t) \/ FilesChecked(t)
  <2>1. /\ UNCHANGED <<taskState, finishedTasks, actors, joined, resume>>
        /\ pc[Compute(t)] \in {"lock", "files", "receivers"}
        /\ \E l \in {"files", "receivers", "dead"} : Goto(Compute(t), l)
    BY <1>5 DEF CheckReadyFiles, NextFile, FileStarted, FilesChecked, GraphStartTransfer,
                graphVars, simVars
  <2> QED BY <1>2, <2>1, EndKept
<1>6. CASE (\E r \in Tasks : StartTransfer(t, r)) \/ RequestTaken(t) \/ TransferStarted(t)
  <2>1. /\ UNCHANGED <<taskState, finishedTasks, actors, joined, resume>>
        /\ pc[Compute(t)] \in {"receivers", "request", "acks"}
        /\ \E l \in {"receivers", "request", "acks"} : Goto(Compute(t), l)
    BY <1>6 DEF StartTransfer, RequestTaken, TransferStarted, graphVars, simVars
  <2> QED BY <1>2, <2>1, EndKept
<1>7. CASE TakeAck(t)
  BY <1>7, EndKept DEF TakeAck, graphVars, simVars
<1> QED BY <1>1, <1>3, <1>4, <1>5, <1>6, <1>7, EndJobStep DEF ComputeStep

LEMMA EndMailerStep ==
    ASSUME MachinesInv, FilesInv, EndInv, NEW v \in VMs, MailerStep(v) PROVE EndInv'
<1>1. /\ Mailer(v) \in Procs /\ pc \in [Procs -> Labels]
      /\ resume \in [Procs -> {"loop", "lock", "wait", "ack"}]
  BY ProcsFacts DEF MachinesInv, TypeInv, TypeOK, ProcTypeOK
<1>2. ASSUME UNCHANGED <<taskState, finishedTasks, actors, joined>>,
             pc' = pc \/ \E l : Goto(Mailer(v), l),
             resume' = resume \/ \E l : resume' = [resume EXCEPT ![Mailer(v)] = l]
      PROVE  EndInv'
  <2>1. /\ pc'[Main] = pc[Main] /\ resume'[Main] = resume[Main]
        /\ \A t \in Tasks : pc'[Compute(t)] = pc[Compute(t)]
    BY <1>1, <1>2, ProcsFacts DEF Goto
  <2> QED BY <1>2, <2>1, EndKept
<1>3. ASSUME NEW a \in arrived, FirstEndReported(v, a[2]) \/ SecondEndReported(v, a[2])
      PROVE  EndInv'
  BY <1>2, <1>3 DEF FirstEndReported, SecondEndReported, GraphFinishTransfer, graphVars, procVars
<1>4. CASE KillMailer(v) \/ LocalTransfer(v)
  BY <1>2, <1>4 DEF KillMailer, LocalTransfer, GraphFinishTransfer, graphVars, simVars
<1>5. CASE BeginReceiving(v) \/ BeginSending(v)
  BY <1>2, <1>5 DEF BeginReceiving, BeginSending, graphVars, simVars
<1>6. CASE PutAck(v) \/ AckTaken(v) \/ Drain(v)
  BY <1>2, <1>6 DEF PutAck, AckTaken, Drain, graphVars, simVars
<1> QED BY <1>1, <1>3, <1>4, <1>5, <1>6, EndJobStep DEF MailerStep

LEMMA EndMainStep ==
    ASSUME MachinesInv, FilesInv, EndInv, MainStep PROVE EndInv'
<1>1. Main \in Procs /\ pc \in [Procs -> Labels] /\ actors \in Seq(Tasks \cup {NullActor})
  BY ProcsFacts DEF MachinesInv, TypeInv, TypeOK, ProcTypeOK, SimTypeOK
<1>2. ASSUME NEW l, Goto(Main, l)
      PROVE  pc'[Main] = l /\ \A t \in Tasks : pc'[Compute(t)] = pc[Compute(t)]
  BY <1>1, <1>2, ProcsFacts DEF Goto
<1>3. ASSUME UNCHANGED <<taskState, finishedTasks, actors, resume>>,
             \A t \in Tasks : pc'[Compute(t)] = pc[Compute(t)]
      PROVE  MainGoesOn' /\ ActorsListed' /\ FinishedDone' /\ DoneActed'
  BY <1>3 DEF EndInv, MainGoesOn, ActorsListed, FinishedDone, DoneActed
<1>4. CASE ResetSchedule \/ BeginMainLoop
  <2>1. /\ UNCHANGED <<taskState, finishedTasks, actors, resume>>
        /\ pc[Main] \in {"buy", "assign"} /\ (Goto(Main, "assign") \/ Goto(Main, "jobs"))
    BY <1>4 DEF ResetSchedule, BeginMainLoop, graphVars, simVars
  <2>2. FirstRound' /\ JoinedDead' /\ ClosedQuiet'
    BY <1>2, <2>1 DEF EndInv, FirstRound, JoinedDead, ClosedQuiet, Closing
  <2> QED BY <1>2, <1>3, <2>1, <2>2 DEF EndInv
<1>5. ASSUME NEW v \in VMs, BuyVM(v) PROVE EndInv'
  <2>1. /\ \A t \in Tasks : pc'[Compute(t)] = pc[Compute(t)]
        /\ pc'[Main] = pc[Main]
    BY <1>1, <1>5, ProcsFacts DEF BuyVM
  <2> QED BY <1>5, <2>1, EndKept DEF BuyVM, graphVars, simVars
<1>6. ASSUME NEW v \in VMs, AssignTask(v) \/ AssignedAll(v) PROVE EndInv'
  <2>1. UNCHANGED <<taskState, finishedTasks, actors, joined, pc, resume>>
    BY <1>6 DEF AssignTask, AssignedAll, GraphAssignTask, graphVars, simVars, procVars
  <2> QED BY <2>1, EndKept
<1>7. CASE TestFinished
  <2>1. /\ UNCHANGED <<taskState, finishedTasks, actors, resume>>
        /\ pc[Main] = "loop" \/ (pc[Main] = "join" /\ joined = Len(actors))
    BY <1>7 DEF TestFinished, graphVars, simVars
  <2>2. CASE GraphIsFinished
    <3>1. Goto(Main, "shut") /\ finishedTasks = Tasks
      BY <1>7, <2>2 DEF TestFinished, GraphIsFinished
    <3>2. FirstRound' /\ JoinedDead'
      BY <1>2, <3>1 DEF FirstRound, JoinedDead
    <3>3. CASE pc[Main] = "loop"
      <4>1. Tasks = {}
        BY <3>1, <3>3 DEF EndInv, FirstRound
      <4>2. ClosedQuiet'
        BY <4>1 DEF ClosedQuiet
      <4> QED BY <1>2, <1>3, <2>1, <3>1, <3>2, <4>2 DEF EndInv
    <3>4. CASE pc[Main] = "join" /\ joined = Len(actors)
      <4>1. DOMAIN actors = 1..joined
        BY <1>1, <3>4
      <4>2. ASSUME NEW t \in Tasks PROVE taskState[t] = "DONE" /\ pc[Compute(t)] = "dead"
        <5>1. taskState[t] = "DONE" /\ pc[Compute(t)] # "none"
          BY <3>1 DEF EndInv, FinishedDone, DoneActed
        <5>2. PICK i \in DOMAIN actors : actors[i] = t
          BY <5>1 DEF EndInv, ActorsListed
        <5> QED BY <3>4, <4>1, <5>1, <5>2 DEF EndInv, JoinedDead
      <4>3. ClosedQuiet'
        BY <1>2, <2>1, <3>1, <4>2 DEF ClosedQuiet
      <4> QED BY <1>2, <1>3, <2>1, <3>1, <3>2, <4>3 DEF EndInv
    <3> QED BY <2>1, <3>3, <3>4
  <2>3. CASE ~GraphIsFinished
    <3>1. Goto(Main, "join") /\ joined' = 0
      BY <1>7, <2>3 DEF TestFinished
    <3>2. FirstRound' /\ JoinedDead' /\ ClosedQuiet'
      BY <1>2, <3>1 DEF FirstRound, JoinedDead, ClosedQuiet, Closing
    <3> QED BY <1>2, <1>3, <2>1, <3>1, <3>2 DEF EndInv
  <2> QED BY <2>2, <2>3
<1>8. CASE JoinActor
  <2>1. /\ UNCHANGED <<taskState, finishedTasks, actors, resume, pc>>
        /\ joined < Len(actors) /\ joined' = joined + 1
        /\ actors[joined + 1] # NullActor /\ pc[Compute(actors[joined + 1])] = "dead"
    BY <1>8 DEF JoinActor, graphVars, simVars
  <2>2. joined \in Nat /\ joined + 1 \in DOMAIN actors /\ actors[joined + 1] \in Tasks
    BY <1>1, <2>1 DEF MachinesInv, TypeInv, TypeOK, ProcTypeOK
  <2>3. \A i \in 1..joined' : i \in 1..joined \/ i = joined + 1
    BY <2>1, <2>2
  <2>4. JoinedDead'
    BY <2>1, <2>2, <2>3 DEF EndInv, JoinedDead
  <2>5. FirstRound' /\ ClosedQuiet'
    BY <2>1 DEF EndInv, FirstRound, ClosedQuiet, Closing
  <2> QED BY <1>3, <2>1, <2>4, <2>5 DEF EndInv
<1>9. CASE EndMainLoop \/ \E v \in VMs : PutTerminator(v) \/ JoinMailer(v)
  <2>1. /\ UNCHANGED <<taskState, finishedTasks, actors, resume>>
        /\ Closing /\ \E l \in {"shut", "closing", "dead"} : Goto(Main, l)
    BY <1>9 DEF EndMainLoop, PutTerminator, JoinMailer, Closing, graphVars, simVars
  <2>2. FirstRound' /\ JoinedDead' /\ ClosedQuiet'
    BY <1>2, <2>1 DEF EndInv, FirstRound, JoinedDead, ClosedQuiet, Closing
  <2> QED BY <1>2, <1>3, <2>1, <2>2 DEF EndInv
<1> QED
  BY <1>1, <1>4, <1>5, <1>6, <1>7, <1>8, <1>9, EndJobStep DEF MainStep

LEMMA EndNext == MachinesInv /\ FilesInv /\ EndInv /\ [Next]_vars => EndInv'
<1> SUFFICES ASSUME MachinesInv, FilesInv, EndInv, [Next]_vars PROVE EndInv'
  OBVIOUS
<1>1. CASE UNCHANGED vars \/ Ended
  BY <1>1, EndKept DEF Ended, vars, graphVars, simVars, procVars
<1>2. ASSUME NEW s \in moving, Arrive(s) PROVE EndInv'
  BY <1>2, EndKept DEF Arrive, graphVars, simVars, procVars
<1> QED
  BY <1>1, <1>2, EndMainStep, EndComputeStep, EndMailerStep DEF Next
-----------------------------------------------------------------------------
(* The handshake.  The holder of the mutex puts one request in the          *)
(* mailboxes of its one or two ends and waits for an answer from each; a    *)
(* mailbox that it did not ask is empty but for the terminator.             *)

\* Where the holder of the mutex is.
HolderAt == IF filesMutex = NoTask THEN "none" ELSE pc[Compute(filesMutex)]

\* The holder waits for mailer v to take its request or to be answered by it.
Asked(v) ==
    \/ HolderAt = "request" /\ v \in {cursor.spec.sender, cursor.spec.receiver}
    \/ HolderAt = "acks" /\ \E i \in DOMAIN cursor.acks : cursor.acks[i] = v

\* Mailer v has taken a request and has not answered yet.
Replying(v) ==
    \/ pc[Mailer(v)] = "ack"
    \/ pc[Mailer(v)] \in {"jobs", "create"} /\ resume[Mailer(v)] = "ack"

Killed(v) == pc[Mailer(v)] \in {"drain", "dead"}

AwaitsAnswer(v) ==
    \/ mbox[v] = <<Request(cursor.spec)>> /\ HolderAt = "request" /\ ~Replying(v)
    \/ mbox[v] = <<>> /\ (Replying(v) \/ Killed(v))
    \/ mbox[v] = <<Ack>> /\ pc[Mailer(v)] = "replied"

LeftAlone(v) ==
    /\ ~Replying(v)
    /\ \/ mbox[v] = <<>>
       \/ mbox[v] = <<Request(Terminator)>> /\ pc[Main] = "closing" /\ AtMachine(Main, v)

MailersComeBack == \A v \in VMs :
    /\ pc[Mailer(v)] \in {"none", "wait", "jobs", "create", "ack", "replied", "drain", "dead"}
    /\ resume[Mailer(v)] \in {"wait", "ack"}

AckedOnce == \A i, j \in DOMAIN cursor.acks : cursor.acks[i] = cursor.acks[j] => i = j

MailInv ==
    /\ MailersComeBack /\ AckedOnce
    /\ \A v \in VMs : IF Asked(v) THEN AwaitsAnswer(v) ELSE LeftAlone(v)

LEMMA MailInit == Init => MailInv
<1> SUFFICES ASSUME Init PROVE MailInv
  OBVIOUS
<1>1. /\ \A v \in VMs : /\ pc[Mailer(v)] = "none" /\ mbox[v] = <<>>
                        /\ resume[Mailer(v)] = "wait"
      /\ filesMutex = NoTask /\ cursor.acks = <<>>
  BY ProcsFacts DEF Init, Coordinators, NoCursor
<1>2. HolderAt = "none"
  BY <1>1 DEF HolderAt
<1> QED
  BY <1>1, <1>2 DEF MailInv, MailersComeBack, AckedOnce, Asked, LeftAlone, Replying

\* The holder is the one compute actor inside CheckReadyFiles.
LEMMA HolderFacts ==
    ASSUME MachinesInv, FilesInv
    PROVE  /\ \A t \in Tasks : pc[Compute(t)] \in AtFiles => filesMutex = t /\ HolderAt = pc[Compute(t)]
           /\ HolderAt \in AtFiles \cup {"none"}
           /\ HolderAt \in AtFiles => filesMutex \in Tasks
           /\ filesMutex \in Tasks => HolderAt = pc[Compute(filesMutex)]
<1>1. filesMutex \in Tasks \cup {NoTask} /\ NoTask \notin Tasks
  BY GraphAssumption DEF MachinesInv, TypeInv, TypeOK, ProcTypeOK, NoTask
<1> QED BY <1>1 DEF FilesInv, MutexHeld, HolderAt, AtFiles

\* A closing platform has no holder.
LEMMA ClosedFree ==
    ASSUME MachinesInv, FilesInv, EndInv, Closing
    PROVE  HolderAt = "none" /\ \A v : ~Asked(v)
<1>1. \A t \in Tasks : pc[Compute(t)] = "dead"
  BY DEF EndInv, ClosedQuiet
<1>2. HolderAt = "none"
  BY <1>1, HolderFacts DEF AtFiles
<1> QED BY <1>2 DEF Asked

\* Who holds the mutex, and where, after a step of another process.
LEMMA HolderStays ==
    ASSUME UNCHANGED filesMutex,
           filesMutex # NoTask => pc'[Compute(filesMutex)] = pc[Compute(filesMutex)]
    PROVE  HolderAt' = HolderAt
BY DEF HolderAt

\* A step that neither asks nor answers.
LEMMA MailKept ==
    ASSUME MailInv, MailersComeBack', AckedOnce', UNCHANGED mbox,
           \A v \in VMs : Asked(v)' <=> Asked(v),
           HolderAt = "request" => HolderAt' = "request" /\ cursor'.spec = cursor.spec,
           pc[Main] = "closing" => pc'[Main] = "closing" /\ todo'[Main] = todo[Main],
           \A v \in VMs : /\ Replying(v)' <=> Replying(v)
                          /\ Killed(v) => Killed(v)'
                          /\ mbox[v] = <<Ack>> /\ pc[Mailer(v)] = "replied" => pc'[Mailer(v)] = "replied"
    PROVE  MailInv'
<1>1. ASSUME NEW v \in VMs, Asked(v)' PROVE AwaitsAnswer(v)'
  <2>1. AwaitsAnswer(v)
    BY <1>1 DEF MailInv
  <2> QED BY <2>1 DEF AwaitsAnswer
<1>2. ASSUME NEW v \in VMs, ~Asked(v)' PROVE LeftAlone(v)'
  <2>1. LeftAlone(v)
    BY <1>2 DEF MailInv
  <2> QED BY <2>1 DEF LeftAlone, AtMachine
<1> QED BY <1>1, <1>2 DEF MailInv

\* A step that leaves the holder and the mailers where they are.
LEMMA MailUntouched ==
    ASSUME MailInv, HolderAt' = HolderAt, UNCHANGED <<mbox, cursor>>,
           pc[Main] = "closing" => pc'[Main] = "closing" /\ todo'[Main] = todo[Main],
           \A v \in VMs : pc'[Mailer(v)] = pc[Mailer(v)] /\ resume'[Mailer(v)] = resume[Mailer(v)]
    PROVE  MailInv'
<1>1. MailersComeBack' /\ AckedOnce'
  BY DEF MailInv, MailersComeBack, AckedOnce
<1>2. \A v \in VMs : (Asked(v)' <=> Asked(v)) /\ (Replying(v)' <=> Replying(v)) /\ (Killed(v) => Killed(v)')
  BY DEF Asked, Replying, Killed
<1> QED BY <1>1, <1>2, MailKept

\* The holder does not check for ready jobs, and nobody creates its actor.
LEMMA HolderNotAtJobs ==
    ASSUME MachinesInv, FilesInv, filesMutex # NoTask
    PROVE  filesMutex \in Tasks /\ pc[Compute(filesMutex)] \in AtFiles
BY DEF FilesInv, MutexHeld, MachinesInv, TypeInv, TypeOK, ProcTypeOK

LEMMA HolderJobStep ==
    ASSUME MachinesInv, FilesInv, NEW p \in Procs, JobStep(p)
    PROVE  HolderAt' = HolderAt /\ UNCHANGED <<mbox, cursor, resume>>
<1>1. UNCHANGED <<mbox, cursor, resume, filesMutex>> /\ pc \in [Procs -> Labels]
  BY DEF JobStep, NothingToStart, CheckReadyJobOnVM, CreateActor, JobsChecked,
         MachinesInv, TypeInv, TypeOK, ProcTypeOK
<1>2. ASSUME filesMutex # NoTask PROVE pc'[Compute(filesMutex)] = pc[Compute(filesMutex)]
  <2> DEFINE h == Compute(filesMutex)
  <2>1. filesMutex \in Tasks /\ pc[h] \in AtFiles /\ h \in Procs
    BY <1>2, HolderNotAtJobs, ProcsFacts
  <2>2. ASSUME NEW v \in VMs, NothingToStart(p, v) PROVE pc'[h] = pc[h]
    BY <2>2 DEF NothingToStart
  <2>3. ASSUME NEW v \in VMs, CheckReadyJobOnVM(p, v) PROVE pc'[h] = pc[h]
    BY <2>1, <2>3, HeadStarts DEF AtFiles
  <2>4. ASSUME NEW v \in VMs, CreateActor(p, v) PROVE pc'[h] = pc[h]
    BY <2>1, <2>4, ActorCreated DEF AtFiles
  <2>5. ASSUME JobsChecked(p) PROVE pc'[h] = pc[h]
    BY <1>1, <2>1, <2>5 DEF JobsChecked, Goto, AtFiles
  <2> QED BY <2>2, <2>3, <2>4, <2>5 DEF JobStep
<1> QED BY <1>1, <1>2, HolderStays

LEMMA MailJobStep ==
    ASSUME MachinesInv, FilesInv, EndInv, MailInv, NEW p \in Procs, JobStep(p) PROVE MailInv'
<1>1. HolderAt' = HolderAt /\ UNCHANGED <<mbox, cursor, resume>> /\ pc \in [Procs -> Labels]
  BY HolderJobStep DEF MachinesInv, TypeInv, TypeOK, ProcTypeOK
<1>2. p # Main /\ todo \in [Procs -> SUBSET VMs] => todo'[Main] = todo[Main]
  BY ProcsFacts
     DEF JobStep, NothingToStart, CheckReadyJobOnVM, CreateActor, JobsChecked, Visited, StartMachine
<1>3. pc[p] \in {"jobs", "create"}
  BY DEF JobStep, NothingToStart, CheckReadyJobOnVM, CreateActor, JobsChecked
<1>4. \A v \in VMs : /\ pc[Mailer(v)] \notin {"jobs", "create"} => pc'[Mailer(v)] = pc[Mailer(v)]
                     /\ pc[Mailer(v)] \in {"jobs", "create"} =>
                          pc'[Mailer(v)] \in {"jobs", "create", resume[Mailer(v)]}
                     /\ pc'[Mailer(v)] \in {"jobs", "create"} => pc[Mailer(v)] \in {"jobs", "create"}
  <2> SUFFICES ASSUME NEW v \in VMs
               PROVE  /\ pc[Mailer(v)] \notin {"jobs", "create"} => pc'[Mailer(v)] = pc[Mailer(v)]
                      /\ pc[Mailer(v)] \in {"jobs", "create"} =>
                           pc'[Mailer(v)] \in {"jobs", "create", resume[Mailer(v)]}
                      /\ pc'[Mailer(v)] \in {"jobs", "create"} => pc[Mailer(v)] \in {"jobs", "create"}
    OBVIOUS
  <2>0. Mailer(v) \in Procs /\ resume[Mailer(v)] \in {"wait", "ack"}
    BY ProcsFacts DEF MailInv, MailersComeBack
  <2>1. ASSUME NEW u \in VMs, NothingToStart(p, u) PROVE pc'[Mailer(v)] = pc[Mailer(v)]
    BY <2>1 DEF NothingToStart
  <2>2. ASSUME NEW u \in VMs, CheckReadyJobOnVM(p, u)
        PROVE  \/ pc'[Mailer(v)] = pc[Mailer(v)]
               \/ pc[Mailer(v)] = "jobs" /\ pc'[Mailer(v)] = "create"
    BY <2>0, <2>2, HeadStarts
  <2>3. ASSUME NEW u \in VMs, CreateActor(p, u)
        PROVE  \/ pc'[Mailer(v)] = pc[Mailer(v)]
               \/ pc[Mailer(v)] = "create" /\ pc'[Mailer(v)] = "jobs"
    BY <2>0, <2>3, ActorCreated, ProcsFacts
  <2>4. ASSUME JobsChecked(p)
        PROVE  \/ pc'[Mailer(v)] = pc[Mailer(v)]
               \/ pc[Mailer(v)] = "jobs" /\ pc'[Mailer(v)] = resume[Mailer(v)]
    BY <1>1, <2>0, <2>4 DEF JobsChecked, Goto
  <2>5. \/ pc'[Mailer(v)] = pc[Mailer(v)]
        \/ pc[Mailer(v)] = "jobs" /\ pc'[Mailer(v)] \in {"create", resume[Mailer(v)]}
        \/ pc[Mailer(v)] = "create" /\ pc'[Mailer(v)] = "jobs"
    BY <2>1, <2>2, <2>3, <2>4 DEF JobStep
  <2> QED BY <2>0, <2>5
<1>5. MailersComeBack' /\ AckedOnce'
  BY <1>1, <1>4 DEF MailInv, MailersComeBack, AckedOnce
<1>6. \A v \in VMs : /\ Asked(v)' <=> Asked(v)
                     /\ Replying(v)' <=> Replying(v)
                     /\ Killed(v) => Killed(v)'
                     /\ pc[Mailer(v)] = "replied" => pc'[Mailer(v)] = "replied"
  BY <1>1, <1>4 DEF Asked, Replying, Killed, MailInv, MailersComeBack
<1>7. ASSUME pc[Main] = "closing" PROVE pc'[Main] = "closing" /\ todo'[Main] = todo[Main]
  <2>1. p # Main
    BY <1>3, <1>7
  <2>2. ASSUME NEW u \in VMs, NothingToStart(p, u) PROVE pc'[Main] = pc[Main]
    BY <2>2 DEF NothingToStart
  <2>3. ASSUME NEW u \in VMs, CheckReadyJobOnVM(p, u) PROVE pc'[Main] = pc[Main]
    BY <2>1, <2>3, HeadStarts, ProcsFacts
  <2>4. ASSUME NEW u \in VMs, CreateActor(p, u) PROVE pc'[Main] = pc[Main]
    BY <2>1, <2>4, ActorCreated, ProcsFacts
  <2>5. ASSUME JobsChecked(p) PROVE pc'[Main] = pc[Main]
    BY <1>1, <2>1, <2>5, ProcsFacts DEF JobsChecked, Goto
  <2>6. pc'[Main] = pc[Main]
    BY <2>2, <2>3, <2>4, <2>5 DEF JobStep
  <2> QED BY <1>2, <1>7, <2>1, <2>6 DEF MachinesInv, TypeInv, TypeOK, ProcTypeOK
<1> QED BY <1>1, <1>5, <1>6, <1>7, MailKept

LEMMA OneMessage ==
    ASSUME NEW m \in Messages PROVE Append(<<>>, m) = <<m>> /\ Tail(<<m>>) = <<>>
OBVIOUS

\* A compute actor goes on; nobody waits for a mailer, before or after.
LEMMA MailNobodyAsks ==
    ASSUME MailInv, UNCHANGED mbox, AckedOnce',
           \A v \in VMs : ~Asked(v) /\ ~Asked(v)', HolderAt # "request",
           pc'[Main] = pc[Main], todo'[Main] = todo[Main],
           \A v \in VMs : pc'[Mailer(v)] = pc[Mailer(v)] /\ resume'[Mailer(v)] = resume[Mailer(v)]
    PROVE  MailInv'
<1>1. MailersComeBack'
  BY DEF MailInv, MailersComeBack
<1>2. \A v \in VMs : (Replying(v)' <=> Replying(v)) /\ (Killed(v) => Killed(v)')
  BY DEF Replying, Killed
<1> QED BY <1>1, <1>2, MailKept

LEMMA ComputeGoes ==
    ASSUME MachinesInv, NEW t \in Tasks, NEW l, Goto(Compute(t), l)
    PROVE  /\ pc'[Compute(t)] = l /\ pc'[Main] = pc[Main]
           /\ \A u \in Tasks : u # t => pc'[Compute(u)] = pc[Compute(u)]
           /\ \A v \in VMs : pc'[Mailer(v)] = pc[Mailer(v)]
<1>1. pc \in [Procs -> Labels]
  BY DEF MachinesInv, TypeInv, TypeOK, ProcTypeOK
<1> QED BY <1>1, ProcsFacts DEF Goto

LEMMA MailStartTransfer ==
    ASSUME MachinesInv, FilesInv, EndInv, MailInv, NEW t \in Tasks, NEW r \in Tasks,
           StartTransfer(t, r)
    PROVE  MailInv'
<1> DEFINE s == cursor'.spec
<1>1. /\ pc[Compute(t)] = "receivers" /\ Goto(Compute(t), "request")
      /\ UNCHANGED <<todo, resume, filesMutex>>
      /\ cursor'.acks = cursor.acks
      /\ mbox' = [v \in Coordinators |-> IF v \in {s.sender, s.receiver}
                                         THEN Append(mbox[v], Request(s)) ELSE mbox[v]]
  BY DEF StartTransfer, MachinesInv, TypeInv, TypeOK, ProcTypeOK, Cursors
<1>2. filesMutex = t /\ HolderAt = "receivers" /\ t # NoTask
  BY <1>1, HolderFacts, GraphAssumption DEF AtFiles, NoTask
<1>3. HolderAt' = "request"
  BY <1>1, <1>2, ComputeGoes DEF HolderAt
<1>4. ~Closing
  BY <1>1 DEF EndInv, ClosedQuiet
<1>5. \A v \in VMs : mbox[v] = <<>> /\ ~Replying(v)
  BY <1>2, <1>4 DEF MailInv, Asked, LeftAlone, Closing
<1>6. \A v \in VMs : /\ pc'[Mailer(v)] = pc[Mailer(v)]
                     /\ ~Replying(v)'
                     /\ v \in Coordinators
  BY <1>1, <1>5, ComputeGoes DEF Replying, Coordinators
<1>7. MailersComeBack' /\ AckedOnce'
  BY <1>1, <1>6 DEF MailInv, MailersComeBack, AckedOnce
<1>8. \A v \in VMs : mbox'[v] = IF v \in {s.sender, s.receiver} THEN <<Request(s)>> ELSE <<>>
  <2>1. Request(s) \in Messages
    BY TypeStartTransfer DEF StartTransfer, MachinesInv, TypeInv, TypeOK, ProcTypeOK, Cursors, Request, Messages
  <2> HIDE DEF s
  <2> QED BY <1>1, <1>5, <1>6, <2>1, OneMessage
<1>9. \A v \in VMs : Asked(v)' <=> v \in {s.sender, s.receiver}
  BY <1>3 DEF Asked
<1>10. \A v \in VMs : Asked(v)' => AwaitsAnswer(v)'
  BY <1>3, <1>6, <1>8, <1>9 DEF AwaitsAnswer
<1>11. \A v \in VMs : ~Asked(v)' => LeftAlone(v)'
  BY <1>6, <1>8, <1>9 DEF LeftAlone
<1> QED BY <1>7, <1>10, <1>11 DEF MailInv

LEMMA MailRequestTaken ==
    ASSUME MachinesInv, FilesInv, MailInv, NEW t \in Tasks, RequestTaken(t) PROVE MailInv'
<1> DEFINE s == cursor.spec
           q == IF s.sender = s.receiver THEN <<s.sender>> ELSE <<s.sender, s.receiver>>
<1>1. /\ pc[Compute(t)] = "request" /\ Goto(Compute(t), "acks")
      /\ UNCHANGED <<mbox, todo, resume, filesMutex>>
      /\ ~Holds(s.sender, Request(s)) /\ ~Holds(s.receiver, Request(s))
      /\ cursor'.acks = q
  BY DEF RequestTaken, MachinesInv, TypeInv, TypeOK, ProcTypeOK, Cursors
<1>2. filesMutex = t /\ HolderAt = "request" /\ t # NoTask
  BY <1>1, HolderFacts, GraphAssumption DEF AtFiles, NoTask
<1>3. HolderAt' = "acks"
  BY <1>1, <1>2, ComputeGoes DEF HolderAt
<1>4. \A v \in VMs : Asked(v) <=> v \in {s.sender, s.receiver}
  BY <1>2 DEF Asked
<1>5. /\ DOMAIN q = IF s.sender = s.receiver THEN {1} ELSE {1, 2}
      /\ q[1] = s.sender /\ (s.sender # s.receiver => q[2] = s.receiver)
  OBVIOUS
<1>6. \A v \in VMs : Asked(v)' <=> v \in {s.sender, s.receiver}
  <2> HIDE DEF q
  <2> QED BY <1>1, <1>3, <1>5 DEF Asked
<1>7. AckedOnce'
  <2>1. \A i, j \in DOMAIN q : q[i] = q[j] => i = j
    BY <1>5
  <2> QED BY <1>1, <2>1 DEF AckedOnce
<1>8. \A v \in VMs : /\ pc'[Mailer(v)] = pc[Mailer(v)]
                     /\ Replying(v)' <=> Replying(v)
                     /\ Killed(v)' <=> Killed(v)
  BY <1>1, ComputeGoes DEF Replying, Killed
<1>9. MailersComeBack'
  BY <1>1, <1>8 DEF MailInv, MailersComeBack
<1>10. ASSUME NEW v \in VMs, Asked(v) PROVE AwaitsAnswer(v)'
  <2>1. ~Holds(v, Request(s))
    BY <1>1, <1>4, <1>10
  <2>2. mbox[v] # <<Request(s)>>
    <3>1. mbox[v] = <<Request(s)>> => 1 \in DOMAIN mbox[v] /\ mbox[v][1] = Request(s)
      OBVIOUS
    <3> QED BY <2>1, <3>1 DEF Holds
  <2> QED BY <1>1, <1>8, <1>10, <2>2 DEF MailInv, AwaitsAnswer
<1>11. \A v \in VMs : ~Asked(v) => LeftAlone(v)'
  BY <1>1, <1>8, ComputeGoes DEF MailInv, LeftAlone, AtMachine
<1> QED BY <1>4, <1>6, <1>7, <1>9, <1>10, <1>11 DEF MailInv

LEMMA TailAcks ==
    ASSUME NEW q \in Seq(Coordinators), q # <<>>,
           \A i, j \in DOMAIN q : q[i] = q[j] => i = j
    PROVE  /\ Head(q) \in Coordinators /\ \E i \in DOMAIN q : q[i] = Head(q)
           /\ \A i, j \in DOMAIN Tail(q) : Tail(q)[i] = Tail(q)[j] => i = j
           /\ \A v : (\E i \in DOMAIN Tail(q) : Tail(q)[i] = v)
                       <=> v # Head(q) /\ \E i \in DOMAIN q : q[i] = v
<1>1. /\ Len(q) \in Nat \ {0} /\ DOMAIN q = 1..Len(q) /\ Head(q) = q[1] /\ q[1] \in Coordinators
      /\ DOMAIN Tail(q) = 1..(Len(q) - 1)
      /\ \A i \in 1..(Len(q) - 1) : Tail(q)[i] = q[i + 1]
  OBVIOUS
<1>2. ASSUME NEW v, v # Head(q), NEW i \in DOMAIN q, q[i] = v
      PROVE  \E j \in DOMAIN Tail(q) : Tail(q)[j] = v
  <2>1. i # 1 /\ i - 1 \in DOMAIN Tail(q) /\ (i - 1) + 1 = i
    BY <1>1, <1>2
  <2> QED BY <1>1, <1>2, <2>1
<1>3. ASSUME NEW i \in DOMAIN Tail(q)
      PROVE  i + 1 \in DOMAIN q /\ Tail(q)[i] = q[i + 1] /\ q[i + 1] # q[1]
  BY <1>1, <1>3
<1>4. \A i, j \in DOMAIN Tail(q) : Tail(q)[i] = Tail(q)[j] => i = j
  <2> SUFFICES ASSUME NEW i \in DOMAIN Tail(q), NEW j \in DOMAIN Tail(q), Tail(q)[i] = Tail(q)[j]
               PROVE  i = j
    OBVIOUS
  <2>1. i + 1 = j + 1
    BY <1>3
  <2> QED BY <1>1, <2>1
<1> QED BY <1>1, <1>2, <1>3, <1>4

LEMMA MailTakeAck ==
    ASSUME MachinesInv, FilesInv, MailInv, NEW t \in Tasks, TakeAck(t) PROVE MailInv'
<1>0. PICK c : c = Head(cursor.acks)
  OBVIOUS
<1>1. /\ pc[Compute(t)] = "acks" /\ cursor.acks \in Seq(Coordinators) /\ cursor.acks # <<>>
      /\ mbox[c] # <<>> /\ mbox' = [mbox EXCEPT ![c] = Tail(@)]
      /\ mbox \in [Coordinators -> Seq(Messages)]
      /\ cursor'.acks = Tail(cursor.acks)
      /\ UNCHANGED <<pc, todo, resume, filesMutex>>
  BY <1>0 DEF TakeAck, MachinesInv, TypeInv, TypeOK, ProcTypeOK, CommTypeOK, Cursors
<1>2. HolderAt = "acks" /\ HolderAt' = "acks"
  BY <1>1, HolderFacts DEF AtFiles, HolderAt
<1>3. /\ c \in Coordinators /\ AckedOnce'
      /\ c \in VMs => Asked(c)
      /\ \A v \in VMs : Asked(v)' <=> Asked(v) /\ v # c
  <2>0. \A i, j \in DOMAIN cursor.acks : cursor.acks[i] = cursor.acks[j] => i = j
    BY DEF MailInv, AckedOnce
  <2> DEFINE q == cursor.acks
  <2> HIDE DEF q
  <2>q. q \in Seq(Coordinators) /\ q # <<>> /\ \A i, j \in DOMAIN q : q[i] = q[j] => i = j
    BY <1>1, <2>0 DEF q
  <2>t. /\ Head(q) \in Coordinators /\ \E i \in DOMAIN q : q[i] = Head(q)
        /\ \A i, j \in DOMAIN Tail(q) : Tail(q)[i] = Tail(q)[j] => i = j
        /\ \A v : (\E i \in DOMAIN Tail(q) : Tail(q)[i] = v)
                    <=> v # Head(q) /\ \E i \in DOMAIN q : q[i] = v
    BY <2>q, TailAcks
  <2>c. c = Head(q) /\ cursor'.acks = Tail(q) /\ cursor.acks = q
    BY <1>0, <1>1 DEF q
  <2>1. \A v : (\E i \in DOMAIN cursor'.acks : cursor'.acks[i] = v)
                 <=> v # c /\ \E i \in DOMAIN cursor.acks : cursor.acks[i] = v
    BY <2>t, <2>c
  <2>2. c \in Coordinators /\ \E i \in DOMAIN cursor.acks : cursor.acks[i] = c
    BY <2>t, <2>c
  <2>3. \A i, j \in DOMAIN cursor'.acks : cursor'.acks[i] = cursor'.acks[j] => i = j
    BY <2>t, <2>c
  <2>4. AckedOnce'
    BY <2>3 DEF AckedOnce
  <2> QED BY <1>2, <2>1, <2>2, <2>4 DEF Asked
<1>4. \A v \in VMs : v # c => mbox'[v] = mbox[v]
  BY <1>1 DEF Coordinators
<1>5. \A v \in VMs : (Replying(v)' <=> Replying(v)) /\ (Killed(v)' <=> Killed(v))
  BY <1>1 DEF Replying, Killed
<1>6. MailersComeBack'
  BY <1>1 DEF MailInv, MailersComeBack
<1>7. ASSUME NEW v \in VMs, Asked(v), v # c PROVE AwaitsAnswer(v)'
  BY <1>1, <1>2, <1>4, <1>5, <1>7 DEF MailInv, AwaitsAnswer
<1>8. ASSUME NEW v \in VMs, ~Asked(v), v # c PROVE LeftAlone(v)'
  BY <1>1, <1>4, <1>5, <1>8 DEF MailInv, LeftAlone, AtMachine
<1>9. ASSUME c \in VMs PROVE LeftAlone(c)'
  <2>1. mbox[c] = <<Ack>> /\ pc[Mailer(c)] = "replied"
    BY <1>1, <1>2, <1>3, <1>9 DEF MailInv, AwaitsAnswer
  <2>2. mbox'[c] = <<>>
    BY <1>1, <1>3, <2>1, OneMessage DEF Ack, Messages, Specs
  <2>3. ~Replying(c)
    BY <2>1 DEF Replying
  <2> QED BY <1>5, <1>9, <2>2, <2>3 DEF LeftAlone
<1> QED BY <1>3, <1>6, <1>7, <1>8, <1>9 DEF MailInv

LEMMA MailComputeStep ==
    ASSUME MachinesInv, FilesInv, EndInv, MailInv, NEW t \in Tasks, ComputeStep(t) PROVE MailInv'
<1> USE DEF AtFiles
<1>1. Compute(t) \in Procs /\ Main \in Procs /\ Compute(t) # Main
  BY ProcsFacts
<1>2. ASSUME UNCHANGED <<mbox, cursor, resume, filesMutex>>, pc[Compute(t)] \notin AtFiles,
             todo'[Main] = todo[Main], NEW l, Goto(Compute(t), l)
      PROVE  MailInv'
  <2>1. filesMutex # NoTask => pc'[Compute(filesMutex)] = pc[Compute(filesMutex)]
    BY <1>2, HolderNotAtJobs, ComputeGoes
  <2> QED BY <1>2, <2>1, HolderStays, ComputeGoes, MailUntouched
<1>3. CASE DoExecute(t) \/ DoRefreshAfterTask(t)
  <2>1. todo'[Main] = todo[Main]
    BY <1>1, <1>3 DEF DoExecute, DoRefreshAfterTask, MachinesInv, TypeInv, TypeOK, ProcTypeOK
  <2> QED BY <1>2, <1>3, <2>1 DEF DoExecute, DoRefreshAfterTask
<1>4. ASSUME UNCHANGED <<mbox, resume, todo>>, AckedOnce', HolderAt \notin {"request", "acks"},
             HolderAt' \notin {"request", "acks"}, NEW l, Goto(Compute(t), l)
      PROVE  MailInv'
  BY <1>4, MailNobodyAsks, ComputeGoes DEF Asked
<1>5. cursor \in Cursors /\ t # NoTask
  BY GraphAssumption DEF MachinesInv, TypeInv, TypeOK, ProcTypeOK, NoTask
<1>6. CASE CheckReadyFiles(t)
  <2>1. /\ UNCHANGED <<mbox, resume, todo>> /\ Goto(Compute(t), "files") /\ filesMutex' = t
        /\ filesMutex = NoTask /\ cursor'.acks = <<>>
    BY <1>6 DEF CheckReadyFiles, NoCursor
  <2>2. HolderAt = "none" /\ HolderAt' = "files" /\ AckedOnce'
    BY <1>5, <2>1, ComputeGoes DEF HolderAt, AckedOnce
  <2> QED BY <1>4, <2>1, <2>2
<1>7. CASE NextFile(t) \/ FileStarted(t)
  <2>1. /\ UNCHANGED <<mbox, resume, todo, filesMutex>> /\ cursor'.acks = cursor.acks
        /\ pc[Compute(t)] \in {"files", "receivers"}
        /\ \E l \in {"files", "receivers"} : Goto(Compute(t), l)
    BY <1>5, <1>7 DEF NextFile, FileStarted, Cursors
  <2>2. filesMutex = t /\ HolderAt = pc[Compute(t)] /\ HolderAt' = pc'[Compute(t)] /\ AckedOnce'
    BY <1>5, <2>1, HolderFacts DEF HolderAt, MailInv, AckedOnce
  <2> QED BY <1>4, <2>1, <2>2, ComputeGoes
<1>8. CASE FilesChecked(t)
  <2>1. /\ UNCHANGED <<mbox, resume, todo>> /\ cursor'.acks = <<>> /\ filesMutex' = NoTask
        /\ pc[Compute(t)] = "files" /\ Goto(Compute(t), "dead")
    BY <1>8 DEF FilesChecked, NoCursor
  <2>2. HolderAt = "files" /\ HolderAt' = "none" /\ AckedOnce'
    BY <2>1, HolderFacts DEF HolderAt, AckedOnce
  <2> QED BY <1>4, <2>1, <2>2
<1>9. CASE TransferStarted(t)
  <2>1. /\ UNCHANGED <<mbox, resume, todo, filesMutex, cursor>> /\ cursor.acks = <<>>
        /\ pc[Compute(t)] = "acks" /\ Goto(Compute(t), "receivers")
    BY <1>9 DEF TransferStarted
  <2>2. filesMutex = t /\ HolderAt = "acks" /\ HolderAt' = "receivers"
    BY <1>5, <2>1, HolderFacts, ComputeGoes DEF HolderAt
  <2>3. (\A v : ~Asked(v) /\ ~Asked(v)') /\ AckedOnce'
    BY <2>1, <2>2 DEF Asked, AckedOnce
  <2> QED BY <2>1, <2>2, <2>3, MailNobodyAsks, ComputeGoes
<1> QED
  BY <1>1, <1>3, <1>6, <1>7, <1>8, <1>9, MailJobStep, MailStartTransfer, MailRequestTaken,
     MailTakeAck DEF ComputeStep

\* One mailer moves; the holder of the mutex and the main loop do not.
LEMMA MailerMoves ==
    ASSUME MachinesInv, NEW v \in VMs,
           pc' = pc \/ \E l : Goto(Mailer(v), l),
           resume' = resume \/ \E m : resume' = [resume EXCEPT ![Mailer(v)] = m],
           UNCHANGED filesMutex
    PROVE  /\ HolderAt' = HolderAt /\ pc'[Main] = pc[Main]
           /\ \A t \in Tasks : pc'[Compute(t)] = pc[Compute(t)]
           /\ \A u \in VMs : u # v => /\ pc'[Mailer(u)] = pc[Mailer(u)]
                                      /\ resume'[Mailer(u)] = resume[Mailer(u)]
<1>1. /\ pc \in [Procs -> Labels] /\ resume \in [Procs -> {"loop", "lock", "wait", "ack"}]
      /\ filesMutex \in Tasks \cup {NoTask}
  BY DEF MachinesInv, TypeInv, TypeOK, ProcTypeOK
<1>2. \A t \in Tasks : pc'[Compute(t)] = pc[Compute(t)]
  BY <1>1, ProcsFacts DEF Goto
<1> QED BY <1>1, <1>2, ProcsFacts, HolderStays DEF Goto

LEMMA MailOneMailer ==
    ASSUME MachinesInv, MailInv, NEW v \in VMs, HolderAt' = HolderAt, UNCHANGED cursor,
           pc'[Main] = pc[Main], todo'[Main] = todo[Main],
           \A u \in VMs : u # v => /\ pc'[Mailer(u)] = pc[Mailer(u)]
                                   /\ resume'[Mailer(u)] = resume[Mailer(u)]
                                   /\ mbox'[u] = mbox[u],
           pc'[Mailer(v)] \in {"none", "wait", "jobs", "ack", "replied", "drain", "dead"},
           resume'[Mailer(v)] \in {"wait", "ack"},
           IF Asked(v) THEN AwaitsAnswer(v)' ELSE LeftAlone(v)'
    PROVE  MailInv'
<1>1. MailersComeBack' /\ AckedOnce'
  BY DEF MailInv, MailersComeBack, AckedOnce
<1>2. \A u \in VMs : Asked(u)' <=> Asked(u)
  BY DEF Asked
<1>3. \A u \in VMs : u # v => (Replying(u)' <=> Replying(u)) /\ (Killed(u)' <=> Killed(u))
  BY DEF Replying, Killed
<1>4. ASSUME NEW u \in VMs, u # v, Asked(u) PROVE AwaitsAnswer(u)'
  BY <1>3, <1>4 DEF MailInv, AwaitsAnswer
<1>5. ASSUME NEW u \in VMs, u # v, ~Asked(u) PROVE LeftAlone(u)'
  BY <1>3, <1>5 DEF MailInv, LeftAlone, AtMachine
<1> QED BY <1>1, <1>2, <1>4, <1>5 DEF MailInv

\* What a waiting mailer reads: the request it was asked by, or the terminator.
LEMMA IncomingIs ==
    ASSUME MachinesInv, MailInv, NEW v \in VMs, Incoming(v)
    PROVE  /\ pc[Mailer(v)] = "wait" /\ mbox'[v] = <<>>
           /\ \A u \in Coordinators : u # v => mbox'[u] = mbox[u]
           /\ \/ /\ Asked(v) /\ HolderAt = "request" /\ mbox[v] = <<Request(cursor.spec)>>
                 /\ Received(v) = cursor.spec
              \/ /\ ~Asked(v) /\ pc[Main] = "closing" /\ mbox[v] = <<Request(Terminator)>>
                 /\ Received(v) = Terminator
<1>1. /\ pc[Mailer(v)] = "wait" /\ mbox[v] # <<>> /\ mbox' = [mbox EXCEPT ![v] = Tail(@)]
      /\ mbox \in [Coordinators -> Seq(Messages)] /\ v \in Coordinators /\ cursor.spec \in Specs
      /\ ~Replying(v) /\ ~Killed(v)
  BY DEF Incoming, MachinesInv, TypeInv, TypeOK, ProcTypeOK, CommTypeOK, Cursors, Coordinators,
         Replying, Killed
<1>2. \/ Asked(v) /\ HolderAt = "request" /\ mbox[v] = <<Request(cursor.spec)>>
      \/ ~Asked(v) /\ pc[Main] = "closing" /\ mbox[v] = <<Request(Terminator)>>
  BY <1>1 DEF MailInv, AwaitsAnswer, LeftAlone
<1>3. \A s \in Specs : /\ Request(s) \in Messages
                       /\ Head(<<Request(s)>>).spec = s
  BY DEF Request, Messages
<1>4. Terminator \in Specs
  BY DEF Specs
<1>5. mbox'[v] = <<>>
  BY <1>1, <1>2, <1>3, <1>4, OneMessage
<1>6. \A u \in Coordinators : u # v => mbox'[u] = mbox[u]
  BY <1>1
<1> QED BY <1>1, <1>2, <1>3, <1>4, <1>5, <1>6 DEF Received

LEMMA MailIncoming ==
    ASSUME MachinesInv, FilesInv, EndInv, MailInv, NEW v \in VMs, Incoming(v),
           UNCHANGED <<filesMutex, cursor>>, todo'[Main] = todo[Main],
           NEW l \in {"drain", "jobs", "ack"}, Goto(Mailer(v), l),
           IF l = "jobs" THEN resume' = [resume EXCEPT ![Mailer(v)] = "ack"]
                         ELSE UNCHANGED resume,
           Received(v) = Terminator => l = "drain"
    PROVE  MailInv'
<1>1. /\ pc'[Mailer(v)] = l
      /\ resume'[Mailer(v)] = IF l = "jobs" THEN "ack" ELSE resume[Mailer(v)]
  BY ProcsFacts DEF Goto, MachinesInv, TypeInv, TypeOK, ProcTypeOK
<1>2. resume'[Mailer(v)] \in {"wait", "ack"}
  BY <1>1 DEF MailInv, MailersComeBack
<1>3. /\ HolderAt' = HolderAt /\ pc'[Main] = pc[Main]
      /\ \A u \in VMs : u # v => /\ pc'[Mailer(u)] = pc[Mailer(u)]
                                 /\ resume'[Mailer(u)] = resume[Mailer(u)]
                                 /\ mbox'[u] = mbox[u]
  BY MailerMoves, IncomingIs DEF Coordinators
<1>4. IF Asked(v) THEN AwaitsAnswer(v)' ELSE LeftAlone(v)'
  BY <1>1, IncomingIs DEF AwaitsAnswer, LeftAlone, Replying, Killed
<1> QED BY <1>1, <1>2, <1>3, <1>4, MailOneMailer

LEMMA MailMailerStep ==
    ASSUME MachinesInv, FilesInv, EndInv, MailInv, NEW v \in VMs, MailerStep(v) PROVE MailInv'
<1>1. /\ Mailer(v) \in Procs /\ Mailer(v) # Main /\ Main \in Procs /\ v \in Coordinators
      /\ pc \in [Procs -> Labels] /\ todo \in [Procs -> SUBSET VMs]
      /\ resume \in [Procs -> {"loop", "lock", "wait", "ack"}]
      /\ mbox \in [Coordinators -> Seq(Messages)]
  BY ProcsFacts
     DEF MachinesInv, TypeInv, TypeOK, ProcTypeOK, CommTypeOK, Coordinators
<1>2. resume[Mailer(v)] \in {"wait", "ack"}
  BY DEF MailInv, MailersComeBack
<1>3. ASSUME NEW s, FirstEndReported(v, s) PROVE MailInv'
  BY <1>3, MailUntouched, HolderStays DEF FirstEndReported, procVars
<1>4. ASSUME NEW s, SecondEndReported(v, s) PROVE MailInv'
  <2>1. /\ pc[Mailer(v)] = "wait" /\ Goto(Mailer(v), "jobs")
        /\ resume' = [resume EXCEPT ![Mailer(v)] = "wait"]
        /\ UNCHANGED <<cursor, filesMutex, mbox>> /\ todo'[Main] = todo[Main]
    BY <1>1, <1>4 DEF SecondEndReported
  <2>2. pc'[Mailer(v)] = "jobs" /\ resume'[Mailer(v)] = "wait"
    BY <1>1, <2>1 DEF Goto
  <2>3. ~Replying(v) /\ ~Replying(v)' /\ ~Killed(v)
    BY <2>1, <2>2 DEF Replying, Killed
  <2>4. HolderAt' = HolderAt /\ pc'[Main] = pc[Main]
    BY <2>1, MailerMoves
  <2>5. IF Asked(v) THEN AwaitsAnswer(v)' ELSE LeftAlone(v)'
    BY <2>1, <2>3, <2>4 DEF MailInv, AwaitsAnswer, LeftAlone, AtMachine
  <2> QED BY <2>1, <2>2, <2>4, <2>5, MailerMoves, MailOneMailer
<1>5. CASE KillMailer(v)
  BY <1>1, <1>5, MailIncoming DEF KillMailer
<1>6. ASSUME Received(v) = Terminator PROVE Received(v).receiver = NoVM /\ Received(v).sender = NoVM
  BY <1>6 DEF Terminator
<1>7. NoVM \notin VMs
  BY PlatformAssumption DEF NoVM
<1>8. CASE LocalTransfer(v)
  <2>1. todo'[Main] = todo[Main]
    BY <1>1, <1>8 DEF LocalTransfer
  <2> QED BY <1>6, <1>8, <2>1, MailIncoming DEF LocalTransfer
<1>9. CASE BeginReceiving(v) \/ BeginSending(v)
  BY <1>6, <1>7, <1>9, MailIncoming DEF BeginReceiving, BeginSending
<1>10. CASE PutAck(v)
  <2>1. /\ pc[Mailer(v)] = "ack" /\ Goto(Mailer(v), "replied") /\ UNCHANGED <<todo, resume, filesMutex, cursor>>
        /\ mbox' = [mbox EXCEPT ![v] = Append(@, Ack)]
    BY <1>10 DEF PutAck
  <2>2. Replying(v) /\ pc'[Mailer(v)] = "replied" /\ ~Killed(v)
    BY <1>1, <2>1 DEF Replying, Goto, Killed
  <2>3. Asked(v) /\ mbox[v] = <<>>
    BY <2>1, <2>2 DEF MailInv, AwaitsAnswer, LeftAlone
  <2>4. Ack \in Messages
    BY DEF Ack, Messages, Specs
  <2>5. mbox'[v] = <<Ack>> /\ \A u \in VMs : u # v => mbox'[u] = mbox[u]
    BY <1>1, <2>1, <2>3, <2>4, OneMessage DEF Coordinators
  <2>6. AwaitsAnswer(v)'
    BY <2>2, <2>5 DEF AwaitsAnswer
  <2> QED BY <1>2, <2>1, <2>2, <2>3, <2>5, <2>6, MailerMoves, MailOneMailer
<1>11. CASE AckTaken(v)
  <2>1. /\ pc[Mailer(v)] = "replied" /\ Goto(Mailer(v), "wait") /\ ~Holds(v, Ack)
        /\ UNCHANGED <<mbox, todo, resume, filesMutex, cursor>>
    BY <1>11 DEF AckTaken
  <2>2. pc'[Mailer(v)] = "wait" /\ ~Replying(v) /\ ~Killed(v) /\ ~Replying(v)'
    BY <1>1, <2>1 DEF Replying, Goto, Killed
  <2>3. mbox[v] # <<Ack>>
    <3>1. mbox[v] = <<Ack>> => 1 \in DOMAIN mbox[v] /\ mbox[v][1] = Ack
      OBVIOUS
    <3> QED BY <2>1, <3>1 DEF Holds
  <2>4. HolderAt' = HolderAt /\ pc'[Main] = pc[Main]
    BY <2>1, MailerMoves
  <2>5. IF Asked(v) THEN AwaitsAnswer(v)' ELSE LeftAlone(v)'
    BY <2>1, <2>2, <2>3, <2>4 DEF MailInv, AwaitsAnswer, LeftAlone, AtMachine
  <2> QED BY <1>2, <2>1, <2>2, <2>4, <2>5, MailerMoves, MailOneMailer
<1>12. CASE Drain(v)
  <2>1. /\ pc[Mailer(v)] = "drain" /\ Goto(Mailer(v), "dead")
        /\ UNCHANGED <<mbox, todo, resume, filesMutex, cursor>>
    BY <1>12 DEF Drain
  <2>2. pc'[Mailer(v)] = "dead" /\ ~Replying(v) /\ Killed(v)' /\ ~Replying(v)'
    BY <1>1, <2>1 DEF Replying, Goto, Killed
  <2>3. HolderAt' = HolderAt /\ pc'[Main] = pc[Main]
    BY <2>1, MailerMoves
  <2>4. IF Asked(v) THEN AwaitsAnswer(v)' ELSE LeftAlone(v)'
    BY <2>1, <2>2, <2>3 DEF MailInv, AwaitsAnswer, LeftAlone, AtMachine
  <2> QED BY <1>2, <2>1, <2>2, <2>3, <2>4, MailerMoves, MailOneMailer
<1> QED
  BY <1>1, <1>3, <1>4, <1>5, <1>8, <1>9, <1>10, <1>11, <1>12, MailJobStep DEF MailerStep

LEMMA MailMainStep ==
    ASSUME MachinesInv, FilesInv, EndInv, MailInv, MainStep PROVE MailInv'
<1>1. Main \in Procs /\ pc \in [Procs -> Labels] /\ mbox \in [Coordinators -> Seq(Messages)]
  BY ProcsFacts DEF MachinesInv, TypeInv, TypeOK, ProcTypeOK, CommTypeOK
<1>2. ASSUME NEW l, Goto(Main, l), UNCHANGED filesMutex
      PROVE  /\ pc'[Main] = l /\ HolderAt' = HolderAt
             /\ \A v \in VMs : pc'[Mailer(v)] = pc[Mailer(v)]
  <2>1. filesMutex # NoTask => pc'[Compute(filesMutex)] = pc[Compute(filesMutex)]
    BY <1>1, <1>2, HolderNotAtJobs, ProcsFacts DEF Goto
  <2> QED BY <1>1, <1>2, <2>1, HolderStays, ProcsFacts DEF Goto
<1>3. ASSUME UNCHANGED <<mbox, cursor, resume, filesMutex>>, pc[Main] # "closing",
             pc' = pc \/ \E l : Goto(Main, l)
      PROVE  MailInv'
  BY <1>2, <1>3, MailUntouched, HolderStays
<1>4. CASE ResetSchedule \/ BeginMainLoop \/ TestFinished \/ JoinActor \/ EndMainLoop
  BY <1>3, <1>4 DEF ResetSchedule, BeginMainLoop, TestFinished, JoinActor, EndMainLoop
<1>5. ASSUME NEW v \in VMs, AssignTask(v) \/ AssignedAll(v) PROVE MailInv'
  BY <1>3, <1>5 DEF AssignTask, AssignedAll, procVars
<1>6. ASSUME NEW v \in VMs, BuyVM(v) PROVE MailInv'
  <2>1. Setup /\ UNCHANGED <<mbox, cursor, resume, filesMutex>> /\ pc[Main] = "buy"
    BY <1>6 DEF BuyVM, Setup
  <2>2. /\ filesMutex = NoTask
        /\ \A u \in VMs : pc[Mailer(u)] \in {"none", "wait"} /\ mbox[u] = <<>>
    BY <2>1, SetupIdle, HolderNotAtJobs DEF MachinesInv, QuietSetup, AtFiles
  <2>3. \A u \in VMs : pc'[Mailer(u)] \in {"none", "wait"}
    BY <1>1, <1>6, <2>2, ProcsFacts DEF BuyVM
  <2>4. HolderAt' = HolderAt /\ HolderAt = "none"
    BY <2>1, <2>2 DEF HolderAt
  <2>5. (\A u \in VMs : LeftAlone(u)' /\ ~Asked(u)') /\ MailersComeBack' /\ AckedOnce'
    BY <2>1, <2>2, <2>3, <2>4
       DEF LeftAlone, Asked, Replying, MailersComeBack, AckedOnce, MailInv
  <2> QED BY <2>5 DEF MailInv
<1>7. ASSUME NEW v \in VMs, PutTerminator(v) PROVE MailInv'
  <2>1. /\ pc[Main] = "shut" /\ AtMachine(Main, v) /\ Goto(Main, "closing")
        /\ mbox' = [mbox EXCEPT ![v] = Append(@, Request(Terminator))]
        /\ UNCHANGED <<todo, resume, cursor, filesMutex>>
    BY <1>7 DEF PutTerminator
  <2>2. HolderAt = "none" /\ \A u : ~Asked(u)
    BY <2>1, ClosedFree DEF Closing
  <2>3. \A u \in VMs : mbox[u] = <<>> /\ ~Replying(u)
    BY <2>1, <2>2 DEF MailInv, LeftAlone
  <2>4. /\ pc'[Main] = "closing" /\ HolderAt' = "none"
        /\ \A u \in VMs : pc'[Mailer(u)] = pc[Mailer(u)]
    BY <1>2, <2>1, <2>2
  <2>5. Request(Terminator) \in Messages /\ AtMachine(Main, v)'
    BY <2>1 DEF Request, Messages, Specs, AtMachine
  <2>6. \A u \in VMs : mbox'[u] = IF u = v THEN <<Request(Terminator)>> ELSE <<>>
    BY <1>1, <2>1, <2>3, <2>5, OneMessage DEF Coordinators
  <2>7. \A u \in VMs : ~Replying(u)' /\ ~Asked(u)'
    BY <2>1, <2>3, <2>4 DEF Replying, Asked
  <2>8. MailersComeBack' /\ AckedOnce'
    BY <2>1, <2>4 DEF MailInv, MailersComeBack, AckedOnce
  <2>9. \A u \in VMs : LeftAlone(u)'
    BY <2>4, <2>5, <2>6, <2>7 DEF LeftAlone
  <2> QED BY <2>7, <2>8, <2>9 DEF MailInv
<1>8. ASSUME NEW v \in VMs, JoinMailer(v) PROVE MailInv'
  <2>1. /\ pc[Main] = "closing" /\ AtMachine(Main, v) /\ Goto(Main, "shut")
        /\ ~Holds(v, Request(Terminator)) /\ UNCHANGED <<mbox, resume, cursor, filesMutex>>
    BY <1>8 DEF JoinMailer
  <2>2. HolderAt = "none" /\ \A u : ~Asked(u)
    BY <2>1, ClosedFree DEF Closing
  <2>3. \A u \in VMs : AtMachine(Main, u) => u = v
    BY <2>1, PlatformAssumption DEF AtMachine
  <2>4. mbox[v] # <<Request(Terminator)>>
    <3>1. mbox[v] = <<Request(Terminator)>> => 1 \in DOMAIN mbox[v] /\ mbox[v][1] = Request(Terminator)
      OBVIOUS
    <3> QED BY <2>1, <3>1 DEF Holds
  <2>5. \A u \in VMs : mbox[u] = <<>> /\ ~Replying(u)
    BY <2>2, <2>3, <2>4 DEF MailInv, LeftAlone
  <2>6. HolderAt' = "none" /\ \A u \in VMs : pc'[Mailer(u)] = pc[Mailer(u)]
    BY <1>2, <2>1, <2>2
  <2>7. \A u \in VMs : LeftAlone(u)' /\ ~Asked(u)'
    BY <2>1, <2>5, <2>6 DEF Replying, Asked, LeftAlone
  <2>8. MailersComeBack' /\ AckedOnce'
    BY <2>1, <2>6 DEF MailInv, MailersComeBack, AckedOnce
  <2> QED BY <2>7, <2>8 DEF MailInv
<1> QED
  BY <1>1, <1>4, <1>5, <1>6, <1>7, <1>8, MailJobStep DEF MainStep

LEMMA MailNext == MachinesInv /\ FilesInv /\ EndInv /\ MailInv /\ [Next]_vars => MailInv'
<1> SUFFICES ASSUME MachinesInv, FilesInv, EndInv, MailInv, [Next]_vars PROVE MailInv'
  OBVIOUS
<1>1. CASE UNCHANGED vars \/ Ended
  BY <1>1, MailUntouched, HolderStays DEF Ended, vars, procVars
<1>2. ASSUME NEW s \in moving, Arrive(s) PROVE MailInv'
  BY <1>2, MailUntouched, HolderStays DEF Arrive, procVars
<1> QED
  BY <1>1, <1>2, MailMainStep, MailComputeStep, MailMailerStep DEF Next

(***************************************************************************)
(* Requests and answers never cross in the mailbox they share, for every   *)
(* workflow, platform and schedule: a mailbox holds at most one message, a *)
(* waiting mailer never finds an answer there, nor StartTransfer a request *)
(* where it reads its answer.                                              *)
(***************************************************************************)
THEOREM SimulatorNoCrossTalk == Spec => []NoCrossTalk
<1>1. MachinesInv /\ FilesInv /\ MailInv => NoCrossTalk
  <2> SUFFICES ASSUME MachinesInv, FilesInv, MailInv, NEW v \in VMs
               PROVE  /\ Len(mbox[v]) <= 1
                      /\ pc[Mailer(v)] = "wait" => ~Holds(v, Ack)
                      /\ \A t \in Tasks : pc[Compute(t)] = "acks" /\ cursor.acks # <<>>
                                          /\ Head(cursor.acks) = v
                                            => Holds(v, Ack) \/ mbox[v] = <<>>
    BY DEF NoCrossTalk
  <2>1. \/ mbox[v] = <<>>
        \/ mbox[v] = <<Ack>> /\ pc[Mailer(v)] = "replied"
        \/ mbox[v] = <<Request(cursor.spec)>> /\ HolderAt = "request"
        \/ mbox[v] = <<Request(Terminator)>> /\ ~Asked(v)
    BY DEF MailInv, AwaitsAnswer, LeftAlone
  <2>2. \A s : Request(s) # Ack
    BY DEF Request, Ack
  <2>3. ASSUME NEW m, mbox[v] = <<m>> PROVE Len(mbox[v]) = 1 /\ \A k : Holds(v, k) <=> k = m
    BY <2>3 DEF Holds
  <2>4. mbox[v] = <<>> => Len(mbox[v]) = 0 /\ \A k : ~Holds(v, k)
    BY DEF Holds
  <2>5. ASSUME NEW t \in Tasks, pc[Compute(t)] = "acks", cursor.acks # <<>>, Head(cursor.acks) = v
        PROVE  HolderAt = "acks" /\ Asked(v)
    <3>1. HolderAt = "acks"
      BY <2>5, HolderFacts DEF AtFiles
    <3>2. cursor.acks \in Seq(Coordinators)
      BY DEF MachinesInv, TypeInv, TypeOK, ProcTypeOK, Cursors
    <3>3. 1 \in DOMAIN cursor.acks /\ cursor.acks[1] = v
      BY <2>5, <3>2
    <3> QED BY <3>1, <3>3 DEF Asked
  <2>6. CASE mbox[v] = <<>>
    BY <2>4, <2>6
  <2>7. CASE mbox[v] = <<Ack>> /\ pc[Mailer(v)] = "replied"
    BY <2>3, <2>7
  <2>8. CASE mbox[v] = <<Request(cursor.spec)>> /\ HolderAt = "request"
    BY <2>2, <2>3, <2>5, <2>8
  <2>9. CASE mbox[v] = <<Request(Terminator)>> /\ ~Asked(v)
    BY <2>2, <2>3, <2>5, <2>9
  <2> QED BY <2>1, <2>6, <2>7, <2>8, <2>9
<1> QED
  BY <1>1, MachinesInit, MachinesNext, FilesInit, FilesNext, EndInit, EndNext, MailInit, MailNext,
     PTL DEF Spec
-----------------------------------------------------------------------------
(* A transfer on its way.  It is named by its file and its receiver, starts  *)
(* while the holder of the mutex hands out the file, and is then in one      *)
(* place: between the two mailboxes, moving, or arrived and half reported.   *)

Handing == {"receivers", "request", "acks"}

\* The one transfer that brings file f to task r.
Trip(f, r) == [sender |-> hostOf[Author[f]], receiver |-> hostOf[r], task |-> r, file |-> f]

Travels(s) == s \in moving \/ s \in transfers \/ \E a \in arrived : a[2] = s

\* The transfer of f to r has been asked for.
Started(f, r) ==
    \/ fileState[f] = "TRANSFERING"
    \/ HolderAt \in Handing /\ cursor.file = f /\ r \notin cursor.receivers

Due(f, r) == r \in Receivers[f] /\ Author[f] # NoTask /\ Started(f, r)

\* The holder hands out ready files only, the next one as well.
HandsOutReady ==
    /\ HolderAt \in AtFiles /\ cursor.iter # NoFile =>
          /\ cursor.iter \in readyFiles
          /\ HolderAt \in Handing => cursor.iter # cursor.file
    /\ HolderAt \in Handing =>
          /\ cursor.file \in readyFiles
          /\ cursor.receivers \subseteq Receivers[cursor.file]

Pending(v) == Holds(v, Request(cursor.spec))

\* What is asked for is new as long as a mailer has not heard of it.
RequestNew ==
    HolderAt = "request" =>
        /\ cursor.spec.task \in Receivers[cursor.file] \ cursor.receivers
        /\ cursor.spec = Trip(cursor.file, cursor.spec.task)
        /\ Pending(cursor.spec.sender) \/ Pending(cursor.spec.receiver) =>
              ~Travels(cursor.spec) /\ <<cursor.file, cursor.spec.task>> \notin delivered

TravelsOnce ==
    \A s \in Deliverable :
        Travels(s) => /\ s = Trip(s.file, s.task) /\ s.sender # s.receiver
                      /\ Due(s.file, s.task) /\ <<s.file, s.task>> \notin delivered

DeliveredStarted == \A f \in Files, r \in Tasks : <<f, r>> \in delivered => Due(f, r)

OnePlace ==
    /\ \A s \in moving : s \notin transfers /\ \A a \in arrived : a[2] # s
    /\ \A s \in transfers : ~({<<s.sender, s>>, <<s.receiver, s>>} \subseteq arrived)
    /\ \A a \in arrived : EndOf(a[1], a[2])

\* One end of the transfer between machines that is asked for waits for the
\* other at the mailbox of the receiver: no other transfer does.
Between(u) == HolderAt = "request" /\ u = cursor.spec.receiver /\ u # cursor.spec.sender

Unmatched ==
    \A u \in VMs :
        /\ unmatchedPut[u] = IF Between(u) /\ Pending(u) /\ ~Pending(cursor.spec.sender)
                             THEN <<cursor.spec>> ELSE <<>>
        /\ unmatchedGet[u] = IF Between(u) /\ ~Pending(u) /\ Pending(cursor.spec.sender)
                             THEN 1 ELSE 0

\* An end that was not reported is still there, unless its mailer has ended.
BothEnds ==
    (\A v \in VMs : pc[Mailer(v)] # "dead") =>
        /\ \A s \in transfers : <<s.sender, s>> \in arrived \/ <<s.receiver, s>> \in arrived
        /\ \A a \in arrived : a[2] \notin transfers =>
              {<<a[2].sender, a[2]>>, <<a[2].receiver, a[2]>>} \subseteq arrived

NothingReported == Setup => transfers = {}

TransferInv ==
    /\ HandsOutReady /\ RequestNew /\ TravelsOnce /\ DeliveredStarted /\ OnePlace /\ Unmatched
    /\ BothEnds /\ NothingReported

LEMMA TransferInit == Init => TransferInv
<1> SUFFICES ASSUME Init PROVE TransferInv
  OBVIOUS
<1>1. /\ filesMutex = NoTask /\ moving = {} /\ arrived = {} /\ transfers = {} /\ delivered = {}
      /\ \A v \in VMs : unmatchedPut[v] = <<>> /\ unmatchedGet[v] = 0
  BY DEF Init, GraphInit
<1>2. HolderAt = "none"
  BY <1>1 DEF HolderAt
<1> QED
  BY <1>1, <1>2
     DEF TransferInv, HandsOutReady, RequestNew, TravelsOnce, DeliveredStarted, OnePlace, Unmatched,
         BothEnds, NothingReported, Travels, Between, AtFiles, Handing

\* A step that starts no transfer and brings none on.
LEMMA TransferKept ==
    ASSUME TransferInv, HandsOutReady', Setup' => Setup,
           UNCHANGED <<hostOf, moving, transfers, arrived, delivered, unmatchedPut, unmatchedGet>>,
           \A f \in Files, r \in Tasks : Due(f, r) => Due(f, r)',
           HolderAt' = "request" <=> HolderAt = "request",
           HolderAt = "request" =>
              UNCHANGED cursor /\ \A v \in Coordinators : Pending(v)' => Pending(v),
           HolderAt = "request" =>
              \A u \in VMs : Between(u) => /\ Pending(u)' <=> Pending(u)
                                           /\ Pending(cursor.spec.sender)' <=> Pending(cursor.spec.sender),
           HolderAt = "request" => cursor.spec.sender \in Coordinators /\ cursor.spec.receiver \in Coordinators,
           \A v \in VMs : pc[Mailer(v)] = "dead" => pc'[Mailer(v)] = "dead"
    PROVE  TransferInv'
<1>1. \A s : Travels(s)' <=> Travels(s)
  BY DEF Travels
<1>2. RequestNew'
  BY <1>1 DEF TransferInv, RequestNew, Trip
<1>3. TravelsOnce'
  BY <1>1 DEF TransferInv, TravelsOnce, Trip, Deliverable
<1>4. DeliveredStarted'
  BY DEF TransferInv, DeliveredStarted
<1>5. OnePlace' /\ BothEnds' /\ NothingReported'
  BY DEF TransferInv, OnePlace, BothEnds, NothingReported
<1>6. \A u \in VMs : Between(u)' <=> Between(u)
  BY DEF Between
<1>7. Unmatched'
  <2> SUFFICES ASSUME NEW u \in VMs
               PROVE  /\ unmatchedPut[u] = IF Between(u)' /\ Pending(u)' /\ ~Pending(cursor.spec.sender)'
                                           THEN <<cursor'.spec>> ELSE <<>>
                      /\ unmatchedGet[u] = IF Between(u)' /\ ~Pending(u)' /\ Pending(cursor.spec.sender)'
                                           THEN 1 ELSE 0
    BY DEF Unmatched
  <2>1. CASE ~Between(u)
    BY <1>6, <2>1 DEF TransferInv, Unmatched
  <2>2. CASE Between(u)
    <3>1. HolderAt = "request"
      BY <2>2 DEF Between
    <3>2. UNCHANGED cursor /\ (Pending(u)' <=> Pending(u))
          /\ (Pending(cursor.spec.sender)' <=> Pending(cursor.spec.sender))
      BY <2>2, <3>1
    <3> QED BY <1>6, <2>2, <3>2 DEF TransferInv, Unmatched
  <2> QED BY <2>1, <2>2
<1> QED BY <1>2, <1>3, <1>4, <1>5, <1>7 DEF TransferInv

\* What is asked for goes to mailboxes there are.
LEMMA AskedEnds ==
    ASSUME MachinesInv, TransferInv, FilesInv, HolderAt = "request"
    PROVE  /\ cursor.file \in Files /\ Author[cursor.file] \in Tasks
           /\ cursor.spec.task \in Tasks /\ cursor.spec.file = cursor.file
           /\ cursor.spec.sender \in Coordinators /\ cursor.spec.receiver \in Coordinators
           /\ cursor.spec.sender = hostOf[Author[cursor.file]]
           /\ cursor.spec.receiver = hostOf[cursor.spec.task]
           /\ Due(cursor.file, cursor.spec.task)
           /\ cursor.spec \in Transfers
<1>1. /\ cursor.file \in readyFiles /\ cursor.file \in Files
      /\ cursor.spec = Trip(cursor.file, cursor.spec.task)
      /\ cursor.spec.task \in Receivers[cursor.file] \ cursor.receivers
  BY DEF TransferInv, HandsOutReady, RequestNew, Handing, MachinesInv, TypeInv, TypeOK, GraphTypeOK
<1>2. Author[cursor.file] # NoTask
  BY <1>1 DEF MachinesInv, TypeInv, FilesAuthored
<1>3. Author[cursor.file] \in Tasks
  BY <1>1, <1>2, AuthorWrites
<1>4. cursor.spec.task \in Tasks
  BY <1>1 DEF Receivers
<1>5. hostOf \in [Tasks -> Coordinators]
  BY DEF MachinesInv, TypeInv, TypeOK, SimTypeOK
<1>6. /\ cursor.spec.file = cursor.file /\ cursor.spec.sender = hostOf[Author[cursor.file]]
      /\ cursor.spec.receiver = hostOf[cursor.spec.task]
      /\ cursor.spec = [sender |-> hostOf[Author[cursor.file]], receiver |-> hostOf[cursor.spec.task],
                        task |-> cursor.spec.task, file |-> cursor.file]
  <2>1. \A f, r : /\ Trip(f, r).file = f /\ Trip(f, r).sender = hostOf[Author[f]]
                  /\ Trip(f, r).receiver = hostOf[r] /\ Trip(f, r).task = r
    BY DEF Trip
  <2>2. Trip(cursor.file, cursor.spec.task) =
          [sender |-> hostOf[Author[cursor.file]], receiver |-> hostOf[cursor.spec.task],
           task |-> cursor.spec.task, file |-> cursor.file]
    BY DEF Trip
  <2> QED BY <1>1, <2>1, <2>2
<1>7. Due(cursor.file, cursor.spec.task)
  BY <1>1, <1>2 DEF Due, Started, Handing
<1>8. cursor.spec \in Transfers
  BY <1>1, <1>3, <1>4, <1>5, <1>6 DEF Transfers
<1> QED BY <1>1, <1>3, <1>4, <1>5, <1>6, <1>7, <1>8

LEMMA TransferUntouched ==
    ASSUME MachinesInv, FilesInv, TransferInv, Setup' => Setup, HolderAt' = HolderAt,
           UNCHANGED <<hostOf, moving, transfers, arrived, delivered, unmatchedPut, unmatchedGet,
                       fileState, readyFiles, cursor, mbox>>,
           \A v \in VMs : pc[Mailer(v)] = "dead" => pc'[Mailer(v)] = "dead"
    PROVE  TransferInv'
<1>1. HandsOutReady'
  BY DEF TransferInv, HandsOutReady
<1>2. \A f \in Files, r \in Tasks : Due(f, r) => Due(f, r)'
  BY DEF Due, Started
<1>3. \A v : Pending(v)' <=> Pending(v)
  BY DEF Pending, Holds
<1> QED BY <1>1, <1>2, <1>3, AskedEnds, TransferKept

\* As long as nothing travels, machines are given out freely.
LEMMA TransferInSetup ==
    ASSUME MachinesInv, FilesInv, AddressInv, TransferInv, Setup,
           UNCHANGED <<moving, transfers, arrived, delivered, unmatchedPut, unmatchedGet, filesMutex>>,
           \A f \in Files : fileState[f] = "TRANSFERING" => fileState'[f] = "TRANSFERING"
    PROVE  TransferInv'
<1>1. filesMutex = NoTask
  BY SetupIdle, HolderNotAtJobs DEF AtFiles
<1>2. HolderAt = "none" /\ HolderAt' = "none"
  BY <1>1 DEF HolderAt
<1>3. moving = {} /\ arrived = {} /\ transfers = {}
  BY DEF AddressInv, NoTransferInSetup, TransferInv, NothingReported
<1>4. \A u : ~Between(u) /\ ~Between(u)'
  BY <1>2 DEF Between
<1>5. Unmatched'
  BY <1>4 DEF TransferInv, Unmatched
<1>6. \A f \in Files, r \in Tasks : Due(f, r) => Due(f, r)'
  BY <1>2 DEF Due, Started, Handing
<1>7. DeliveredStarted'
  BY <1>6 DEF TransferInv, DeliveredStarted
<1>8. HandsOutReady' /\ RequestNew'
  BY <1>2 DEF HandsOutReady, RequestNew, AtFiles, Handing
<1>9. TravelsOnce' /\ OnePlace' /\ BothEnds' /\ NothingReported'
  BY <1>3 DEF TravelsOnce, Travels, OnePlace, BothEnds, NothingReported
<1> QED BY <1>5, <1>7, <1>8, <1>9 DEF TransferInv

LEMMA TransferJobStep ==
    ASSUME MachinesInv, FilesInv, TransferInv, NEW p \in Procs, JobStep(p), Setup' => Setup
    PROVE  TransferInv'
<1>1. /\ HolderAt' = HolderAt /\ UNCHANGED <<mbox, cursor>>
      /\ UNCHANGED <<hostOf, moving, transfers, arrived, delivered, unmatchedPut, unmatchedGet,
                     fileState, readyFiles>>
      /\ pc \in [Procs -> Labels]
  BY HolderJobStep
     DEF JobStep, NothingToStart, CheckReadyJobOnVM, StartExecuting, CreateActor, JobsChecked,
         graphVars, simVars, dataVars, MachinesInv, TypeInv, TypeOK, ProcTypeOK
<1>2. ASSUME NEW v \in VMs, pc[Mailer(v)] = "dead" PROVE pc'[Mailer(v)] = "dead"
  <2>0. Mailer(v) \in Procs
    BY ProcsFacts
  <2>1. ASSUME NEW u \in VMs, NothingToStart(p, u) PROVE pc'[Mailer(v)] = pc[Mailer(v)]
    BY <2>1 DEF NothingToStart
  <2>2. ASSUME NEW u \in VMs, CheckReadyJobOnVM(p, u) PROVE pc'[Mailer(v)] = pc[Mailer(v)]
    BY <1>2, <2>0, <2>2, HeadStarts
  <2>3. ASSUME NEW u \in VMs, CreateActor(p, u) PROVE pc'[Mailer(v)] = pc[Mailer(v)]
    BY <1>2, <2>0, <2>3, ActorCreated, ProcsFacts
  <2>4. ASSUME JobsChecked(p) PROVE pc'[Mailer(v)] = pc[Mailer(v)]
    BY <1>1, <1>2, <2>0, <2>4 DEF JobsChecked, Goto
  <2> QED BY <1>2, <2>1, <2>2, <2>3, <2>4 DEF JobStep
<1> QED BY <1>1, <1>2, TransferUntouched

\* The holder of the mutex goes on, and asks for nothing.
LEMMA TransferHandsOut ==
    ASSUME TransferInv, HandsOutReady', Setup' => Setup, HolderAt' # "request",
           UNCHANGED <<hostOf, moving, transfers, arrived, delivered, unmatchedPut, unmatchedGet>>,
           \A f \in Files, r \in Tasks : Due(f, r) => Due(f, r)',
           \A u \in VMs : unmatchedPut[u] = <<>> /\ unmatchedGet[u] = 0,
           \A v \in VMs : pc'[Mailer(v)] = pc[Mailer(v)]
    PROVE  TransferInv'
<1>1. \A s : Travels(s)' <=> Travels(s)
  BY DEF Travels
<1>2. RequestNew' /\ Unmatched'
  BY DEF RequestNew, Unmatched, Between
<1>3. TravelsOnce'
  BY <1>1 DEF TransferInv, TravelsOnce, Trip, Deliverable
<1>4. DeliveredStarted'
  BY DEF TransferInv, DeliveredStarted
<1>5. OnePlace' /\ BothEnds' /\ NothingReported'
  BY DEF TransferInv, OnePlace, BothEnds, NothingReported
<1> QED BY <1>2, <1>3, <1>4, <1>5 DEF TransferInv

LEMMA NobodyWaits ==
    ASSUME TransferInv, HolderAt # "request"
    PROVE  \A u \in VMs : unmatchedPut[u] = <<>> /\ unmatchedGet[u] = 0
BY DEF TransferInv, Unmatched, Between

LEMMA TravellersAreDeliverable ==
    ASSUME MachinesInv PROVE \A s : Travels(s) => s \in Deliverable
BY DEF MachinesInv, TypeInv, TypeOK, SimTypeOK, CommTypeOK, Travels

\* What is asked for has not been asked for before.
LEMMA TransferStartTransfer ==
    ASSUME MachinesInv, FilesInv, EndInv, TransferInv, NEW t \in Tasks, NEW r \in Tasks,
           StartTransfer(t, r)
    PROVE  TransferInv'
<1> DEFINE f == cursor.file
           s == Trip(f, r)
<1>1. /\ pc[Compute(t)] = "receivers" /\ r \in cursor.receivers /\ Goto(Compute(t), "request")
      /\ UNCHANGED <<graphVars, simVars, filesMutex, dataVars>>
      /\ mbox' = [v \in Coordinators |-> IF v \in {s.sender, s.receiver}
                                         THEN Append(mbox[v], Request(s)) ELSE mbox[v]]
      /\ cursor'.iter = cursor.iter /\ cursor'.file = cursor.file
      /\ cursor'.receivers = cursor.receivers \ {r} /\ cursor'.spec = s
  BY DEF StartTransfer, Trip, MachinesInv, TypeInv, TypeOK, ProcTypeOK, Cursors
<1>2. UNCHANGED <<hostOf, moving, transfers, arrived, delivered, unmatchedPut, unmatchedGet,
                  fileState, readyFiles>>
  BY <1>1 DEF graphVars, simVars, dataVars
<1>3. filesMutex = t /\ HolderAt = "receivers" /\ t # NoTask
  BY <1>1, HolderFacts, GraphAssumption DEF AtFiles, NoTask
<1>4. HolderAt' = "request"
  BY <1>1, <1>3, ComputeGoes DEF HolderAt
<1>5. f \in readyFiles /\ f \in Files /\ r \in Receivers[f] /\ cursor.receivers \subseteq Receivers[f]
  BY <1>1, <1>3
     DEF TransferInv, HandsOutReady, Handing, MachinesInv, TypeInv, TypeOK, GraphTypeOK
<1>6. ~Due(f, r)
  BY <1>1, <1>5 DEF Due, Started, FilesInv, HandedOutOnce
<1>7. s.file = f /\ s.task = r /\ s.sender = hostOf[Author[f]] /\ s.receiver = hostOf[r]
  BY DEF Trip
<1>8. ~Travels(s) /\ <<f, r>> \notin delivered
  <2>1. Travels(s) => s \in Deliverable
    BY TravellersAreDeliverable
  <2> HIDE DEF s
  <2> QED BY <1>5, <1>6, <1>7, <2>1 DEF TransferInv, TravelsOnce, DeliveredStarted
<1>9. \A x : Travels(x)' <=> Travels(x)
  BY <1>2 DEF Travels
<1>10. \A x, y : Trip(x, y)' = Trip(x, y)
  BY <1>2 DEF Trip
<1>11. \A x \in Files, y \in Tasks : Due(x, y) => Due(x, y)'
  BY <1>1, <1>2, <1>3, <1>4 DEF Due, Started, Handing
<1>12. HandsOutReady'
  BY <1>1, <1>2, <1>3, <1>4, <1>5 DEF TransferInv, HandsOutReady, AtFiles, Handing
<1>13. RequestNew'
  <2> HIDE DEF s
  <2>1. s = Trip(f, r)
    BY DEF s
  <2>2. cursor'.spec.task = r /\ cursor'.spec = s /\ cursor'.file = f
    BY <1>1, <1>7
  <2> QED BY <1>1, <1>2, <1>5, <1>8, <1>9, <1>10, <2>1, <2>2 DEF RequestNew
<1>14. TravelsOnce'
  BY <1>2, <1>9, <1>10, <1>11 DEF TransferInv, TravelsOnce, Deliverable
<1>15. DeliveredStarted'
  BY <1>2, <1>11 DEF TransferInv, DeliveredStarted
<1>16. \A v \in Coordinators : v \in {s.sender, s.receiver} => Pending(v)'
  <2> SUFFICES ASSUME NEW v \in Coordinators, v \in {s.sender, s.receiver} PROVE Pending(v)'
    OBVIOUS
  <2>1. mbox'[v] = Append(mbox[v], Request(s)) /\ mbox[v] \in Seq(Messages)
    BY <1>1 DEF MachinesInv, TypeInv, TypeOK, CommTypeOK
  <2>2. cursor'.spec = s
    BY <1>1
  <2> HIDE DEF s
  <2>3. Len(mbox[v]) + 1 \in DOMAIN mbox'[v] /\ mbox'[v][Len(mbox[v]) + 1] = Request(s)
    <3> DEFINE q == mbox[v]
    <3>1. q \in Seq(Messages)
      BY <2>1
    <3> HIDE DEF q
    <3>2. Len(q) \in Nat /\ Len(Append(q, Request(s))) = Len(q) + 1
          /\ Append(q, Request(s))[Len(q) + 1] = Request(s)
          /\ DOMAIN Append(q, Request(s)) = 1..(Len(q) + 1)
      BY <3>1
    <3> QED BY <2>1, <3>2 DEF q
  <2> QED BY <2>2, <2>3 DEF Pending, Holds
<1>17. Unmatched'
  <2>1. \A u \in VMs : unmatchedPut[u] = <<>> /\ unmatchedGet[u] = 0
    BY <1>3, NobodyWaits
  <2>2. s.sender \in Coordinators
    BY <1>5, <1>7, AuthorWrites
       DEF MachinesInv, TypeInv, TypeOK, SimTypeOK, FilesAuthored
  <2>3. \A u \in VMs : Between(u)' => Pending(u)' /\ Pending(cursor.spec.sender)'
    BY <1>1, <1>16, <2>2 DEF Between, Coordinators
  <2> QED BY <1>2, <2>1, <2>3 DEF Unmatched
<1>18. OnePlace' /\ BothEnds' /\ NothingReported'
  <2>1. \A v \in VMs : pc'[Mailer(v)] = pc[Mailer(v)]
    BY <1>1, ComputeGoes
  <2>2. Setup' <=> Setup
    BY <1>1, ComputeGoes DEF Setup
  <2> QED BY <1>2, <2>1, <2>2 DEF TransferInv, OnePlace, BothEnds, NothingReported
<1> QED BY <1>12, <1>13, <1>14, <1>15, <1>17, <1>18 DEF TransferInv

LEMMA TransferComputeStep ==
    ASSUME MachinesInv, FilesInv, EndInv, MailInv, TransferInv, NEW t \in Tasks, ComputeStep(t)
    PROVE  TransferInv'
<1> USE DEF AtFiles
<1>1. Compute(t) \in Procs /\ Main \in Procs /\ Compute(t) # Main
  BY ProcsFacts
<1>2. cursor \in Cursors /\ t # NoTask /\ readyFiles \subseteq Files
  BY GraphAssumption DEF MachinesInv, TypeInv, TypeOK, GraphTypeOK, ProcTypeOK, NoTask
<1>3. ASSUME NEW l, Goto(Compute(t), l)
      PROVE  pc'[Compute(t)] = l /\ (Setup' <=> Setup) /\ \A v \in VMs : pc'[Mailer(v)] = pc[Mailer(v)]
  BY <1>3, ComputeGoes DEF Setup
<1>4. CASE DoExecute(t)
  <2>1. /\ UNCHANGED <<hostOf, moving, transfers, arrived, delivered, unmatchedPut, unmatchedGet,
                       fileState, readyFiles, cursor, mbox, filesMutex>>
        /\ pc[Compute(t)] = "exec" /\ Goto(Compute(t), "finish")
    BY <1>4 DEF DoExecute, graphVars, simVars, dataVars
  <2>2. HolderAt' = HolderAt
    BY <2>1, HolderNotAtJobs, ComputeGoes, HolderStays
  <2> QED BY <1>3, <2>1, <2>2, TransferUntouched
<1>5. CASE DoRefreshAfterTask(t)
  <2>1. /\ UNCHANGED <<hostOf, moving, transfers, arrived, delivered, unmatchedPut, unmatchedGet,
                       cursor, mbox, filesMutex>>
        /\ pc[Compute(t)] = "finish" /\ Goto(Compute(t), "jobs") /\ GraphFinishTask(t)
    BY <1>5 DEF DoRefreshAfterTask, GraphFinishTask, dataVars
  <2>2. HolderAt' = HolderAt
    BY <2>1, HolderNotAtJobs, ComputeGoes, HolderStays
  <2>3. readyFiles \subseteq readyFiles'
    BY <2>1 DEF GraphFinishTask
  <2>4. \A f \in Files : Author[f] # NoTask /\ fileState[f] = "TRANSFERING" => fileState'[f] = "TRANSFERING"
    BY <2>1 DEF GraphFinishTask, Released
  <2>5. HandsOutReady'
    BY <2>1, <2>2, <2>3 DEF TransferInv, HandsOutReady
  <2>6. \A f \in Files, r \in Tasks : Due(f, r) => Due(f, r)'
    BY <2>1, <2>2, <2>4 DEF Due, Started
  <2>7. \A v : Pending(v)' <=> Pending(v)
    BY <2>1 DEF Pending, Holds
  <2> QED BY <1>3, <2>1, <2>2, <2>5, <2>6, <2>7, AskedEnds, TransferKept
<1>6. ASSUME UNCHANGED <<hostOf, moving, transfers, arrived, delivered, unmatchedPut, unmatchedGet>>,
             \A u \in VMs : unmatchedPut[u] = <<>> /\ unmatchedGet[u] = 0,
             HandsOutReady', \A f \in Files, r \in Tasks : Due(f, r) => Due(f, r)',
             NEW l \in {"files", "receivers", "acks", "dead"}, Goto(Compute(t), l),
             IF l = "dead" THEN filesMutex' = NoTask ELSE filesMutex' = t
      PROVE  TransferInv'
  <2>1. HolderAt' # "request"
    BY <1>2, <1>3, <1>6 DEF HolderAt
  <2> QED BY <1>3, <1>6, <2>1, TransferHandsOut
<1>7. CASE CheckReadyFiles(t)
  <2>1. /\ UNCHANGED <<hostOf, moving, transfers, arrived, delivered, unmatchedPut, unmatchedGet,
                       fileState, readyFiles>>
        /\ filesMutex = NoTask /\ filesMutex' = t /\ Goto(Compute(t), "files")
        /\ \E next \in FileIterators : NextReady(NoFile, next) /\ cursor'.iter = next
    BY <1>7 DEF CheckReadyFiles, NoCursor, graphVars, simVars, dataVars
  <2>2. HolderAt = "none" /\ HolderAt' = "files"
    BY <1>2, <1>3, <2>1 DEF HolderAt
  <2>3. cursor'.iter # NoFile => cursor'.iter \in readyFiles
    BY <2>1 DEF NextReady
  <2>4. HandsOutReady'
    BY <2>1, <2>2, <2>3 DEF HandsOutReady, Handing
  <2>5. \A f \in Files, r \in Tasks : Due(f, r) => Due(f, r)'
    BY <2>1, <2>2 DEF Due, Started, Handing
  <2> QED BY <1>6, <2>1, <2>2, <2>4, <2>5, NobodyWaits
<1>8. CASE NextFile(t)
  <2>1. /\ UNCHANGED <<hostOf, moving, transfers, arrived, delivered, unmatchedPut, unmatchedGet,
                       fileState, readyFiles, filesMutex>>
        /\ pc[Compute(t)] = "files" /\ Goto(Compute(t), "receivers") /\ cursor.iter # NoFile
        /\ \E next \in FileIterators : NextReady(cursor.iter, next) /\ cursor'.iter = next
        /\ cursor'.file = cursor.iter /\ cursor'.receivers = Receivers[cursor.iter]
    BY <1>2, <1>8 DEF NextFile, Cursors, graphVars, simVars, dataVars
  <2>2. filesMutex = t /\ HolderAt = "files" /\ HolderAt' = "receivers"
    BY <1>2, <1>3, <2>1, HolderFacts DEF HolderAt
  <2>3. cursor.iter \in readyFiles
    BY <2>1, <2>2 DEF TransferInv, HandsOutReady
  <2>4. cursor'.iter # NoFile => cursor'.iter \in readyFiles /\ cursor'.iter # cursor.iter
    <3>1. cursor.iter \in Nat
      BY <1>2, <2>3, GraphAssumption
    <3> QED BY <1>2, <2>1, <3>1, GraphAssumption DEF NextReady
  <2>5. HandsOutReady'
    BY <2>1, <2>2, <2>3, <2>4 DEF HandsOutReady, Handing
  <2>6. \A f \in Files, r \in Tasks : Due(f, r) => Due(f, r)'
    BY <2>1, <2>2 DEF Due, Started, Handing
  <2> QED BY <1>6, <2>1, <2>2, <2>5, <2>6, NobodyWaits
<1>9. CASE FileStarted(t)
  <2>1. /\ UNCHANGED <<hostOf, moving, transfers, arrived, delivered, unmatchedPut, unmatchedGet,
                       filesMutex, cursor>>
        /\ pc[Compute(t)] = "receivers" /\ Goto(Compute(t), "files") /\ cursor.receivers = {}
        /\ readyFiles' = readyFiles \ {cursor.file}
        /\ fileState' = [fileState EXCEPT ![cursor.file] = "TRANSFERING"]
    BY <1>9 DEF FileStarted, GraphStartTransfer, simVars, dataVars
  <2>2. filesMutex = t /\ HolderAt = "receivers" /\ HolderAt' = "files"
    BY <1>2, <1>3, <2>1, HolderFacts DEF HolderAt
  <2>3. cursor.file \in Files /\ (cursor.iter # NoFile => cursor.iter \in readyFiles /\ cursor.iter # cursor.file)
    BY <1>2, <2>2 DEF TransferInv, HandsOutReady, Handing
  <2>4. HandsOutReady'
    BY <2>1, <2>2, <2>3 DEF HandsOutReady, Handing
  <2>5. fileState'[cursor.file] = "TRANSFERING" /\ \A f \in Files : f # cursor.file => fileState'[f] = fileState[f]
    BY <2>1, <2>3 DEF MachinesInv, TypeInv, TypeOK, GraphTypeOK
  <2>6. \A f \in Files, r \in Tasks : Due(f, r) => Due(f, r)'
    BY <2>5 DEF Due, Started
  <2> QED BY <1>6, <2>1, <2>2, <2>4, <2>6, NobodyWaits
<1>10. CASE FilesChecked(t)
  <2>1. /\ UNCHANGED <<hostOf, moving, transfers, arrived, delivered, unmatchedPut, unmatchedGet,
                       fileState, readyFiles>>
        /\ pc[Compute(t)] = "files" /\ Goto(Compute(t), "dead") /\ filesMutex' = NoTask
    BY <1>10 DEF FilesChecked, graphVars, simVars, dataVars
  <2>2. HolderAt = "files" /\ HolderAt' = "none"
    BY <2>1, HolderFacts DEF HolderAt
  <2>3. HandsOutReady' /\ \A f \in Files, r \in Tasks : Due(f, r) => Due(f, r)'
    BY <2>1, <2>2 DEF HandsOutReady, Due, Started, Handing
  <2> QED BY <1>6, <2>1, <2>2, <2>3, NobodyWaits
<1>11. CASE RequestTaken(t) \/ TransferStarted(t)
  <2>1. /\ UNCHANGED <<hostOf, moving, transfers, arrived, delivered, unmatchedPut, unmatchedGet,
                       fileState, readyFiles, filesMutex>>
        /\ cursor'.iter = cursor.iter /\ cursor'.file = cursor.file
        /\ cursor'.receivers = cursor.receivers
        /\ \/ /\ pc[Compute(t)] = "request" /\ Goto(Compute(t), "acks")
              /\ ~Pending(cursor.spec.sender) /\ ~Pending(cursor.spec.receiver)
           \/ pc[Compute(t)] = "acks" /\ Goto(Compute(t), "receivers")
    BY <1>2, <1>11
       DEF RequestTaken, TransferStarted, Cursors, Pending, graphVars, simVars, dataVars
  <2>2. /\ filesMutex = t /\ HolderAt = pc[Compute(t)] /\ HolderAt' = pc'[Compute(t)]
        /\ HolderAt \in Handing /\ HolderAt' \in Handing
    BY <1>2, <1>3, <2>1, HolderFacts DEF HolderAt, Handing
  <2>3. HandsOutReady' /\ \A f \in Files, r \in Tasks : Due(f, r) => Due(f, r)'
    BY <2>1, <2>2 DEF TransferInv, HandsOutReady, Due, Started, Handing
  <2>4. \A u \in VMs : unmatchedPut[u] = <<>> /\ unmatchedGet[u] = 0
    BY <2>1, <2>2, NobodyWaits DEF TransferInv, Unmatched, Between
  <2> QED BY <1>6, <2>1, <2>2, <2>3, <2>4
<1>12. CASE TakeAck(t)
  <2>1. /\ UNCHANGED <<hostOf, moving, transfers, arrived, delivered, unmatchedPut, unmatchedGet,
                       fileState, readyFiles, filesMutex, pc>>
        /\ cursor'.iter = cursor.iter /\ cursor'.file = cursor.file
        /\ cursor'.receivers = cursor.receivers /\ pc[Compute(t)] = "acks"
    BY <1>2, <1>12 DEF TakeAck, Cursors, graphVars, simVars, dataVars
  <2>2. HolderAt = "acks" /\ HolderAt' = "acks"
    BY <2>1, HolderFacts DEF HolderAt
  <2>3. HandsOutReady' /\ \A f \in Files, r \in Tasks : Due(f, r) => Due(f, r)'
    BY <2>1, <2>2 DEF TransferInv, HandsOutReady, Due, Started
  <2> QED BY <2>1, <2>2, <2>3, NobodyWaits, TransferHandsOut DEF Setup
<1>13. CASE JobStep(Compute(t))
  <2>1. pc[Compute(t)] \in {"jobs", "create"}
    BY <1>13 DEF JobStep, NothingToStart, CheckReadyJobOnVM, CreateActor, JobsChecked
  <2>2. ~Setup
    BY <1>1, <2>1, AtWork
  <2>3. ~Setup'
    BY <1>13, <2>2, SetupOver DEF Next, ComputeStep, MachinesInv
  <2> QED BY <1>1, <1>13, <2>3, TransferJobStep
<1> QED
  BY <1>4, <1>5, <1>7, <1>8, <1>9, <1>10, <1>11, <1>12, <1>13, TransferStartTransfer DEF ComputeStep

\* A request reaches one of its ends; the other has or has not taken it.
LEMMA RequestArrives ==
    ASSUME MachinesInv, FilesInv, MailInv, TransferInv, NEW v \in VMs, Incoming(v),
           Received(v).receiver # NoVM, UNCHANGED cursor
    PROVE  /\ HolderAt = "request" /\ Received(v) = cursor.spec
           /\ v \in {cursor.spec.sender, cursor.spec.receiver}
           /\ ~Travels(cursor.spec) /\ <<cursor.file, cursor.spec.task>> \notin delivered
           /\ Pending(v) /\ ~Pending(v)'
           /\ \A u \in Coordinators : u # v => (Pending(u)' <=> Pending(u))
<1>1. Terminator.receiver = NoVM
  BY DEF Terminator
<1>2. /\ Asked(v) /\ HolderAt = "request" /\ mbox[v] = <<Request(cursor.spec)>>
      /\ Received(v) = cursor.spec /\ mbox'[v] = <<>>
      /\ \A u \in Coordinators : u # v => mbox'[u] = mbox[u]
  BY <1>1, IncomingIs
<1>3. v \in {cursor.spec.sender, cursor.spec.receiver}
  BY <1>2 DEF Asked
<1>4. 1 \in DOMAIN mbox[v] /\ mbox[v][1] = Request(cursor.spec)
  BY <1>2
<1>5. Pending(v)
  BY <1>4 DEF Pending, Holds
<1>6. ~Pending(v)' /\ \A u \in Coordinators : u # v => (Pending(u)' <=> Pending(u))
  BY <1>2 DEF Pending, Holds
<1>7. ~Travels(cursor.spec) /\ <<cursor.file, cursor.spec.task>> \notin delivered
  BY <1>2, <1>3, <1>5 DEF TransferInv, RequestNew
<1> QED BY <1>2, <1>3, <1>5, <1>6, <1>7

\* A mailer does not disturb what is handed out.
LEMMA MailerKeepsHolder ==
    ASSUME MachinesInv, FilesInv, TransferInv, NEW v \in VMs,
           UNCHANGED <<hostOf, fileState, readyFiles, cursor, filesMutex>>,
           NEW l, Goto(Mailer(v), l),
           resume' = resume \/ \E m : resume' = [resume EXCEPT ![Mailer(v)] = m]
    PROVE  /\ HolderAt' = HolderAt /\ HandsOutReady' /\ (Setup' <=> Setup)
           /\ \A f \in Files, r \in Tasks : Due(f, r)' <=> Due(f, r)
           /\ \A f, r : Trip(f, r)' = Trip(f, r)
           /\ \A u : Between(u)' <=> Between(u)
           /\ pc'[Mailer(v)] = l /\ \A u \in VMs : u # v => pc'[Mailer(u)] = pc[Mailer(u)]
<1>1. /\ HolderAt' = HolderAt /\ pc'[Main] = pc[Main]
      /\ \A u \in VMs : u # v => pc'[Mailer(u)] = pc[Mailer(u)]
  BY MailerMoves
<1>2. pc'[Mailer(v)] = l
  BY ProcsFacts DEF Goto, MachinesInv, TypeInv, TypeOK, ProcTypeOK
<1>3. HandsOutReady' /\ (Setup' <=> Setup)
  BY <1>1 DEF TransferInv, HandsOutReady, Setup
<1>4. \A f \in Files, r \in Tasks : Due(f, r)' <=> Due(f, r)
  BY <1>1 DEF Due, Started
<1>5. (\A f, r : Trip(f, r)' = Trip(f, r)) /\ \A u : Between(u)' <=> Between(u)
  BY <1>1 DEF Trip, Between
<1> QED BY <1>1, <1>2, <1>3, <1>4, <1>5

\* A transfer is what its file and its receiver make it.
LEMMA TripsDiffer ==
    ASSUME NEW s, s = Trip(s.file, s.task), NEW u, u = Trip(u.file, u.task),
           <<s.file, s.task>> = <<u.file, u.task>>
    PROVE  s = u
<1>1. s.file = u.file /\ s.task = u.task
  OBVIOUS
<1> QED BY <1>1

LEMMA TransferLocal ==
    ASSUME MachinesInv, FilesInv, MailInv, TransferInv, NEW v \in VMs, LocalTransfer(v)
    PROVE  TransferInv'
<1> DEFINE s == cursor.spec
<1>1. /\ Incoming(v) /\ Received(v).receiver # NoVM /\ Received(v).sender = Received(v).receiver
      /\ delivered' = delivered \cup {<<Received(v).file, Received(v).task>>}
      /\ UNCHANGED <<hostOf, moving, transfers, arrived, unmatchedPut, unmatchedGet,
                     fileState, readyFiles, cursor, filesMutex>>
      /\ Goto(Mailer(v), "jobs") /\ resume' = [resume EXCEPT ![Mailer(v)] = "ack"]
      /\ pc[Mailer(v)] = "wait"
  BY DEF LocalTransfer, Incoming, GraphFinishTransfer, simVars, dataVars
<1>2. /\ HolderAt = "request" /\ Received(v) = s /\ v \in {s.sender, s.receiver}
      /\ ~Travels(s) /\ <<cursor.file, s.task>> \notin delivered /\ ~Pending(v)'
  BY <1>1, RequestArrives
<1>3. /\ cursor.file \in Files /\ s.task \in Tasks /\ s.file = cursor.file
      /\ Due(cursor.file, s.task)
  BY <1>2, AskedEnds
<1>4. s.sender = v /\ s.receiver = v
  BY <1>1, <1>2
<1>5. /\ HolderAt' = HolderAt /\ HandsOutReady' /\ (Setup' <=> Setup)
      /\ \A f \in Files, r \in Tasks : Due(f, r)' <=> Due(f, r)
      /\ \A f, r : Trip(f, r)' = Trip(f, r)
      /\ \A u : Between(u)' <=> Between(u)
      /\ pc'[Mailer(v)] = "jobs" /\ \A u \in VMs : u # v => pc'[Mailer(u)] = pc[Mailer(u)]
  BY <1>1, MailerKeepsHolder
<1>6. \A x : Travels(x)' <=> Travels(x)
  BY <1>1 DEF Travels
<1>7. s = Trip(cursor.file, s.task)
  BY <1>2 DEF TransferInv, RequestNew
<1>8. RequestNew'
  BY <1>1, <1>2, <1>4, <1>5 DEF TransferInv, RequestNew
<1>9. TravelsOnce'
  <2> SUFFICES ASSUME NEW x \in Deliverable, Travels(x)
               PROVE  /\ x = Trip(x.file, x.task) /\ x.sender # x.receiver
                      /\ Due(x.file, x.task)' /\ <<x.file, x.task>> \notin delivered'
    BY <1>5, <1>6 DEF TravelsOnce, Deliverable
  <2>1. /\ x = Trip(x.file, x.task) /\ x.sender # x.receiver
        /\ Due(x.file, x.task) /\ <<x.file, x.task>> \notin delivered
        /\ x.file \in Files /\ x.task \in Tasks
    BY DEF TransferInv, TravelsOnce, Deliverable
  <2>2. <<x.file, x.task>> # <<s.file, s.task>>
    BY <1>2, <1>3, <1>7, <2>1, TripsDiffer
  <2> QED BY <1>1, <1>2, <1>5, <2>1, <2>2
<1>10. DeliveredStarted'
  BY <1>1, <1>2, <1>3, <1>5 DEF TransferInv, DeliveredStarted
<1>11. Unmatched'
  <2>1. \A u : ~Between(u)
    BY <1>4 DEF Between
  <2> QED BY <1>1, <1>5, <2>1 DEF TransferInv, Unmatched
<1>12. OnePlace' /\ BothEnds' /\ NothingReported'
  BY <1>1, <1>5 DEF TransferInv, OnePlace, BothEnds, NothingReported
<1> QED BY <1>5, <1>8, <1>9, <1>10, <1>11, <1>12 DEF TransferInv

\* One end of a transfer between machines comes to the receiver's mailbox:
\* the first waits there, the second sets the data moving.
LEMMA TransferBegins ==
    ASSUME MachinesInv, FilesInv, MailInv, TransferInv, NEW v \in VMs,
           BeginReceiving(v) \/ BeginSending(v)
    PROVE  TransferInv'
<1>a. PICK s : s = cursor.spec
  OBVIOUS
<1>b. PICK u : u = s.receiver
  OBVIOUS
<1>c. PICK w : w = s.sender
  OBVIOUS
<1>d. s = cursor.spec /\ u = cursor.spec.receiver /\ w = cursor.spec.sender
  BY <1>a, <1>b, <1>c
<1>0. NoVM \notin VMs
  BY PlatformAssumption DEF NoVM
<1>1. /\ Incoming(v) /\ Received(v).receiver # NoVM /\ Received(v).sender # Received(v).receiver
      /\ UNCHANGED <<hostOf, transfers, arrived, delivered, fileState, readyFiles, cursor, filesMutex,
                     resume>>
      /\ Goto(Mailer(v), "ack")
  BY <1>d, <1>0 DEF BeginReceiving, BeginSending, Incoming, graphVars, simVars
<1>2. /\ HolderAt = "request" /\ Received(v) = s /\ v \in {w, u}
      /\ ~Travels(s) /\ <<cursor.file, s.task>> \notin delivered /\ Pending(v) /\ ~Pending(v)'
      /\ \A x \in Coordinators : x # v => (Pending(x)' <=> Pending(x))
  BY <1>d, <1>1, RequestArrives
<1>3. /\ cursor.file \in Files /\ s.task \in Tasks /\ s.file = cursor.file
      /\ Due(cursor.file, s.task) /\ w \in Coordinators /\ u \in Coordinators /\ s \in Transfers
  BY <1>d, <1>2, AskedEnds
<1>4. u \in VMs /\ w # u /\ s \in Deliverable
  BY <1>d, <1>1, <1>2, <1>3 DEF Coordinators, Transfers, Deliverable
<1>5. /\ HolderAt' = HolderAt /\ HandsOutReady' /\ (Setup' <=> Setup)
      /\ \A f \in Files, r \in Tasks : Due(f, r)' <=> Due(f, r)
      /\ \A f, r : Trip(f, r)' = Trip(f, r)
      /\ \A x : Between(x)' <=> Between(x)
      /\ pc'[Mailer(v)] = "ack" /\ \A x \in VMs : x # v => pc'[Mailer(x)] = pc[Mailer(x)]
  BY <1>d, <1>1, MailerKeepsHolder
<1>6. s = Trip(cursor.file, s.task)
  BY <1>d, <1>2 DEF TransferInv, RequestNew
<1>7. \A x : Between(x) <=> x = u
  BY <1>d, <1>2, <1>4 DEF Between
<1>8. /\ unmatchedPut[u] = IF Pending(u) /\ ~Pending(w) THEN <<s>> ELSE <<>>
      /\ unmatchedGet[u] = IF ~Pending(u) /\ Pending(w) THEN 1 ELSE 0
      /\ \A x \in VMs : x # u => unmatchedPut[x] = <<>> /\ unmatchedGet[x] = 0
  BY <1>d, <1>4, <1>7 DEF TransferInv, Unmatched
<1>9. /\ unmatchedPut \in [VMs -> Seq(Deliverable)] /\ unmatchedGet \in [VMs -> Nat]
  BY DEF MachinesInv, TypeInv, TypeOK, CommTypeOK
<1>10. Append(<<>>, s) = <<s>> /\ Tail(<<s>>) = <<>> /\ Head(<<s>>) = s /\ <<s>> # <<>>
  <2> QED BY <1>d, <1>4
<1>11. \/ /\ moving' = moving \cup {s} /\ ~Pending(u)' /\ ~Pending(w)'
          /\ unmatchedPut'[u] = <<>> /\ unmatchedGet'[u] = 0
       \/ /\ moving' = moving /\ Pending(u)' /\ ~Pending(w)'
          /\ unmatchedPut'[u] = <<s>> /\ unmatchedGet'[u] = 0
       \/ /\ moving' = moving /\ ~Pending(u)' /\ Pending(w)'
          /\ unmatchedPut'[u] = <<>> /\ unmatchedGet'[u] = 1
  <2>1. CASE BeginReceiving(v)
    <3>1. v = u
      BY <1>d, <1>2, <2>1 DEF BeginReceiving
    <3>2. CASE Pending(w)
      <4>1. unmatchedPut[u] = <<>> /\ unmatchedGet[u] = 0
        BY <1>d, <1>2, <1>8, <3>1, <3>2
      <4>2. /\ unmatchedGet' = [unmatchedGet EXCEPT ![v] = @ + 1]
            /\ UNCHANGED <<unmatchedPut, moving>>
        BY <1>d, <2>1, <3>1, <4>1 DEF BeginReceiving
      <4> QED BY <1>d, <1>2, <1>3, <1>4, <1>9, <3>1, <3>2, <4>1, <4>2
    <3>3. CASE ~Pending(w)
      <4>1. unmatchedPut[u] = <<s>> /\ unmatchedGet[u] = 0
        BY <1>d, <1>2, <1>8, <3>1, <3>3
      <4>2. /\ unmatchedPut' = [unmatchedPut EXCEPT ![v] = Tail(@)]
            /\ moving' = moving \cup {Head(unmatchedPut[v])} /\ UNCHANGED unmatchedGet
        BY <1>d, <1>10, <2>1, <3>1, <4>1 DEF BeginReceiving
      <4>3. unmatchedPut'[u] = <<>> /\ moving' = moving \cup {s}
        BY <1>d, <1>9, <1>4, <1>10, <3>1, <4>1, <4>2
      <4> QED BY <1>d, <1>2, <1>3, <1>4, <3>1, <3>3, <4>1, <4>2, <4>3
    <3> QED BY <1>d, <3>2, <3>3
  <2>2. CASE BeginSending(v)
    <3>1. v = w
      BY <1>d, <1>2, <2>2 DEF BeginSending
    <3>2. CASE Pending(u)
      <4>1. unmatchedPut[u] = <<>> /\ unmatchedGet[u] = 0
        BY <1>d, <1>2, <1>8, <3>1, <3>2
      <4>2. /\ unmatchedPut' = [unmatchedPut EXCEPT ![u] = Append(@, s)]
            /\ UNCHANGED <<unmatchedGet, moving>>
        BY <1>d, <1>2, <2>2, <4>1 DEF BeginSending
      <4>3. unmatchedPut'[u] = <<s>>
        BY <1>d, <1>4, <1>9, <1>10, <4>1, <4>2
      <4> QED BY <1>d, <1>2, <1>3, <1>4, <3>1, <3>2, <4>1, <4>2, <4>3
    <3>3. CASE ~Pending(u)
      <4>1. unmatchedPut[u] = <<>> /\ unmatchedGet[u] = 1
        BY <1>d, <1>2, <1>8, <3>1, <3>3
      <4>2. /\ unmatchedGet' = [unmatchedGet EXCEPT ![u] = @ - 1]
            /\ moving' = moving \cup {s} /\ UNCHANGED unmatchedPut
        BY <1>d, <1>2, <2>2, <4>1 DEF BeginSending
      <4> QED BY <1>d, <1>2, <1>3, <1>4, <1>9, <3>1, <3>3, <4>1, <4>2
    <3> QED BY <1>d, <3>2, <3>3
  <2> QED BY <1>d, <2>1, <2>2
<1>12. \A x \in VMs : x # u => unmatchedPut'[x] = <<>> /\ unmatchedGet'[x] = 0
  <2>1. CASE BeginReceiving(v)
    <3>1. v = u
      BY <1>d, <1>2, <2>1 DEF BeginReceiving
    <3> QED BY <1>d, <1>8, <1>9, <2>1, <3>1 DEF BeginReceiving
  <2>2. CASE BeginSending(v)
    BY <1>d, <1>2, <1>8, <1>9, <2>2 DEF BeginSending
  <2> QED BY <1>d, <2>1, <2>2
<1>13. Unmatched'
  <2> SUFFICES ASSUME NEW x \in VMs
               PROVE  /\ unmatchedPut'[x] = IF Between(x)' /\ Pending(x)' /\ ~Pending(cursor.spec.sender)'
                                            THEN <<cursor'.spec>> ELSE <<>>
                      /\ unmatchedGet'[x] = IF Between(x)' /\ ~Pending(x)' /\ Pending(cursor.spec.sender)'
                                            THEN 1 ELSE 0
    BY DEF Unmatched
  <2>0. (Between(x)' <=> x = u) /\ cursor' = cursor /\ w = cursor.spec.sender
    BY <1>d, <1>1, <1>5, <1>7
  <2>1. CASE x # u
    BY <1>d, <1>12, <2>0, <2>1
  <2>2. CASE x = u
    BY <1>d, <1>11, <2>0, <2>2
  <2> QED BY <1>d, <2>1, <2>2
<1>14. \A x : Travels(x)' <=> Travels(x) \/ (moving' # moving /\ x = s)
  <2>1. s \notin moving
    BY <1>d, <1>2 DEF Travels
  <2> QED BY <1>d, <1>1, <1>11, <2>1 DEF Travels
<1>15. RequestNew'
  <2>1. moving' # moving => ~Pending(u)' /\ ~Pending(w)'
    BY <1>11
  <2>2. Pending(u)' \/ Pending(w)' => ~Travels(s)'
    BY <1>d, <1>2, <1>14, <2>1
  <2>3. s.task \in Receivers[cursor.file] \ cursor.receivers
    BY <1>d, <1>2 DEF TransferInv, RequestNew
  <2>7. s = Trip(cursor.file, s.task)'
    BY <1>1, <1>5, <1>6
  <2>4. <<cursor.file, s.task>> \notin delivered'
    BY <1>1, <1>2
  <2>5. cursor'.spec = s /\ cursor' = cursor /\ HolderAt' = "request"
    BY <1>d, <1>1, <1>2, <1>5
  <2>6. Pending(cursor.spec.sender)' \/ Pending(cursor.spec.receiver)' => ~Travels(cursor.spec)'
    BY <1>d, <2>2, <2>5
  <2> QED BY <2>3, <2>4, <2>5, <2>6, <2>7 DEF RequestNew
<1>16. TravelsOnce'
  <2> SUFFICES ASSUME NEW x \in Deliverable, Travels(x)'
               PROVE  /\ x = Trip(x.file, x.task) /\ x.sender # x.receiver
                      /\ Due(x.file, x.task)' /\ <<x.file, x.task>> \notin delivered
    BY <1>d, <1>1, <1>5 DEF TravelsOnce
  <2>1. CASE Travels(x)
    BY <1>d, <1>5, <2>1 DEF TransferInv, TravelsOnce, Deliverable
  <2>2. CASE x = s
    BY <1>d, <1>2, <1>3, <1>4, <1>5, <1>6, <2>2
  <2> QED BY <1>d, <1>14, <2>1, <2>2
<1>17. DeliveredStarted'
  BY <1>d, <1>1, <1>5 DEF TransferInv, DeliveredStarted
<1>18. OnePlace'
  <2>1. s \notin transfers /\ \A a \in arrived : a[2] # s
    BY <1>d, <1>2 DEF Travels
  <2> QED BY <1>d, <1>1, <1>11, <2>1 DEF TransferInv, OnePlace
<1>19. BothEnds' /\ NothingReported'
  <2>1. pc[Mailer(v)] = "wait"
    BY <1>d, <1>1 DEF Incoming
  <2> QED BY <1>d, <1>1, <1>5, <2>1 DEF TransferInv, BothEnds, NothingReported
<1> QED BY <1>d, <1>5, <1>13, <1>15, <1>16, <1>17, <1>18, <1>19 DEF TransferInv

\* The first end notes the transfer, and the other end remains.
LEMMA TransferFirstEnd ==
    ASSUME MachinesInv, FilesInv, TransferInv, NEW v \in VMs, NEW s, FirstEndReported(v, s)
    PROVE  TransferInv'
<1>1. /\ <<v, s>> \in arrived /\ s \notin transfers /\ transfers' = transfers \cup {s}
      /\ arrived' = arrived \ {<<v, s>>}
      /\ UNCHANGED <<graphVars, hostOf, procVars, mbox, unmatchedPut, unmatchedGet, moving>>
  BY DEF FirstEndReported
<1>2. /\ UNCHANGED <<fileState, readyFiles, delivered, hostOf, cursor, filesMutex, pc, mbox,
                     unmatchedPut, unmatchedGet, moving>>
  BY <1>1 DEF graphVars, procVars
<1>3. HolderAt' = HolderAt /\ (Setup' <=> Setup)
  BY <1>2 DEF HolderAt, Setup
<1>4. \A x : Travels(x)' <=> Travels(x)
  <2>1. \A a \in arrived : a \in arrived' \/ a = <<v, s>>
    BY <1>1
  <2>2. arrived' \subseteq arrived
    BY <1>1
  <2>3. ASSUME NEW x, Travels(x) PROVE Travels(x)'
    <3>1. CASE \E a \in arrived : a[2] = x
      <4>1. PICK a \in arrived : a[2] = x
        BY <3>1
      <4>2. a = <<v, s>> => x = s
        BY <4>1
      <4> QED BY <1>1, <2>1, <4>1, <4>2 DEF Travels
    <3> QED BY <1>1, <1>2, <2>3, <3>1 DEF Travels
  <2>4. ASSUME NEW x, Travels(x)' PROVE Travels(x)
    <3>1. Travels(s)
      BY <1>1 DEF Travels
    <3> QED BY <1>1, <1>2, <2>2, <2>4, <3>1 DEF Travels
  <2> QED BY <2>3, <2>4
<1>5. Travels(s) /\ s \notin moving /\ EndOf(v, s) /\ s \in Deliverable /\ v \in Coordinators
  <2>1. Travels(s)
    BY <1>1 DEF Travels
  <2>2. s \notin moving
    BY <1>1 DEF TransferInv, OnePlace
  <2>3. EndOf(v, s)
    BY <1>1 DEF TransferInv, OnePlace
  <2> QED BY <2>1, <2>2, <2>3, TravellersAreDeliverable DEF Coordinators
<1>6. s.sender # s.receiver
  BY <1>5 DEF TransferInv, TravelsOnce
<1>7. HandsOutReady' /\ RequestNew'
  <2>1. \A f, r : Trip(f, r)' = Trip(f, r)
    BY <1>2 DEF Trip
  <2>2. \A u : Pending(u)' <=> Pending(u)
    BY <1>2 DEF Pending, Holds
  <2>3. HandsOutReady'
    BY <1>2, <1>3 DEF TransferInv, HandsOutReady
  <2> QED BY <1>2, <1>3, <1>4, <2>1, <2>2, <2>3 DEF TransferInv, RequestNew
<1>8. \A f \in Files, r \in Tasks : Due(f, r)' <=> Due(f, r)
  BY <1>2, <1>3 DEF Due, Started
<1>9. TravelsOnce' /\ DeliveredStarted'
  BY <1>2, <1>4, <1>8 DEF TransferInv, TravelsOnce, DeliveredStarted, Deliverable, Trip
<1>10. OnePlace'
  <2>1. ~({<<s.sender, s>>, <<s.receiver, s>>} \subseteq arrived')
    BY <1>1, <1>5 DEF EndOf
  <2>2. \A x \in transfers : ~({<<x.sender, x>>, <<x.receiver, x>>} \subseteq arrived')
    BY <1>1 DEF TransferInv, OnePlace
  <2> QED BY <1>1, <1>2, <1>5, <2>1, <2>2 DEF TransferInv, OnePlace, EndOf
<1>11. Unmatched'
  <2>1. \A u : (Pending(u)' <=> Pending(u)) /\ (Between(u)' <=> Between(u))
    BY <1>2, <1>3 DEF Pending, Holds, Between
  <2> QED BY <1>2, <2>1 DEF TransferInv, Unmatched
<1>12. BothEnds'
  <2> SUFFICES ASSUME \A u \in VMs : pc[Mailer(u)] # "dead"
               PROVE  /\ \A x \in transfers' : <<x.sender, x>> \in arrived' \/ <<x.receiver, x>> \in arrived'
                      /\ \A a \in arrived' : a[2] \notin transfers' =>
                            {<<a[2].sender, a[2]>>, <<a[2].receiver, a[2]>>} \subseteq arrived'
    BY <1>2 DEF BothEnds
  <2>1. {<<s.sender, s>>, <<s.receiver, s>>} \subseteq arrived
    <3>1. <<v, s>>[2] = s
      OBVIOUS
    <3> QED BY <1>1, <3>1 DEF TransferInv, BothEnds
  <2>2. <<s.sender, s>> \in arrived' \/ <<s.receiver, s>> \in arrived'
    BY <1>1, <1>6, <2>1
  <2>3. \A x \in transfers : <<x.sender, x>> \in arrived' \/ <<x.receiver, x>> \in arrived'
    BY <1>1 DEF TransferInv, BothEnds
  <2>4. ASSUME NEW a \in arrived', a[2] \notin transfers'
        PROVE  {<<a[2].sender, a[2]>>, <<a[2].receiver, a[2]>>} \subseteq arrived'
    <3>1. a \in arrived /\ a[2] \notin transfers /\ a[2] # s
      BY <1>1, <2>4
    <3> QED BY <1>1, <3>1 DEF TransferInv, BothEnds
  <2> QED BY <1>1, <2>2, <2>3, <2>4
<1>13. NothingReported'
  BY <1>1, <1>3, MailAfterSetup DEF NothingReported
<1> QED BY <1>7, <1>9, <1>10, <1>11, <1>12, <1>13 DEF TransferInv

\* The second end delivers, and nothing of the transfer remains.
LEMMA TransferSecondEnd ==
    ASSUME MachinesInv, FilesInv, TransferInv, NEW v \in VMs, NEW s, SecondEndReported(v, s)
    PROVE  TransferInv'
<1>1. /\ <<v, s>> \in arrived /\ s \in transfers /\ transfers' = transfers \ {s}
      /\ arrived' = arrived \ {<<v, s>>} /\ delivered' = delivered \cup {<<s.file, s.task>>}
      /\ UNCHANGED <<fileState, readyFiles, hostOf, cursor, filesMutex, mbox,
                     unmatchedPut, unmatchedGet, moving>>
      /\ Goto(Mailer(v), "jobs") /\ resume' = [resume EXCEPT ![Mailer(v)] = "wait"]
      /\ pc[Mailer(v)] = "wait"
  BY DEF SecondEndReported, GraphFinishTransfer
<1>2. /\ HolderAt' = HolderAt /\ HandsOutReady' /\ (Setup' <=> Setup)
      /\ \A f \in Files, r \in Tasks : Due(f, r)' <=> Due(f, r)
      /\ \A f, r : Trip(f, r)' = Trip(f, r)
      /\ \A u : Between(u)' <=> Between(u)
      /\ pc'[Mailer(v)] = "jobs" /\ \A u \in VMs : u # v => pc'[Mailer(u)] = pc[Mailer(u)]
  BY <1>1, MailerKeepsHolder
<1>3. /\ Travels(s) /\ s \in Deliverable /\ s \notin moving /\ EndOf(v, s)
      /\ ~({<<s.sender, s>>, <<s.receiver, s>>} \subseteq arrived)
  <2>1. Travels(s)
    BY <1>1 DEF Travels
  <2>2. s \notin moving
    BY <1>1 DEF TransferInv, OnePlace
  <2>3. EndOf(v, s) /\ ~({<<s.sender, s>>, <<s.receiver, s>>} \subseteq arrived)
    BY <1>1 DEF TransferInv, OnePlace
  <2> QED BY <2>1, <2>2, <2>3, TravellersAreDeliverable
<1>4. /\ s = Trip(s.file, s.task) /\ Due(s.file, s.task) /\ s.file \in Files /\ s.task \in Tasks
      /\ s.sender # s.receiver
  BY <1>3 DEF TransferInv, TravelsOnce, Deliverable
<1>5. \A a \in arrived : a[2] = s => a = <<v, s>>
  <2> SUFFICES ASSUME NEW a \in arrived, a[2] = s PROVE a = <<v, s>>
    OBVIOUS
  <2>1. EndOf(a[1], s) /\ a = <<a[1], s>>
    BY DEF TransferInv, OnePlace, MachinesInv, TypeInv, TypeOK, CommTypeOK
  <2> QED BY <1>1, <1>3, <2>1 DEF EndOf
<1>6. \A x : Travels(x)' <=> Travels(x) /\ x # s
  <2>1. ~Travels(s)'
    BY <1>1, <1>3, <1>5 DEF Travels
  <2>2. ASSUME NEW x, Travels(x), x # s PROVE Travels(x)'
    <3>1. CASE \E a \in arrived : a[2] = x
      <4>1. PICK a \in arrived : a[2] = x
        BY <3>1
      <4>2. a # <<v, s>>
        BY <2>2, <4>1
      <4> QED BY <1>1, <4>1, <4>2 DEF Travels
    <3> QED BY <1>1, <2>2, <3>1 DEF Travels
  <2>3. ASSUME NEW x, Travels(x)' PROVE Travels(x)
    BY <1>1, <2>3 DEF Travels
  <2> QED BY <2>1, <2>2, <2>3
<1>7. \A x \in Deliverable : Travels(x) /\ <<x.file, x.task>> = <<s.file, s.task>> => x = s
  BY <1>4, TripsDiffer DEF TransferInv, TravelsOnce
<1>8. RequestNew'
  <2> SUFFICES ASSUME HolderAt = "request"
               PROVE  /\ cursor.spec.task \in Receivers[cursor.file] \ cursor.receivers
                      /\ cursor.spec = Trip(cursor.file, cursor.spec.task)
                      /\ Pending(cursor.spec.sender) \/ Pending(cursor.spec.receiver) =>
                            /\ ~Travels(cursor.spec)'
                            /\ <<cursor.file, cursor.spec.task>> \notin delivered'
    BY <1>1, <1>2 DEF RequestNew, Pending, Holds
  <2>1. /\ cursor.spec.task \in Receivers[cursor.file] \ cursor.receivers
        /\ cursor.spec = Trip(cursor.file, cursor.spec.task)
        /\ Pending(cursor.spec.sender) \/ Pending(cursor.spec.receiver) =>
              ~Travels(cursor.spec) /\ <<cursor.file, cursor.spec.task>> \notin delivered
    BY DEF TransferInv, RequestNew
  <2>2. ~Travels(cursor.spec) => <<cursor.file, cursor.spec.task>> # <<s.file, s.task>>
    <3>1. <<cursor.file, cursor.spec.task>> = <<s.file, s.task>> => cursor.spec = s
      BY <1>4, <2>1
    <3> QED BY <1>3, <3>1
  <2>3. ~Travels(cursor.spec) => ~Travels(cursor.spec)'
    BY <1>1, <1>6
  <2> QED BY <1>1, <2>1, <2>2, <2>3
<1>9. TravelsOnce'
  <2> SUFFICES ASSUME NEW x \in Deliverable, Travels(x), x # s
               PROVE  /\ x = Trip(x.file, x.task) /\ x.sender # x.receiver
                      /\ Due(x.file, x.task)' /\ <<x.file, x.task>> \notin delivered'
    BY <1>2, <1>6 DEF TravelsOnce, Deliverable
  <2>1. /\ x = Trip(x.file, x.task) /\ x.sender # x.receiver
        /\ Due(x.file, x.task) /\ <<x.file, x.task>> \notin delivered
        /\ x.file \in Files /\ x.task \in Tasks
    BY DEF TransferInv, TravelsOnce, Deliverable
  <2>2. <<x.file, x.task>> # <<s.file, s.task>>
    BY <1>7
  <2> QED BY <1>1, <1>2, <2>1, <2>2
<1>10. DeliveredStarted'
  BY <1>1, <1>2, <1>4 DEF TransferInv, DeliveredStarted
<1>11. OnePlace'
  BY <1>1 DEF TransferInv, OnePlace
<1>12. Unmatched'
  <2>1. \A u : Pending(u)' <=> Pending(u)
    BY <1>1 DEF Pending, Holds
  <2> QED BY <1>1, <1>2, <2>1 DEF TransferInv, Unmatched
<1>13. BothEnds'
  <2>1. \A a \in arrived' : a \in arrived /\ a[2] # s
    BY <1>1, <1>5
  <2>2. ASSUME \A u \in VMs : pc'[Mailer(u)] # "dead"
        PROVE  \A u \in VMs : pc[Mailer(u)] # "dead"
    BY <1>1, <1>2, <2>2
  <2>3. \A x \in transfers' : x \in transfers /\ x # s
    BY <1>1
  <2>4. \A y, x : x # s /\ <<y, x>> \in arrived => <<y, x>> \in arrived'
    BY <1>1
  <2>5. ASSUME \A u \in VMs : pc'[Mailer(u)] # "dead", NEW x \in transfers'
        PROVE  <<x.sender, x>> \in arrived' \/ <<x.receiver, x>> \in arrived'
    BY <2>2, <2>3, <2>4, <2>5 DEF TransferInv, BothEnds
  <2>6. ASSUME \A u \in VMs : pc'[Mailer(u)] # "dead", NEW a \in arrived', a[2] \notin transfers'
        PROVE  {<<a[2].sender, a[2]>>, <<a[2].receiver, a[2]>>} \subseteq arrived'
    <3>1. a \in arrived /\ a[2] # s /\ a[2] \notin transfers
      BY <1>1, <2>1, <2>6
    <3>2. {<<a[2].sender, a[2]>>, <<a[2].receiver, a[2]>>} \subseteq arrived
      BY <2>2, <2>6, <3>1 DEF TransferInv, BothEnds
    <3> QED BY <2>4, <3>1, <3>2
  <2> QED BY <2>5, <2>6 DEF BothEnds
<1>14. NothingReported'
  BY <1>1, <1>2 DEF TransferInv, NothingReported
<1> QED BY <1>2, <1>8, <1>9, <1>10, <1>11, <1>12, <1>13, <1>14 DEF TransferInv

LEMMA TransferArrive ==
    ASSUME MachinesInv, FilesInv, TransferInv, NEW s \in moving, Arrive(s) PROVE TransferInv'
<1>1. /\ moving' = moving \ {s} /\ arrived' = arrived \cup {<<s.sender, s>>, <<s.receiver, s>>}
      /\ UNCHANGED <<fileState, readyFiles, delivered, transfers, hostOf, cursor, filesMutex, pc,
                     mbox, unmatchedPut, unmatchedGet>>
  BY DEF Arrive, graphVars, simVars, procVars
<1>2. HolderAt' = HolderAt /\ (Setup' <=> Setup)
  BY <1>1 DEF HolderAt, Setup
<1>3. \A x : Travels(x)' <=> Travels(x)
  <2>1. ASSUME NEW x, Travels(x) PROVE Travels(x)'
    <3>1. <<s.sender, s>>[2] = s /\ <<s.sender, s>> \in arrived'
      BY <1>1
    <3> QED BY <1>1, <2>1, <3>1 DEF Travels
  <2>2. ASSUME NEW x, Travels(x)' PROVE Travels(x)
    <3>1. \A a \in arrived' : a \in arrived \/ a[2] = s
      BY <1>1
    <3> QED BY <1>1, <2>2, <3>1 DEF Travels
  <2> QED BY <2>1, <2>2
<1>4. HandsOutReady' /\ RequestNew'
  <2>1. \A f, r : Trip(f, r)' = Trip(f, r)
    BY <1>1 DEF Trip
  <2>2. \A u : Pending(u)' <=> Pending(u)
    BY <1>1 DEF Pending, Holds
  <2>3. HandsOutReady'
    BY <1>1, <1>2 DEF TransferInv, HandsOutReady
  <2> QED BY <1>1, <1>2, <1>3, <2>1, <2>2, <2>3 DEF TransferInv, RequestNew
<1>5. \A f \in Files, r \in Tasks : Due(f, r)' <=> Due(f, r)
  BY <1>1, <1>2 DEF Due, Started
<1>6. TravelsOnce' /\ DeliveredStarted'
  BY <1>1, <1>3, <1>5 DEF TransferInv, TravelsOnce, DeliveredStarted, Deliverable, Trip
<1>7. s \notin transfers
  BY DEF TransferInv, OnePlace
<1>8. \A a \in arrived' : a \in arrived \/ (a[2] = s /\ a[1] \in {s.sender, s.receiver})
  BY <1>1
<1>9. OnePlace'
  <2>1. \A x \in moving' : x \notin transfers' /\ \A a \in arrived' : a[2] # x
    BY <1>1, <1>8 DEF TransferInv, OnePlace
  <2>2. \A x, y : x # s /\ <<y, x>> \in arrived' => <<y, x>> \in arrived
    BY <1>1
  <2>3. \A x \in transfers' : ~({<<x.sender, x>>, <<x.receiver, x>>} \subseteq arrived')
    BY <1>1, <1>7, <2>2 DEF TransferInv, OnePlace
  <2>4. \A a \in arrived' : EndOf(a[1], a[2])
    BY <1>8 DEF TransferInv, OnePlace, EndOf
  <2> QED BY <2>1, <2>3, <2>4 DEF OnePlace
<1>10. Unmatched'
  <2>1. \A u : (Pending(u)' <=> Pending(u)) /\ (Between(u)' <=> Between(u))
    BY <1>1, <1>2 DEF Pending, Holds, Between
  <2> QED BY <1>1, <2>1 DEF TransferInv, Unmatched
<1>11. BothEnds'
  <2>1. ASSUME \A u \in VMs : pc'[Mailer(u)] # "dead", NEW x \in transfers'
        PROVE  <<x.sender, x>> \in arrived' \/ <<x.receiver, x>> \in arrived'
    BY <1>1, <2>1 DEF TransferInv, BothEnds
  <2>2. ASSUME \A u \in VMs : pc'[Mailer(u)] # "dead", NEW a \in arrived', a[2] \notin transfers'
        PROVE  {<<a[2].sender, a[2]>>, <<a[2].receiver, a[2]>>} \subseteq arrived'
    <3>1. CASE a[2] = s
      BY <1>1, <3>1
    <3>2. CASE a \in arrived
      BY <1>1, <2>2, <3>2 DEF TransferInv, BothEnds
    <3> QED BY <1>8, <3>1, <3>2
  <2> QED BY <2>1, <2>2 DEF BothEnds
<1>12. NothingReported'
  BY <1>1, <1>2 DEF TransferInv, NothingReported
<1> QED BY <1>4, <1>6, <1>9, <1>10, <1>11, <1>12 DEF TransferInv

\* A mailer answers or ends: it takes no request, and brings nothing on.
LEMMA TransferMailerMoves ==
    ASSUME MachinesInv, FilesInv, TransferInv, NEW v \in VMs,
           UNCHANGED <<hostOf, moving, transfers, delivered, unmatchedPut, unmatchedGet,
                       fileState, readyFiles, cursor, filesMutex, resume>>,
           \/ UNCHANGED arrived
           \/ arrived' = {a \in arrived : a[1] # v} /\ Goto(Mailer(v), "dead"),
           NEW l, Goto(Mailer(v), l), pc[Mailer(v)] # "dead",
           \A u \in Coordinators : Pending(u)' <=> Pending(u)
    PROVE  TransferInv'
<1>1. /\ HolderAt' = HolderAt /\ HandsOutReady' /\ (Setup' <=> Setup)
      /\ \A f \in Files, r \in Tasks : Due(f, r)' <=> Due(f, r)
      /\ \A f, r : Trip(f, r)' = Trip(f, r)
      /\ \A u : Between(u)' <=> Between(u)
      /\ pc'[Mailer(v)] = l /\ \A u \in VMs : u # v => pc'[Mailer(u)] = pc[Mailer(u)]
  BY MailerKeepsHolder
<1>2. arrived' \subseteq arrived
  OBVIOUS
<1>3. \A x : Travels(x)' => Travels(x)
  BY <1>2 DEF Travels
<1>4. RequestNew'
  <2> SUFFICES ASSUME HolderAt = "request" PROVE RequestNew'
    BY <1>1 DEF RequestNew
  <2>1. cursor.spec.sender \in Coordinators /\ cursor.spec.receiver \in Coordinators
    BY AskedEnds
  <2> QED BY <1>1, <1>3, <2>1 DEF TransferInv, RequestNew
<1>5. TravelsOnce'
  BY <1>1, <1>3 DEF TransferInv, TravelsOnce, Deliverable
<1>6. DeliveredStarted'
  BY <1>1 DEF TransferInv, DeliveredStarted
<1>7. OnePlace'
  BY <1>2 DEF TransferInv, OnePlace
<1>8. Unmatched'
  <2> SUFFICES ASSUME NEW u \in VMs
               PROVE  /\ unmatchedPut[u] = IF Between(u)' /\ Pending(u)' /\ ~Pending(cursor.spec.sender)'
                                           THEN <<cursor'.spec>> ELSE <<>>
                      /\ unmatchedGet[u] = IF Between(u)' /\ ~Pending(u)' /\ Pending(cursor.spec.sender)'
                                           THEN 1 ELSE 0
    BY DEF Unmatched
  <2>1. CASE ~Between(u)
    BY <1>1, <2>1 DEF TransferInv, Unmatched
  <2>2. CASE Between(u)
    <3>1. u \in Coordinators /\ cursor.spec.sender \in Coordinators
      BY <2>2, AskedEnds DEF Between, Coordinators
    <3> QED BY <1>1, <3>1 DEF TransferInv, Unmatched
  <2> QED BY <2>1, <2>2
<1>9. BothEnds' /\ NothingReported'
  <2>1. CASE UNCHANGED arrived
    BY <1>1, <2>1 DEF TransferInv, BothEnds, NothingReported
  <2>2. CASE arrived' = {a \in arrived : a[1] # v} /\ Goto(Mailer(v), "dead")
    <3>1. pc'[Mailer(v)] = "dead"
      BY <2>2, ProcsFacts DEF Goto, MachinesInv, TypeInv, TypeOK, ProcTypeOK
    <3> QED BY <1>1, <3>1 DEF TransferInv, BothEnds, NothingReported
  <2> QED BY <2>1, <2>2
<1> QED BY <1>1, <1>4, <1>5, <1>6, <1>7, <1>8, <1>9 DEF TransferInv

LEMMA TransferMailerStep ==
    ASSUME MachinesInv, FilesInv, EndInv, MailInv, TransferInv, NEW v \in VMs, MailerStep(v)
    PROVE  TransferInv'
<1>1. Mailer(v) \in Procs /\ v \in Coordinators /\ mbox \in [Coordinators -> Seq(Messages)]
  BY ProcsFacts DEF MachinesInv, TypeInv, TypeOK, CommTypeOK, Coordinators
<1>2. CASE KillMailer(v)
  <2>1. /\ Incoming(v) /\ Received(v).receiver = NoVM /\ Goto(Mailer(v), "drain")
        /\ UNCHANGED <<hostOf, moving, transfers, arrived, delivered, unmatchedPut, unmatchedGet,
                       fileState, readyFiles, cursor, filesMutex, resume>>
    BY <1>2 DEF KillMailer, graphVars, simVars, dataVars
  <2>2. /\ pc[Mailer(v)] = "wait" /\ mbox'[v] = <<>> /\ \A u \in Coordinators : u # v => mbox'[u] = mbox[u]
    BY <2>1, IncomingIs
  <2>3. /\ HolderAt' = HolderAt /\ HandsOutReady' /\ (Setup' <=> Setup)
        /\ \A f \in Files, r \in Tasks : Due(f, r)' <=> Due(f, r)
        /\ pc'[Mailer(v)] = "drain" /\ \A u \in VMs : u # v => pc'[Mailer(u)] = pc[Mailer(u)]
    BY <2>1, MailerKeepsHolder
  <2>4. \A u \in Coordinators : Pending(u)' => Pending(u)
    <3>1. ~Pending(v)'
      BY <2>2 DEF Pending, Holds
    <3> QED BY <2>1, <2>2, <3>1 DEF Pending, Holds
  <2>5. ASSUME HolderAt = "request" PROVE \A u : ~Between(u) \/ u \notin VMs
    <3>1. Received(v) = cursor.spec
      BY <2>1, <2>5, IncomingIs, ClosedFree DEF Closing
    <3> QED BY <2>1, <3>1, PlatformAssumption DEF Between, NoVM
  <2> QED BY <2>1, <2>2, <2>3, <2>4, <2>5, AskedEnds, TransferKept
<1>3. CASE PutAck(v) \/ AckTaken(v) \/ Drain(v)
  <2>1. /\ UNCHANGED <<hostOf, moving, transfers, delivered, unmatchedPut, unmatchedGet,
                       fileState, readyFiles, cursor, filesMutex, resume>>
        /\ \/ UNCHANGED arrived
           \/ arrived' = {a \in arrived : a[1] # v} /\ Goto(Mailer(v), "dead")
        /\ pc[Mailer(v)] # "dead" /\ \E l : Goto(Mailer(v), l)
        /\ UNCHANGED mbox \/ mbox' = [mbox EXCEPT ![v] = Append(@, Ack)]
    BY <1>3 DEF PutAck, AckTaken, Drain, graphVars, simVars, dataVars
  <2>2. \A u \in Coordinators : Pending(u)' <=> Pending(u)
    <3>1. CASE UNCHANGED mbox
      BY <2>1, <3>1 DEF Pending, Holds
    <3>2. CASE mbox' = [mbox EXCEPT ![v] = Append(@, Ack)]
      <4>1. Ack \in Messages /\ Request(cursor.spec) # Ack
        BY DEF Ack, Request, Messages, Specs
      <4>2. \A u \in Coordinators : u # v => mbox'[u] = mbox[u]
        BY <1>1, <3>2
      <4>3. mbox'[v] = Append(mbox[v], Ack) /\ mbox[v] \in Seq(Messages)
        BY <1>1, <3>2
      <4>4. \A i \in DOMAIN mbox'[v] : (\E j \in DOMAIN mbox[v] : mbox'[v][i] = mbox[v][j]) \/ mbox'[v][i] = Ack
        BY <4>1, <4>3, AppendedMessages
      <4>5. \A j \in DOMAIN mbox[v] : j \in DOMAIN mbox'[v] /\ mbox'[v][j] = mbox[v][j]
        <5> DEFINE q == mbox[v]
        <5>1. q \in Seq(Messages) /\ mbox'[v] = Append(q, Ack)
          BY <4>3
        <5> HIDE DEF q
        <5>2. \A j \in DOMAIN q : j \in DOMAIN Append(q, Ack) /\ Append(q, Ack)[j] = q[j]
          BY <4>1, <5>1
        <5> QED BY <5>1, <5>2 DEF q
      <4>6. Pending(v)' <=> Pending(v)
        BY <2>1, <4>1, <4>4, <4>5 DEF Pending, Holds
      <4> QED BY <2>1, <4>2, <4>6 DEF Pending, Holds
    <3> QED BY <2>1, <3>1, <3>2
  <2> QED BY <2>1, <2>2, TransferMailerMoves
<1>4. CASE JobStep(Mailer(v))
  <2>1. pc[Mailer(v)] \in {"jobs", "create"}
    BY <1>4 DEF JobStep, NothingToStart, CheckReadyJobOnVM, CreateActor, JobsChecked
  <2>2. ~Setup
    BY <1>1, <2>1, AtWork
  <2>3. ~Setup'
    BY <1>4, <2>2, SetupOver DEF Next, MailerStep, MachinesInv
  <2> QED BY <1>1, <1>4, <2>3, TransferJobStep
<1> QED
  BY <1>2, <1>3, <1>4, TransferFirstEnd, TransferSecondEnd, TransferLocal, TransferBegins DEF MailerStep

LEMMA TransferMainStep ==
    ASSUME MachinesInv, FilesInv, AddressInv, EndInv, MailInv, TransferInv, MainStep
    PROVE  TransferInv'
<1>1. Main \in Procs /\ pc \in [Procs -> Labels] /\ mbox \in [Coordinators -> Seq(Messages)]
  BY ProcsFacts DEF MachinesInv, TypeInv, TypeOK, ProcTypeOK, CommTypeOK
<1>2. ASSUME NEW l, Goto(Main, l), UNCHANGED filesMutex
      PROVE  HolderAt' = HolderAt /\ \A v \in VMs : pc'[Mailer(v)] = pc[Mailer(v)]
  <2>1. filesMutex # NoTask => pc'[Compute(filesMutex)] = pc[Compute(filesMutex)]
    BY <1>1, <1>2, HolderNotAtJobs, ProcsFacts DEF Goto
  <2> QED BY <1>1, <1>2, <2>1, HolderStays, ProcsFacts DEF Goto
<1>3. CASE ResetSchedule \/ BeginMainLoop \/ \E v \in VMs : BuyVM(v) \/ AssignedAll(v)
  BY <1>3, TransferInSetup
     DEF ResetSchedule, BeginMainLoop, BuyVM, AssignedAll, Setup, graphVars, simVars, dataVars
<1>4. ASSUME NEW v \in VMs, AssignTask(v) PROVE TransferInv'
  <2>1. /\ UNCHANGED <<moving, transfers, arrived, delivered, unmatchedPut, unmatchedGet, filesMutex>>
        /\ Setup
    BY <1>4 DEF AssignTask, GraphAssignTask, Setup, graphVars, procVars, dataVars
  <2>2. \A f \in Files : fileState[f] = "TRANSFERING" => fileState'[f] = "TRANSFERING"
    BY <1>4 DEF AssignTask, GraphAssignTask, ReadyOnAssign, graphVars
  <2> QED BY <2>1, <2>2, TransferInSetup
<1>5. CASE TestFinished \/ JoinActor \/ EndMainLoop
  <2>1. /\ UNCHANGED <<hostOf, moving, transfers, arrived, delivered, unmatchedPut, unmatchedGet,
                       fileState, readyFiles, cursor, mbox, filesMutex>>
        /\ pc' = pc \/ \E l \in {"shut", "join", "dead"} : Goto(Main, l)
        /\ ~Setup
    BY <1>5 DEF TestFinished, JoinActor, EndMainLoop, Setup, graphVars, simVars, dataVars
  <2>2. ~Setup'
    BY <1>1, <2>1 DEF Setup, Goto
  <2>3. HolderAt' = HolderAt /\ \A v \in VMs : pc'[Mailer(v)] = pc[Mailer(v)]
    BY <1>2, <2>1, HolderStays
  <2> QED BY <2>1, <2>2, <2>3, TransferUntouched
<1>6. ASSUME NEW v \in VMs, PutTerminator(v) \/ JoinMailer(v) PROVE TransferInv'
  <2>1. /\ UNCHANGED <<hostOf, moving, transfers, arrived, delivered, unmatchedPut, unmatchedGet,
                       fileState, readyFiles, cursor, filesMutex>>
        /\ \E l \in {"shut", "closing"} : Goto(Main, l)
        /\ ~Setup /\ Closing
    BY <1>6 DEF PutTerminator, JoinMailer, Setup, Closing, graphVars, simVars, dataVars
  <2>2. ~Setup'
    BY <1>1, <2>1 DEF Setup, Goto
  <2>3. HolderAt = "none" /\ HolderAt' = HolderAt /\ \A u \in VMs : pc'[Mailer(u)] = pc[Mailer(u)]
    BY <1>2, <2>1, ClosedFree
  <2>4. \A f \in Files, r \in Tasks : Due(f, r) => Due(f, r)'
    BY <2>1, <2>3 DEF Due, Started
  <2>5. HandsOutReady'
    BY <2>1, <2>3 DEF TransferInv, HandsOutReady
  <2> QED BY <2>1, <2>2, <2>3, <2>4, <2>5, NobodyWaits, TransferHandsOut
<1>7. CASE JobStep(Main)
  <2>1. pc[Main] \in {"jobs", "create"}
    BY <1>7 DEF JobStep, NothingToStart, CheckReadyJobOnVM, CreateActor, JobsChecked
  <2>2. ~Setup
    BY <2>1 DEF Setup
  <2>3. ~Setup'
    BY <1>7, <2>2, SetupOver DEF Next, MainStep, MachinesInv
  <2> QED BY <1>1, <1>7, <2>3, TransferJobStep
<1> QED BY <1>3, <1>4, <1>5, <1>6, <1>7 DEF MainStep

LEMMA TransferNext ==
    MachinesInv /\ FilesInv /\ AddressInv /\ EndInv /\ MailInv /\ TransferInv /\ [Next]_vars => TransferInv'
<1> SUFFICES ASSUME MachinesInv, FilesInv, AddressInv, EndInv, MailInv, TransferInv, [Next]_vars
             PROVE  TransferInv'
  OBVIOUS
<1>1. CASE UNCHANGED vars \/ Ended
  <2>1. UNCHANGED <<hostOf, moving, transfers, arrived, delivered, unmatchedPut, unmatchedGet,
                    fileState, readyFiles, cursor, mbox, filesMutex, pc>>
    BY <1>1 DEF Ended, vars, graphVars, simVars, procVars, dataVars
  <2>2. HolderAt' = HolderAt /\ (Setup' <=> Setup)
    BY <2>1 DEF HolderAt, Setup
  <2> QED BY <2>1, <2>2, TransferUntouched
<1> QED
  BY <1>1, TransferMainStep, TransferComputeStep, TransferMailerStep, TransferArrive DEF Next

\* Everything proved of a run, whatever the workflow, the platform and the schedule.
SimulatorInv == MachinesInv /\ FilesInv /\ AddressInv /\ EndInv /\ MailInv /\ TransferInv

LEMMA SimulatorInvInit == Init => SimulatorInv
BY MachinesInit, FilesInit, AddressInit, EndInit, MailInit, TransferInit DEF SimulatorInv

LEMMA SimulatorInvNext == SimulatorInv /\ [Next]_vars => SimulatorInv'
BY MachinesNext, FilesNext, AddressNext, EndNext, MailNext, TransferNext DEF SimulatorInv

(***************************************************************************)
(* Every reachable state of a run, between any two steps of its actors,     *)
(* keeps the accounts of machines, files, addresses, mailboxes and          *)
(* transfers, whatever the workflow, the platform and the schedule.         *)
(***************************************************************************)
THEOREM SimulatorInvariant == Spec => []SimulatorInv
BY SimulatorInvInit, SimulatorInvNext, PTL DEF Spec

\* A transfer that is reported a second time, or is local, is one of the graph.
LEMMA DeliveryIsCall ==
    ASSUME MachinesInv, FilesInv, TransferInv, NEW f \in Files, NEW r \in Tasks, Due(f, r),
           <<f, r>> \notin delivered, GraphFinishTransfer(f, r)
    PROVE  CallFinishTransfer(f, r)
<1>1. fileState[f] \in {"READY", "TRANSFERING"}
  BY DEF Due, Started, TransferInv, HandsOutReady, FilesInv, HandedOutOnce
<1> QED BY <1>1 DEF Due, CallFinishTransfer

LEMMA JobStepUsesGraph ==
    ASSUME MachinesInv, NEW p \in Procs, JobStep(p) PROVE GraphNext \/ UNCHANGED graphVars
<1>1. ASSUME NEW v \in VMs, CheckReadyJobOnVM(p, v) PROVE GraphNext
  BY <1>1, HeadStarts DEF GraphNext
<1>2. ASSUME NEW v \in VMs, NothingToStart(p, v) \/ CreateActor(p, v) PROVE UNCHANGED graphVars
  BY <1>2 DEF NothingToStart, CreateActor
<1> QED BY <1>1, <1>2 DEF JobStep, JobsChecked

LEMMA StepUsesGraph ==
    ASSUME SimulatorInv, [Next]_vars PROVE GraphNext \/ UNCHANGED graphVars
<1> USE DEF SimulatorInv
<1>1. CASE MainStep
  <2>1. CASE \E v \in VMs : AssignTask(v)
    <3>1. PICK v \in VMs : AssignTask(v)
      BY <2>1
    <3>2. Head(copy[v]) \in Tasks
      BY <3>1 DEF AssignTask, MachinesInv, TypeInv, TypeOK, SimTypeOK
    <3> QED BY <3>1, <3>2 DEF AssignTask, GraphNext
  <2>2. CASE \E v \in VMs : BuyVM(v) \/ AssignedAll(v) \/ PutTerminator(v) \/ JoinMailer(v)
    BY <2>2 DEF BuyVM, AssignedAll, PutTerminator, JoinMailer
  <2>3. CASE ResetSchedule \/ BeginMainLoop \/ TestFinished \/ JoinActor \/ EndMainLoop
    BY <2>3 DEF ResetSchedule, BeginMainLoop, TestFinished, JoinActor, EndMainLoop
  <2> QED BY <1>1, <2>1, <2>2, <2>3, ProcsFacts, JobStepUsesGraph DEF MainStep
<1>2. ASSUME NEW t \in Tasks, ComputeStep(t) PROVE GraphNext \/ UNCHANGED graphVars
  <2>1. CASE DoRefreshAfterTask(t)
    <3>1. taskState[t] = "RUNNING" /\ GraphFinishTask(t)
      BY <2>1 DEF DoRefreshAfterTask, MachinesInv, ActorOfRunning
    <3> QED BY <3>1 DEF GraphNext, CallFinishTask
  <2>2. CASE FileStarted(t)
    <3>1. HolderAt = "receivers"
      BY <2>2, HolderFacts DEF FileStarted, AtFiles
    <3>2. cursor.file \in readyFiles /\ cursor.file \in Files
      BY <3>1 DEF TransferInv, HandsOutReady, Handing, MachinesInv, TypeInv, TypeOK, GraphTypeOK
    <3> QED BY <2>2, <3>2 DEF FileStarted, GraphNext, CallStartTransfer
  <2>3. CASE DoExecute(t) \/ CheckReadyFiles(t) \/ NextFile(t) \/ FilesChecked(t)
    BY <2>3 DEF DoExecute, CheckReadyFiles, NextFile, FilesChecked
  <2>4. CASE (\E r \in Tasks : StartTransfer(t, r)) \/ RequestTaken(t) \/ TakeAck(t) \/ TransferStarted(t)
    BY <2>4 DEF StartTransfer, RequestTaken, TakeAck, TransferStarted
  <2> QED BY <1>2, <2>1, <2>2, <2>3, <2>4, ProcsFacts, JobStepUsesGraph DEF ComputeStep
<1>3. ASSUME NEW v \in VMs, MailerStep(v) PROVE GraphNext \/ UNCHANGED graphVars
  <2>1. ASSUME NEW s, SecondEndReported(v, s) PROVE GraphNext
    <3>1. s \in transfers /\ GraphFinishTransfer(s.file, s.task)
      BY <2>1 DEF SecondEndReported
    <3>2. Travels(s) /\ s \in Deliverable
      BY <3>1, TravellersAreDeliverable DEF Travels
    <3>3. /\ s.file \in Files /\ s.task \in Tasks /\ Due(s.file, s.task)
          /\ <<s.file, s.task>> \notin delivered
      BY <3>2 DEF TransferInv, TravelsOnce, Deliverable
    <3> QED BY <3>1, <3>3, DeliveryIsCall DEF GraphNext
  <2>2. CASE LocalTransfer(v)
    <3>1. /\ Incoming(v) /\ Received(v).receiver # NoVM /\ UNCHANGED cursor
          /\ GraphFinishTransfer(Received(v).file, Received(v).task)
      BY <2>2 DEF LocalTransfer
    <3>2. /\ HolderAt = "request" /\ Received(v) = cursor.spec
          /\ <<cursor.file, cursor.spec.task>> \notin delivered
      BY <3>1, RequestArrives
    <3>3. /\ cursor.spec.file = cursor.file /\ cursor.file \in Files /\ cursor.spec.task \in Tasks
          /\ Due(cursor.file, cursor.spec.task)
      BY <3>2, AskedEnds
    <3> QED BY <3>1, <3>2, <3>3, DeliveryIsCall DEF GraphNext
  <2>3. ASSUME NEW s, FirstEndReported(v, s) PROVE UNCHANGED graphVars
    BY <2>3 DEF FirstEndReported
  <2>4. CASE KillMailer(v) \/ BeginReceiving(v) \/ BeginSending(v) \/ PutAck(v) \/ AckTaken(v) \/ Drain(v)
    BY <2>4 DEF KillMailer, BeginReceiving, BeginSending, PutAck, AckTaken, Drain
  <2> QED BY <1>3, <2>1, <2>2, <2>3, <2>4, ProcsFacts, JobStepUsesGraph DEF MailerStep
<1>4. ASSUME NEW s \in moving, Arrive(s) PROVE UNCHANGED graphVars
  BY <1>4 DEF Arrive
<1>5. CASE UNCHANGED vars \/ Ended
  BY <1>5 DEF Ended, vars
<1> QED BY <1>1, <1>2, <1>3, <1>4, <1>5 DEF Next

(***************************************************************************)
(* Refinement: the actors together, over mailboxes and a mutex, use the    *)
(* graph the way its own specification allows, for every workflow,         *)
(* platform and schedule: a task starts when ready and finishes once while *)
(* RUNNING, a file is handed out only while ready, and it is delivered     *)
(* once to each receiver and only after it was released.                   *)
(***************************************************************************)
THEOREM SimulatorUsesGraph == Spec => UsesGraph
<1>1. Init => GraphInit
  BY DEF Init
<1>2. SimulatorInv /\ [Next]_vars => [GraphNext]_graphVars
  BY StepUsesGraph
<1> QED
  BY <1>1, <1>2, SimulatorInvariant, PTL DEF Spec, UsesGraph, GraphSpec
-----------------------------------------------------------------------------
(* What the graph promises on its own holds of the run of a well-formed     *)
(* workflow, because the actors use it as it allows.                        *)

LEMMA SimulatorKeepsGraph == WellFormedWorkflow => (Spec => []GraphInv)
<1> SUFFICES ASSUME WellFormedWorkflow PROVE Spec => []GraphInv
  OBVIOUS
<1>1. Spec => GraphSpec
  BY SimulatorUsesGraph DEF UsesGraph
<1>2. GraphSpec => []GraphInv
  BY GraphInvariant
<1> QED BY <1>1, <1>2, PTL

(***************************************************************************)
(* At run time the counters of Task::IsReady count what they are meant to, *)
(* whatever the order in which tasks and transfers end.                    *)
(***************************************************************************)
THEOREM SimulatorCountersExact == WellFormedWorkflow => (Spec => []CountersExact)
<1> SUFFICES ASSUME WellFormedWorkflow PROVE Spec => []CountersExact
  OBVIOUS
<1>1. Spec => []GraphInv
  BY SimulatorKeepsGraph
<1>2. GraphInv => CountersExact
  BY DEF GraphInv
<1> QED BY <1>1, <1>2, PTL

(***************************************************************************)
(* The simulator starts no task before every author of its inputs is DONE  *)
(* and every such input has been delivered to the machine of the task.     *)
(***************************************************************************)
THEOREM SimulatorStartedOnlyWhenFed == WellFormedWorkflow => (Spec => []StartedOnlyWhenFed)
<1> SUFFICES ASSUME WellFormedWorkflow PROVE Spec => []StartedOnlyWhenFed
  OBVIOUS
<1>1. Spec => []GraphInv
  BY SimulatorKeepsGraph
<1>2. GraphInv => StartedOnlyWhenFed
  BY DEF GraphInv
<1> QED BY <1>1, <1>2, PTL

(***************************************************************************)
(* The actors that walk over ReadyFiles, release files and hand them out   *)
(* keep the set and the states of its files in agreement.                  *)
(***************************************************************************)
THEOREM SimulatorReadyFilesMatchStates == WellFormedWorkflow => (Spec => []ReadyFilesMatchStates)
<1> SUFFICES ASSUME WellFormedWorkflow PROVE Spec => []ReadyFilesMatchStates
  OBVIOUS
<1>1. Spec => []GraphInv
  BY SimulatorKeepsGraph
<1>2. GraphInv => ReadyFilesMatchStates
  BY DEF GraphInv
<1> QED BY <1>1, <1>2, PTL

(***************************************************************************)
(* Refinement, end to end: the program as a whole, actors, mailboxes and   *)
(* counters, implements a run of its workflow as WorkflowRun states it.    *)
(***************************************************************************)
THEOREM SimulatorRunsTheWorkflow == WellFormedWorkflow => (Spec => RunsTheWorkflow)
<1> SUFFICES ASSUME WellFormedWorkflow PROVE Spec => RunsTheWorkflow
  OBVIOUS
<1>1. Spec => GraphSpec
  BY SimulatorUsesGraph DEF UsesGraph
<1>2. GraphSpec => RunsTheWorkflow
  BY GraphRunsTheWorkflow
<1> QED BY <1>1, <1>2, PTL

-----------------------------------------------------------------------------
(* A task that is not DONE keeps the run open while a mailer looks for jobs. *)

LookingForJobs(v) == pc[Mailer(v)] \in {"jobs", "create"}

\* No time has passed for this task since.
StillOpen(r) == pc[Compute(r)] \in {"none", "exec"} /\ taskState[r] # "DONE"

JobsOpen == \A v \in VMs : LookingForJobs(v) => \E r \in Tasks : StillOpen(r)

LEMMA JobsOpenKept ==
    ASSUME JobsOpen, \A v \in VMs : LookingForJobs(v)' => \E u \in VMs : LookingForJobs(u),
           \A r \in Tasks : StillOpen(r) => StillOpen(r)'
    PROVE  JobsOpen'
BY DEF JobsOpen

\* What is still to be delivered keeps its receiver from having started.
LEMMA ReceiverIsOpen ==
    ASSUME MachinesInv, StartedOnlyWhenFed, NEW f \in Files, NEW r \in Tasks,
           Due(f, r), <<f, r>> \notin delivered
    PROVE  StillOpen(r)
<1>1. f \in FilesIn(Inputs[r]) /\ Author[f] # NoTask
  BY DEF Due, Receivers
<1>2. PICK i \in DependencyIdx[r] : Inputs[r][i] = f
  BY <1>1 DEF FilesIn, DependencyIdx
<1>3. taskState[r] \notin {"RUNNING", "DONE"}
  BY <1>2 DEF StartedOnlyWhenFed
<1> QED BY <1>3 DEF MachinesInv, ActorOfRunning, StillOpen

LEMMA OpenJobStep ==
    ASSUME SimulatorInv, JobsOpen, NEW p \in Procs, JobStep(p) PROVE JobsOpen'
<1> USE DEF SimulatorInv
<1>0. /\ pc \in [Procs -> Labels] /\ resume \in [Procs -> {"loop", "lock", "wait", "ack"}]
  BY DEF MachinesInv, TypeInv, TypeOK, ProcTypeOK
<1>1. CASE \E v \in VMs : NothingToStart(p, v)
  BY <1>1 DEF NothingToStart, JobsOpen, LookingForJobs, StillOpen, graphVars
<1>2. ASSUME NEW w \in VMs, CheckReadyJobOnVM(p, w) PROVE JobsOpen'
  <2>1. /\ pc[p] = "jobs" /\ \A q \in Procs : q # p => pc'[q] = pc[q]
        /\ \A u \in Tasks : taskState'[u] = "DONE" => taskState[u] = "DONE"
    BY <1>2, HeadStarts
  <2>2. \A v \in VMs : LookingForJobs(v)' => LookingForJobs(v)
    BY <2>1, ProcsFacts DEF LookingForJobs
  <2>3. \A r \in Tasks : StillOpen(r) => StillOpen(r)'
    BY <2>1, ProcsFacts DEF StillOpen
  <2> QED BY <2>2, <2>3, JobsOpenKept
<1>3. ASSUME NEW w \in VMs, CreateActor(p, w) PROVE JobsOpen'
  <2>1. PICK t \in Tasks : /\ pc[p] = "create" /\ pc'[Compute(t)] = "exec"
                           /\ \A q \in Procs : q # p /\ q # Compute(t) => pc'[q] = pc[q]
                           /\ UNCHANGED taskState
    BY <1>3, ActorCreated DEF graphVars
  <2>2. \A v \in VMs : LookingForJobs(v)' => LookingForJobs(v)
    BY <2>1, ProcsFacts DEF LookingForJobs
  <2>3. \A r \in Tasks : StillOpen(r) => StillOpen(r)'
    BY <2>1, ProcsFacts DEF StillOpen
  <2> QED BY <2>2, <2>3, JobsOpenKept
<1>4. CASE JobsChecked(p)
  <2>1. /\ pc[p] = "jobs" /\ \A q \in Procs : q # p => pc'[q] = pc[q]
        /\ UNCHANGED taskState
    BY <1>0, <1>4 DEF JobsChecked, Goto, graphVars
  <2>2. \A v \in VMs : LookingForJobs(v)' => LookingForJobs(v)
    BY <2>1, ProcsFacts DEF LookingForJobs
  <2>3. \A r \in Tasks : StillOpen(r) => StillOpen(r)'
    BY <2>1, ProcsFacts DEF StillOpen
  <2> QED BY <2>2, <2>3, JobsOpenKept
<1> QED BY <1>1, <1>2, <1>3, <1>4 DEF JobStep

LEMMA OpenComputeStep ==
    ASSUME SimulatorInv, JobsOpen, NEW t \in Tasks, ComputeStep(t) PROVE JobsOpen'
<1> USE DEF SimulatorInv
<1>0. pc \in [Procs -> Labels] /\ Compute(t) \in Procs
  BY ProcsFacts DEF MachinesInv, TypeInv, TypeOK, ProcTypeOK
<1>1. CASE JobStep(Compute(t))
  BY <1>0, <1>1, OpenJobStep
<1>2. CASE DoExecute(t)
  <2>1. \A v \in VMs : ~LookingForJobs(v)
    BY <1>2, ProcsFacts DEF DoExecute, TimePasses, LookingForJobs
  <2>2. \A v \in VMs : pc'[Mailer(v)] = pc[Mailer(v)]
    BY <1>0, <1>2, ProcsFacts DEF DoExecute, Goto
  <2> QED BY <2>1, <2>2 DEF JobsOpen, LookingForJobs
<1>3. ASSUME pc[Compute(t)] \notin {"none", "exec"},
             pc' = pc \/ \E l : Goto(Compute(t), l),
             \A r \in Tasks : r # t => (taskState'[r] = "DONE" => taskState[r] = "DONE")
      PROVE  JobsOpen'
  <2>1. \A v \in VMs : LookingForJobs(v)' => LookingForJobs(v)
    BY <1>0, <1>3, ProcsFacts DEF LookingForJobs, Goto
  <2>2. \A r \in Tasks : StillOpen(r) => StillOpen(r)'
    BY <1>0, <1>3, ProcsFacts DEF StillOpen, Goto
  <2> QED BY <2>1, <2>2, JobsOpenKept
<1>4. CASE DoRefreshAfterTask(t)
  <2>1. \A r \in Tasks : r # t => (taskState'[r] = "DONE" => taskState[r] = "DONE")
    BY <1>4 DEF DoRefreshAfterTask, GraphFinishTask
  <2> QED BY <1>3, <1>4, <2>1 DEF DoRefreshAfterTask
<1>5. CASE CheckReadyFiles(t) \/ NextFile(t) \/ FilesChecked(t)
  BY <1>3, <1>5 DEF CheckReadyFiles, NextFile, FilesChecked, graphVars
<1>6. CASE FileStarted(t)
  BY <1>3, <1>6 DEF FileStarted, GraphStartTransfer
<1>7. CASE RequestTaken(t) \/ TakeAck(t) \/ TransferStarted(t)
  BY <1>3, <1>7 DEF RequestTaken, TakeAck, TransferStarted, graphVars
<1>8. CASE \E r \in Tasks : StartTransfer(t, r)
  BY <1>3, <1>8 DEF StartTransfer, graphVars
<1> QED BY <1>1, <1>2, <1>4, <1>5, <1>6, <1>7, <1>8 DEF ComputeStep

LEMMA OpenMailerStep ==
    ASSUME SimulatorInv, StartedOnlyWhenFed, JobsOpen, NEW v \in VMs, MailerStep(v)
    PROVE  JobsOpen'
<1> USE DEF SimulatorInv
<1>0. pc \in [Procs -> Labels] /\ Mailer(v) \in Procs
  BY ProcsFacts DEF MachinesInv, TypeInv, TypeOK, ProcTypeOK
<1>1. CASE JobStep(Mailer(v))
  BY <1>0, <1>1, OpenJobStep
<1>2. ASSUME UNCHANGED taskState, pc' = pc \/ \E l \in Labels \ {"jobs", "create"} : Goto(Mailer(v), l)
      PROVE  JobsOpen'
  <2>1. \A u \in VMs : LookingForJobs(u)' => LookingForJobs(u)
    BY <1>0, <1>2, ProcsFacts DEF LookingForJobs, Goto
  <2>2. \A r \in Tasks : StillOpen(r) => StillOpen(r)'
    BY <1>0, <1>2, ProcsFacts DEF StillOpen, Goto
  <2> QED BY <2>1, <2>2, JobsOpenKept
<1>3. ASSUME NEW f \in Files, NEW r \in Tasks, Due(f, r), <<f, r>> \notin delivered,
             UNCHANGED taskState, Goto(Mailer(v), "jobs")
      PROVE  JobsOpen'
  <2>1. StillOpen(r)
    BY <1>3, ReceiverIsOpen
  <2>2. StillOpen(r)'
    BY <1>0, <1>3, <2>1, ProcsFacts DEF StillOpen, Goto
  <2> QED BY <2>2 DEF JobsOpen
<1>4. ASSUME NEW s, SecondEndReported(v, s) PROVE JobsOpen'
  <2>1. s \in transfers /\ UNCHANGED taskState /\ Goto(Mailer(v), "jobs")
    BY <1>4 DEF SecondEndReported, GraphFinishTransfer
  <2>2. Travels(s) /\ s \in Deliverable
    BY <2>1, TravellersAreDeliverable DEF Travels
  <2>3. /\ s.file \in Files /\ s.task \in Tasks /\ Due(s.file, s.task)
        /\ <<s.file, s.task>> \notin delivered
    BY <2>2 DEF TransferInv, TravelsOnce, Deliverable
  <2> QED BY <1>3, <2>1, <2>3
<1>5. CASE LocalTransfer(v)
  <2>1. /\ Incoming(v) /\ Received(v).receiver # NoVM /\ UNCHANGED <<cursor, taskState>>
        /\ Goto(Mailer(v), "jobs")
    BY <1>5 DEF LocalTransfer, GraphFinishTransfer
  <2>2. HolderAt = "request" /\ <<cursor.file, cursor.spec.task>> \notin delivered
    BY <2>1, RequestArrives
  <2>3. cursor.file \in Files /\ cursor.spec.task \in Tasks /\ Due(cursor.file, cursor.spec.task)
    BY <2>2, AskedEnds
  <2> QED BY <1>3, <2>1, <2>2, <2>3
<1>6. ASSUME NEW s, FirstEndReported(v, s) PROVE JobsOpen'
  BY <1>2, <1>6 DEF FirstEndReported, graphVars, procVars
<1>7. CASE KillMailer(v) \/ BeginReceiving(v) \/ BeginSending(v) \/ PutAck(v) \/ AckTaken(v) \/ Drain(v)
  BY <1>2, <1>7 DEF KillMailer, BeginReceiving, BeginSending, PutAck, AckTaken, Drain, graphVars, Labels
<1> QED BY <1>1, <1>4, <1>5, <1>6, <1>7 DEF MailerStep

LEMMA OpenMainStep ==
    ASSUME SimulatorInv, JobsOpen, MainStep PROVE JobsOpen'
<1> USE DEF SimulatorInv
<1>0. pc \in [Procs -> Labels] /\ Main \in Procs
  BY ProcsFacts DEF MachinesInv, TypeInv, TypeOK, ProcTypeOK
<1>1. CASE JobStep(Main)
  BY <1>0, <1>1, OpenJobStep
<1>2. ASSUME NEW v \in VMs, BuyVM(v) PROVE JobsOpen'
  <2>1. /\ UNCHANGED taskState
        /\ pc' = [pc EXCEPT ![Mailer(v)] = "wait"] \/ pc' = pc
    BY <1>2 DEF BuyVM, graphVars
  <2>2. \A u \in VMs : LookingForJobs(u)' => LookingForJobs(u)
    BY <1>0, <2>1, ProcsFacts DEF LookingForJobs
  <2>3. \A r \in Tasks : StillOpen(r) => StillOpen(r)'
    BY <1>0, <2>1, ProcsFacts DEF StillOpen
  <2> QED BY <2>2, <2>3, JobsOpenKept
<1>3. ASSUME pc' = pc \/ \E l : Goto(Main, l),
             \A r \in Tasks : taskState'[r] = "DONE" => taskState[r] = "DONE"
      PROVE  JobsOpen'
  <2>2. \A u \in VMs : LookingForJobs(u)' => LookingForJobs(u)
    BY <1>0, <1>3, ProcsFacts DEF LookingForJobs, Goto
  <2>3. \A r \in Tasks : StillOpen(r) => StillOpen(r)'
    BY <1>0, <1>3, ProcsFacts DEF StillOpen, Goto
  <2> QED BY <2>2, <2>3, JobsOpenKept
<1>4. ASSUME NEW v \in VMs, AssignTask(v) PROVE JobsOpen'
  BY <1>3, <1>4 DEF AssignTask, GraphAssignTask, graphVars, procVars
<1>5. ASSUME NEW v \in VMs, AssignedAll(v) \/ PutTerminator(v) \/ JoinMailer(v) PROVE JobsOpen'
  BY <1>3, <1>5 DEF AssignedAll, PutTerminator, JoinMailer, graphVars
<1>6. CASE ResetSchedule \/ BeginMainLoop \/ TestFinished \/ JoinActor \/ EndMainLoop
  BY <1>3, <1>6 DEF ResetSchedule, BeginMainLoop, TestFinished, JoinActor, EndMainLoop, graphVars
<1> QED BY <1>1, <1>2, <1>4, <1>5, <1>6 DEF MainStep

LEMMA OpenNext == SimulatorInv /\ StartedOnlyWhenFed /\ JobsOpen /\ [Next]_vars => JobsOpen'
<1> SUFFICES ASSUME SimulatorInv, StartedOnlyWhenFed, JobsOpen, [Next]_vars PROVE JobsOpen'
  OBVIOUS
<1>1. CASE UNCHANGED <<taskState, pc>>
  BY <1>1 DEF JobsOpen, LookingForJobs, StillOpen
<1>2. CASE Ended \/ UNCHANGED vars
  BY <1>1, <1>2 DEF Ended, vars, graphVars, procVars
<1>3. ASSUME NEW s \in moving, Arrive(s) PROVE JobsOpen'
  BY <1>1, <1>3 DEF Arrive, graphVars, procVars
<1> QED BY <1>2, <1>3, OpenMainStep, OpenComputeStep, OpenMailerStep DEF Next
-----------------------------------------------------------------------------
(* The shut-down. *)

\* The invariant of the run of a well-formed workflow.
RunInv == SimulatorInv /\ GraphInv /\ JobsOpen

LEMMA RunInvariant == WellFormedWorkflow => (Spec => []RunInv)
<1> SUFFICES ASSUME WellFormedWorkflow PROVE Spec => []RunInv
  OBVIOUS
<1>1. Init => JobsOpen
  BY ProcsFacts DEF Init, JobsOpen, LookingForJobs
<1>2. SimulatorInv /\ GraphInv /\ JobsOpen /\ [Next]_vars => JobsOpen'
  BY OpenNext DEF GraphInv
<1>3. RunInv <=> SimulatorInv /\ GraphInv /\ JobsOpen
  BY DEF RunInv
<1> QED
  BY <1>1, <1>2, <1>3, SimulatorInvariant, SimulatorKeepsGraph, PTL DEF Spec

\* When every task has been fed, no transfer travels.
LEMMA AllDoneNothingTravels ==
    ASSUME SimulatorInv, StartedOnlyWhenFed, \A t \in Tasks : taskState[t] = "DONE"
    PROVE  transfers = {} /\ moving = {} /\ arrived = {}
<1> USE DEF SimulatorInv
<1>1. ASSUME NEW s, Travels(s) PROVE FALSE
  <2>1. s \in Deliverable
    BY <1>1, TravellersAreDeliverable
  <2>2. /\ s.file \in Files /\ s.task \in Tasks /\ Due(s.file, s.task)
        /\ <<s.file, s.task>> \notin delivered
    BY <1>1, <2>1 DEF TransferInv, TravelsOnce, Deliverable
  <2> QED BY <2>2, ReceiverIsOpen DEF StillOpen
<1> QED BY <1>1 DEF Travels, MachinesInv, TypeInv, TypeOK, CommTypeOK

LEMMA QuietAtShutdown == RunInv => ShutdownQuiescent
<1> SUFFICES ASSUME RunInv, Closing
             PROVE  /\ \A t \in Tasks : taskState[t] = "DONE" /\ pc[Compute(t)] = "dead"
                    /\ filesMutex = NoTask /\ readyFiles = {}
                    /\ transfers = {} /\ moving = {} /\ arrived = {}
                    /\ \A v \in VMs : /\ unmatchedPut[v] = <<>> /\ unmatchedGet[v] = 0
                                      /\ ~Holds(v, Ack)
                                      /\ pc[Mailer(v)] \in {"none", "wait", "replied", "drain", "dead"}
  BY DEF ShutdownQuiescent
<1> USE DEF RunInv, SimulatorInv, GraphInv
<1>1. \A t \in Tasks : taskState[t] = "DONE" /\ pc[Compute(t)] = "dead"
  BY DEF EndInv, ClosedQuiet
<1>2. filesMutex = NoTask
  BY <1>1 DEF FilesInv, MutexHeld, AtFiles, MachinesInv, TypeInv, TypeOK, ProcTypeOK
<1>3. readyFiles = {}
  BY <1>1, <1>2, GraphAssumption DEF FilesInv, NoFileLeftBehind, NoTask
<1>4. transfers = {} /\ moving = {} /\ arrived = {}
  BY <1>1, AllDoneNothingTravels
<1>5. HolderAt = "none" /\ \A v : ~Asked(v)
  BY ClosedFree
<1>6. \A v \in VMs : unmatchedPut[v] = <<>> /\ unmatchedGet[v] = 0
  BY <1>5, NobodyWaits
<1>7. ASSUME NEW v \in VMs
      PROVE  ~Holds(v, Ack) /\ pc[Mailer(v)] \in {"none", "wait", "replied", "drain", "dead"}
  <2>1. LeftAlone(v)
    BY <1>5 DEF MailInv
  <2>2. Request(Terminator) # Ack
    BY DEF Request, Ack
  <2>3. ~Holds(v, Ack)
    BY <2>1, <2>2 DEF LeftAlone, Holds
  <2>4. ~LookingForJobs(v)
    BY <1>1 DEF JobsOpen, StillOpen
  <2>5. pc[Mailer(v)] \in {"none", "wait", "replied", "drain", "dead"}
    BY <2>1, <2>4 DEF LeftAlone, Replying, LookingForJobs, MailInv, MailersComeBack
  <2> QED BY <2>3, <2>5
<1> QED BY <1>1, <1>2, <1>3, <1>4, <1>6, <1>7

(***************************************************************************)
(* ~CloudPlatform finds nothing under way: every actor is dead, and no     *)
(* transfer, file, answer or mutex is held when the terminators are sent.  *)
(***************************************************************************)
THEOREM SimulatorShutdownQuiescent == WellFormedWorkflow => (Spec => []ShutdownQuiescent)
<1> SUFFICES ASSUME WellFormedWorkflow PROVE Spec => []ShutdownQuiescent
  OBVIOUS
<1>1. Spec => []RunInv
  BY RunInvariant
<1> QED BY <1>1, QuietAtShutdown, PTL

-----------------------------------------------------------------------------
(* The end of a mailer.  A request for a task that no machine was assigned  *)
(* has no receiver either and ends the mailer that reads it, so these are   *)
(* the runs in which every task has its machine when the main loop begins.  *)

AllPlaced == \A t \in Tasks : hostOf[t] # NoVM

\* The hypothesis on a run: the set-up leaves no task out.
PlacedBySetup == Setup \/ AllPlaced

LEMMA KilledInSetup ==
    ASSUME MachinesInv, Setup PROVE KilledOnlyAtShutdown
BY DEF MachinesInv, QuietSetup, KilledOnlyAtShutdown

\* A mailer that has not ended is not ended but at the shut-down.
LEMMA KilledByTerminator ==
    ASSUME SimulatorInv, PlacedBySetup, NEW v \in VMs, MailerStep(v), Killed(v)'
    PROVE  Killed(v) \/ Closing
<1> USE DEF SimulatorInv
<1>0. pc \in [Procs -> Labels] /\ Mailer(v) \in Procs
  BY ProcsFacts DEF MachinesInv, TypeInv, TypeOK, ProcTypeOK
<1>1. CASE KillMailer(v)
  <2>1. Incoming(v) /\ Received(v).receiver = NoVM
    BY <1>1 DEF KillMailer
  <2>2. CASE pc[Main] = "closing"
    BY <2>2 DEF Closing
  <2>3. CASE HolderAt = "request" /\ Received(v) = cursor.spec
    <3>1. cursor.spec.task \in Tasks /\ cursor.spec.receiver = hostOf[cursor.spec.task]
      BY <2>3, AskedEnds
    <3>2. mbox[v] # <<>>
      BY <2>1 DEF Incoming
    <3>3. ~Setup
      BY <3>2, MailAfterSetup
    <3> QED BY <2>1, <2>3, <3>1, <3>3 DEF PlacedBySetup, AllPlaced
  <2> QED BY <2>1, <2>2, <2>3, IncomingIs
<1>2. CASE Drain(v)
  BY <1>2 DEF Drain, Killed
<1>3. CASE JobStep(Mailer(v))
  <2>1. pc[Mailer(v)] \in {"jobs", "create"} /\ resume[Mailer(v)] \in {"wait", "ack"}
    BY <1>3 DEF JobStep, NothingToStart, CheckReadyJobOnVM, CreateActor, JobsChecked, MailInv,
                MailersComeBack
  <2>2. CASE \E w \in VMs : NothingToStart(Mailer(v), w)
    BY <2>1, <2>2 DEF NothingToStart, Killed
  <2>3. CASE \E w \in VMs : CheckReadyJobOnVM(Mailer(v), w)
    BY <1>0, <2>3, HeadStarts DEF Killed
  <2>4. CASE \E w \in VMs : CreateActor(Mailer(v), w)
    BY <1>0, <2>4, ActorCreated DEF Killed
  <2>5. CASE JobsChecked(Mailer(v))
    BY <1>0, <2>1, <2>5 DEF JobsChecked, Goto, Killed
  <2> QED BY <1>3, <2>2, <2>3, <2>4, <2>5 DEF JobStep
<1>4. ASSUME NEW s, FirstEndReported(v, s) PROVE Killed(v)
  BY <1>4 DEF FirstEndReported, procVars, Killed
<1>5. ASSUME NEW s, SecondEndReported(v, s) PROVE FALSE
  BY <1>0, <1>5 DEF SecondEndReported, Goto, Killed
<1>6. CASE LocalTransfer(v) \/ BeginReceiving(v) \/ BeginSending(v) \/ PutAck(v) \/ AckTaken(v)
  BY <1>0, <1>6 DEF LocalTransfer, BeginReceiving, BeginSending, PutAck, AckTaken, Goto, Killed
<1> QED BY <1>1, <1>2, <1>3, <1>4, <1>5, <1>6 DEF MailerStep

\* The steps of the actors that leave the mailers where they are, or not ended.
LEMMA KilledKept ==
    ASSUME KilledOnlyAtShutdown, Closing => Closing', \A v \in VMs : Killed(v)' => Killed(v) \/ Closing
    PROVE  KilledOnlyAtShutdown'
BY DEF KilledOnlyAtShutdown, Killed

LEMMA JobStepKillsNone ==
    ASSUME SimulatorInv, KilledOnlyAtShutdown, NEW p \in Procs, \A v \in VMs : p # Mailer(v), JobStep(p)
    PROVE  KilledOnlyAtShutdown'
<1> USE DEF SimulatorInv
<1>0. pc \in [Procs -> Labels]
  BY DEF MachinesInv, TypeInv, TypeOK, ProcTypeOK
<1>1. pc[p] \in {"jobs", "create"}
  BY DEF JobStep, NothingToStart, CheckReadyJobOnVM, CreateActor, JobsChecked
<1>2. \A q \in Procs : q # p /\ (\A t \in Tasks : q # Compute(t)) => pc'[q] = pc[q]
  <2>1. CASE \E v \in VMs : NothingToStart(p, v)
    BY <2>1 DEF NothingToStart
  <2>2. CASE \E v \in VMs : CheckReadyJobOnVM(p, v)
    BY <2>2, HeadStarts
  <2>3. CASE \E v \in VMs : CreateActor(p, v)
    BY <2>3, ActorCreated
  <2>4. CASE JobsChecked(p)
    BY <1>0, <2>4 DEF JobsChecked, Goto
  <2> QED BY <2>1, <2>2, <2>3, <2>4 DEF JobStep
<1>3. \A v \in VMs : pc'[Mailer(v)] = pc[Mailer(v)]
  BY <1>2, ProcsFacts
<1>4. Closing => Closing'
  BY <1>1, <1>2, ProcsFacts DEF Closing
<1> QED BY <1>3, <1>4, KilledKept DEF Killed

LEMMA ComputeKillsNone ==
    ASSUME SimulatorInv, KilledOnlyAtShutdown, NEW t \in Tasks, ComputeStep(t)
    PROVE  KilledOnlyAtShutdown'
<1>0. pc \in [Procs -> Labels] /\ Compute(t) \in Procs
  BY ProcsFacts DEF SimulatorInv, MachinesInv, TypeInv, TypeOK, ProcTypeOK
<1>1. CASE JobStep(Compute(t))
  BY <1>0, <1>1, ProcsFacts, JobStepKillsNone
<1>2. ASSUME pc' = pc \/ \E l : Goto(Compute(t), l) PROVE KilledOnlyAtShutdown'
  <2>1. pc'[Main] = pc[Main] /\ \A v \in VMs : pc'[Mailer(v)] = pc[Mailer(v)]
    BY <1>0, <1>2, ProcsFacts DEF Goto
  <2> QED BY <2>1 DEF KilledOnlyAtShutdown, Closing
<1>3. CASE DoExecute(t) \/ DoRefreshAfterTask(t) \/ CheckReadyFiles(t) \/ NextFile(t)
           \/ FileStarted(t) \/ FilesChecked(t)
  BY <1>2, <1>3 DEF DoExecute, DoRefreshAfterTask, CheckReadyFiles, NextFile, FileStarted,
                    FilesChecked
<1>4. CASE (\E r \in Tasks : StartTransfer(t, r)) \/ RequestTaken(t) \/ TakeAck(t) \/ TransferStarted(t)
  BY <1>2, <1>4 DEF StartTransfer, RequestTaken, TakeAck, TransferStarted
<1> QED BY <1>1, <1>3, <1>4 DEF ComputeStep

\* A mailer's step moves no other process but the actor it creates.
LEMMA MailerStepSparesOthers ==
    ASSUME SimulatorInv, NEW v \in VMs, MailerStep(v)
    PROVE  pc'[Main] = pc[Main] /\ \A u \in VMs : u # v => pc'[Mailer(u)] = pc[Mailer(u)]
<1> USE DEF SimulatorInv
<1>0. pc \in [Procs -> Labels] /\ Mailer(v) \in Procs
  BY ProcsFacts DEF MachinesInv, TypeInv, TypeOK, ProcTypeOK
<1>1. CASE \E w \in VMs : NothingToStart(Mailer(v), w)
  BY <1>1 DEF NothingToStart
<1>2. CASE \E w \in VMs : CheckReadyJobOnVM(Mailer(v), w)
  BY <1>0, <1>2, HeadStarts, ProcsFacts
<1>3. CASE \E w \in VMs : CreateActor(Mailer(v), w)
  BY <1>0, <1>3, ActorCreated, ProcsFacts
<1>4. ASSUME pc' = pc \/ \E l : Goto(Mailer(v), l)
      PROVE  pc'[Main] = pc[Main] /\ \A u \in VMs : u # v => pc'[Mailer(u)] = pc[Mailer(u)]
  BY <1>0, <1>4, ProcsFacts DEF Goto
<1>5. CASE JobsChecked(Mailer(v)) \/ KillMailer(v) \/ LocalTransfer(v) \/ BeginReceiving(v)
           \/ BeginSending(v) \/ PutAck(v) \/ AckTaken(v) \/ Drain(v)
  BY <1>4, <1>5 DEF JobsChecked, KillMailer, LocalTransfer, BeginReceiving, BeginSending, PutAck,
                    AckTaken, Drain
<1>6. CASE \E a \in arrived : FirstEndReported(v, a[2]) \/ SecondEndReported(v, a[2])
  BY <1>4, <1>6 DEF FirstEndReported, SecondEndReported, procVars
<1> QED BY <1>1, <1>2, <1>3, <1>5, <1>6 DEF MailerStep, JobStep

LEMMA MainKillsNone ==
    ASSUME SimulatorInv, KilledOnlyAtShutdown, MainStep PROVE KilledOnlyAtShutdown'
<1> USE DEF SimulatorInv
<1>0. pc \in [Procs -> Labels] /\ Main \in Procs /\ resume[Main] = "loop"
  BY ProcsFacts DEF MachinesInv, TypeInv, TypeOK, ProcTypeOK, EndInv, MainGoesOn
<1>1. CASE JobStep(Main)
  BY <1>0, <1>1, ProcsFacts, JobStepKillsNone
<1>2. ASSUME NEW w \in VMs, BuyVM(w) PROVE KilledOnlyAtShutdown'
  <2>1. /\ pc[Main] = "buy"
        /\ pc' = [pc EXCEPT ![Mailer(w)] = "wait"] \/ pc' = pc
    BY <1>2 DEF BuyVM
  <2>2. \A v \in VMs : Killed(v)' => Killed(v)
    BY <1>0, <2>1, ProcsFacts DEF Killed
  <2> QED BY <2>1, <2>2, KilledKept DEF Closing
<1>3. ASSUME pc' = pc \/ \E l : Goto(Main, l), Closing => Closing'
      PROVE  KilledOnlyAtShutdown'
  <2>1. \A v \in VMs : pc'[Mailer(v)] = pc[Mailer(v)]
    BY <1>0, <1>3, ProcsFacts DEF Goto
  <2> QED BY <1>3, <2>1, KilledKept DEF Killed
<1>4. CASE ResetSchedule \/ BeginMainLoop \/ \E v \in VMs : AssignTask(v) \/ AssignedAll(v)
  BY <1>3, <1>4 DEF ResetSchedule, BeginMainLoop, AssignTask, AssignedAll, procVars, Closing
<1>5. CASE TestFinished \/ JoinActor
  BY <1>3, <1>5 DEF TestFinished, JoinActor, Closing
<1>6. CASE EndMainLoop \/ \E v \in VMs : PutTerminator(v) \/ JoinMailer(v)
  <2>1. \E l \in {"shut", "closing", "dead"} : Goto(Main, l)
    BY <1>6 DEF EndMainLoop, PutTerminator, JoinMailer
  <2>2. Closing'
    BY <1>0, <2>1 DEF Goto, Closing
  <2> QED BY <1>3, <2>1, <2>2
<1> QED BY <1>1, <1>2, <1>4, <1>5, <1>6 DEF MainStep

LEMMA KilledNext ==
    SimulatorInv /\ PlacedBySetup /\ KilledOnlyAtShutdown /\ [Next]_vars => KilledOnlyAtShutdown'
<1> SUFFICES ASSUME SimulatorInv, PlacedBySetup, KilledOnlyAtShutdown, [Next]_vars
             PROVE  KilledOnlyAtShutdown'
  OBVIOUS
<1>1. CASE UNCHANGED pc
  BY <1>1 DEF KilledOnlyAtShutdown, Closing
<1>2. ASSUME NEW w \in VMs, MailerStep(w) PROVE KilledOnlyAtShutdown'
  <2>1. \A v \in VMs : Killed(v)' => Killed(v) \/ Closing
    BY <1>2, KilledByTerminator, MailerStepSparesOthers DEF Killed
  <2>2. Closing => Closing'
    BY <1>2, MailerStepSparesOthers DEF Closing
  <2> QED BY <2>1, <2>2, KilledKept
<1>3. ASSUME NEW s \in moving, Arrive(s) PROVE KilledOnlyAtShutdown'
  BY <1>1, <1>3 DEF Arrive, procVars
<1>4. CASE Ended \/ UNCHANGED vars
  BY <1>1, <1>4 DEF Ended, vars, procVars
<1> QED BY <1>2, <1>3, <1>4, MainKillsNone, ComputeKillsNone DEF Next

(***************************************************************************)
(* Where every task has its machine when the main loop begins, a mailer is *)
(* ended by nothing but the terminator that ~CloudPlatform sends it.       *)
(***************************************************************************)
THEOREM SimulatorKilledOnlyAtShutdown == Spec /\ []PlacedBySetup => []KilledOnlyAtShutdown
<1>1. Init => KilledOnlyAtShutdown
  BY ProcsFacts DEF Init, KilledOnlyAtShutdown
<1> QED
  BY <1>1, KilledNext, SimulatorInvariant, PTL DEF Spec

-----------------------------------------------------------------------------
(* The two reports of a transfer. *)

LEMMA ReportedTwice ==
    ASSUME RunInv, KilledOnlyAtShutdown PROVE ReportedByBothEnds
<1> USE DEF RunInv, SimulatorInv, GraphInv
<1>1. CASE Closing
  <2>1. transfers = {} /\ arrived = {}
    BY <1>1, QuietAtShutdown DEF ShutdownQuiescent
  <2> QED BY <2>1 DEF ReportedByBothEnds
<1>2. CASE ~Closing
  <2>1. /\ \A s \in transfers : <<s.sender, s>> \in arrived \/ <<s.receiver, s>> \in arrived
        /\ \A a \in arrived : a[2] \notin transfers =>
              {<<a[2].sender, a[2]>>, <<a[2].receiver, a[2]>>} \subseteq arrived
    BY <1>2 DEF KilledOnlyAtShutdown, TransferInv, BothEnds
  <2>2. ASSUME NEW s \in transfers PROVE Cardinality({a \in arrived : a[2] = s}) = 1
    <3>1. \A a \in arrived : a \in Coordinators \X Deliverable
      BY DEF MachinesInv, TypeInv, TypeOK, CommTypeOK
    <3>2. \A a \in arrived : a[2] = s => a = <<s.sender, s>> \/ a = <<s.receiver, s>>
      <4>1. \A a \in arrived : EndOf(a[1], a[2]) /\ a = <<a[1], a[2]>>
        BY <3>1 DEF TransferInv, OnePlace
      <4> QED BY <4>1 DEF EndOf
    <3>3. ~({<<s.sender, s>>, <<s.receiver, s>>} \subseteq arrived)
      BY DEF TransferInv, OnePlace
    <3>4. \E e : {a \in arrived : a[2] = s} = {e}
      <4>1. ASSUME <<s.sender, s>> \in arrived
            PROVE  {a \in arrived : a[2] = s} = {<<s.sender, s>>}
        BY <3>2, <3>3, <4>1
      <4>2. ASSUME <<s.receiver, s>> \in arrived
            PROVE  {a \in arrived : a[2] = s} = {<<s.receiver, s>>}
        BY <3>2, <3>3, <4>2
      <4> QED BY <2>1, <4>1, <4>2
    <3> QED BY <3>4, FS_Singleton
  <2>3. ASSUME NEW a \in arrived
        PROVE  /\ a[2] \notin moving /\ EndOf(a[1], a[2])
               /\ a[2] \notin transfers =>
                     {<<a[2].sender, a[2]>>, <<a[2].receiver, a[2]>>} \subseteq arrived
    BY <2>1 DEF TransferInv, OnePlace
  <2> QED BY <2>2, <2>3 DEF ReportedByBothEnds
<1> QED BY <1>1, <1>2

(***************************************************************************)
(* A transfer is reported once by each of its ends: what the first report  *)
(* leaves in Transfers waits for exactly one more, and no end is lost.     *)
(***************************************************************************)
THEOREM SimulatorReportedByBothEnds ==
    WellFormedWorkflow => (Spec /\ []PlacedBySetup => []ReportedByBothEnds)
<1> SUFFICES ASSUME WellFormedWorkflow PROVE Spec /\ []PlacedBySetup => []ReportedByBothEnds
  OBVIOUS
<1>1. Spec => []RunInv
  BY RunInvariant
<1>2. RunInv /\ KilledOnlyAtShutdown => ReportedByBothEnds
  BY ReportedTwice
<1> QED BY <1>1, <1>2, SimulatorKilledOnlyAtShutdown, PTL
=============================================================================
