---------------------------- MODULE CloudSimulator ----------------------------
(***************************************************************************)
(* The simulator (prototypes/cloud_simulator.cpp) composed with the        *)
(* workflow graph, the platform and the transfer protocol between them     *)
(* (CloudPlatform::StartTransfer and DoTransfer).                          *)
(*                                                                         *)
(* The actors of the program are processes with a pc:                      *)
(*   Main        Run, then the actor "scheduler" (DoMainLoop)              *)
(*   Compute(t)  the actor of task t (DoExecute, DoRefreshAfterTask)       *)
(*   Mailer(v)   the transfer actor of machine v (DoTransfer)              *)
(* SimGrid runs one actor at a time and switches only inside its own       *)
(* calls, so a step here is what an actor does from one of these calls to  *)
(* the next, or less.  A step of less only adds interleavings.             *)
(*                                                                         *)
(* X_Y is a bug that X could have (see WorkflowGraph).                     *)
(***************************************************************************)
EXTENDS WorkflowGraph, CloudPlatform

CONSTANTS
    Need,   \* task -> [cores, memory] it asks for
    Plans   \* the schedules a scheduler may hand over: machine -> queue of tasks

\* A schedule plans a task at most once.
PlannedOnce(plan) ==
    \A v, u \in VMs : \A i \in DOMAIN plan[v], j \in DOMAIN plan[u] :
        plan[v][i] = plan[u][j] => v = u /\ i = j

ASSUME SimulatorAssumption ==
    /\ Need \in [Tasks -> Resources]
    /\ Plans \subseteq [VMs -> Seq(Tasks)]
    /\ \A plan \in Plans : PlannedOnce(plan)

Main == <<"main", 0>>
Compute(t) == <<"compute", t>>
Mailer(v) == <<"mailer", v>>
Procs == {Main} \cup {Compute(t) : t \in Tasks} \cup {Mailer(v) : v \in VMs}

NullActor == -1
NoFile == -1

\* "coordinate_-1" is a mailbox like any other, of a machine that is not there.
Coordinators == VMs \cup {NoVM}

\* A TransferSpec; its ends are Author's and receiver's machines, NoVM for a
\* task that was never assigned.  Those that reach a machine are Deliverable.
Transfers == [sender : Coordinators, receiver : Coordinators, task : Tasks, file : Files]
Deliverable == [sender : Coordinators, receiver : VMs, task : Tasks, file : Files]
Terminator == [sender |-> NoVM, receiver |-> NoVM, task |-> NoTask, file |-> NoFile]
Specs == Transfers \cup {Terminator}

Request(s) == [kind |-> "request", spec |-> s]
Ack == [kind |-> "ack", spec |-> Terminator]
Messages == [kind : {"request", "ack"}, spec : Specs]

VARIABLES
    copy,         \* the part of the schedule ResetSchedule has not assigned yet
    queue,        \* Schedule::TimeTable of Assignments
    hostOf,       \* Schedule::TaskIdToHostId of Assignments
    actors,       \* Actors
    transfers,    \* Transfers: the specs one of whose two ends was reported
    filesMutex,   \* the compute actor inside CheckReadyFiles, or NoTask
    pc,
    todo,         \* machines the current loop over machines still has to visit
    resume,       \* where a process goes on after its checks of ready jobs
    job,          \* the task a process is creating an actor for
    cursor,       \* the locals of CheckReadyFiles, StartTransfer included
    joined,       \* how many of Actors the main loop has joined in this round
    mbox,         \* mailbox coordinate_v: what was put and not yet taken
    unmatchedPut, \* mailbox transfer_v: data offered, no reader yet
    unmatchedGet, \* mailbox transfer_v: how many readers wait, no data yet
    moving,       \* data on its way
    arrived       \* <<v, s>>: transfer s has completed, mailer v has not seen it

simVars == <<copy, queue, hostOf, actors, transfers>>
procVars == <<pc, todo, resume, job, cursor, filesMutex, joined>>
dataVars == <<unmatchedPut, unmatchedGet, moving, arrived>>
vars == <<graphVars, platformVars, simVars, procVars, mbox, dataVars>>

FileIterators == Files \cup {NoFile}
Cursors == [iter : FileIterators, file : FileIterators, receivers : SUBSET Tasks,
            spec : Specs, acks : Seq(Coordinators)]
NoCursor == [iter |-> NoFile, file |-> NoFile, receivers |-> {},
             spec |-> Terminator, acks |-> <<>>]

Labels == {"none", "buy", "assign", "jobs", "create", "loop", "join", "shut", "closing",
           "exec", "finish", "lock", "files", "receivers", "request", "acks",
           "wait", "ack", "replied", "drain", "dead"}

SimTypeOK ==
    /\ copy \in [VMs -> Seq(Tasks)]
    /\ queue \in [VMs -> Seq(Tasks)]
    /\ hostOf \in [Tasks -> Coordinators]
    /\ actors \in Seq(Tasks \cup {NullActor})
    /\ transfers \subseteq Deliverable

ProcTypeOK ==
    /\ pc \in [Procs -> Labels]
    /\ todo \in [Procs -> SUBSET VMs]
    /\ resume \in [Procs -> {"loop", "lock", "wait", "ack"}]
    /\ job \in [Procs -> Tasks \cup {NoTask}]
    /\ cursor \in Cursors
    /\ filesMutex \in Tasks \cup {NoTask}
    /\ joined \in Nat

CommTypeOK ==
    /\ mbox \in [Coordinators -> Seq(Messages)]
    /\ unmatchedPut \in [VMs -> Seq(Deliverable)]
    /\ unmatchedGet \in [VMs -> Nat]
    /\ moving \subseteq Deliverable
    /\ arrived \subseteq Coordinators \X Deliverable

TypeOK == GraphTypeOK /\ PlatformTypeOK /\ SimTypeOK /\ ProcTypeOK /\ CommTypeOK

Init ==
    /\ GraphInit
    /\ PlatformInit
    /\ copy \in Plans
    /\ queue = [v \in VMs |-> <<>>]
    /\ hostOf = [t \in Tasks |-> NoVM]
    /\ actors = <<>>
    /\ transfers = {}
    /\ filesMutex = NoTask
    /\ pc = [p \in Procs |-> IF p = Main THEN "buy" ELSE "none"]
    /\ todo = [p \in Procs |-> IF p = Main THEN VMs ELSE {}]
    /\ resume = [p \in Procs |-> IF p = Main THEN "loop"
                                 ELSE IF \E v \in VMs : p = Mailer(v) THEN "wait" ELSE "lock"]
    /\ job = [p \in Procs |-> NoTask]
    /\ cursor = NoCursor
    /\ joined = 0
    /\ mbox = [v \in Coordinators |-> <<>>]
    /\ unmatchedPut = [v \in VMs |-> <<>>]
    /\ unmatchedGet = [v \in VMs |-> 0]
    /\ moving = {}
    /\ arrived = {}

Goto(p, label) == pc' = [pc EXCEPT ![p] = label]

\* Loops over machines visit them in the order of their ids (std::map).
AtMachine(p, v) == v \in todo[p] /\ \A u \in todo[p] : v <= u
Visited(p, v) == todo' = [todo EXCEPT ![p] = @ \ {v}]

\* Computations and transfers end when simulated time passes, and it does so
\* only when no actor can go on.  Checks of ready jobs never wait for time;
\* several computations and transfers may end at the same moment.
TimePasses == \A p \in Procs : pc[p] \notin {"jobs", "create", "loop"}

-----------------------------------------------------------------------------
(* Run: the actions the scheduler returns, one after the other.  The        *)
(* mailer of a new machine is created here and runs once the engine does.   *)

BuyVM(v) ==
    /\ pc[Main] = "buy"
    /\ AtMachine(Main, v)
    /\ RegisterVirtualMachine(v)
    /\ Visited(Main, v)
    /\ pc' = IF v \in virtualMachines' THEN [pc EXCEPT ![Mailer(v)] = "wait"] ELSE pc
    /\ UNCHANGED <<graphVars, simVars, resume, job, cursor, filesMutex, joined, mbox, dataVars>>

\* ResetSchedule begins: Assignments is emptied.
ResetSchedule ==
    /\ pc[Main] = "buy"
    /\ todo[Main] = {}
    /\ Goto(Main, "assign")
    /\ todo' = [todo EXCEPT ![Main] = virtualMachines]
    /\ queue' = [v \in VMs |-> <<>>]
    /\ hostOf' = [t \in Tasks |-> NoVM]
    /\ UNCHANGED <<graphVars, platformVars, copy, actors, transfers,
                   resume, job, cursor, filesMutex, joined, mbox, dataVars>>

\* One item of the queue of machine v: assigned, or dropped with a warning.
AssignTask(v) ==
    /\ pc[Main] = "assign"
    /\ AtMachine(Main, v)
    /\ copy[v] # <<>>
    /\ copy' = [copy EXCEPT ![v] = Tail(@)]
    /\ LET t == Head(copy[v]) IN
       IF CheckTask(v, Need[t])
       THEN /\ queue' = [queue EXCEPT ![v] = Append(@, t)]
            /\ hostOf' = [hostOf EXCEPT ![t] = v]
            /\ GraphAssignTask(t)
       ELSE UNCHANGED <<queue, hostOf, graphVars>>
    /\ UNCHANGED <<platformVars, actors, transfers, procVars, mbox, dataVars>>

AssignedAll(v) ==
    /\ pc[Main] = "assign"
    /\ AtMachine(Main, v)
    /\ copy[v] = <<>>
    /\ Visited(Main, v)
    /\ UNCHANGED <<graphVars, platformVars, simVars, pc, resume, job, cursor,
                   filesMutex, joined, mbox, dataVars>>

BeginMainLoop ==
    /\ pc[Main] = "assign"
    /\ todo[Main] = {}
    /\ Goto(Main, "jobs")
    /\ todo' = [todo EXCEPT ![Main] = virtualMachines]
    /\ UNCHANGED <<graphVars, platformVars, simVars, resume, job, cursor,
                   filesMutex, joined, mbox, dataVars>>

-----------------------------------------------------------------------------
(* CheckReadyJobs and CheckReadyJobOnVM, for whichever process p calls      *)
(* them: p is at "jobs" and todo[p] holds the machines still to look at.    *)

HeadReady(v) == queue[v] # <<>> /\ IsReady(Head(queue[v]))

\* The loop ends at the first machine with nothing to start.
NothingToStart_Stops(p, v) ==
    /\ pc[p] = "jobs"
    /\ AtMachine(p, v)
    /\ ~HeadReady(v)
    /\ todo' = [todo EXCEPT ![p] = {}]
    /\ UNCHANGED <<graphVars, platformVars, simVars, pc, resume, job, cursor,
                   filesMutex, joined, mbox, dataVars>>

NothingToStart(p, v) ==
    /\ pc[p] = "jobs"
    /\ AtMachine(p, v)
    /\ ~HeadReady(v)
    /\ Visited(p, v)
    /\ UNCHANGED <<graphVars, platformVars, simVars, pc, resume, job, cursor,
                   filesMutex, joined, mbox, dataVars>>

\* The queue is popped when its head starts, and again when it ends.
CheckReadyJobOnVM_PopsAtStart(p, v) ==
    /\ pc[p] = "jobs"
    /\ AtMachine(p, v)
    /\ HeadReady(v)
    /\ StartExecuting(Head(queue[v]))
    /\ StartMachine(v)
    /\ Goto(p, "create")
    /\ job' = [job EXCEPT ![p] = Head(queue[v])]
    /\ queue' = [queue EXCEPT ![v] = Tail(@)]
    /\ UNCHANGED <<todo, actors, copy, hostOf, transfers, resume, cursor, filesMutex,
                   joined, mbox, dataVars>>

\* The task is RUNNING before its actor exists.  A refusal of the platform
\* leaves a null pointer among the actors and the task RUNNING for ever.
CheckReadyJobOnVM(p, v) ==
    /\ pc[p] = "jobs"
    /\ AtMachine(p, v)
    /\ HeadReady(v)
    /\ LET t == Head(queue[v]) IN
       /\ StartExecuting(t)
       /\ IF CheckTask(v, Need[t])
          THEN /\ StartMachine(v)
               /\ Goto(p, "create")
               /\ job' = [job EXCEPT ![p] = t]
               /\ UNCHANGED <<todo, actors>>
          ELSE /\ Visited(p, v)
               /\ actors' = Append(actors, NullActor)
               /\ UNCHANGED <<platformVars, pc, job>>
    /\ UNCHANGED <<copy, queue, hostOf, transfers, resume, cursor, filesMutex,
                   joined, mbox, dataVars>>

\* What follows the yields of PlatformAssignTask.  A new actor cannot reach
\* its end before its creator goes on: that takes simulated time.
CreateActor(p, v) ==
    /\ pc[p] = "create"
    /\ AtMachine(p, v)
    /\ TakeResources(v, Need[job[p]])
    /\ actors' = Append(actors, job[p])
    /\ pc' = [pc EXCEPT ![p] = "jobs", ![Compute(job[p])] = "exec"]
    /\ job' = [job EXCEPT ![p] = NoTask]
    /\ Visited(p, v)
    /\ UNCHANGED <<graphVars, copy, queue, hostOf, transfers, resume, cursor,
                   filesMutex, joined, mbox, dataVars>>

JobsChecked(p) ==
    /\ pc[p] = "jobs"
    /\ todo[p] = {}
    /\ Goto(p, resume[p])
    /\ UNCHANGED <<graphVars, platformVars, simVars, todo, resume, job, cursor,
                   filesMutex, joined, mbox, dataVars>>

JobStep(p) ==
    \/ \E v \in VMs : NothingToStart(p, v) \/ CheckReadyJobOnVM(p, v) \/ CreateActor(p, v)
    \/ JobsChecked(p)

-----------------------------------------------------------------------------
(* A compute actor: DoExecute, then DoRefreshAfterTask.                     *)

DoExecute(t) ==
    /\ pc[Compute(t)] = "exec"
    /\ TimePasses
    /\ Goto(Compute(t), "finish")
    /\ UNCHANGED <<graphVars, platformVars, simVars, todo, resume, job, cursor,
                   filesMutex, joined, mbox, dataVars>>

DoRefreshAfterTask(t) ==
    /\ pc[Compute(t)] = "finish"
    /\ GraphFinishTask(t)
    /\ PlatformFinishTask(hostOf[t], Need[t])
    /\ queue' = IF queue[hostOf[t]] # <<>> /\ Head(queue[hostOf[t]]) = t
                THEN [queue EXCEPT ![hostOf[t]] = Tail(@)]
                ELSE queue
    /\ Goto(Compute(t), "jobs")
    /\ todo' = [todo EXCEPT ![Compute(t)] = virtualMachines]
    /\ UNCHANGED <<copy, hostOf, actors, transfers, resume, job, cursor,
                   filesMutex, joined, mbox, dataVars>>

\* The iterator of std::set: the least element, then the next one as the set
\* is when the iterator moves.  NoFile is the end, and stays the end.
NextReady(from, next) ==
    \/ next = NoFile /\ \A f \in readyFiles : f <= from
    \/ /\ next \in readyFiles /\ next > from
       /\ \A f \in readyFiles : f > from => next <= f

\* The mutex is tried, and whoever fails leaves the files to its holder.
CheckReadyFiles_TryLock(t) ==
    /\ pc[Compute(t)] = "lock"
    /\ IF filesMutex = NoTask
       THEN /\ filesMutex' = t
            /\ \E next \in FileIterators : /\ NextReady(NoFile, next)
                                          /\ cursor' = [NoCursor EXCEPT !.iter = next]
            /\ Goto(Compute(t), "files")
       ELSE /\ Goto(Compute(t), "dead")
            /\ UNCHANGED <<filesMutex, cursor>>
    /\ UNCHANGED <<graphVars, platformVars, simVars, todo, resume, job, joined, mbox, dataVars>>

CheckReadyFiles(t) ==
    /\ pc[Compute(t)] = "lock"
    /\ filesMutex = NoTask
    /\ filesMutex' = t
    /\ \E next \in FileIterators : /\ NextReady(NoFile, next)
                                  /\ cursor' = [NoCursor EXCEPT !.iter = next]
    /\ Goto(Compute(t), "files")
    /\ UNCHANGED <<graphVars, platformVars, simVars, todo, resume, job, joined, mbox, dataVars>>

NextFile(t) ==
    /\ pc[Compute(t)] = "files"
    /\ cursor.iter # NoFile
    /\ \E next \in FileIterators :
          /\ NextReady(cursor.iter, next)
          /\ cursor' = [cursor EXCEPT !.file = cursor.iter, !.iter = next,
                                      !.receivers = Receivers[cursor.iter]]
    /\ Goto(Compute(t), "receivers")
    /\ UNCHANGED <<graphVars, platformVars, simVars, todo, resume, job,
                   filesMutex, joined, mbox, dataVars>>

\* StartTransfer puts the request in the mailboxes of both ends, once if they
\* are the same, and waits until the mailers have taken it.
StartTransfer(t, r) ==
    /\ pc[Compute(t)] = "receivers"
    /\ r \in cursor.receivers
    /\ \A q \in cursor.receivers : r <= q
    /\ LET s == [sender |-> hostOf[Author[cursor.file]], receiver |-> hostOf[r],
                 task |-> r, file |-> cursor.file]
       IN /\ mbox' = [v \in Coordinators |-> IF v \in {s.sender, s.receiver}
                                             THEN Append(mbox[v], Request(s))
                                             ELSE mbox[v]]
          /\ cursor' = [cursor EXCEPT !.receivers = @ \ {r}, !.spec = s]
    /\ Goto(Compute(t), "request")
    /\ UNCHANGED <<graphVars, platformVars, simVars, todo, resume, job,
                   filesMutex, joined, dataVars>>

Holds(v, m) == \E i \in DOMAIN mbox[v] : mbox[v][i] = m

RequestTaken(t) ==
    /\ pc[Compute(t)] = "request"
    /\ LET s == cursor.spec IN
       /\ ~Holds(s.sender, Request(s)) /\ ~Holds(s.receiver, Request(s))
       /\ cursor' = [cursor EXCEPT !.acks = IF s.sender = s.receiver
                                            THEN <<s.sender>>
                                            ELSE <<s.sender, s.receiver>>]
    /\ Goto(Compute(t), "acks")
    /\ UNCHANGED <<graphVars, platformVars, simVars, todo, resume, job,
                   filesMutex, joined, mbox, dataVars>>

\* The answers are read from the same mailboxes, the sender's first.
TakeAck(t) ==
    /\ pc[Compute(t)] = "acks"
    /\ cursor.acks # <<>>
    /\ mbox[Head(cursor.acks)] # <<>>
    /\ mbox' = [mbox EXCEPT ![Head(cursor.acks)] = Tail(@)]
    /\ cursor' = [cursor EXCEPT !.acks = Tail(@)]
    /\ UNCHANGED <<graphVars, platformVars, simVars, pc, todo, resume, job,
                   filesMutex, joined, dataVars>>

TransferStarted(t) ==
    /\ pc[Compute(t)] = "acks"
    /\ cursor.acks = <<>>
    /\ Goto(Compute(t), "receivers")
    /\ UNCHANGED <<graphVars, platformVars, simVars, todo, resume, job, cursor,
                   filesMutex, joined, mbox, dataVars>>

FileStarted_NotMarked(t) ==
    /\ pc[Compute(t)] = "receivers"
    /\ cursor.receivers = {}
    /\ Goto(Compute(t), "files")
    /\ UNCHANGED <<graphVars, platformVars, simVars, todo, resume, job, cursor,
                   filesMutex, joined, mbox, dataVars>>

FileStarted(t) ==
    /\ pc[Compute(t)] = "receivers"
    /\ cursor.receivers = {}
    /\ GraphStartTransfer(cursor.file)
    /\ Goto(Compute(t), "files")
    /\ UNCHANGED <<platformVars, simVars, todo, resume, job, cursor,
                   filesMutex, joined, mbox, dataVars>>

FilesChecked(t) ==
    /\ pc[Compute(t)] = "files"
    /\ cursor.iter = NoFile
    /\ filesMutex' = NoTask
    /\ cursor' = NoCursor
    /\ Goto(Compute(t), "dead")
    /\ UNCHANGED <<graphVars, platformVars, simVars, todo, resume, job, joined, mbox, dataVars>>

ComputeStep(t) ==
    \/ JobStep(Compute(t))
    \/ DoExecute(t) \/ DoRefreshAfterTask(t)
    \/ CheckReadyFiles(t) \/ NextFile(t) \/ FileStarted(t) \/ FilesChecked(t)
    \/ \E r \in Tasks : StartTransfer(t, r)
    \/ RequestTaken(t) \/ TakeAck(t) \/ TransferStarted(t)

-----------------------------------------------------------------------------
(* A mailer: DoTransfer, with DoRefreshAfterTransfer as its callback.  At   *)
(* "wait" its read of coordinate_v is posted and it waits for a message or  *)
(* for the end of one of its transfers, in any order.                       *)

\* The completed transfer stays among the active ones.
FirstEndReported_NotRemoved(v, s) ==
    /\ pc[Mailer(v)] = "wait"
    /\ <<v, s>> \in arrived
    /\ s \notin transfers
    /\ transfers' = transfers \cup {s}
    /\ UNCHANGED <<graphVars, platformVars, copy, queue, hostOf, actors, procVars,
                   mbox, dataVars>>

\* test_any finds a completed transfer.  The first of its two ends is only
\* noted; the second counts the input and looks at the receiver's queue.
FirstEndReported(v, s) ==
    /\ pc[Mailer(v)] = "wait"
    /\ <<v, s>> \in arrived
    /\ s \notin transfers
    /\ arrived' = arrived \ {<<v, s>>}
    /\ transfers' = transfers \cup {s}
    /\ UNCHANGED <<graphVars, platformVars, copy, queue, hostOf, actors, procVars,
                   mbox, unmatchedPut, unmatchedGet, moving>>

SecondEndReported(v, s) ==
    /\ pc[Mailer(v)] = "wait"
    /\ <<v, s>> \in arrived
    /\ s \in transfers
    /\ arrived' = arrived \ {<<v, s>>}
    /\ transfers' = transfers \ {s}
    /\ GraphFinishTransfer(s.file, s.task)
    /\ Goto(Mailer(v), "jobs")
    /\ todo' = [todo EXCEPT ![Mailer(v)] = {s.receiver}]
    /\ resume' = [resume EXCEPT ![Mailer(v)] = "wait"]
    /\ UNCHANGED <<platformVars, copy, queue, hostOf, actors, job, cursor, filesMutex,
                   joined, mbox, unmatchedPut, unmatchedGet, moving>>

\* The read of coordinate_v has completed.
Incoming(v) ==
    /\ pc[Mailer(v)] = "wait"
    /\ mbox[v] # <<>>
    /\ Head(mbox[v]).kind = "request"
    /\ mbox' = [mbox EXCEPT ![v] = Tail(@)]

Received(v) == Head(mbox[v]).spec

KillMailer_AnyRequest(v) ==
    /\ Incoming(v)
    /\ Goto(Mailer(v), "drain")
    /\ UNCHANGED <<graphVars, platformVars, simVars, todo, resume, job, cursor,
                   filesMutex, joined, dataVars>>

\* Line 54: any message without a receiver ends the mailer.
KillMailer(v) ==
    /\ Incoming(v)
    /\ Received(v).receiver = NoVM
    /\ Goto(Mailer(v), "drain")
    /\ UNCHANGED <<graphVars, platformVars, simVars, todo, resume, job, cursor,
                   filesMutex, joined, dataVars>>

\* The test for a local transfer comes before the one for a terminator.
LocalTransfer_BeforeTerminator(v) ==
    /\ Incoming(v)
    /\ LET s == Received(v) IN
       /\ s.sender = s.receiver
       /\ GraphFinishTransfer(s.file, s.task)
       /\ todo' = [todo EXCEPT ![Mailer(v)] = {s.receiver}]
    /\ Goto(Mailer(v), "jobs")
    /\ resume' = [resume EXCEPT ![Mailer(v)] = "ack"]
    /\ UNCHANGED <<platformVars, simVars, job, cursor, filesMutex, joined, dataVars>>

\* Line 57: the file is already on the machine of its receiver.
LocalTransfer(v) ==
    /\ Incoming(v)
    /\ LET s == Received(v) IN
       /\ s.receiver # NoVM
       /\ s.sender = s.receiver
       /\ GraphFinishTransfer(s.file, s.task)
       /\ todo' = [todo EXCEPT ![Mailer(v)] = {s.receiver}]
    /\ Goto(Mailer(v), "jobs")
    /\ resume' = [resume EXCEPT ![Mailer(v)] = "ack"]
    /\ UNCHANGED <<platformVars, simVars, job, cursor, filesMutex, joined, dataVars>>

\* Line 60: this end reads; transfer_v matches it with the oldest offer.
BeginReceiving(v) ==
    /\ Incoming(v)
    /\ Received(v).receiver = v
    /\ Received(v).sender # v
    /\ IF unmatchedPut[v] = <<>>
       THEN /\ unmatchedGet' = [unmatchedGet EXCEPT ![v] = @ + 1]
            /\ UNCHANGED <<unmatchedPut, moving>>
       ELSE /\ unmatchedPut' = [unmatchedPut EXCEPT ![v] = Tail(@)]
            /\ moving' = moving \cup {Head(unmatchedPut[v])}
            /\ UNCHANGED unmatchedGet
    /\ Goto(Mailer(v), "ack")
    /\ UNCHANGED <<graphVars, platformVars, simVars, todo, resume, job, cursor,
                   filesMutex, joined, arrived>>

\* Line 69: this end offers the data to the receiver's mailbox.
BeginSending(v) ==
    /\ Incoming(v)
    /\ LET s == Received(v) IN
       /\ s.receiver \notin {v, NoVM, s.sender}
       /\ IF unmatchedGet[s.receiver] = 0
          THEN /\ unmatchedPut' = [unmatchedPut EXCEPT ![s.receiver] = Append(@, s)]
               /\ UNCHANGED <<unmatchedGet, moving>>
          ELSE /\ unmatchedGet' = [unmatchedGet EXCEPT ![s.receiver] = @ - 1]
               /\ moving' = moving \cup {s}
               /\ UNCHANGED unmatchedPut
    /\ Goto(Mailer(v), "ack")
    /\ UNCHANGED <<graphVars, platformVars, simVars, todo, resume, job, cursor,
                   filesMutex, joined, arrived>>

\* coordinator->put answers and blocks until the answer is taken.
PutAck(v) ==
    /\ pc[Mailer(v)] = "ack"
    /\ mbox' = [mbox EXCEPT ![v] = Append(@, Ack)]
    /\ Goto(Mailer(v), "replied")
    /\ UNCHANGED <<graphVars, platformVars, simVars, todo, resume, job, cursor,
                   filesMutex, joined, dataVars>>

\* The answer is put without waiting for it to be taken.
AckTaken_NoWait(v) ==
    /\ pc[Mailer(v)] = "replied"
    /\ Goto(Mailer(v), "wait")
    /\ UNCHANGED <<graphVars, platformVars, simVars, todo, resume, job, cursor,
                   filesMutex, joined, mbox, dataVars>>

AckTaken(v) ==
    /\ pc[Mailer(v)] = "replied"
    /\ ~Holds(v, Ack)
    /\ Goto(Mailer(v), "wait")
    /\ UNCHANGED <<graphVars, platformVars, simVars, todo, resume, job, cursor,
                   filesMutex, joined, mbox, dataVars>>

\* Lines 80-82: the last transfers are waited for, and not reported.
EndOf(v, s) == s.sender = v \/ s.receiver = v

Drain(v) ==
    /\ pc[Mailer(v)] = "drain"
    /\ unmatchedGet[v] = 0
    /\ \A u \in VMs : \A i \in DOMAIN unmatchedPut[u] : unmatchedPut[u][i].sender # v
    /\ \A s \in moving : ~EndOf(v, s)
    /\ arrived' = {a \in arrived : a[1] # v}
    /\ Goto(Mailer(v), "dead")
    /\ UNCHANGED <<graphVars, platformVars, simVars, todo, resume, job, cursor,
                   filesMutex, joined, mbox, unmatchedPut, unmatchedGet, moving>>

MailerStep(v) ==
    \/ JobStep(Mailer(v))
    \/ PutAck(v) \/ AckTaken(v) \/ Drain(v)
    \/ \E a \in arrived : FirstEndReported(v, a[2]) \/ SecondEndReported(v, a[2])
    \/ KillMailer(v) \/ LocalTransfer(v) \/ BeginReceiving(v) \/ BeginSending(v)

\* The network: data on its way reaches both ends at the same moment.
Arrive(s) ==
    /\ s \in moving
    /\ TimePasses
    /\ moving' = moving \ {s}
    /\ arrived' = arrived \cup {<<s.sender, s>>, <<s.receiver, s>>}
    /\ UNCHANGED <<graphVars, platformVars, simVars, procVars, mbox, unmatchedPut, unmatchedGet>>

-----------------------------------------------------------------------------
(* DoMainLoop after its first CheckReadyJobs, and ~CloudPlatform.           *)

\* The condition of the loop, at first and again when every actor has been
\* joined; nothing yields in between.  Not finished: sleep, then join the
\* actors from the first one, those added meanwhile too.
TestFinished ==
    /\ pc[Main] = "loop" \/ (pc[Main] = "join" /\ joined = Len(actors))
    /\ IF GraphIsFinished
       THEN /\ Goto(Main, "shut")
            /\ todo' = [todo EXCEPT ![Main] = virtualMachines]
            /\ UNCHANGED joined
       ELSE /\ Goto(Main, "join")
            /\ joined' = 0
            /\ UNCHANGED todo
    /\ UNCHANGED <<graphVars, platformVars, simVars, resume, job, cursor,
                   filesMutex, mbox, dataVars>>

JoinActor_NoWait ==
    /\ pc[Main] = "join"
    /\ joined < Len(actors)
    /\ joined' = joined + 1
    /\ UNCHANGED <<graphVars, platformVars, simVars, pc, todo, resume, job, cursor,
                   filesMutex, mbox, dataVars>>

\* join of a null pointer is a crash: no step.
JoinActor ==
    /\ pc[Main] = "join"
    /\ joined < Len(actors)
    /\ actors[joined + 1] # NullActor
    /\ pc[Compute(actors[joined + 1])] = "dead"
    /\ joined' = joined + 1
    /\ UNCHANGED <<graphVars, platformVars, simVars, pc, todo, resume, job, cursor,
                   filesMutex, mbox, dataVars>>

PutTerminator(v) ==
    /\ pc[Main] = "shut"
    /\ AtMachine(Main, v)
    /\ mbox' = [mbox EXCEPT ![v] = Append(@, Request(Terminator))]
    /\ Goto(Main, "closing")
    /\ UNCHANGED <<graphVars, platformVars, simVars, todo, resume, job, cursor,
                   filesMutex, joined, dataVars>>

JoinMailer(v) ==
    /\ pc[Main] = "closing"
    /\ AtMachine(Main, v)
    /\ ~Holds(v, Request(Terminator))
    /\ pc[Mailer(v)] = "dead"
    /\ Goto(Main, "shut")
    /\ Visited(Main, v)
    /\ UNCHANGED <<graphVars, platformVars, simVars, resume, job, cursor,
                   filesMutex, joined, mbox, dataVars>>

EndMainLoop ==
    /\ pc[Main] = "shut"
    /\ todo[Main] = {}
    /\ Goto(Main, "dead")
    /\ UNCHANGED <<graphVars, platformVars, simVars, todo, resume, job, cursor,
                   filesMutex, joined, mbox, dataVars>>

MainStep ==
    \/ ResetSchedule \/ BeginMainLoop
    \/ \E v \in VMs : BuyVM(v) \/ AssignTask(v) \/ AssignedAll(v)
    \/ JobStep(Main)
    \/ TestFinished \/ JoinActor
    \/ \E v \in VMs : PutTerminator(v) \/ JoinMailer(v)
    \/ EndMainLoop

\* The program has ended.
Ended == pc[Main] = "dead" /\ UNCHANGED vars

Next ==
    \/ MainStep
    \/ \E t \in Tasks : ComputeStep(t)
    \/ \E v \in VMs : MailerStep(v)
    \/ \E s \in moving : Arrive(s)
    \/ Ended

(***************************************************************************)
(* SimGrid runs every runnable actor before simulated time advances, and   *)
(* computations and transfers have finite durations.                       *)
(***************************************************************************)
Fairness ==
    /\ WF_vars(MainStep)
    /\ \A t \in Tasks : WF_vars(ComputeStep(t))
    /\ \A v \in VMs : WF_vars(MailerStep(v))
    /\ WF_vars(\E s \in moving : Arrive(s))

Spec == Init /\ [][Next]_vars
FairSpec == Spec /\ Fairness
-----------------------------------------------------------------------------
(* Properties *)

Closing == pc[Main] \in {"shut", "closing", "dead"}

(***************************************************************************)
(* A machine computes one task at a time, the head of its queue: a task    *)
(* that is RUNNING has not been popped, so DoRefreshAfterTask (line 96)    *)
(* finds it there, and no second task of the same machine runs.            *)
(***************************************************************************)
RunningIsHead ==
    \A t \in Tasks : taskState[t] = "RUNNING" =>
        /\ hostOf[t] \in VMs
        /\ queue[hostOf[t]] # <<>>
        /\ Head(queue[hostOf[t]]) = t

(***************************************************************************)
(* What CloudPlatform believes to be free on a machine is its size less    *)
(* what the one actor computing on it asked for, although the check of     *)
(* AssignTask and the subtraction are separated by yields; and the check   *)
(* never refuses at run time, so no null pointer is ever joined.           *)
(***************************************************************************)
Computing(v) == {t \in Tasks : hostOf[t] = v /\ pc[Compute(t)] \in {"exec", "finish"}}

ResourcesAccounted ==
    /\ \A i \in DOMAIN actors : actors[i] # NullActor
    /\ \A v \in virtualMachines :
          \/ Computing(v) = {} /\ freeSpec[v] = VMSpec[v]
          \/ \E t \in Tasks : /\ Computing(v) = {t}
                              /\ freeSpec[v] = Less(VMSpec[v], Need[t])
                              /\ Fits(Need[t], VMSpec[v])

(***************************************************************************)
(* No start is missed: whenever the head of a queue can start, some actor  *)
(* is on its way to look at that queue.  A start is only ever tried by     *)
(* whoever completed the last thing the head waited for.                   *)
(***************************************************************************)
NoMissedStart ==
    \A v \in virtualMachines :
        HeadReady(v) => \/ pc[Main] \in {"buy", "assign"}
                        \/ \E p \in Procs : pc[p] \in {"jobs", "create"} /\ v \in todo[p]

(***************************************************************************)
(* No file is left behind: a file inserted in ReadyFiles behind the        *)
(* iterator of the actor holding the mutex is found by another actor that  *)
(* has still to run CheckReadyFiles.                                       *)
(***************************************************************************)
NoFileLeftBehind ==
    \A f \in readyFiles :
        \E t \in Tasks :
            \/ pc[Compute(t)] \in {"jobs", "create", "lock"}
            \/ filesMutex = t /\ (cursor.file = f \/ cursor.iter \in 0..f)

(***************************************************************************)
(* Requests and answers share the mailbox of a machine and never cross:    *)
(* it holds at most one message, a mailer waiting for a request never      *)
(* finds an answer, nor StartTransfer waiting for an answer a request.     *)
(***************************************************************************)
NoCrossTalk ==
    \A v \in VMs :
        /\ Len(mbox[v]) <= 1
        /\ pc[Mailer(v)] = "wait" => ~Holds(v, Ack)
        /\ \A t \in Tasks : pc[Compute(t)] = "acks" /\ cursor.acks # <<>> /\ Head(cursor.acks) = v
                              => Holds(v, Ack) \/ mbox[v] = <<>>

(***************************************************************************)
(* A transfer is reported once by each of its ends: the pointer the first  *)
(* report put in Transfers waits for the second one, which deletes it.     *)
(***************************************************************************)
ReportedByBothEnds ==
    /\ \A s \in transfers : Cardinality({a \in arrived : a[2] = s}) = 1
    /\ \A a \in arrived : LET s == a[2] IN
          /\ s \notin moving
          /\ EndOf(a[1], s)
          /\ s \notin transfers => {<<s.sender, s>>, <<s.receiver, s>>} \subseteq arrived

(***************************************************************************)
(* "Terminating messages" (cloud_platform.cpp, line 54) are what ends a    *)
(* mailer: no mailer ends before the platform is destroyed.                *)
(***************************************************************************)
KilledOnlyAtShutdown ==
    \A v \in VMs : pc[Mailer(v)] \in {"drain", "dead"} => Closing

(***************************************************************************)
(* The platform is destroyed when nothing uses it any more: every compute  *)
(* actor is dead, no transfer is under way or unreported, the mutex is     *)
(* free and no file waits.  The drain of a killed mailer, which waits for  *)
(* transfers without reporting them, then loses nothing.                   *)
(***************************************************************************)
ShutdownQuiescent ==
    Closing =>
        /\ \A t \in Tasks : taskState[t] = "DONE" /\ pc[Compute(t)] = "dead"
        /\ filesMutex = NoTask /\ readyFiles = {}
        /\ transfers = {} /\ moving = {} /\ arrived = {}
        /\ \A v \in VMs : /\ unmatchedPut[v] = <<>> /\ unmatchedGet[v] = 0
                          /\ ~Holds(v, Ack)
                          /\ pc[Mailer(v)] \in {"none", "wait", "replied", "drain", "dead"}

(***************************************************************************)
(* Refinement: the actors together use the graph the way its own           *)
(* specification allows, each task finished once and only while RUNNING,   *)
(* each file handed out only while ready and delivered once per receiver.  *)
(***************************************************************************)
UsesGraph == GraphSpec

(***************************************************************************)
(* Every run on a platform with room for the schedule comes to its end.    *)
(***************************************************************************)
RunEnds == <>(pc[Main] = "dead")

(***************************************************************************)
(* "All actors finished their work, but not all tasks done" (assertion of  *)
(* cloud_simulator.cpp, line 113): when the actors have finished their     *)
(* work, the main loop comes to an end, with the tasks done or without.    *)
(***************************************************************************)
ActorsFinished ==
    /\ pc[Main] = "join"
    /\ \A t \in Tasks : pc[Compute(t)] \in {"none", "dead"}
    /\ \A v \in VMs : pc[Mailer(v)] \in {"none", "wait"} /\ mbox[v] = <<>>
    /\ moving = {} /\ arrived = {}

LoopEndsWithActors == ActorsFinished ~> pc[Main] # "join"
=============================================================================
