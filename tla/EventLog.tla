------------------------------ MODULE EventLog ------------------------------
(***************************************************************************)
(* The event log of a run: GenerateEvent (prototypes/simulator.h) and Dump *)
(* (events/event.h), which the actors of CloudSimulator call, and what     *)
(* ParseLogFile (common/parse_log.cpp) makes of it.                        *)
(*                                                                         *)
(* A dump waits for logMutex.  The mutex serves its callers in the order   *)
(* in which they came, so the order of the log is the order of the calls,  *)
(* and an event is written here in the step that calls.  The schedulers'   *)
(* handlers of events (StaticScheduler) return no actions: nothing else    *)
(* follows from one.  ActionCompleted events come from outside the actors, *)
(* with the host name NONE, and the parser passes over them.               *)
(***************************************************************************)
EXTENDS CloudSimulator

VARIABLES
    logged,     \* the events dumped so far, without their hosts
    atHome,     \* history: every task was started by an actor of its own machine
    active,     \* ParseLogFile, at the end of the log so far: isActive
    executing   \* and isExecuting

logVars == <<logged, atHome, active, executing>>

NoTransfer == Terminator

LogInit == logged = {} /\ atHome = TRUE /\ active = {} /\ executing = {}

-----------------------------------------------------------------------------
(* The host of an event is that of the actor that dumps it.  The actor      *)
(* "scheduler" lives on the first host by name, and the names of machines,  *)
(* built from the ids of their hosts, come before those of hosts.           *)

FirstByName ==
    IF \A h \in Hosts : hostVM[h] = NoVM THEN NoVM
    ELSE hostVM[CHOOSE h \in Hosts : /\ hostVM[h] # NoVM
                                     /\ \A g \in Hosts : hostVM[g] # NoVM => h <= g]

HostOfActor(p) ==
    CASE p = Main -> FirstByName
      [] p \in {Mailer(v) : v \in VMs} -> p[2]
      [] OTHER -> hostOf[p[2]]

TaskEvent(type, t, p) ==
    [type |-> type, task |-> t, transfer |-> NoTransfer, host |-> HostOfActor(p)]
TransferEvent(type, s, p) ==
    [type |-> type, task |-> NoTask, transfer |-> s, host |-> HostOfActor(p)]

Moves(p, from, to) == pc[p] = from /\ pc'[p] = to

\* After Platform::AssignTask, also when that refused.
StartedEvents ==
    {TaskEvent("task_started", job[p], p) : p \in {q \in Procs : Moves(q, "create", "jobs")}}
    \cup {TaskEvent("task_started", q[2], q[1]) :
             q \in {x \in Procs \X Tasks : /\ Moves(x[1], "jobs", "jobs")
                                           /\ todo'[x[1]] # todo[x[1]]
                                           /\ taskState[x[2]] # taskState'[x[2]]}}

\* The first thing DoRefreshAfterTask does, when DoExecute has computed.
FinishedEvents ==
    {TaskEvent("task_finished", t, Compute(t)) :
        t \in {u \in Tasks : Moves(Compute(u), "exec", "finish")}}

\* CheckReadyFiles: when StartTransfer has returned.
TransferStartedEvents ==
    {TransferEvent("transfer_started", cursor.spec, Compute(t)) :
        t \in {u \in Tasks : Moves(Compute(u), "acks", "receivers")}}

\* The end of the receiver dumps the event.
TransferFinishedEvents_Receiver ==
    {TransferEvent("transfer_finished", s, Mailer(s.receiver)) :
        s \in {x \in transfers : Moves(Mailer(x.receiver), "wait", "jobs") /\ x \notin transfers'}}

\* DoRefreshAfterTransfer for the second end; a local transfer has no event.
TransferFinishedEvents ==
    {TransferEvent("transfer_finished", q[2], Mailer(q[1])) :
        q \in {x \in VMs \X transfers : Moves(Mailer(x[1]), "wait", "jobs") /\ x[2] \notin transfers'}}

NewEvents == StartedEvents \cup FinishedEvents \cup TransferStartedEvents \cup TransferFinishedEvents

-----------------------------------------------------------------------------
(* ParseLogFile, for one event *)

Report(e) == [type |-> e.type, task |-> e.task, transfer |-> e.transfer]
HostsOf(events, types) == {e.host : e \in {x \in events : x.type \in types}}

Dump(events) ==
    /\ logged' = logged \cup {Report(e) : e \in events}
    /\ atHome' = (atHome /\ \A e \in events : e.type = "task_started" => e.host = hostOf[e.task])
    /\ active' = active \cup HostsOf(events, {"task_started", "transfer_started"})
    /\ executing' = (executing \cup HostsOf(events, {"task_started"}))
                        \ HostsOf(events, {"task_finished"})

LogNext == Next /\ Dump(NewEvents)

LogSpec == Init /\ LogInit /\ [][LogNext]_<<vars, logVars>>

-----------------------------------------------------------------------------
(* Properties *)

Logged(type, t) == \E e \in logged : e.type = type /\ e.task = t
TransferLogged(s) == \E e \in logged : e.type = "transfer_finished" /\ e.transfer = s

(***************************************************************************)
(* The log tells a legal run of the workflow, although each event is       *)
(* dumped by another actor, some time before or after the change of state  *)
(* it reports: a task ends after it started, and starts after the authors  *)
(* of its inputs have ended and its inputs from other machines have been   *)
(* transferred.  (The start of a transfer may be logged after its end.)    *)
(***************************************************************************)
LogTellsALegalRun ==
    \A t \in Tasks :
        /\ Logged("task_finished", t) => Logged("task_started", t)
        /\ Logged("task_started", t) => \A i \in DependencyIdx[t] :
               LET f == Inputs[t][i]
                   s == [sender |-> hostOf[Author[f]], receiver |-> hostOf[t], task |-> t, file |-> f]
               IN  /\ Logged("task_finished", Author[f])
                   /\ s.sender # s.receiver => TransferLogged(s)

(***************************************************************************)
(* The parser's executing time of a machine is the time it computes, as    *)
(* far as every task was started by an actor of its own machine: events    *)
(* carry the host of the actor that dumps them, not of the task.  One mark *)
(* per machine is enough, for a machine computes one task at a time.       *)
(***************************************************************************)
Running(t) == Logged("task_started", t) /\ ~Logged("task_finished", t)

ExecutingIfStartedAtHome ==
    atHome => executing = {hostOf[t] : t \in {u \in Tasks : Running(u)}}
=============================================================================
