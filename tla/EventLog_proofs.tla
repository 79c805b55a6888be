-------------------------- MODULE EventLog_proofs ---------------------------
(***************************************************************************)
(* Theorems about the log a run writes: what it says has started, has started*)
(* at the machine it names, and read from its first line to its last it tells*)
(* a run that the workflow allows.                                         *)
(***************************************************************************)
EXTENDS EventLog, TransferProtocol_proofs
-----------------------------------------------------------------------------
(* The event log.  A step logs the start of the task whose actor it         *)
(* creates, the end of the computation it ends, the end of the transfer it  *)
(* counts, or none of these.                                                *)

LEMMA LogSpecRuns == LogSpec => Spec
<1>1. [LogNext]_<<vars, logVars>> => [Next]_vars
  BY DEF LogNext
<1> QED BY <1>1, PTL DEF LogSpec, Spec

\* A task is logged as started when its actor exists, and as finished when
\* the actor has computed.
StartsLogged == \A t \in Tasks : Logged("task_started", t) <=> pc[Compute(t)] # "none"

EndsLogged == \A t \in Tasks : Logged("task_finished", t) <=> pc[Compute(t)] \notin {"none", "exec"}

Executes == {t \in Tasks : pc[Compute(t)] = "exec"}

ExecutingKnown == atHome => executing = {hostOf[t] : t \in Executes}

\* A delivery between machines is logged in the step that counts it.
DeliveriesLogged ==
    \A f \in Files, r \in Tasks :
        <<f, r>> \in delivered /\ hostOf[Author[f]] # hostOf[r] => TransferLogged(Trip(f, r))

NothingDelivered == Setup => delivered = {}

LogInv == StartsLogged /\ EndsLogged /\ ExecutingKnown /\ DeliveriesLogged /\ NothingDelivered

LEMMA LogInvInit == Init /\ LogInit => LogInv
<1> SUFFICES ASSUME Init, LogInit PROVE LogInv
  OBVIOUS
<1>1. logged = {} /\ executing = {} /\ delivered = {} /\ \A t \in Tasks : pc[Compute(t)] = "none"
  BY ProcsFacts DEF Init, LogInit, GraphInit
<1>2. Executes = {}
  BY <1>1 DEF Executes
<1> QED
  BY <1>1, <1>2 DEF LogInv, StartsLogged, EndsLogged, ExecutingKnown, DeliveriesLogged,
                    NothingDelivered, Logged

\* What a dump adds.
LEMMA DumpAdds ==
    ASSUME NEW events, Dump(events)
    PROVE  /\ \A type, t : Logged(type, t)' <=>
                  Logged(type, t) \/ \E e \in events : e.type = type /\ e.task = t
           /\ \A s : TransferLogged(s) => TransferLogged(s)'
           /\ \A e \in events : e.type = "transfer_finished" => TransferLogged(e.transfer)'
<1>1. \A e : Report(e).type = e.type /\ Report(e).task = e.task /\ Report(e).transfer = e.transfer
  BY DEF Report
<1>2. \A r : r \in logged' <=> r \in logged \/ \E e \in events : r = Report(e)
  BY DEF Dump
<1> HIDE DEF Report
<1> QED BY <1>1, <1>2 DEF Logged, TransferLogged

\* Steps that neither start nor end a task, nor count a delivery from elsewhere.
Silent(events) == \A e \in events : e.type = "transfer_started"

LEMMA SilentKeepsLog ==
    ASSUME MachinesInv, LogInv, Setup' => Setup, Dump(NewEvents), Silent(NewEvents),
           \A t \in Tasks : \/ pc'[Compute(t)] = pc[Compute(t)]
                            \/ {pc[Compute(t)], pc'[Compute(t)]} \cap {"none", "exec"} = {},
           \A f \in Files, r \in Tasks : <<f, r>> \in delivered' =>
               \/ <<f, r>> \in delivered
               \/ hostOf[Author[f]] = hostOf[r] /\ ~Setup,
           delivered' \subseteq Files \X Tasks,
           Setup \/ hostOf' = hostOf
    PROVE  LogInv'
<1>1. /\ \A type, t : type # "transfer_started" => (Logged(type, t)' <=> Logged(type, t))
      /\ \A s : TransferLogged(s) => TransferLogged(s)'
  BY DumpAdds DEF Silent
<1>2. StartsLogged' /\ EndsLogged'
  BY <1>1 DEF LogInv, StartsLogged, EndsLogged
<1>3. Executes' = Executes
  BY DEF Executes
<1>4. (atHome' <=> atHome) /\ executing' = executing
  <2>1. HostsOf(NewEvents, {"task_started"}) = {} /\ HostsOf(NewEvents, {"task_finished"}) = {}
    BY DEF HostsOf, Silent
  <2>2. \A e \in NewEvents : e.type # "task_started"
    BY DEF Silent
  <2> QED BY <2>1, <2>2 DEF Dump
<1>5. CASE Setup
  <2>1. Executes = {}
    BY <1>5, SetupIdle DEF Executes
  <2>2. delivered = {} /\ delivered' = {}
    BY <1>5 DEF LogInv, NothingDelivered
  <2>3. ExecutingKnown'
    BY <1>3, <1>4, <2>1 DEF LogInv, ExecutingKnown
  <2> QED BY <1>2, <2>2, <2>3 DEF LogInv, DeliveriesLogged, NothingDelivered
<1>6. CASE ~Setup
  <2>1. ExecutingKnown'
    BY <1>3, <1>4, <1>6 DEF LogInv, ExecutingKnown
  <2>2. DeliveriesLogged'
    BY <1>1, <1>6 DEF LogInv, DeliveriesLogged, Trip
  <2> QED BY <1>2, <1>6, <2>1, <2>2 DEF LogInv, NothingDelivered
<1> QED BY <1>5, <1>6

\* A step in which only process p moves, to where nothing is logged.
LEMMA MoveIsSilent ==
    ASSUME pc \in [Procs -> Labels], NEW p \in Procs, \A q \in Procs : q # p => pc'[q] = pc[q],
           <<pc[p], pc'[p]>> # <<"create", "jobs">>,
           <<pc[p], pc'[p]>> # <<"exec", "finish">> \/ \A t \in Tasks : p # Compute(t),
           <<pc[p], pc'[p]>> = <<"wait", "jobs">> => transfers' = transfers,
           \/ taskState' = taskState
           \/ todo' = todo
           \/ <<pc[p], pc'[p]>> # <<"jobs", "jobs">> /\ \A q \in Procs : q # p => todo'[q] = todo[q]
    PROVE  Silent(NewEvents)
<1>1. \A q \in Procs : ~Moves(q, "create", "jobs")
  BY DEF Moves
<1>2. \A t \in Tasks : ~Moves(Compute(t), "exec", "finish")
  BY ProcsFacts DEF Moves
<1>3. \A q \in Procs : Moves(q, "jobs", "jobs") /\ todo'[q] # todo[q] => taskState' = taskState
  BY DEF Moves
<1>4. \A v \in VMs : Moves(Mailer(v), "wait", "jobs") => transfers' = transfers
  BY ProcsFacts DEF Moves
<1>5. StartedEvents = {}
  BY <1>1, <1>3 DEF StartedEvents
<1>6. FinishedEvents = {}
  BY <1>2, ProcsFacts DEF FinishedEvents
<1>7. TransferFinishedEvents = {}
  BY <1>4 DEF TransferFinishedEvents
<1>8. \A e \in TransferStartedEvents : e.type = "transfer_started"
  BY DEF TransferStartedEvents, TransferEvent
<1> QED BY <1>5, <1>6, <1>7, <1>8 DEF Silent, NewEvents

\* And so does a step that moves nobody.
LEMMA StayIsSilent ==
    ASSUME pc \in [Procs -> Labels], UNCHANGED pc, UNCHANGED taskState PROVE Silent(NewEvents)
BY ProcsFacts, MoveIsSilent

\* What a step that logs nothing of tasks, and delivers nothing, has to leave alone.
LEMMA QuietKeepsLog ==
    ASSUME MachinesInv, LogInv, Dump(NewEvents), UNCHANGED delivered,
           Setup' => Setup, Setup \/ hostOf' = hostOf,
           NEW p \in Procs, \A q \in Procs : q # p => pc'[q] = pc[q],
           \/ pc'[p] = pc[p]
           \/ \A t \in Tasks : p # Compute(t)
           \/ {pc[p], pc'[p]} \cap {"none", "exec"} = {},
           <<pc[p], pc'[p]>> # <<"create", "jobs">>,
           <<pc[p], pc'[p]>> = <<"wait", "jobs">> => transfers' = transfers,
           \/ taskState' = taskState
           \/ todo' = todo
           \/ <<pc[p], pc'[p]>> # <<"jobs", "jobs">> /\ \A q \in Procs : q # p => todo'[q] = todo[q]
    PROVE  LogInv'
<1>1. pc \in [Procs -> Labels] /\ delivered \subseteq Files \X Tasks
  BY DEF MachinesInv, TypeInv, TypeOK, ProcTypeOK, GraphTypeOK
<1>2. <<pc[p], pc'[p]>> # <<"exec", "finish">> \/ \A t \in Tasks : p # Compute(t)
  OBVIOUS
<1>3. Silent(NewEvents)
  BY <1>1, <1>2, MoveIsSilent
<1>4. \A t \in Tasks : \/ pc'[Compute(t)] = pc[Compute(t)]
                       \/ {pc[Compute(t)], pc'[Compute(t)]} \cap {"none", "exec"} = {}
  BY ProcsFacts
<1> QED BY <1>1, <1>3, <1>4, SilentKeepsLog

LEMMA StayKeepsLog ==
    ASSUME MachinesInv, LogInv, Dump(NewEvents), UNCHANGED <<pc, taskState, delivered>>,
           Setup \/ hostOf' = hostOf
    PROVE  LogInv'
BY ProcsFacts, QuietKeepsLog DEF Setup

\* The actor of a task is created: its start is logged, with the host of its creator.
LEMMA LogCreateActor ==
    ASSUME MachinesInv, LogInv, NEW p \in Procs, NEW v \in VMs, CreateActor(p, v), Dump(NewEvents)
    PROVE  LogInv'
<1>1. /\ pc[p] = "create" /\ ~Setup /\ job[p] \in Tasks
      /\ pc[Compute(job[p])] = "none" /\ p # Compute(job[p])
      /\ pc'[p] = "jobs" /\ pc'[Compute(job[p])] = "exec"
      /\ \A q \in Procs : q # p /\ q # Compute(job[p]) => pc'[q] = pc[q]
      /\ UNCHANGED <<graphVars, hostOf, transfers>>
  BY ActorCreated
<1>2. PICK t \in Tasks : t = job[p]
  BY <1>1
<1>3. PICK h : h = HostOfActor(p)
  OBVIOUS
<1>4. UNCHANGED <<taskState, delivered>>
  BY <1>1 DEF graphVars
<1>5. StartedEvents = {[type |-> "task_started", task |-> t, transfer |-> NoTransfer, host |-> h]}
  <2>1. {q \in Procs : Moves(q, "create", "jobs")} = {p}
    BY <1>1, ProcsFacts DEF Moves
  <2>2. {x \in Procs \X Tasks : /\ Moves(x[1], "jobs", "jobs") /\ todo'[x[1]] # todo[x[1]]
                                /\ taskState[x[2]] # taskState'[x[2]]} = {}
    BY <1>4
  <2>3. TaskEvent("task_started", job[p], p) =
           [type |-> "task_started", task |-> t, transfer |-> NoTransfer, host |-> h]
    BY <1>2, <1>3 DEF TaskEvent
  <2> QED BY <2>1, <2>2, <2>3 DEF StartedEvents
<1>6. FinishedEvents = {} /\ TransferFinishedEvents = {}
  BY <1>1, ProcsFacts DEF FinishedEvents, TransferFinishedEvents, Moves
<1>7. \A e \in TransferStartedEvents : e.type = "transfer_started"
  BY DEF TransferStartedEvents, TransferEvent
<1>8. \A e \in NewEvents : \/ e = [type |-> "task_started", task |-> t, transfer |-> NoTransfer, host |-> h]
                           \/ e.type = "transfer_started"
  BY <1>5, <1>6, <1>7 DEF NewEvents
<1>9. /\ [type |-> "task_started", task |-> t, transfer |-> NoTransfer, host |-> h] \in NewEvents
      /\ [type |-> "task_started", task |-> t, transfer |-> NoTransfer, host |-> h].type = "task_started"
      /\ [type |-> "task_started", task |-> t, transfer |-> NoTransfer, host |-> h].task = t
      /\ [type |-> "task_started", task |-> t, transfer |-> NoTransfer, host |-> h].host = h
  BY <1>5 DEF NewEvents
<1>10. \A u \in Tasks : Logged("task_started", u)' <=> Logged("task_started", u) \/ u = t
  BY <1>8, <1>9, DumpAdds
<1>11. \A u \in Tasks : Logged("task_finished", u)' <=> Logged("task_finished", u)
  BY <1>8, <1>9, DumpAdds
<1>12. \A u \in Tasks : /\ pc'[Compute(u)] # "none" <=> pc[Compute(u)] # "none" \/ u = t
                        /\ pc'[Compute(u)] \notin {"none", "exec"} <=> pc[Compute(u)] \notin {"none", "exec"}
                        /\ pc'[Compute(u)] = "exec" <=> pc[Compute(u)] = "exec" \/ u = t
  BY <1>1, <1>2, ProcsFacts
<1>13. StartsLogged' /\ EndsLogged'
  BY <1>10, <1>11, <1>12 DEF LogInv, StartsLogged, EndsLogged
<1>14. ExecutingKnown'
  <2>1. HostsOf(NewEvents, {"task_started"}) = {h} /\ HostsOf(NewEvents, {"task_finished"}) = {}
    BY <1>8, <1>9 DEF HostsOf
  <2>2. executing' = executing \cup {h}
    BY <2>1 DEF Dump
  <2>3. atHome' => atHome /\ h = hostOf[t]
    BY <1>9 DEF Dump
  <2>4. Executes' = Executes \cup {t}
    BY <1>12 DEF Executes
  <2>5. hostOf' = hostOf
    BY <1>1
  <2> QED BY <2>2, <2>3, <2>4, <2>5 DEF LogInv, ExecutingKnown
<1>15. DeliveriesLogged' /\ NothingDelivered'
  <2>1. Setup' <=> Setup
    BY <1>1, ProcsFacts DEF Setup
  <2> QED BY <1>1, <1>4, <2>1, DumpAdds DEF LogInv, DeliveriesLogged, NothingDelivered, Trip
<1> QED BY <1>13, <1>14, <1>15 DEF LogInv

\* A computation ends: its end is logged, with the host of the task, and no
\* other task computes there.
LEMMA LogDoExecute ==
    ASSUME MachinesInv, LogInv, NEW t \in Tasks, DoExecute(t), Dump(NewEvents)
    PROVE  LogInv'
<1>1. /\ pc[Compute(t)] = "exec" /\ pc'[Compute(t)] = "finish"
      /\ \A q \in Procs : q # Compute(t) => pc'[q] = pc[q]
      /\ UNCHANGED <<taskState, delivered, hostOf, transfers>>
  BY ProcsFacts DEF DoExecute, Goto, graphVars, simVars, MachinesInv, TypeInv, TypeOK, ProcTypeOK
<1>2. PICK h : h = hostOf[t]
  OBVIOUS
<1>3. HostOfActor(Compute(t)) = h
  BY <1>2, ProcsFacts DEF HostOfActor, Compute, Mailer, Main
<1>4. FinishedEvents = {[type |-> "task_finished", task |-> t, transfer |-> NoTransfer, host |-> h]}
  <2>1. {u \in Tasks : Moves(Compute(u), "exec", "finish")} = {t}
    BY <1>1, ProcsFacts DEF Moves
  <2>2. TaskEvent("task_finished", t, Compute(t)) =
           [type |-> "task_finished", task |-> t, transfer |-> NoTransfer, host |-> h]
    BY <1>3 DEF TaskEvent
  <2> QED BY <2>1, <2>2 DEF FinishedEvents
<1>5. StartedEvents = {} /\ TransferFinishedEvents = {}
  <2>1. \A q \in Procs : ~Moves(q, "create", "jobs")
    BY <1>1 DEF Moves
  <2>2. StartedEvents = {}
    BY <1>1, <2>1 DEF StartedEvents
  <2> QED BY <1>1, <2>2 DEF TransferFinishedEvents
<1>6. \A e \in TransferStartedEvents : e.type = "transfer_started"
  BY DEF TransferStartedEvents, TransferEvent
<1>7. \A e \in NewEvents : \/ e = [type |-> "task_finished", task |-> t, transfer |-> NoTransfer, host |-> h]
                           \/ e.type = "transfer_started"
  BY <1>4, <1>5, <1>6 DEF NewEvents
<1>8. /\ [type |-> "task_finished", task |-> t, transfer |-> NoTransfer, host |-> h] \in NewEvents
      /\ [type |-> "task_finished", task |-> t, transfer |-> NoTransfer, host |-> h].type = "task_finished"
      /\ [type |-> "task_finished", task |-> t, transfer |-> NoTransfer, host |-> h].task = t
      /\ [type |-> "task_finished", task |-> t, transfer |-> NoTransfer, host |-> h].host = h
  BY <1>4 DEF NewEvents
<1>9. \A u \in Tasks : Logged("task_started", u)' <=> Logged("task_started", u)
  BY <1>7, <1>8, DumpAdds
<1>10. \A u \in Tasks : Logged("task_finished", u)' <=> Logged("task_finished", u) \/ u = t
  BY <1>7, <1>8, DumpAdds
<1>11. \A u \in Tasks : /\ pc'[Compute(u)] # "none" <=> pc[Compute(u)] # "none"
                        /\ pc'[Compute(u)] \notin {"none", "exec"} <=>
                               pc[Compute(u)] \notin {"none", "exec"} \/ u = t
                        /\ pc'[Compute(u)] = "exec" <=> pc[Compute(u)] = "exec" /\ u # t
  BY <1>1, ProcsFacts
<1>12. StartsLogged' /\ EndsLogged'
  BY <1>9, <1>10, <1>11 DEF LogInv, StartsLogged, EndsLogged
<1>13. \A u \in Executes : hostOf[u] = h => u = t
  <2>1. h \in VMs /\ h \in virtualMachines
    BY <1>1, <1>2 DEF MachinesInv, ActorOfRunning, RunningIsHead, QueuedPlaced, TypeInv, TypeOK, SimTypeOK
  <2>2. t \in Computing(h)
    BY <1>1, <1>2 DEF Computing
  <2>3. \A u \in Computing(h) : u = t
    BY <2>1, <2>2 DEF MachinesInv, ResourcesAccounted
  <2> QED BY <2>3 DEF Executes, Computing
<1>14. ExecutingKnown'
  <2>1. HostsOf(NewEvents, {"task_started"}) = {} /\ HostsOf(NewEvents, {"task_finished"}) = {h}
    BY <1>7, <1>8 DEF HostsOf
  <2>2. executing' = executing \ {h}
    BY <2>1 DEF Dump
  <2>3. atHome' => atHome
    BY DEF Dump
  <2>4. Executes' = Executes \ {t} /\ t \in Executes
    BY <1>1, <1>11 DEF Executes
  <2>5. {hostOf[u] : u \in Executes \ {t}} = {hostOf[u] : u \in Executes} \ {h}
    BY <1>2, <1>13, <2>4
  <2>6. hostOf' = hostOf
    BY <1>1
  <2> QED BY <2>2, <2>3, <2>4, <2>5, <2>6 DEF LogInv, ExecutingKnown
<1>15. DeliveriesLogged' /\ NothingDelivered'
  <2>1. Setup' <=> Setup
    BY <1>1, ProcsFacts DEF Setup
  <2> QED BY <1>1, <2>1, DumpAdds DEF LogInv, DeliveriesLogged, NothingDelivered, Trip
<1> QED BY <1>12, <1>14, <1>15 DEF LogInv

\* The second end of a transfer is reported: it is delivered and its end logged.
LEMMA LogSecondEnd ==
    ASSUME SimulatorInv, LogInv, NEW v \in VMs, NEW s, SecondEndReported(v, s), Dump(NewEvents)
    PROVE  LogInv'
<1> USE DEF SimulatorInv
<1>1. /\ pc[Mailer(v)] = "wait" /\ pc'[Mailer(v)] = "jobs"
      /\ \A q \in Procs : q # Mailer(v) => pc'[q] = pc[q]
      /\ s \in transfers /\ transfers' = transfers \ {s} /\ arrived # {}
      /\ delivered' = delivered \cup {<<s.file, s.task>>}
      /\ UNCHANGED <<taskState, hostOf>>
  BY ProcsFacts DEF SecondEndReported, GraphFinishTransfer, Goto, MachinesInv, TypeInv, TypeOK, ProcTypeOK
<1>2. s \in Deliverable /\ s = Trip(s.file, s.task)
  <2>1. Travels(s)
    BY <1>1 DEF Travels
  <2> QED BY <2>1, TravellersAreDeliverable DEF TransferInv, TravelsOnce
<1>3. ~Setup /\ ~Setup'
  BY <1>1, MailAfterSetup, ProcsFacts DEF Setup
<1>4. StartedEvents = {} /\ FinishedEvents = {}
  <2>1. \A q \in Procs : ~Moves(q, "create", "jobs")
    BY <1>1 DEF Moves
  <2>2. \A t \in Tasks : ~Moves(Compute(t), "exec", "finish")
    BY <1>1, ProcsFacts DEF Moves
  <2> QED BY <1>1, <2>1, <2>2 DEF StartedEvents, FinishedEvents
<1>5. \A e \in NewEvents : e.type \in {"transfer_started", "transfer_finished"}
  BY <1>4 DEF NewEvents, TransferStartedEvents, TransferFinishedEvents, TransferEvent
<1>6. \E e \in NewEvents : e.type = "transfer_finished" /\ e.transfer = s
  <2>1. <<v, s>> \in {x \in VMs \X transfers : Moves(Mailer(x[1]), "wait", "jobs") /\ x[2] \notin transfers'}
    BY <1>1 DEF Moves
  <2>2. TransferEvent("transfer_finished", s, Mailer(v)) \in NewEvents
    BY <2>1 DEF NewEvents, TransferFinishedEvents
  <2> QED BY <2>2 DEF TransferEvent
<1>7. TransferLogged(s)' /\ \A u : TransferLogged(u) => TransferLogged(u)'
  BY <1>6, DumpAdds
<1>8. /\ \A u \in Tasks : Logged("task_started", u)' <=> Logged("task_started", u)
      /\ \A u \in Tasks : Logged("task_finished", u)' <=> Logged("task_finished", u)
  BY <1>5, DumpAdds
<1>9. \A u \in Tasks : pc'[Compute(u)] = pc[Compute(u)]
  BY <1>1, ProcsFacts
<1>10. StartsLogged' /\ EndsLogged'
  BY <1>8, <1>9 DEF LogInv, StartsLogged, EndsLogged
<1>11. ExecutingKnown'
  <2>1. HostsOf(NewEvents, {"task_started"}) = {} /\ HostsOf(NewEvents, {"task_finished"}) = {}
    BY <1>5 DEF HostsOf
  <2>2. executing' = executing /\ (atHome' => atHome)
    BY <2>1 DEF Dump
  <2>3. Executes' = Executes
    BY <1>9 DEF Executes
  <2> QED BY <1>1, <2>2, <2>3 DEF LogInv, ExecutingKnown
<1>12. DeliveriesLogged'
  <2> SUFFICES ASSUME NEW f \in Files, NEW r \in Tasks, <<f, r>> \in delivered',
                      hostOf'[Author[f]] # hostOf'[r]
               PROVE  TransferLogged(Trip(f, r))'
    BY DEF DeliveriesLogged
  <2>1. Trip(f, r)' = Trip(f, r)
    BY <1>1 DEF Trip
  <2>2. CASE <<f, r>> \in delivered
    BY <1>1, <1>7, <2>1, <2>2 DEF LogInv, DeliveriesLogged, TransferLogged
  <2>3. CASE <<f, r>> = <<s.file, s.task>>
    <3>1. Trip(f, r) = s
      BY <1>2, <2>3
    <3> QED BY <1>7, <2>1, <3>1 DEF TransferLogged
  <2> QED BY <1>1, <2>2, <2>3
<1> QED BY <1>3, <1>10, <1>11, <1>12 DEF LogInv, NothingDelivered

LEMMA LogJobStep ==
    ASSUME SimulatorInv, LogInv, NEW p \in Procs, JobStep(p), Dump(NewEvents) PROVE LogInv'
<1> USE DEF SimulatorInv
<1>0. pc \in [Procs -> Labels] /\ resume \in [Procs -> {"loop", "lock", "wait", "ack"}]
  BY DEF MachinesInv, TypeInv, TypeOK, ProcTypeOK
<1>1. CASE \E v \in VMs : NothingToStart(p, v)
  BY <1>1, StayKeepsLog DEF NothingToStart, graphVars, simVars
<1>2. ASSUME NEW v \in VMs, CheckReadyJobOnVM(p, v) PROVE LogInv'
  <2>1. /\ pc[p] = "jobs" /\ pc'[p] = "create" /\ \A q \in Procs : q # p => pc'[q] = pc[q]
        /\ ~Setup /\ StartExecuting(Head(queue[v])) /\ UNCHANGED <<todo, hostOf, transfers>>
    BY <1>2, HeadStarts
  <2>2. delivered' = delivered
    BY <2>1 DEF StartExecuting
  <2>3. ~Setup'
    BY <2>1, ProcsFacts DEF Setup
  <2> QED BY <2>1, <2>2, <2>3, QuietKeepsLog
<1>3. ASSUME NEW v \in VMs, CreateActor(p, v) PROVE LogInv'
  BY <1>3, LogCreateActor
<1>4. CASE JobsChecked(p)
  <2>1. /\ pc[p] = "jobs" /\ pc'[p] = resume[p] /\ \A q \in Procs : q # p => pc'[q] = pc[q]
        /\ UNCHANGED <<todo, hostOf, transfers, delivered, taskState>>
    BY <1>0, <1>4 DEF JobsChecked, Goto, graphVars, simVars
  <2>2. resume[p] \in {"loop", "lock", "wait", "ack"}
    BY <1>0
  <2>3. Setup' => Setup
    BY <2>1, <2>2, ProcsFacts DEF Setup
  <2> QED BY <2>1, <2>2, <2>3, QuietKeepsLog
<1> QED BY <1>1, <1>2, <1>3, <1>4 DEF JobStep

LEMMA LogComputeStep ==
    ASSUME SimulatorInv, LogInv, NEW t \in Tasks, ComputeStep(t), Dump(NewEvents) PROVE LogInv'
<1> USE DEF SimulatorInv
<1>0. pc \in [Procs -> Labels] /\ todo \in [Procs -> SUBSET VMs] /\ Compute(t) \in Procs
  BY ProcsFacts DEF MachinesInv, TypeInv, TypeOK, ProcTypeOK
<1>1. CASE JobStep(Compute(t))
  BY <1>0, <1>1, LogJobStep
<1>2. CASE DoExecute(t)
  BY <1>2, LogDoExecute
<1>3. ASSUME NEW l, Goto(Compute(t), l), {pc[Compute(t)], l} \cap {"none", "exec"} = {},
             <<pc[Compute(t)], l>> \notin {<<"create", "jobs">>, <<"wait", "jobs">>, <<"jobs", "jobs">>},
             \A q \in Procs : q # Compute(t) => todo'[q] = todo[q],
             UNCHANGED <<delivered, hostOf>>
      PROVE  LogInv'
  <2>1. pc'[Compute(t)] = l /\ \A q \in Procs : q # Compute(t) => pc'[q] = pc[q]
    BY <1>0, <1>3 DEF Goto
  <2>2. Setup' => Setup
    BY <2>1, ProcsFacts DEF Setup
  <2> QED BY <1>0, <1>3, <2>1, <2>2, QuietKeepsLog
<1>4. CASE DoRefreshAfterTask(t)
  BY <1>0, <1>3, <1>4 DEF DoRefreshAfterTask, GraphFinishTask
<1>5. CASE CheckReadyFiles(t) \/ NextFile(t) \/ FilesChecked(t)
  BY <1>0, <1>3, <1>5 DEF CheckReadyFiles, NextFile, FilesChecked, graphVars, simVars
<1>6. CASE FileStarted(t)
  BY <1>0, <1>3, <1>6 DEF FileStarted, GraphStartTransfer, simVars
<1>7. CASE RequestTaken(t) \/ TransferStarted(t)
  BY <1>0, <1>3, <1>7 DEF RequestTaken, TransferStarted, graphVars, simVars
<1>8. CASE TakeAck(t)
  BY <1>8, StayKeepsLog DEF TakeAck, graphVars, simVars
<1>9. CASE \E r \in Tasks : StartTransfer(t, r)
  BY <1>0, <1>3, <1>9 DEF StartTransfer, graphVars, simVars
<1> QED BY <1>1, <1>2, <1>4, <1>5, <1>6, <1>7, <1>8, <1>9 DEF ComputeStep

\* A local transfer is delivered without an event.
LEMMA LogLocalTransfer ==
    ASSUME SimulatorInv, LogInv, NEW v \in VMs, LocalTransfer(v), Dump(NewEvents) PROVE LogInv'
<1> USE DEF SimulatorInv
<1>1. /\ Incoming(v) /\ Received(v).receiver # NoVM /\ UNCHANGED <<cursor, hostOf, taskState, transfers>>
      /\ pc[Mailer(v)] = "wait" /\ mbox[v] # <<>>
      /\ Received(v).sender = Received(v).receiver
      /\ delivered' = delivered \cup {<<Received(v).file, Received(v).task>>}
      /\ pc'[Mailer(v)] = "jobs" /\ \A q \in Procs : q # Mailer(v) => pc'[q] = pc[q]
  BY ProcsFacts DEF LocalTransfer, Incoming, GraphFinishTransfer, Goto, simVars, MachinesInv, TypeInv,
                    TypeOK, ProcTypeOK
<1>2. HolderAt = "request" /\ Received(v) = cursor.spec
  BY <1>1, RequestArrives
<1>3. /\ cursor.file \in Files /\ cursor.spec.task \in Tasks /\ cursor.spec.file = cursor.file
      /\ cursor.spec.sender = hostOf[Author[cursor.file]]
      /\ cursor.spec.receiver = hostOf[cursor.spec.task]
  BY <1>2, AskedEnds
<1>4. ~Setup
  BY <1>1, MailAfterSetup
<1>5. ~Setup' /\ pc \in [Procs -> Labels] /\ delivered \subseteq Files \X Tasks
  BY <1>1, <1>4, ProcsFacts DEF Setup, MachinesInv, TypeInv, TypeOK, ProcTypeOK, GraphTypeOK
<1>6. Silent(NewEvents)
  BY <1>1, <1>5, ProcsFacts, MoveIsSilent
<1>7. \A u \in Tasks : pc'[Compute(u)] = pc[Compute(u)]
  BY <1>1, ProcsFacts
<1>8. \A f \in Files, r \in Tasks : <<f, r>> \in delivered' =>
          <<f, r>> \in delivered \/ hostOf[Author[f]] = hostOf[r]
  BY <1>1, <1>2, <1>3
<1>9. delivered' \subseteq Files \X Tasks
  BY <1>1, <1>2, <1>3, <1>5
<1> QED BY <1>1, <1>4, <1>5, <1>6, <1>7, <1>8, <1>9, SilentKeepsLog

LEMMA LogMailerStep ==
    ASSUME SimulatorInv, LogInv, NEW v \in VMs, MailerStep(v), Dump(NewEvents) PROVE LogInv'
<1> USE DEF SimulatorInv
<1>0. pc \in [Procs -> Labels] /\ Mailer(v) \in Procs /\ \A t \in Tasks : Mailer(v) # Compute(t)
  BY ProcsFacts DEF MachinesInv, TypeInv, TypeOK, ProcTypeOK
<1>1. CASE JobStep(Mailer(v))
  BY <1>0, <1>1, LogJobStep
<1>2. ASSUME NEW l, Goto(Mailer(v), l), l # "jobs", UNCHANGED <<delivered, hostOf, taskState>>
      PROVE  LogInv'
  <2>1. pc'[Mailer(v)] = l /\ \A q \in Procs : q # Mailer(v) => pc'[q] = pc[q]
    BY <1>0, <1>2 DEF Goto
  <2>2. Setup' => Setup
    BY <2>1, ProcsFacts DEF Setup
  <2> QED BY <1>0, <1>2, <2>1, <2>2, QuietKeepsLog
<1>3. CASE KillMailer(v) \/ BeginReceiving(v) \/ BeginSending(v) \/ PutAck(v) \/ AckTaken(v) \/ Drain(v)
  BY <1>2, <1>3 DEF KillMailer, BeginReceiving, BeginSending, PutAck, AckTaken, Drain, graphVars, simVars
<1>4. ASSUME NEW s, FirstEndReported(v, s) PROVE LogInv'
  BY <1>4, StayKeepsLog DEF FirstEndReported, graphVars, procVars
<1> QED BY <1>1, <1>3, <1>4, LogSecondEnd, LogLocalTransfer DEF MailerStep

LEMMA LogMainStep ==
    ASSUME SimulatorInv, LogInv, MainStep, Dump(NewEvents) PROVE LogInv'
<1> USE DEF SimulatorInv
<1>0. pc \in [Procs -> Labels] /\ Main \in Procs /\ \A t \in Tasks : Main # Compute(t)
  BY ProcsFacts DEF MachinesInv, TypeInv, TypeOK, ProcTypeOK
<1>1. CASE JobStep(Main)
  BY <1>0, <1>1, LogJobStep
<1>2. ASSUME NEW v \in VMs, BuyVM(v) PROVE LogInv'
  <2>1. /\ \A q \in Procs : q # Mailer(v) => pc'[q] = pc[q]
        /\ pc'[Mailer(v)] \in {"wait", pc[Mailer(v)]}
        /\ UNCHANGED <<delivered, hostOf, taskState, transfers>>
    BY <1>0, <1>2, ProcsFacts DEF BuyVM, graphVars, simVars
  <2>2. Setup' => Setup
    BY <2>1, ProcsFacts DEF Setup
  <2> QED BY <2>1, <2>2, ProcsFacts, QuietKeepsLog
<1>3. ASSUME NEW l, Goto(Main, l), l # "jobs" \/ pc[Main] = "assign",
             UNCHANGED <<delivered, taskState>>, Setup' => Setup, Setup \/ hostOf' = hostOf
      PROVE  LogInv'
  <2>1. pc'[Main] = l /\ \A q \in Procs : q # Main => pc'[q] = pc[q]
    BY <1>0, <1>3 DEF Goto
  <2> QED BY <1>0, <1>3, <2>1, QuietKeepsLog
<1>4. ASSUME NEW v \in VMs, AssignTask(v) PROVE LogInv'
  <2>1. Setup /\ UNCHANGED <<pc, taskState, delivered>>
    BY <1>4 DEF AssignTask, GraphAssignTask, graphVars, procVars, Setup
  <2> QED BY <2>1, StayKeepsLog
<1>5. CASE ResetSchedule \/ BeginMainLoop
  BY <1>0, <1>3, <1>5 DEF ResetSchedule, BeginMainLoop, graphVars, simVars, Setup
<1>6. CASE JoinActor \/ \E v \in VMs : AssignedAll(v)
  BY <1>6, StayKeepsLog DEF JoinActor, AssignedAll, graphVars, simVars
<1>7. ASSUME NEW l \in {"shut", "join", "closing", "dead"}, Goto(Main, l), UNCHANGED <<graphVars, simVars>>
      PROVE  LogInv'
  <2>1. ~Setup'
    BY <1>0, <1>7 DEF Goto, Setup
  <2> QED BY <1>3, <1>7, <2>1 DEF graphVars, simVars
<1>8. CASE TestFinished \/ EndMainLoop \/ \E v \in VMs : PutTerminator(v) \/ JoinMailer(v)
  BY <1>7, <1>8 DEF TestFinished, EndMainLoop, PutTerminator, JoinMailer
<1> QED BY <1>1, <1>2, <1>4, <1>5, <1>6, <1>8 DEF MainStep

LEMMA LogInvNext == SimulatorInv /\ LogInv /\ [LogNext]_<<vars, logVars>> => LogInv'
<1> SUFFICES ASSUME SimulatorInv, LogInv, [LogNext]_<<vars, logVars>> PROVE LogInv'
  OBVIOUS
<1>1. CASE UNCHANGED <<vars, logVars>>
  BY <1>1 DEF vars, logVars, graphVars, simVars, procVars, LogInv, StartsLogged, EndsLogged,
              ExecutingKnown, DeliveriesLogged, NothingDelivered, Executes, Logged, TransferLogged,
              Trip, Setup
<1>2. CASE Next /\ Dump(NewEvents)
  <2>1. ASSUME NEW s \in moving, Arrive(s) PROVE LogInv'
    BY <1>2, <2>1, StayKeepsLog DEF Arrive, graphVars, simVars, procVars, SimulatorInv
  <2>2. CASE Ended
    BY <1>2, <2>2, StayKeepsLog DEF Ended, vars, graphVars, simVars, procVars, SimulatorInv
  <2> QED BY <1>2, <2>1, <2>2, LogMainStep, LogComputeStep, LogMailerStep DEF Next
<1> QED BY <1>1, <1>2 DEF LogNext

LEMMA LogInvariant == LogSpec => []LogInv
<1>1. LogSpec => []SimulatorInv
  BY LogSpecRuns, SimulatorInvariant, PTL
<1> QED
  BY <1>1, LogInvInit, LogInvNext, PTL DEF LogSpec

(***************************************************************************)
(* What the parser takes for the busy machines is right as long as every   *)
(* task was started from its own machine: one mark per machine is enough.  *)
(***************************************************************************)
THEOREM LogExecutingIfStartedAtHome == LogSpec => []ExecutingIfStartedAtHome
<1>1. LogInv => ExecutingIfStartedAtHome
  <2> SUFFICES ASSUME LogInv, atHome PROVE executing = {hostOf[t] : t \in {u \in Tasks : Running(u)}}
    BY DEF ExecutingIfStartedAtHome
  <2>1. \A t \in Tasks : Running(t) <=> pc[Compute(t)] = "exec"
    BY DEF LogInv, StartsLogged, EndsLogged, Running
  <2>2. {u \in Tasks : Running(u)} = Executes
    BY <2>1 DEF Executes
  <2> QED BY <2>2 DEF LogInv, ExecutingKnown
<1> QED BY <1>1, LogInvariant, PTL

(***************************************************************************)
(* The log of a well-formed workflow tells a legal run: a task ends after  *)
(* it started, and starts after the authors of its inputs have ended and   *)
(* the transfers of its inputs from other machines have.                   *)
(***************************************************************************)
THEOREM LogIsLegal == WellFormedWorkflow => (LogSpec => []LogTellsALegalRun)
<1> SUFFICES ASSUME WellFormedWorkflow PROVE LogSpec => []LogTellsALegalRun
  OBVIOUS
<1>1. SimulatorInv /\ GraphInv /\ LogInv => LogTellsALegalRun
  <2> SUFFICES ASSUME SimulatorInv, GraphInv, LogInv, NEW t \in Tasks
               PROVE  /\ Logged("task_finished", t) => Logged("task_started", t)
                      /\ Logged("task_started", t) => \A i \in DependencyIdx[t] :
                            /\ Logged("task_finished", Author[Inputs[t][i]])
                            /\ hostOf[Author[Inputs[t][i]]] # hostOf[t] =>
                                  TransferLogged(Trip(Inputs[t][i], t))
    BY DEF LogTellsALegalRun, Trip
  <2>1. Logged("task_finished", t) => Logged("task_started", t)
    BY DEF LogInv, StartsLogged, EndsLogged
  <2>2. ASSUME Logged("task_started", t), NEW i \in DependencyIdx[t]
        PROVE  /\ Logged("task_finished", Author[Inputs[t][i]])
               /\ hostOf[Author[Inputs[t][i]]] # hostOf[t] => TransferLogged(Trip(Inputs[t][i], t))
    <3>1. taskState[t] \in {"RUNNING", "DONE"}
      BY <2>2 DEF LogInv, StartsLogged, SimulatorInv, MachinesInv, ActorOfRunning
    <3>2. /\ taskState[Author[Inputs[t][i]]] = "DONE" /\ <<Inputs[t][i], t>> \in delivered
          /\ Author[Inputs[t][i]] \in Tasks /\ Inputs[t][i] \in Files
      BY <2>2, <3>1, DependencyFacts DEF GraphInv, StartedOnlyWhenFed
    <3>3. pc[Compute(Author[Inputs[t][i]])] \notin {"none", "exec"}
      BY <3>2 DEF SimulatorInv, EndInv, DoneActed, MachinesInv, ActorOfRunning
    <3> QED BY <3>2, <3>3 DEF LogInv, EndsLogged, DeliveriesLogged
  <2> QED BY <2>1, <2>2
<1>2. LogSpec => []SimulatorInv /\ []GraphInv
  BY LogSpecRuns, SimulatorInvariant, SimulatorKeepsGraph, PTL
<1> QED BY <1>1, <1>2, LogInvariant, PTL
=============================================================================
