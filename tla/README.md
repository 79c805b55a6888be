# A TLA+ development of dynamic-workflow

The program simulates the execution of a scientific workflow on cloud machines. A scheduler buys virtual
machines and fills a queue of tasks for each; the simulator then runs the tasks, one at a time on each machine,
and moves the files between machines, all on top of SimGrid. All paths below are relative to the repository
(`src/...`).

## 1. Inventory

### Components, their state and how they meet

| component | code | state it keeps | operations |
|---|---|---|---|
| simulator | `prototypes/cloud_simulator.cpp` | `Assignments` (a `Schedule`), `Actors`, `Transfers`, a mutex | `Run`, `DoMainLoop`, `CheckReadyJobs`, `CheckReadyJobOnVM`, `CheckReadyFiles`, `DoRefreshAfterTask`, `DoRefreshAfterTransfer`, `RegisterVirtualMachine`, `AssignTask`, `ResetSchedule` (`CancelTask` is an empty stub) |
| platform | `platform/*.cpp` | hosts, machines, free resources, mailers, the SimGrid mailboxes `coordinate_i`, `transfer_i` | `CreateVM`, `CheckTask`, `AssignTask`, `FinishTask`, `StartTransfer`, `DoExecute`, `DoTransfer`, the destructor |
| workflow graph | `workflow/graph.cpp`, `workflow/task.{h,cpp}`, `TaskSpec` of `spec.h` and `vm_list.cpp` | per task: requirements, state, dependencies, successors, two counters; the deadline | the constructor, `BuildDependencies`, `IsReady`, `StartExecuting`, `FinishTask`, `FinishTransfer`, `MakeTasksOrder` |
| file manager | `files/manager.cpp`, `files/description.h` | per file: id, author, receivers, state; tables by name and by id; `ReadyFiles`, `OutputProduced`, `TaskToHost` | `TryAddFile`, `AssignTask`, `FinishTask`, `StartTransfer`, `IsFinished`, an iterator |
| schedule | `schedule/*.cpp` | a queue of tasks per machine, machine of each task | `AddItem`, `GetItem`, `PopItem`, `HasItem` |
| schedulers | `schedulers/{baseline,mao,genetic}_scheduler.cpp` | local to `PrepareForRun` | one function from workflow and machine types to actions; the event callbacks do nothing |
| event log | `events/event.h`, `prototypes/simulator.h`, `common/parse_log.cpp` | the log and its mutex; the parser's totals and marks per machine | `GenerateEvent`, `Dump`, `ParseLogFile` |
| platform generator | `platform_generator.cpp`, `tools/plat_gen.py` | the platform file | `GeneratePlatform`: as many hosts as tasks, each with the cores of the largest type, a speed for each pstate |
| set-up | `main.cpp`, `argument_parser.cpp`, `scheduler_factory.cpp`, `vm_list.cpp` | the list of machine types | options, machine list, choice of the scheduler |
| left over | `tasks_graph.cpp`, `task.cpp`, `schedulers/{naive_scheduler,scheduler_base}.cpp` | | the design before `prototypes/`; the program does not reach it |

Three kinds of SimGrid actors share the simulator object: the actor `scheduler` (the main loop), one *compute*
actor per started task, one *mailer* per machine.

* `Run` performs the scheduler's actions: `BuyVM` creates a machine and its mailer, `ResetSchedule` assigns the
  queued tasks. Then the main loop starts whatever is ready and joins actors until the graph is finished.
* A compute actor sleeps for the duration of its task, then calls `DoRefreshAfterTask`: graph and platform are
  told, the queue is popped, **all** queues are checked for a task to start, and under a mutex every ready file is
  sent to every receiver.
* `StartTransfer` puts a pointer in the mailboxes `coordinate_i` of the sender and of the receiver and reads the
  answers *from the same mailboxes*. The receiver's mailer posts a read on `transfer_i`, the sender's offers the data.
* When the data arrive, **both** mailers call `DoRefreshAfterTransfer`; the second call counts the input and checks
  the receiver's queue.

Before all this `main` loads the workflow, generates a platform for it unless one is given, and lets the scheduler plan.
What a scheduler plans by is the order of `MakeTasksOrder`; what its plan is held to is the platform. While the run goes
on, its actors dump events to a log, which is parsed when the run is over.

### What is hard

No two actors run at once, but each SimGrid call may hand over to another. State read before such a call is used
after it: the iterator over `ReadyFiles`, the head of a queue, the free resources of a machine. Reports come twice
and in any order. Requests, answers and the terminating message share one mailbox. Nobody looks again: a task starts
only because whoever did the last thing it waited for checks its queue, so a check in the wrong order is a run that
never ends. Events are dumped by whichever actor comes by, and the log is read
afterwards as if they told what happened when and where.

Outside the run the code is sequential. What is hard there is arithmetic and bookkeeping: quotients of differences, counters
compared for equality, lists consumed while they are walked, assertions that test something else than they say.

`PROJECT.json` lists each hazard with its line and the property that watches it.

### What makes each part correct

* graph: the counters a start is decided by are exact; a task starts once, fed; file states and the ready set agree.
* platform: free resources are what the running tasks leave; nothing is refused at run time.
* protocol: no message is read by the wrong party; each transfer is reported once by each end; only shutdown ends a
  mailer, and then nothing is under way.
* simulator: the running task is the head of its queue; no start and no file is left behind; the run ends.
* loader: the tables agree with each other and with the document, ids resolve, the order of a workflow without cycles is
  topological; a cycle is refused where the code does refuse it, and the one scheduler that plans it is named.
* event log: it tells a legal run.
* platform generator: the plan finds room on it, and its machines run at the speeds they were planned with.
* schedulers: each returns a schedule that plans every task once, in an order the queues can be run in, on machines
  that can execute them.

## 2. The modules

| module | models | kind |
|---|---|---|
| `WorkflowRun` | the promise: a task starts once all its files were delivered, a file is delivered once, after its author ended | abstract specification |
| `WorkflowGraph` | `Graph`, `Task`, `Manager`; every state-changing operation is an action | component |
| `CloudPlatform` | hosts, machines, free resources: `CreateVM`, `CheckTask`, `AssignTask`, `FinishTask` | operators for the composition |
| `CloudSimulator` | `CloudSimulator`, `DoExecute`, `DoTransfer`, `StartTransfer`, composed with the two above | composition |
| `EventLog` | events, who dumps them and where, and what `ParseLogFile` makes of them; extends `CloudSimulator` | composition |
| `WorkflowLoader` | the constructor of `Graph`, `TryAddFile`, `TaskSpec`, `BuildDependencies`; extends `TasksOrder`, whose order it ends with | component |
| `TasksOrder` | `MakeTasksOrder` and `MakeOrderDFS`: the order every scheduler plans by | component |
| `SchedulerView` | what a scheduler is shown: tasks, machine types, the order, the deadline | constants and their assumption |
| `GeneticScheduler` | the search of the genetic scheduler and the plan made from its result | component |
| `AssignmentCost` | cost and makespan of an assignment, and the times of the plan made from it | pure computation over `GeneticScheduler` |
| `BaselineScheduler` | list scheduling and the loop of upgrades | component |
| `MaoScheduler` | the first machines, the speed-up loop, the critical paths | component |
| `Planning` | `main` from the platform generator over either of the last two schedulers to the assigned tasks | composition |
| `WorkflowGraph_proofs` | theorems about the module of that name | proofs |
| `WorkflowLoader_proofs` | theorems about `TasksOrder` and `WorkflowLoader` | proofs |
| `GeneticScheduler_proofs` | theorems about `GeneticScheduler` and, of the plan made from its result, about `AssignmentCost` | proofs |
| `CloudSimulator_proofs` | theorems about queues, machines and the hand-over of files in `CloudSimulator` | proofs |
| `TransferProtocol_proofs` | theorems about mailboxes, transfers and the end of a run; the simulator implements the graph and the run of a workflow | proofs |
| `EventLog_proofs` | theorems about the log | proofs |
| `BaselineScheduler_proofs` | lemmas on least and greatest elements that the proofs about schedulers share; the times that queues give; theorems about the baseline | proofs |
| `Planning_proofs` | theorems about `MaoScheduler` and `Planning` | proofs |
| `MC*` | instances of the module they extend | model checking |

How the modules meet. `WorkflowLoader` builds the lists of successors `TasksOrder` walks. `TasksOrder` shows of the order
what `ViewAssumption` (of `SchedulerView`) assumes of `Order`. A scheduler turns the order into a plan; `Planning` takes
that plan to the generated platform, and finds a host for each machine and a machine for each task. The `Plans` of
`CloudSimulator` are queues that hold each task once and agree with the workflow: for the genetic scheduler this is its
property `PlanCanBeRun`; the baseline appends to its queues in the given order, and `PlacedAsCalculated` and `MachinesFit`
say that they are queues the machines can work off; Mao has one task in each queue. `EventLog` watches `CloudSimulator`.

### How state and actions correspond to the code

`WorkflowGraph` keeps the names of the code: `taskState` is `Task::State`, `finishedDeps` and `finishedTransfers` are
the counters, `fileState` and `readyFiles` the manager's. `delivered` is the only history variable. A graph call
contains no yielding SimGrid call, so each is one step of its caller. `BuildDependencies` is the group of constant
operators `Receivers`, `Author`, `DependencyIdx`, `SuccessorIdx`. Files are numbered in the order of their addresses,
because `ReadyFiles` is a set of pointers.

`CloudSimulator` gives every actor a `pc`. A step is what an actor does from one yielding call to the next, or
less; less only adds interleavings. The choices that need a reason:

* `TimePasses`: simulated time advances only when no actor is runnable, so no computation or transfer can end while
  some actor is inside a check of ready jobs. Zero-size messages are not subject to it: a message or an answer may be
  taken at any moment.
* The mutex of `CheckReadyFiles` is a variable; the log mutex is only a place to yield.
* A mailer polls `test_any`, posts its read, and waits for either; the model merges this into the label `wait`, where a
  message and a completed transfer may be handled in any order.
* A `put` that is matched by a posted read is taken, for the model, when the mailer handles it. Nothing else can
  put to that mailbox in between, which is what `NoCrossTalk` shows.
* The main loop's sleep, its test of `IsFinished` and the end of a round of joins are one step: nothing yields
  between the test and the end of the last join.
* `GetItem` on an empty queue (line 96 of `cloud_simulator.cpp`) would be undefined; the model pops nothing there, and
  `RunningIsHead` shows that it is never reached with an empty queue.
* Joining a null actor is a crash: the model has no step, and `ResourcesAccounted` shows that no null actor is stored.
* The scheduler is the initial choice of `Plans`. Its event callbacks are no-ops (`StaticScheduler` returns no actions).

`EventLog` adds to each step of `CloudSimulator` the events it dumps. A dump waits for `logMutex`, which serves its callers
in the order they came in: the order of the log is the order of the calls, so an event is written in the step that calls.
It carries the host of the actor that dumps it, as `simgrid::s4u::this_actor::get_host` gives it; the main loop's actor is
on the first host by name, and machines' names come before hosts'. `LogTellsALegalRun` has the guarantees a reader of the
log may rely on, and is not all one would wish for:

* the start of a transfer is logged when `StartTransfer` has returned, perhaps after its end;
* a transfer between tasks of one machine has a start and no end;
* `task_started` is dumped by whoever found the task ready, often an actor of another machine, and `task_finished` by an
  actor of the task's own, so the executing times the parser sums up for each machine may be of other machines' tasks
  (`ExecutingIfStartedAtHome` is what holds). `tests/simple.cpp:41` compares such sums, on one machine.

`WorkflowLoader` makes one step of each description of a file and of each pair of a task and an input in `BuildDependencies`;
all tasks are read in one step, which decides nothing. `phase` says which loop of the constructor of `Graph`
(`workflow/graph.cpp`) comes next, `node` and `at` where in it. A document is what yaml-cpp
hands out; a number that is missing or cannot be parsed is a value of its own. Names stay names, and ids are handed out by
the counter of `FileDescription`, which runs on also when the name was there. The assertion after a size that cannot be
read (line 52 of `vm_list.cpp`) is made on a string literal and cannot fail: the size keeps what memory held, here any value of
`Garbage`. `TasksOrder` follows as it is.

`TasksOrder` keeps the recursion of `MakeOrderDFS` as a stack of tasks. A frame has no position in its list of
successors: used tasks stay used, so the next call is always for the first successor that is not used. `succ` is
chosen in `Init`, so one run goes through all workflows of a size. `NotAllIncluded` is the state in which the assertion
before the reversal (line 98 of `graph.cpp`) has failed: the program has ended and returns no order.

What a scheduler demands of the order it works off is in `WorkflowLoader` (`AcceptsOrder`): that the end times of the
dependencies of the next task are not -1. The vectors of Mao and of the genetic scheduler begin with -1, those of the
baseline with 0 (`InitialEndTime`), so its test of the same words passes whatever the order.

`GeneticScheduler` makes one step of each draw of a random number, which is a free choice. What is not literal:

* `GetNewGeneration` puts the best assignments in their places before the others are changed; the code does it at
  the end, from the old generation, which is constant there.
* The probabilities and the numbers of pairs of `DoModifyGeneration` are the constant sequence `Modifications`: first
  crossovers, then mutations, as many as the instance says. The parents of a crossover may be the same member, as they
  may in the code.
* A mutation of the scheduling string draws from all places the code draws from and no more: through the decrement on
  line 391 of `genetic_scheduler.cpp` a task never gets to the place just before its first successor, or to the end of the
  string, unless it is there already.
* `CostOf` and `MakespanOf` are constant operators, so the proofs hold for any way of valuing an assignment. The
  instances set them to `ComputedCost` and `ComputedMakespan` of `AssignmentCost`, which are the code's loop.
* A score is a quotient and is kept as a pair; scores are compared by cross multiplication.
* `cheapest` is the only history variable.
* `PrepareForRun` numbers the machines in use by their order (`CountBelow`), and the queue of a machine is what the string has
  at the places of its tasks (`PlacesOn`, `Nth`).
* `KeepVMStandbyString` decides what an assignment is valued at, and is not part of the plan handed to the simulator.
* `GetRandomParents` is not called, `DoRefineAssignments` does nothing: both are left out. A draw of `RAND_MAX` on line
  452, which makes the index one past the end, is left out too.

`BaselineScheduler` makes one step of each task placed and of each pass through the loop of upgrades, with the
recalculation that follows. An assertion that fails is an end phase named after its text. The cost is only printed and
left out.

`MaoScheduler` makes one step of each choice of a machine and of each task that joins a critical path. Equal end times may be
sorted any way. The gain divided by the price difference is compared as doubles compare: a gain for nothing is infinite, no
gain for nothing is not a number and above nothing. The values of the deadlines and the load vectors, from which nothing is
decided, are left out; kept is which tasks have a deadline. A list of parents is a set: the code has a dependency in it once
for each file the two tasks share. A further entry is met when both tasks have a deadline, and gives an empty path.

`Planning` runs the platform generator, one of the two schedulers above, the purchases and `ResetSchedule`. A host has the
cores of the largest type; the last by name is the master of the platform tool, with one core. Speeds are cut to whole units
of the file (`Giga` flops), are listed by pstate and picked by pstate. `GetEmptyHost` takes the first host that fits.

Times are integers in all schedulers. The instances choose sizes that every speed divides, so that the division of the
code is exact.

An operator named `X_Y` stands beside the operator `X` and is a bug `X` could have; no behaviour of the
specifications uses it. It serves to show that the property it is paired with in `PROJECT.json` would notice.

## 3. The runs

| run | instance | bounds | question and result |
|---|---|---|---|
| `diamond` | `MCCloudSimulator` | 4 tasks, 5 files, 2 machines, all 32 placements in 2 topological orders | the whole simulator and its event log: nine invariants and the refinement of `GraphSpec` hold; no deadlock |
| `gather` | `MCGather` | 3 tasks, 5 files: two files between one pair, an external input read twice, an output nobody reads; 3 machines of different sizes on 3 hosts, all 27 placements | two senders to one receiver, mailers that send and receive at once: `NoCrossTalk`, `ReportedByBothEnds` hold; the graph under these calls: `CountersExact`, `StartedOnlyWhenFed`, `ReadyFilesMatchStates` hold, and the run implements `WorkflowRun` (`RunsTheWorkflow`); every run ends (`RunEnds`) |
| `order` | `MCTasksOrder` | 4 tasks: all 4096 relations between them, all documents of three tasks with up to two inputs and one output from two files, 12 documents in error | from the document to the order: `IdsStayValid`, `DependenciesMirrored`, `FedIffReadOnce`; the order: `EveryTaskOnce`, and without cycles `DependenciesFirst`; with cycles, which scheduler accepts it: `CyclesCaught` |
| `genetic` | `MCGenetic` | 2 tasks, 2 types (4 machines), generation of 2, 1 best, random first assignments, 3 steps of all crossovers and mutations, deadline within the range of makespans | `CheapestKept`, `CheapestReturned`, `CountsSettledStepsOnly`, `PlanCanBeRun`, `PlanWorthItsScore` hold |
| `genetic_order` | `MCGeneticOrder` | 4 tasks with dependencies, 5 orders, 1 type, generation of 3, 1 step of all kinds after 3 initial mutations each | `GeneticTypeOK`, `AssignmentsRunnable` hold |
| `planning` | `MCPlanning` | 10 tasks, 4 types of which some have too little memory for some tasks, a deadline both schedulers must work for, four lists of pstates, one in error by a repetition and one by its range | every sequence of random upgrades and every sorting of equal times: the baseline (`MachinesFit`, `PlacedAsCalculated`, `UpgradesNeverHurt`), Mao (`NoCheaperFaster`, `DeadlinesOnce`, `DeadlinesForConnected`, `MaoEnds`) and what follows them (`PlanInTime`, `AllTasksAssigned`, `RunsAtPlannedSpeed`) |
| `baseline_upgrade` | `MCBaseline` | the tasks of `planning`, both fast types with less memory | `UpgradableHasNewType` is violated |
| `baseline_empty_task` | `MCBaseline` | the same, the first task of size 0, no lag | `FailsForBadOrderOnly` is violated |
| `mao_speedup` | `MCMao` | 2 independent tasks, 2 types of one price | `GivesUpAtFullSpeed` is violated |
| `mao_deadlines` | `MCMao` | 3 tasks, one depends on another, the third has no neighbour; a deadline that the first machines meet | `AllDeadlinesAssigned` is violated |
| `shortage_terminator` | `MCShortage` | 3 tasks, 2 machines bought, 1 host | `KilledOnlyAtShutdown` is violated |
| `shortage_loop` | `MCShortage` | the same, both readers of the file dropped | `LoopEndsWithActors` is violated |

The state spaces are finite without any constraint, so there is no bound beside the instances. The diamond is the
smallest workflow with a task released by two transfers and a file with two receivers; the gather the smallest with two
senders to one reader. Two machines are needed for a remote transfer, three for two offers in one mailbox.
The runs call the graph in the orders the simulator does. That its properties hold in every order its owner may call it in
is said by the theorems about `GraphSpec`, and that the simulator stays within these orders by `UsesGraph`.

For the schedulers: two tasks and two types, one of which is too small for one task, are enough for a crossover of
machines to be refused, for plans in time and late, and for machines to be renumbered with a gap. Four tasks with a
chain and a join are the smallest workflow in which a task has places in front of and behind it that it must not take.
The proofs of section 4 cover the rest. With three tasks and two files there are tasks that read a file twice, files with two
writers, and files described twice; the relations between four tasks have cycles that can and that cannot be reached
from a task without dependencies. The upgrades of the baseline matter when the index of a machine among the
upgradable ones differs from its own, which is so as soon as one machine has the greatest speed; machines of
different needs give every such mix. Mao needs a task that several others
read for a critical path that ends at a task with a deadline, and a task that reads several for one that begins there.

**Fairness.** Weak fairness for each actor, because SimGrid runs every runnable actor before it advances time, and
for `Arrive`, because computations and transfers have finite durations. `RunEnds` rests on both. `PlanSpec`
has weak fairness of the generator and of Mao's steps, which a single-threaded program that is not stopped performs;
`MaoEnds` rests on it. The upgrades of the baseline have none, since they need not end. Everything else is checked for
safety, without fairness. The mutex needs no strong fairness: every
compute actor asks for it once.

### What the two shortage runs show

A platform file given on the command line may have fewer hosts than the schedule buys machines. The purchase fails with
a warning and `ResetSchedule` drops the tasks of that machine.

* `GetHostByTask` gives -1 for a dropped task. A file with both a placed and a dropped reader is sent to machine -1,
  and the sender's mailer takes that request for the terminating message (`cloud_platform.cpp:54`). It ends without
  answering and the run hangs.
* If no reader was placed, all actors finish. The assertion "All actors finished their work, but not all tasks done"
  (`cloud_simulator.cpp:113`) is behind a loop whose condition is its own negation, so it cannot fail: the loop polls
  for ever.

### What the baseline runs show

* Line 144 of `baseline_scheduler.cpp` asks whether the tasks of a machine fit the type it *has*, for each faster type,
  instead of whether they fit that type. Every machine below the greatest speed is counted as upgradable, and the
  assertion "can't upgrade VM type!" (line 173) fails when each faster type has less memory than the tasks need.
* The assertion "task order is inconsistent!" (line 127) demands that the end times of a machine grow strictly from 0.
  It fails for a consistent order whose first task has size 0 on a machine without lag; test data has tasks of `0GF`.

Lines 161, 168 and 174 use a random index into `upgradableVMs` as one into `availableVMs`: the speed is compared with one
machine and the new type given to another. `MachinesFit` and `UpgradesNeverHurt` show that in the instance no harm comes
of it. They hold because the new type is the fastest that fits the machine that is changed. What may happen is that a
machine is given the type it already has, over and over. Since the result of `UpgradeRandomVM` is ignored as well, the
loop need not end when the deadline is out of reach. No text of the repository says that it does, so this is an
observation, without a run.

### What the Mao runs show

* Line 150 of `mao_scheduler.cpp` divides a gain by a price difference, of which the comment on line 149 asks whether it may
  be below or equal to 0. Below it is never (`NoCheaperFaster`, proved). Equal it is for two types of one price. If there are
  two parallel paths, speeding up one of them gains nothing, the quotient is 0/0 and never above the best so far, and "Can't
  speedup current plan!" (line 162) fails although every task could be sped up for nothing (`mao_speedup`).
* The assertion "not all tasks have deadlines assigned!" (line 279) compares the length of `deadlines` with the number of
  tasks. The vector has that length from the start (line 213), so the assertion cannot fail; a task without dependencies and
  dependents is on no path and keeps the interval (-1, -1) (`mao_deadlines`), as the only task of
  `resources/test_data/no_dependencies.yml` does. That these are the only tasks left out is `DeadlinesForConnected`: no task
  with a neighbour is lost between the paths.

### What becomes of a cyclic workflow

`CyclesCaught` says it, for every workflow. Line 98 of `graph.cpp` refuses an order only if a task cannot be reached from
one without dependencies; 0 → 1 → 2 → 1 passes.

* Mao (lines 115, 176 of `mao_scheduler.cpp`) and the genetic scheduler (line 217 of `genetic_scheduler.cpp`) find a dependency
  whose end is not known, and refuse it.
* The baseline has the assertion "Can't process next task, task order is inconsistent!" three times (lines 32, 113 and 118 of
  `baseline_scheduler.cpp`), and the comment "FIXME if MakeTasksOrder is inconsistent" (line 105). They compare with -1, but
  the vectors begin with 0 (lines 19 and 101), so they never fail. The workflow is planned and handed over; task 1 needs a
  file of task 2 and task 2 one of task 1, so the run waits for ever.

The run `order` checks this as what the code does. What the assertions say, that an order against the dependencies is not
planned, is thus false of the baseline and true of the other two. The plans the simulator is checked with agree with the
workflow, and `Planning` begins with a topological `Order`: a cyclic workflow is outside both.

### Observations

These are stated by a property of a passing run, as what the code does, and have no run of their own:

* `TryAddFile` warns "Previous file will be deleted!" (`files/manager.cpp:20`) of a file described twice. It is not: the first
  description stays, and its id (`IdsStayValid`; a mutant does what the warning says, and breaks it).
* A task that lists a file of another task twice never starts: the file is delivered once (`FedIffReadOnce`).

Two observations on the genetic scheduler. A plan that ends exactly at the deadline is in time for the fitness function
(line 242) and late for `GetCheapestAssignment` (line 475): a search whose best plan is such a one never ends early
(`CountsSettledStepsOnly` allows for it). A price or a deadline of 0 would make scores that are not numbers;
`GeneticAssumption` excludes both.

## 4. What is proved

With TLAPS, for every value of the constants that satisfies the named assumptions (`GraphAssumption`, `PlatformAssumption`,
`SimulatorAssumption`: types, finiteness, and that a schedule plans a task once; `OrderAssumption`: types, acyclic `Graphs`;
`LoaderAssumption`: documents of the right shape, some value for memory nobody wrote; `ViewAssumption`: types, a topological
`Order`, a type for each task; `GeneticAssumption`: types, at least one best assignment, positive costs and deadline;
`PlanningAssumption`: types, a positive unit).

| theorem | states |
|---|---|
| `GraphTypeCorrect` | `GraphSpec => []GraphTypeOK` |
| `GraphCountersExact`, `GraphStartedOnlyWhenFed`, `GraphReadyFilesMatchStates` | for a well-formed workflow, the three invariants |
| `GraphRunsTheWorkflow` | for a well-formed workflow, `GraphSpec` implements `WorkflowRun` |
| `SimulatorTypeCorrect` | `Spec => []TypeOK` for the whole simulator |
| `SimulatorRunningIsHead`, `SimulatorResourcesAccounted` | a machine runs the head of its queue and nothing else, and the account of its resources is exact |
| `SimulatorNoMissedStart`, `SimulatorNoFileLeftBehind` | what can start is looked at, what can be sent is found, for every workflow, platform and schedule, well formed or not |
| `SimulatorInvariant` | `Spec => []SimulatorInv`: the inductive invariant of the whole run |
| `SimulatorNoCrossTalk` | no mailer reads what was meant for another party |
| `SimulatorUsesGraph` | `Spec` implements `GraphSpec`: the actors call the graph only as it allows |
| `SimulatorCountersExact`, `SimulatorStartedOnlyWhenFed`, `SimulatorReadyFilesMatchStates`, `SimulatorRunsTheWorkflow` | for a well-formed workflow, what the graph promises on its own holds of the run, and the run implements `WorkflowRun` |
| `SimulatorShutdownQuiescent` | for a well-formed workflow, nothing is under way when the terminators are sent |
| `SimulatorKilledOnlyAtShutdown`, `SimulatorReportedByBothEnds` | if every task is placed when the main loop begins, only the terminator ends a mailer, and each transfer is reported once by each end |
| `LogExecutingIfStartedAtHome`, `LogIsLegal` | the two properties of the log; the second for a well-formed workflow |
| `OrderIsComplete`, `OrderIsTopological` | for every workflow, an order that is returned has no task twice, and without cycles it is complete (`EveryTaskOnce`) and topological (`DependenciesFirst`) |
| `LoaderOrder` | the same of the order a loaded document ends with |
| `LoaderIdsStayValid`, `LoaderDependenciesMirrored` | ids resolve to their descriptions; dependencies and successors are each other's mirror images |
| `LoaderFedIffReadOnce` | for every document: the deliveries to a task make up the number of inputs it waits for if and only if it lists none of the files delivered twice |
| `LoaderCyclesCaught` | for every document: Mao and the genetic scheduler accept the order if and only if the workflow has no cycle, the baseline if and only if every task can be reached from one without dependencies |
| `GeneticTypeCorrect`, `GeneticAssignmentsRunnable` | every string stays a permutation in topological order, every machine suits its task |
| `GeneticCheapestKept`, `GeneticCheapestReturned` | the cheapest assignment in time is never lost, and it is what the search returns |
| `GeneticCountsSettled` | only steps at the least cost met are counted |
| `BaselineMachinesFit`, `BaselinePlansAllTasks` | every machine suits its queue, a finished plan has every task in a queue |
| `GeneticPlanCanBeRun` | the plan returned has every task once, in one queue, on a machine it fits, and the queues agree with the workflow |
| `GeneticPlanWorthItsScore` | if assignments are valued as the code values them, the queues of the plan, run in their order, end at the makespan the winner was scored with |
| `BaselineUpgradesNeverHurt` | no upgrade makes a machine slower or the makespan longer |
| `BaselinePlacedAsCalculated` | the makespan found while tasks are placed is the one calculated from the queues |
| `MaoNoCheaperFaster`, `MaoDeadlinesOnce`, `MaoDeadlinesForConnected`, `MaoMachinesFit` | the three properties of Mao, and that each task's machine can run it |
| `PlanAssignsAllTasks`, `PlanMachinesFit`, `PlanRunsAtPlannedSpeed`, `PlanKeepsMaosPromises` | on the generated platform, with either scheduler, every task is assigned and every machine runs as planned |
| `PlanMeetsDeadline`, `PlanKeepsBaselinesPromises` | a plan that is handed over ends within the deadline, with either scheduler; what holds of the baseline on its own holds in `Planning` |

*The graph.* `GraphInv` is the inductive invariant: the types, exact counters, fed starts, agreement of the ready set,
and `DeliveredByAuthor` (what was delivered came from a finished author, to a receiver). The counters alone do not
suffice: that the equality test of `IsReady` implies delivery needs that the counted inputs are a subset of the
positions of the inputs with the same cardinality. `WellFormedWorkflow` is needed because a file with two producers
has one author only, and an input listed twice is delivered once. The refinement follows from the same invariant: each
action is a `Start`, `Finish` or `Deliver`, or a stutter.

*The simulator.* `TypeOK` alone is not inductive: `CreateActor` needs that the creating process has a task in `job`
(`JobIsTask`), and `StartTransfer` that a file on its way through the iterator has an author (`FilesAuthored`).
`RunningIsHead` and `ResourcesAccounted` are inductive together, within `MachinesInv`: nothing runs before the main loop
(`QuietSetup`), for there machines are still given out; a task is not both in the copy of the schedule and in a queue
(`AssignedOnce`), or the second assignment would move a queued task away; a queued task is placed where its queue is, on a
machine large enough (`QueuedPlaced`); and an actor exists only for a task that is `RUNNING`, created by one process
standing at that task's machine (`ActorOfRunning`, `CreatorOfRunning`). From these, nothing computes on a machine whose
head can start, so the check before the yields of `PlatformAssignTask` finds the whole machine free, and still does when
the resources are taken after them (`HeadAlone`, `CreatedIsHead`).
`NoMissedStart` needs in addition that every transfer names the machine of its task (`AddressInv`, through mailboxes, offers
and data on its way), because a mailer looks only at the queue of the machine named. `NoFileLeftBehind` is inductive within
`FilesInv`: the mutex is held by exactly the actor inside (`MutexHeld`), so the cursor is that actor's; the actor of an ended
task always goes on to the files (`FilesComeNext`); and a file handed out is not ready again (`HandedOutOnce`), so what the
iterator has passed was released by someone who has still to come.

*The transfer protocol.* `SimulatorInv` is the conjunction of the invariants above and of three more.
`EndInv`: the main loop joins every actor there is (`ActorsListed`), so when it leaves, all are dead; it is needed because a
mailer that is shut down while somebody waits for it would break everything else. `MailInv`: the holder of the mutex has asked
at most two mailers, and a mailbox it has not asked is empty but for the terminator; one it has asked holds the request, or the
answer, or its mailer is about to answer. That nobody else can have put anything there is why `NoCrossTalk` holds. `TransferInv`
follows one transfer, named by file and receiver, from the request to the second report: it is in one place at a time, between the
mailboxes, moving, or arrived with one or two reports to come. What is new is new because the file was not handed out before
(`HandedOutOnce`), and a mailer matches the two ends of the same transfer because there is never a second one waiting
(`Unmatched`). A delivery of the run is therefore a delivery the graph allows, which is `SimulatorUsesGraph`. With it the
theorems about the graph are carried over without a new proof.

*The end of a run.* `JobsOpen` says that a mailer that looks for ready jobs does so while some task is not done: the receiver
of the last transfer, which waits for it (`ReceiverIsOpen`). So when all tasks are done no mailer is in a check of ready
jobs, and with `TransferInv` no transfer travels (`AllDoneNothingTravels`).

*Hypotheses.* `WellFormedWorkflow` is on constants: no file is listed twice or written twice, for otherwise the counters do count
something else and a task is started although a file is under way, or never (see the observations). `PlacedBySetup` is on a run:
when the main loop begins, every task is on a machine. It is what `PlanAssignsAllTasks` proves of the platform the program
generates, and the run `shortage_terminator` shows that `KilledOnlyAtShutdown` fails without it; `SimulatorReportedByBothEnds`
needs it too, and every other theorem about the simulator does without it. `GeneticPlanWorthItsScore` has a hypothesis on the
constant `MakespanOf`: that it is the code's valuation, `ComputedMakespan`, on all assignments; the run `genetic` sets it so.

*The log.* `LogInv` ties the log to the state: a task is in it as started exactly when its actor exists, as ended when the
actor has computed (`StartsLogged`, `EndsLogged`), a delivery has its end in the log unless it was local
(`DeliveriesLogged`), and the set the parser keeps is the one of the computing tasks started at home (`ExecutingKnown`).
Legality of the next line then is a fact about the state in which it is written, and follows from `StartedOnlyWhenFed`.

*The loader.* `LoaderInv` has five parts beside the types. `WalkInv`: before the document is read the walk has not begun,
after that `OrderInv` (below) holds, also of cyclic workflows. `RegistryOK`: the table by name and the table by id are
inverse, ids are below the counter, and every id a task or the workflow holds was handed out. That needs the counter: a name
described again uses up an id and keeps the first. `TablesInv` counts, in terms of the entries of the lists of inputs that
`BuildDependencies` has passed, how often a task is among the successors of another and the other among its dependencies:
entry by entry the same number. `FilesInv`: the receivers of a file are the tasks with an entry for it among those passed,
and it has an author as soon as it has a receiver and a task that writes it. `CountsInv`: a task has as many dependencies as
entries for files that some task writes. `FedIffReadOnce` is then about a map, from these entries to deliveries, which is
onto: it is one to one exactly if both are equally many. `CyclesCaught` has two halves. If Mao or the genetic scheduler
accepts the order, the place of a task in it is a rank that rises along successors; if the workflow is acyclic, `LoaderOrder`
says that the order is complete and consistent. The baseline accepts whatever is returned. The used tasks lie in every set
that is closed under successors and has the tasks without dependencies (`UsedReachable`); at the end they are such a set
themselves (`ReturnedComplete`, `RootsTaken`); so the order is complete exactly if all can be reached.

*The order.* `OrderInv` holds, until the order is reversed, that the used tasks are those in the stack or in the result,
each in one of them once; that the loop has used every task without dependencies it has passed, and a task in the result has
used successors only; and, if the workflow is acyclic, that ranks rise along the stack, and that the successors of a task in
the result are there and before it. A cycle would put a successor into the stack below its task; the ranks of `Acyclic`
exclude it. That the assertion of line 98 does not fail (`NoneLeftOut`): of the tasks not used, one has no dependency among
them (`SourceExists`), and none among the used ones either, since those have all their successors in the result; so it has
no dependencies and the loop has used it.

*The genetic scheduler.* `GeneticInv` is types, `Orderly` (strings agree with the workflow, machines suit), `Phases` (what
each phase has reached), `Kept` (`CheapestKept`, and while a generation is modified, one of the *best* places holds the
cheapest) and `Settled` (the last score and the count). Two arguments carry it. Strings: `BoundsOfMutation` shows that the
scan finds bounds with room between them and that all dependencies are below and all dependents above; `MovedInOrder`
and `CrossedInOrder` that a move within them, and a crossover, keep the order. Scores: `Scores`, `NotBeaten` and `Beats`
show that an assignment in time scores at most 1 and one that is late more than 1, so that no other member beats the
cheapest in time; hence one of the best places has its cost (`BestIsCheapest`). The mutants that scale scores wrongly, or
change the best too, break exactly this. Least elements of sets come from `WFMin` of the library.

*The plan of the genetic scheduler.* `CountBelow` numbers a finite set of naturals from 0 without a gap (`Counting`), so the
machines of the plan are the machines in use, and an entry of a queue is a place of the string (`QueueEntry`, `TaskQueued`).
Two tasks of one queue stand in it as they stand in the string (`QueueInOrder`): the string itself is an order that the
workflow and all queues agree with. The winner is one of the current generation (`BestExists`), and those are `Orderly`. For
the times, the code's pass over the string is compared with what the queues demand of each task: `GoodValues` says of the
values after so many places that each end met is the one its queue and its dependencies demand, that a machine is known by
its last task, and that the last end is the greatest.

*The baseline.* `BaselineInv` is types, `MachinesFit` and `PlacedAreQueued` (the first `next` tasks of the order are each in
a queue). An upgrade keeps the queues and gives a machine a type out of those that fit all tasks of the machine *changed*,
although the speed it looks at may be another's; so the confusion of indices cannot spoil either part. `TimesInv` adds the
times: while tasks are placed, the end of each task placed is the one its queue demands (`TimesAgree`), which a task placed
later does not change, for it is behind the others in its queue and no dependency of theirs; a machine is free from the end
of its last task (`LastEnds`). That no upgrade lengthens a plan is shown along the order: the first task to end later than
before would have a dependency, or a task ahead of it in its queue, that ends later (`UpgradedEndsNoLater`).

*Times.* The times of tasks are recursive functions along the order, in `BaselineScheduler`, `MaoScheduler` and
`AssignmentCost`. The induction theorems of the library cannot be used on them, but a least counterexample can: of the
lengths for which no sequence of values exists take the least, and extend the sequence below it (`StepByStep`,
`ValuesExist`); of the places at which two functions that both satisfy the recursion differ take the least (`EndTimesUnique`,
`PlanTimesAre`).

*Mao.* `MachinesWorth` says that each task's machine can run it and is no dearer than what is faster: the first choice is the
cheapest of all, each later one the cheapest of those faster, and what is faster than the new one was faster than the old.
`ParentsGiven` says that a dependency taken off a list of parents is on the path or has a deadline, and so has the task
whose list it was; `PathFresh` that on a path only the last task may have one. From these it follows that no task is given
two deadlines, and that none with a neighbour is left out when all lists are empty.

*Planning.* `HostsInOrder` is first fit made explicit: machine `i` is on worker `i`. It is inductive because a worker fits
every type (`LargestFitsAll`), the workers come before the master, and there are no more machines than tasks. That every task
is assigned follows with `MachinesHoldTasks`, which is `PlacedAreQueued` and `MachinesWorth` at the end of either scheduler.
`PlanTimes` is `TimesInv` and that a makespan was within the deadline when a scheduler was done with it; Mao's times are
those of queues of one task each (`TaskEndTimesAre`), so one theorem says of both that the plan handed over ends in time. The
speeds need that the pstates are a permutation of the types: they are injective, so the type found by a pstate is the one
that has it.

Only model-checked: the two liveness properties, `RunEnds` and `MaoEnds`, because fairness and ENABLED are out of the prover's
reach. Every invariant and every action property of a passing run, and every refinement, is the conclusion of a theorem.

## 5. The plan

1. *(done)* `WorkflowRun`, `WorkflowGraph`, `CloudPlatform`, `CloudSimulator`, their runs, type correctness, the
   invariants and the refinement of the graph.
2. *(done)* `TasksOrder` over all small workflows, and both its theorems.
3. *(done)* `GeneticScheduler` with `AssignmentCost`, `BaselineScheduler`; the theorems of the genetic search.
4. *(done)* `MaoScheduler` and its theorems.
5. *(done)* `WorkflowLoader`: workflow files that are not well formed; `Planning`: first fit over several sizes; `EventLog`.
6. *(done)* The scheduling invariants of the simulator: `RunningIsHead`, `ResourcesAccounted`, `NoMissedStart`,
   `NoFileLeftBehind`.
7. *(done)* The transfer protocol: `NoCrossTalk`, `UsesGraph` and with it the refinement of `WorkflowRun`, `ReportedByBothEnds`, the
   shut-down; the log.
8. *(done)* Proofs: the times of the baseline and of Mao, the tables of `WorkflowLoader`, the plan of the genetic scheduler.
9. Proofs that would say more: that with a plan of `Planning` the simulator's assumption on `Plans` holds, and what of
   `RunEnds` can be said without fairness (while a run is not over, some actor can move).

## 6. Not modelled

* The reading of YAML, XML, sizes and options: pure input. What a text that cannot be read leads to is modelled.
* A document without one of its required sections, which ends the constructor before it has done anything.
* The list of machine types, but for their comparison: its result is the constant `VMList`.
* A platform given on the command line, in `Planning`; the shortage runs have one that is too small. The network of the platform.
* The genetic scheduler inside `Planning`: its plan is checked by `PlanCanBeRun`, and its search is too large to go on from.
* Times and costs in the log parser and in the simulator: any finite duration is allowed, which covers every machine speed
  and file size. Wording and time stamps of events.
* The iterators of the viewer, which only read.
* The code before `prototypes/` (`tasks_graph.cpp`, `task.cpp`, `schedulers/scheduler_base.cpp`, `schedulers/naive_scheduler.cpp`), which `main`
  does not reach; the converter of workflows, which runs offline; the vendored `contrib/cxxopts.hpp`; the tests.
