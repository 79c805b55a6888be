----------------------------- MODULE WorkflowRun -----------------------------
(***************************************************************************)
(* What running a workflow promises, said without counters, queues, actors *)
(* or messages: a task starts once, after every file it reads from another *)
(* task has been delivered to it; a file is delivered to a task once,      *)
(* after the task that writes it has finished.                             *)
(***************************************************************************)
EXTENDS Naturals

CONSTANTS
    Tasks,   \* the tasks of the workflow
    Feeds    \* <<a, f, t>>: task a writes file f and task t reads it

VARIABLES
    status,     \* task -> "waiting", "running" or "done"
    delivered   \* the triples of Feeds whose file has reached its reader

runVars == <<status, delivered>>

RunInit ==
    /\ status = [t \in Tasks |-> "waiting"]
    /\ delivered = {}

FeedsOf(t) == {e \in Feeds : e[3] = t}

Start(t) ==
    /\ status[t] = "waiting"
    /\ FeedsOf(t) \subseteq delivered
    /\ status' = [status EXCEPT ![t] = "running"]
    /\ UNCHANGED delivered

Finish(t) ==
    /\ status[t] = "running"
    /\ status' = [status EXCEPT ![t] = "done"]
    /\ UNCHANGED delivered

Deliver(e) ==
    /\ e \notin delivered
    /\ status[e[1]] = "done"
    /\ delivered' = delivered \cup {e}
    /\ UNCHANGED status

RunNext ==
    \/ \E t \in Tasks : Start(t) \/ Finish(t)
    \/ \E e \in Feeds : Deliver(e)

RunSpec == RunInit /\ [][RunNext]_runVars
=============================================================================
