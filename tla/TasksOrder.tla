----------------------------- MODULE TasksOrder -----------------------------
(***************************************************************************)
(* Graph::MakeTasksOrder and MakeOrderDFS (workflow/graph.cpp): the order  *)
(* in which every scheduler plans the tasks.  The recursion is an explicit *)
(* stack here; a frame needs no position in its list of successors, because *)
(* no task ever becomes unused again.                                      *)
(* X_Y is a bug that X could have (see WorkflowGraph).                     *)
(***************************************************************************)
EXTENDS Integers, Sequences

CONSTANTS
    Size,    \* Nodes.size()
    Graphs   \* the workflows: task -> list of its successors

Tasks == 0..(Size - 1)

SuccessorsOf(g, t) == {g[t][i] : i \in DOMAIN g[t]}

\* No task depends on itself, directly or through others.
Rising(g, rank) == \A t \in Tasks : \A u \in SuccessorsOf(g, t) : rank[t] < rank[u]
Acyclic(g) == \E rank \in [Tasks -> Tasks] : Rising(g, rank)

ASSUME OrderAssumption ==
    /\ Size \in Nat
    /\ \A g \in Graphs : g \in [Tasks -> Seq(Tasks)] /\ Acyclic(g)

VARIABLES
    succ,    \* the lists of successors: chosen once
    used,    \* tasks MakeOrderDFS was called for
    stack,   \* its calls that have not returned, the innermost last
    order,   \* the vector the result is built in
    next,    \* counter of the loop of MakeTasksOrder
    done

vars == <<succ, used, stack, order, next, done>>

OrderTypeOK ==
    /\ succ \in [Tasks -> Seq(Tasks)]
    /\ used \subseteq Tasks
    /\ stack \in Seq(Tasks)
    /\ order \in Seq(Tasks)
    /\ next \in 0..Size
    /\ done \in BOOLEAN

Init ==
    /\ succ \in Graphs
    /\ used = {}
    /\ stack = <<>>
    /\ order = <<>>
    /\ next = 0
    /\ done = FALSE

HasNoDependencies(t) == \A u \in Tasks : t \notin SuccessorsOf(succ, u)

\* The loop of MakeTasksOrder.
StartAt(t) ==
    /\ stack = <<>> /\ next = t
    /\ t \notin used /\ HasNoDependencies(t)
    /\ used' = used \cup {t}
    /\ stack' = <<t>>
    /\ next' = next + 1
    /\ UNCHANGED <<succ, order, done>>

Skip(t) ==
    /\ stack = <<>> /\ next = t
    /\ t \in used \/ ~HasNoDependencies(t)
    /\ next' = next + 1
    /\ UNCHANGED <<succ, used, stack, order, done>>

Top == stack[Len(stack)]
Popped == SubSeq(stack, 1, Len(stack) - 1)

\* MakeOrderDFS goes down to the first successor that is not used yet.
Visit(u) ==
    /\ stack # <<>>
    /\ \E i \in DOMAIN succ[Top] : /\ succ[Top][i] = u
                                   /\ \A j \in 1..(i - 1) : succ[Top][j] \in used
    /\ u \notin used
    /\ used' = used \cup {u}
    /\ stack' = Append(stack, u)
    /\ UNCHANGED <<succ, order, next, done>>

\* A call returns after one of its successors, not after all of them.
Return_Early ==
    /\ stack # <<>>
    /\ succ[Top] = <<>> \/ SuccessorsOf(succ, Top) \cap used # {}
    /\ order' = Append(order, Top)
    /\ stack' = Popped
    /\ UNCHANGED <<succ, used, next, done>>

Return ==
    /\ stack # <<>>
    /\ SuccessorsOf(succ, Top) \subseteq used
    /\ order' = Append(order, Top)
    /\ stack' = Popped
    /\ UNCHANGED <<succ, used, next, done>>

\* Nothing is reversed.
ReverseOrder_Not ==
    /\ stack = <<>> /\ next = Size /\ ~done
    /\ Len(order) = Size
    /\ done' = TRUE
    /\ UNCHANGED <<succ, used, stack, order, next>>

ReverseOrder ==
    /\ stack = <<>> /\ next = Size /\ ~done
    /\ Len(order) = Size
    /\ order' = [i \in DOMAIN order |-> order[Len(order) + 1 - i]]
    /\ done' = TRUE
    /\ UNCHANGED <<succ, used, stack, next>>

\* The assertion before the reversal has failed: the program has ended.
NotAllIncluded ==
    /\ stack = <<>> /\ next = Size /\ ~done
    /\ Len(order) # Size

Ended == (done \/ NotAllIncluded) /\ UNCHANGED vars

Next ==
    \/ \E t \in Tasks : StartAt(t) \/ Skip(t) \/ Visit(t)
    \/ Return \/ ReverseOrder \/ Ended

Spec == Init /\ [][Next]_vars

-----------------------------------------------------------------------------
(* Properties *)

(***************************************************************************)
(* "Something went wrong, not all tasks are included in tasks order!"      *)
(* (graph.cpp, line 98) never fails for a workflow without cycles: a search *)
(* that begins only at tasks without dependencies reaches them all.  And an *)
(* order that is returned, of a cyclic workflow too, has no task twice.    *)
(***************************************************************************)
EveryTaskOnce ==
    /\ Acyclic(succ) => ~NotAllIncluded
    /\ done => \A i, j \in DOMAIN order : order[i] = order[j] => i = j

(***************************************************************************)
(* "Can't process next task, task order is inconsistent!"                  *)
(* (genetic_scheduler.cpp 217; in other words mao_scheduler.cpp 115 and    *)
(* 176).  Without cycles a task comes after all it depends on.  The        *)
(* baseline relies on it unchecked: its assertions of the same text can    *)
(* never fail (see CyclesCaught in WorkflowLoader).                        *)
(***************************************************************************)
DependenciesFirst ==
    done /\ Acyclic(succ) =>
        \A i, j \in DOMAIN order : order[j] \in SuccessorsOf(succ, order[i]) => i < j
=============================================================================
