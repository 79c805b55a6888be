---------------------------- MODULE MCTasksOrder ----------------------------
(***************************************************************************)
(* Documents of four tasks:                                                *)
(*  - every relation between the tasks, cyclic ones included, with a file  *)
(*    for each pair;                                                       *)
(*  - three tasks, each of which reads up to two of two files, the same    *)
(*    one twice perhaps, and writes up to one; a file may have several     *)
(*    writers, and may be described twice, with different sizes;           *)
(*  - documents in error.                                                  *)
(***************************************************************************)
EXTENDS WorkflowLoader

MCSize == 4
MCNames == Tasks \X Tasks

\* No cycle: every set of tasks has one without successors in the set.
HasSinks(sets) ==
    \A S \in SUBSET Tasks \ {{}} : \E t \in S : sets[t] \cap S = {}

MCGraphs ==
    {[t \in Tasks |-> SetToSortSeq(sets[t], <)] :
        sets \in {s \in [Tasks -> SUBSET Tasks] : HasSinks(s)}}

Described(names, size) == [i \in DOMAIN names |-> [name |-> names[i], size |-> size]]

Task(read, written) ==
    [inputs |-> read, outputs |-> Described(written, 2), cores |-> 1, memory |-> NotGiven, size |-> 3]

DocumentOf(inputNames, tasks, outputNames) ==
    [option |-> NotGiven, deadline |-> 5, inputs |-> Described(inputNames, 1),
     tasks |-> tasks, outputs |-> outputNames]

AllPairs == [i \in 1..16 |-> <<(i - 1) \div 4, (i - 1) % 4>>]
Pairs(S) == SelectSeq(AllPairs, LAMBDA p : p \in S)

OfRelation(edges) ==
    DocumentOf(<<>>, [t \in Tasks |-> Task(Pairs({t} \X Tasks \cap edges), Pairs(Tasks \X {t} \cap edges))],
             Pairs(edges))

Relations == SUBSET {p \in Tasks \X Tasks : p[1] # p[2]}

\* Three names more.
a == <<0, 0>>
b == <<1, 1>>
c == <<2, 2>>

TwoFiles == {<<>>, <<a>>, <<b>>, <<a, a>>, <<a, b>>, <<b, b>>}
OneFile == {<<>>, <<a>>, <<b>>}

SmallTasks == {Task(read, written) : read \in TwoFiles, written \in OneFile}

SmallDocuments ==
    {DocumentOf(listed, 0 :> x @@ 1 :> y @@ 2 :> z @@ 3 :> Task(<<>>, <<>>), <<a>>) :
        listed \in {<<a, b>>, <<b>>}, x \in SmallTasks, y \in SmallTasks, z \in SmallTasks}

Good == DocumentOf(<<a, b>>, [t \in Tasks |-> Task(<<a>>, <<>>)], <<b>>)

InError ==
    {[Good EXCEPT !.deadline = NotGiven], [Good EXCEPT !.option = 0],
     [Good EXCEPT !.deadline = NotGiven, !.option = 7],
     [Good EXCEPT !.inputs[2].size = NotGiven], [Good EXCEPT !.inputs[2].size = Unreadable],
     [Good EXCEPT !.tasks[1].inputs = <<c>>], [Good EXCEPT !.tasks[1].cores = Unreadable],
     [Good EXCEPT !.tasks[1].cores = NotGiven, !.tasks[2].memory = Unreadable],
     [Good EXCEPT !.tasks[1].size = NotGiven], [Good EXCEPT !.tasks[1].size = Unreadable],
     [Good EXCEPT !.outputs = <<a, c>>], [Good EXCEPT !.outputs = <<a, a>>]}

MCDocuments == {OfRelation(edges) : edges \in Relations} \cup SmallDocuments \cup InError
=============================================================================
