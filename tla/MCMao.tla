-------------------------------- MODULE MCMao --------------------------------
(***************************************************************************)
(* Tasks that do the same work, and two types of the same price, the       *)
(* second twice as fast.  MCMaoSpeedup.cfg: two tasks that do not depend   *)
(* on each other, and a deadline that could be met at no cost.             *)
(* MCMaoDeadlines.cfg: one task depends on another and a third has no      *)
(* neighbour; the first machines meet the deadline.                        *)
(***************************************************************************)
EXTENDS MaoScheduler

Independent == [t \in Tasks |-> {}]
OnePair == [t \in Tasks |-> IF t = 1 THEN {0} ELSE {}]
MCOrder == [i \in Tasks |-> i]
MCRequirements == [t \in Tasks |-> [cores |-> 1, memory |-> 1, size |-> 12]]
MCVMList == [type \in Types |-> [cores |-> 1, memory |-> 1, flops |-> 1 + type, price |-> 5]]
=============================================================================
