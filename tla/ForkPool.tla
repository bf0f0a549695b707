------------------------------ MODULE ForkPool ------------------------------
(***************************************************************************)
(* cv1-fork/main.cpp: a parent that forks process_count children and waits *)
(* for all of them, and then forks one child a turn and collects, without  *)
(* waiting, those that have ended.                                         *)
(***************************************************************************)
EXTENDS Waiting

VARIABLES
  process_count,    \* the argument, never changed
  i,                \* of the first loop
  pc

vars == <<child, running_childs, failed, process_count, i, pc>>

Init ==
  /\ NoChildren
  /\ running_childs = 0
  /\ failed = 0
  /\ i = 0
  /\ pc = "fork all"

Go(from, to) ==
  /\ pc = from
  /\ pc' = to

Die(c) ==
  /\ Dies(c)
  /\ UNCHANGED <<running_childs, failed, process_count, i, pc>>

-----------------------------------------------------------------------------
(* The first job.                                                          *)

ForkOne ==
  /\ pc = "fork all"
  /\ i < process_count
  /\ i' = i + 1
  /\ Forked \/ UNCHANGED child
  /\ UNCHANGED <<running_childs, failed, process_count, pc>>

\* With no child to start pid was never set, and the parent may take the way
\* of a child.
ForkedAll ==
  /\ i = process_count
  /\ \/ Go("fork all", "wait")
     \/ process_count = 0 /\ Go("fork all", "ended")
  /\ UNCHANGED <<child, running_childs, failed, process_count, i>>

WaitForOne ==
  /\ pc = "wait"
  /\ Collected
  /\ UNCHANGED <<running_childs, failed, process_count, i, pc>>

\* ECHILD
WaitedForAll ==
  /\ Uncollected = {}
  /\ Go("wait", "count")
  /\ UNCHANGED <<child, running_childs, failed, process_count, i>>

-----------------------------------------------------------------------------
(* The pool.                                                               *)

Count ==
  /\ MoreForks
  /\ Go("count", "fork")
  /\ running_childs' = running_childs + 1
  /\ UNCHANGED <<child, failed, process_count, i>>

\* At the bound every further fork fails, and neither counter is moved.
CountAtBound ==
  /\ ~MoreForks
  /\ Go("count", "poll")
  /\ UNCHANGED <<child, running_childs, failed, process_count, i>>

\* A fork that fails is counted as a child like any other.
Fork ==
  /\ Go("fork", "poll")
  /\ \/ Forked /\ UNCHANGED failed
     \/ failed' = failed + 1 /\ UNCHANGED child
  /\ UNCHANGED <<running_childs, process_count, i>>

CollectOne ==
  /\ pc = "poll"
  /\ Collected
  /\ running_childs' = running_childs - 1
  /\ UNCHANGED <<failed, process_count, i, pc>>

NoneEnded ==
  /\ In("zombie") = {}
  /\ In("running") # {}
  /\ Go("poll", "count")
  /\ UNCHANGED <<child, running_childs, failed, process_count, i>>

\* waitpid returns -1 and the pool is over.
NoneLeft ==
  /\ Uncollected = {}
  /\ Go("poll", "ended")
  /\ UNCHANGED <<child, running_childs, failed, process_count, i>>

Main ==
  \/ ForkOne \/ ForkedAll \/ WaitForOne \/ WaitedForAll
  \/ Count \/ CountAtBound \/ Fork \/ CollectOne \/ NoneEnded \/ NoneLeft

-----------------------------------------------------------------------------
\* The first job leaves no child behind, and the pool counts those not yet
\* collected, and every fork that has failed, for good.
Counted ==
  running_childs =
    IF pc \in {"fork all", "wait"} THEN 0
    ELSE Cardinality(Uncollected) + failed + (IF pc = "fork" THEN 1 ELSE 0)
=============================================================================
