------------------------------ MODULE Waiting ------------------------------
(***************************************************************************)
(* Children of one process as the kernel keeps them, and what the programs *)
(* that fork in a loop and wait have in common: signals/child_party.cpp,   *)
(* signals/stopping.cpp and cv1-fork/main.cpp.                             *)
(***************************************************************************)
EXTENDS Integers, FiniteSets

CONSTANT MaxForks    \* bound: how often a program forks

VARIABLES
  child,             \* "none", "running", "stopped", "zombie" or "collected"
  running_childs,
  failed             \* how many forks have failed since counting began

Children == 1 .. MaxForks

NoChildren == child = [c \in Children |-> "none"]

In(state) == {c \in Children : child[c] = state}
Uncollected == In("running") \cup In("zombie")

\* Children are numbered as they are forked.
Forked ==
  \E c \in In("none") :
    /\ \A d \in In("none") : c <= d
    /\ child' = [child EXCEPT ![c] = "running"]

MoreForks == Cardinality(In("none")) > failed

\* A child sleeps and ends, one way or another.
Dies(c) ==
  /\ child[c] = "running"
  /\ child' = [child EXCEPT ![c] = "zombie"]

\* waitpid for any child, when one has ended.
Collected ==
  \E c \in In("zombie") : child' = [child EXCEPT ![c] = "collected"]
=============================================================================
