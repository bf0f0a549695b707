------------------------------ MODULE Stopping ------------------------------
(***************************************************************************)
(* signals/stopping.cpp: a parent that forks children, stops and continues *)
(* them at the press of a key, and at 'q' kills and collects all.  Keys    *)
(* are children's numbers; what another key does is undefined.             *)
(***************************************************************************)
EXTENDS Waiting

VARIABLES
  child_pids,    \* "error" where fork has failed
  stopped,       \* the children that main takes for stopped
  i,             \* of the two loops
  pc

vars == <<child, running_childs, failed, child_pids, stopped, i, pc>>

Init ==
  /\ NoChildren
  /\ child_pids = [k \in Children |-> "unset"]
  /\ stopped = {}
  /\ i = 0
  /\ pc = "fork"

\* kill(2) of the child in place k.  The pid a failed fork leaves is -1, which
\* stands for every process there is.
Signal(k, from, to) ==
  LET targets == IF child_pids[k] = "error" THEN Children ELSE {k} IN
  child' = [c \in Children |-> IF c \in targets /\ child[c] \in from THEN to ELSE child[c]]

Fork ==
  /\ pc = "fork" /\ i < MaxForks
  /\ i' = i + 1
  /\ \/ /\ child' = [child EXCEPT ![i'] = "running"]
        /\ child_pids' = [child_pids EXCEPT ![i'] = "child"]
     \/ /\ child_pids' = [child_pids EXCEPT ![i'] = "error"]
        /\ UNCHANGED child
  /\ UNCHANGED <<running_childs, failed, stopped, pc>>

ForkedAll ==
  /\ pc = "fork" /\ i = MaxForks
  /\ pc' = "keys"
  /\ UNCHANGED <<child, running_childs, failed, child_pids, stopped, i>>

Stop(k) ==
  /\ pc = "keys" /\ k \notin stopped
  /\ Signal(k, {"running"}, "stopped")
  /\ stopped' = stopped \cup {k}
  /\ UNCHANGED <<running_childs, failed, child_pids, i, pc>>

Continue(k) ==
  /\ pc = "keys" /\ k \in stopped
  /\ Signal(k, {"stopped"}, "running")
  /\ stopped' = stopped \ {k}
  /\ UNCHANGED <<running_childs, failed, child_pids, i, pc>>

Quit ==
  /\ pc = "keys"
  /\ pc' = "kill"
  /\ i' = 0
  /\ UNCHANGED <<child, running_childs, failed, child_pids, stopped>>

KillNext ==
  /\ pc = "kill" /\ i < MaxForks
  /\ i' = i + 1
  /\ Signal(i', {"running", "stopped"}, "zombie")
  /\ UNCHANGED <<running_childs, failed, child_pids, stopped, pc>>

KilledAll ==
  /\ pc = "kill" /\ i = MaxForks
  /\ pc' = "wait"
  /\ UNCHANGED <<child, running_childs, failed, child_pids, stopped, i>>

Wait ==
  /\ pc = "wait"
  /\ IF Uncollected = {} THEN pc' = "ended" /\ UNCHANGED child ELSE Collected /\ UNCHANGED pc
  /\ UNCHANGED <<running_childs, failed, child_pids, stopped, i>>

Key == Quit \/ \E k \in Children : Stop(k) \/ Continue(k)

Main == Fork \/ ForkedAll \/ KillNext \/ KilledAll \/ Wait

-----------------------------------------------------------------------------
\* While keys are pressed exactly the children taken for stopped are stopped,
\* unless a fork has failed: the key of that place stops and continues all.  But
\* when no such place is taken for stopped, for instance because its key has been
\* pressed twice, no child is stopped that main takes for running.  At the end
\* no child is left, stopped or not.
Recorded ==
  /\ pc = "keys" /\ (\A k \in Children : child_pids[k] = "child") => In("stopped") = stopped
  /\ pc = "keys" /\ (\A k \in stopped : child_pids[k] = "child") => In("stopped") \subseteq stopped
  /\ pc = "ended" => In("running") \cup In("stopped") = {}
=============================================================================
