----------------------------- MODULE ChildParty -----------------------------
(***************************************************************************)
(* signals/child_party.cpp: main forks one child after the other and adds  *)
(* each to running_childs; the handler of SIGCHLD collects those that have *)
(* ended and takes them off.  The handler runs between any two             *)
(* instructions of main, also between the load and the store of            *)
(* running_childs++.                                                       *)
(***************************************************************************)
EXTENDS Waiting

VARIABLES
  pc,         \* of main
  register,   \* what main has loaded of running_childs
  pending,    \* SIGCHLD: one, however many children have ended
  handling,   \* main is interrupted
  lost        \* how many decrements main has overwritten

vars == <<child, running_childs, failed, pc, register, pending, handling, lost>>

Init ==
  /\ NoChildren
  /\ running_childs = 0
  /\ failed = 0
  /\ pc = "load"
  /\ register = 0
  /\ pending = FALSE
  /\ handling = FALSE
  /\ lost = 0

Die(c) ==
  /\ Dies(c)
  /\ pending' = TRUE
  /\ UNCHANGED <<running_childs, failed, pc, register, handling, lost>>

-----------------------------------------------------------------------------
(* main                                                                    *)

Go(from, to) ==
  /\ ~handling
  /\ pc = from
  /\ pc' = to
  /\ UNCHANGED <<pending, handling>>

Load ==
  /\ MoreForks
  /\ Go("load", "store")
  /\ register' = running_childs
  /\ UNCHANGED <<child, running_childs, failed, lost>>

Store ==
  /\ Go("store", "fork")
  /\ running_childs' = register + 1
  /\ lost' = lost + (register - running_childs)
  /\ UNCHANGED <<child, failed, register>>

\* A fork that fails is counted as a child like any other.
Fork ==
  /\ Go("fork", "load")
  /\ \/ Forked /\ UNCHANGED failed
     \/ failed' = failed + 1 /\ UNCHANGED child
  /\ UNCHANGED <<running_childs, register, lost>>

Main == Load \/ Store \/ Fork

-----------------------------------------------------------------------------
(* siging_handler                                                          *)

\* A signal that comes while the handler runs is pending until it returns.
Interrupt ==
  /\ pending
  /\ ~handling
  /\ pending' = FALSE
  /\ handling' = TRUE
  /\ UNCHANGED <<child, running_childs, failed, pc, register, lost>>

\* As if one signal stood for one child.
CollectAndReturn ==
  /\ handling
  /\ Collected
  /\ running_childs' = running_childs - 1
  /\ handling' = FALSE
  /\ UNCHANGED <<failed, pc, register, pending, lost>>

Collect ==
  /\ handling
  /\ Collected
  /\ running_childs' = running_childs - 1
  /\ UNCHANGED <<failed, pc, register, pending, handling, lost>>

\* As if the handler counted before it looked whether waitpid had a child.
ReturnCounted ==
  /\ handling
  /\ In("zombie") = {}
  /\ handling' = FALSE
  /\ running_childs' = running_childs - 1
  /\ UNCHANGED <<child, failed, pc, register, pending, lost>>

\* waitpid has no child that has ended, or none at all.
Return ==
  /\ handling
  /\ In("zombie") = {}
  /\ handling' = FALSE
  /\ UNCHANGED <<child, running_childs, failed, pc, register, pending, lost>>

Handler == Interrupt \/ Collect \/ Return

-----------------------------------------------------------------------------
\* The count is the number of children not yet collected, and too high by the
\* forks that have failed and by what the handler took off while main was about
\* to store; it is never too low.
Counted ==
  /\ lost >= 0
  /\ running_childs =
       Cardinality(Uncollected) + failed + lost + (IF pc = "fork" THEN 1 ELSE 0)
=============================================================================
