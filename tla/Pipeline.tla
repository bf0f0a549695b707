------------------------------ MODULE Pipeline ------------------------------
(***************************************************************************)
(* pipe-redirect-pr2/main.cpp: a parent that makes a pipe and two          *)
(* children, of which one puts the pipe in the place of its standard       *)
(* output and becomes ls, the other in the place of its standard input and *)
(* becomes tr.  Both forks and both execs may fail.                        *)
(***************************************************************************)
EXTENDS Pipe

CONSTANT MaxNames    \* bound: how many writes ls makes

VARIABLES
  pc,         \* of "parent", "ls" and "tr"; "none" before fork
  output,     \* what has been printed on the terminal
  listed      \* how many names ls has written

vars == <<pipe, pc, output, listed>>

Family == {"parent", "ls", "tr"}
Ended == {"none", "ended", "failed", "killed"}

Init ==
  /\ Opened("parent")
  /\ pc = [p \in Family |-> IF p = "parent" THEN "fork ls" ELSE "none"]
  /\ output = <<>>
  /\ listed = 0

Go(p, from, to) ==
  /\ pc[p] = from
  /\ pc' = [pc EXCEPT ![p] = to]

-----------------------------------------------------------------------------
(* The parent.                                                             *)

\* When fork fails the parent goes on as if it had not.
Fork(child, from, to) ==
  /\ pc["parent"] = from
  /\ \/ /\ pc' = [pc EXCEPT !["parent"] = to, ![child] = "start"]
        /\ readers' = Inherited(readers, "parent", child)
        /\ writers' = Inherited(writers, "parent", child)
     \/ /\ pc' = [pc EXCEPT !["parent"] = to]
        /\ UNCHANGED <<readers, writers>>
  /\ UNCHANGED <<bytes, output, listed>>

CloseEnds(p) ==
  /\ readers' = readers \ {<<p, "pipes">>}
  /\ writers' = writers \ {<<p, "pipes">>}
  /\ UNCHANGED <<bytes, output, listed>>

\* As if the parent closed only the end it reads from before it waits.
ParentClosesOne ==
  /\ Go("parent", "close", "wait")
  /\ readers' = readers \ {<<"parent", "pipes">>}
  /\ UNCHANGED <<bytes, writers, output, listed>>

ParentCloses ==
  /\ Go("parent", "close", "wait")
  /\ CloseEnds("parent")

\* Each wait returns when a child has ended, or at once when there is none.
\* The close that follows fails on a descriptor that is closed already.
ParentWaits ==
  /\ pc["ls"] \in Ended
  /\ pc["tr"] \in Ended
  /\ Go("parent", "wait", "ended")
  /\ ExitCloses("parent")
  /\ UNCHANGED <<output, listed>>

Parent ==
  \/ Fork("ls", "fork ls", "fork tr")
  \/ Fork("tr", "fork tr", "close")
  \/ ParentCloses
  \/ ParentWaits

-----------------------------------------------------------------------------
(* ls.                                                                     *)

LsRedirects ==
  /\ Go("ls", "start", "exec")
  /\ readers' = readers \ {<<"ls", "pipes">>}
  /\ writers' = (writers \ {<<"ls", "pipes">>}) \cup {<<"ls", "std">>}
  /\ UNCHANGED <<bytes, output, listed>>

\* When exec fails the message that says so goes into the pipe as well.
LsExec ==
  /\ \E to \in {"list", "complain"} : Go("ls", "exec", to)
  /\ UNCHANGED <<pipe, output, listed>>

LsWrites ==
  /\ \/ pc["ls"] = "list" /\ listed < MaxNames /\ UNCHANGED pc
     \/ Go("ls", "complain", "exit")
  /\ listed' = listed + 1
  /\ WriteTo(listed')
  /\ UNCHANGED output

LsKilled ==
  /\ \/ pc["ls"] = "list" /\ listed < MaxNames
     \/ pc["ls"] = "complain"
  /\ Broken
  /\ pc' = [pc EXCEPT !["ls"] = "killed"]
  /\ ExitCloses("ls")
  /\ UNCHANGED <<output, listed>>

LsExits ==
  /\ pc["ls"] \in {"list", "exit"}
  /\ pc' = [pc EXCEPT !["ls"] = "ended"]
  /\ ExitCloses("ls")
  /\ UNCHANGED <<output, listed>>

Ls == LsRedirects \/ LsExec \/ LsWrites \/ LsKilled \/ LsExits

-----------------------------------------------------------------------------
(* tr.                                                                     *)

TrRedirects ==
  /\ Go("tr", "start", "exec")
  /\ writers' = writers \ {<<"tr", "pipes">>}
  /\ readers' = (readers \ {<<"tr", "pipes">>}) \cup {<<"tr", "std">>}
  /\ UNCHANGED <<bytes, output, listed>>

TrExec ==
  /\ Go("tr", "exec", "translate")
  /\ UNCHANGED <<pipe, output, listed>>

TrExecFails ==
  /\ Go("tr", "exec", "failed")
  /\ ExitCloses("tr")
  /\ UNCHANGED <<output, listed>>

TrTranslates ==
  /\ pc["tr"] = "translate"
  /\ ReadPipe
  /\ output' = Append(output, Head(bytes))
  /\ UNCHANGED <<pc, listed>>

TrEnds ==
  /\ EndOfPipe
  /\ Go("tr", "translate", "ended")
  /\ ExitCloses("tr")
  /\ UNCHANGED <<output, listed>>

Tr == TrRedirects \/ TrExec \/ TrExecFails \/ TrTranslates \/ TrEnds

Step(p) ==
  \/ p = "parent" /\ Parent
  \/ p = "ls" /\ Ls
  \/ p = "tr" /\ Tr

Next == \E p \in Family : Step(p)

-----------------------------------------------------------------------------
AllEnded == \A p \in Family : pc[p] \in Ended

\* tr ends of itself only when it has printed all that ls wrote.
NothingLost ==
  pc["tr"] = "ended" =>
    /\ pc["ls"] \in Ended
    /\ output = [k \in 1 .. listed |-> k]
=============================================================================
