----------------------------- MODULE BatonPipe -----------------------------
(***************************************************************************)
(* pipe-threads-cv2/process_file_read.cpp: a child for every file, which   *)
(* prints it when it has read the one byte that goes round in a pipe, the  *)
(* baton.  Children are numbered as the arguments are; the parent is 0.    *)
(* What a child prints stays in its stdio buffer until it exits, or, when  *)
(* the output is a terminal, until the end of its line: a file is some     *)
(* lines and perhaps a rest without a newline, shorter than the buffer.    *)
(***************************************************************************)
EXTENDS Pipe, FiniteSets

CONSTANTS
  Files,      \* argc - 1
  MaxLines    \* bound: the lines of a file

VARIABLES
  terminal,    \* whether the output is one, never changed
  i,           \* of the parent's loop
  pid,         \* what the last fork has returned: "child" or "error"
  pc,          \* "none" before fork
  lines,       \* how many lines of its file each child has printed
  rest,        \* the children that have printed a rest after them
  unflushed,   \* the children with something in their buffer
  output,      \* what has been written out, see Text
  turns        \* the children that have had the baton, in this order

printed == <<lines, rest, unflushed, output>>
vars == <<pipe, terminal, i, pid, pc, printed, turns>>

Children == 1 .. Files

Init ==
  /\ Opened(0)
  /\ i = 1
  /\ pid = "none"
  /\ pc = [p \in 0 .. Files |-> IF p = 0 THEN "fork" ELSE "none"]
  /\ lines = [c \in Children |-> 0] /\ rest = {}
  /\ unflushed = {} /\ output = <<>>
  /\ turns = <<>>

Go(p, from, to) ==
  /\ pc[p] = from
  /\ pc' = [pc EXCEPT ![p] = to]

-----------------------------------------------------------------------------
(* The parent.                                                             *)

Fork ==
  /\ i <= Files
  /\ pc[0] = "fork"
  /\ i' = i + 1
  /\ \/ /\ pid' = "child"
        /\ pc' = [pc EXCEPT ![i] = "read"]
        /\ readers' = Inherited(readers, 0, i)
        /\ writers' = Inherited(writers, 0, i)
     \/ /\ pid' = "error"
        /\ UNCHANGED <<pc, readers, writers>>
  /\ UNCHANGED <<bytes, terminal, printed, turns>>

\* Only the last fork decides what the parent does.
ForksMade ==
  /\ i > Files
  /\ Go(0, "fork", IF pid = "child" THEN "close read" ELSE "wait")
  /\ UNCHANGED <<pipe, terminal, i, pid, printed, turns>>

ParentClosesRead ==
  /\ Go(0, "close read", "write")
  /\ readers' = readers \ {<<0, "pipes">>}
  /\ UNCHANGED <<bytes, writers, terminal, i, pid, printed, turns>>

ParentWrites ==
  /\ Go(0, "write", "close write")
  /\ WriteTo("baton")
  /\ UNCHANGED <<terminal, i, pid, printed, turns>>

ParentClosesWrite ==
  /\ Go(0, "close write", "wait")
  /\ writers' = writers \ {<<0, "pipes">>}
  /\ UNCHANGED <<bytes, readers, terminal, i, pid, printed, turns>>

Ended == {"none", "ended", "killed", "failed"}

ParentWaits ==
  /\ \A c \in Children : pc[c] \in Ended
  /\ Go(0, "wait", "ended")
  /\ ExitCloses(0)
  /\ UNCHANGED <<terminal, i, pid, printed, turns>>

Parent ==
  \/ Fork \/ ForksMade
  \/ ParentClosesRead \/ ParentWrites \/ ParentClosesWrite \/ ParentWaits

-----------------------------------------------------------------------------
(* A child.                                                                *)

\* As if the baton were passed on before the file is printed.
TakeAndPass(c) ==
  /\ Go(c, "read", "close read")
  /\ bytes # <<>>
  /\ turns' = Append(turns, c)
  /\ UNCHANGED <<pipe, terminal, i, pid, printed>>

\* A child has the write end itself while it waits: it never sees the end.
TakeBaton(c) ==
  /\ Go(c, "read", "close read")
  /\ ReadPipe
  /\ turns' = Append(turns, c)
  /\ UNCHANGED <<terminal, i, pid, printed>>

ChildClosesRead(c) ==
  /\ Go(c, "close read", "open")
  /\ readers' = readers \ {<<c, "pipes">>}
  /\ UNCHANGED <<bytes, writers, terminal, i, pid, printed, turns>>

OpenFile(c) ==
  /\ Go(c, "open", "print")
  /\ UNCHANGED <<pipe, terminal, i, pid, printed, turns>>

\* Without its file a child returns, and the baton with it.
OpenFails(c) ==
  /\ Go(c, "open", "failed")
  /\ ExitCloses(c)
  /\ UNCHANGED <<terminal, i, pid, printed, turns>>

\* What a write of c's puts out: what it has printed since the last one, up to
\* its n-th line, or to the end of a rest that comes after n lines.
Text(c, n, withRest) == <<c, n, withRest>>

\* One more line, of the same chunk or of the next.
PrintLine(c) ==
  /\ pc[c] = "print" /\ lines[c] < MaxLines
  /\ lines' = [lines EXCEPT ![c] = @ + 1]
  /\ IF terminal
     THEN output' = Append(output, Text(c, lines'[c], FALSE)) /\ UNCHANGED unflushed
     ELSE unflushed' = unflushed \cup {c} /\ UNCHANGED output
  /\ UNCHANGED <<pipe, terminal, i, pid, pc, rest, turns>>

\* The end of the file, with a rest before it or not.
PrintRest(c) ==
  /\ Go(c, "print", "pass")
  /\ \/ rest' = rest \cup {c} /\ unflushed' = unflushed \cup {c}
     \/ UNCHANGED <<rest, unflushed>>
  /\ UNCHANGED <<pipe, terminal, i, pid, lines, output, turns>>

PassBaton(c) ==
  /\ Go(c, "pass", "exit")
  /\ WriteTo("baton")
  /\ UNCHANGED <<terminal, i, pid, printed, turns>>

\* SIGPIPE: nobody is left to read the baton.  The buffer is not flushed.
PassKilled(c) ==
  /\ Broken
  /\ Go(c, "pass", "killed")
  /\ ExitCloses(c)
  /\ UNCHANGED <<terminal, i, pid, printed, turns>>

\* As if the child ended without flushing its buffer.
ExitUnflushed(c) ==
  /\ Go(c, "exit", "ended")
  /\ ExitCloses(c)
  /\ UNCHANGED <<printed, terminal, i, pid, turns>>

Exit(c) ==
  /\ Go(c, "exit", "ended")
  /\ ExitCloses(c)
  /\ output' = IF c \in unflushed THEN Append(output, Text(c, lines[c], c \in rest)) ELSE output
  /\ unflushed' = unflushed \ {c}
  /\ UNCHANGED <<lines, rest, terminal, i, pid, turns>>

Child(c) ==
  \/ TakeBaton(c) \/ ChildClosesRead(c)
  \/ OpenFile(c) \/ OpenFails(c)
  \/ PrintLine(c) \/ PrintRest(c)
  \/ PassBaton(c) \/ PassKilled(c) \/ Exit(c)

Step(p) ==
  \/ p = 0 /\ Parent
  \/ p \in Children /\ Child(p)

Next == \E p \in 0 .. Files : Step(p)

-----------------------------------------------------------------------------
AllEnded == \A p \in 0 .. Files : pc[p] \in Ended

\* Children wait for ever for a baton that a child has taken with it because
\* it could not open its file, or that was never written.
BatonLost ==
  /\ \E d \in Children : pc[d] = "read"
  /\ \/ \E c \in Children : pc[c] = "failed"
     \/ i > Files /\ pid = "error"

Holders == {c \in Children : pc[c] \in {"close read", "open", "print", "pass"}}

Written(c, n, withRest) ==
  \/ n = 0 /\ ~withRest
  \/ \E k \in 1 .. Len(output) : output[k] = Text(c, n, withRest)

\* All that a child has printed is written out when it ends, but for the last
\* child: writing the baton that nobody reads kills it, and it loses what is in
\* its buffer: all its file, or on a terminal the rest after the last newline.
NothingLost ==
  /\ \A c \in Children : pc[c] = "ended" => Written(c, lines[c], c \in rest)
  /\ \A c \in Children :
       pc[c] = "killed" =>
         /\ c = turns[Len(turns)]
         /\ \A d \in Children \ {c} : pc[d] # "read" /\ d \notin Holders
         /\ IF terminal THEN Written(c, lines[c], FALSE)
            ELSE \A k \in 1 .. Len(output) : output[k][1] # c

\* The turn of the child whose text output[j] is does not come after that of output[k].
NotAfter(j, k) ==
  \E a, b \in 1 .. Len(turns) : a <= b /\ turns[a] = output[j][1] /\ turns[b] = output[k][1]

\* One byte goes round, in the pipe or with one child.  On a terminal each line
\* comes in the turn of its child: nothing is printed before it that belongs to
\* a later turn.  Only the rest of a file may come later, among the lines of
\* others, since it waits in the buffer for the exit (line 52) and the baton does not.
InTurn ==
  /\ Len(bytes) + Cardinality(Holders) <= 1
  /\ terminal =>
       \A k \in 1 .. Len(output) :
         ~output[k][3] => \A j \in 1 .. k : NotAfter(j, k)
=============================================================================
