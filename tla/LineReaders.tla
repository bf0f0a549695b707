---------------------------- MODULE LineReaders ----------------------------
(***************************************************************************)
(* The two line readers of readline/ side by side: reader says which of    *)
(* the two programs runs, so that one question can be asked of both.       *)
(***************************************************************************)
EXTENDS Integers, Sequences

CONSTANTS
  Count,
  BufferLen,
  MaxLen      \* bound: how many bytes are ever written

\* readline_tout's own buffer is no larger than its caller's: both have 128.
ASSUME LineReadersAssumption ==
  Count \in Nat \ {0} /\ BufferLen \in Nat \ {0} /\ BufferLen <= Count

VARIABLES
  reader,     \* the program that runs: "readline_tout" or "read_line_select"
  data, written, closed, readpos, result, pc,
  read_bytes, offset, starting_offset, line_len, out,    \* readline_tout
  data_move                                              \* read_line_select

console == INSTANCE ReadLine
fifo == INSTANCE ReadLineSelect

consolevars == <<read_bytes, offset, starting_offset, line_len, out>>
common == <<data, written, closed, readpos, result, pc>>
vars == <<reader, common, consolevars, data_move>>

\* Inputs of whole lines, each shorter than the consumer's buffer, as
\* producers write them.
Whole ==
  {d \in UNION {[1 .. n -> {"x", "nl"}] : n \in 0 .. MaxLen} :
     /\ d # <<>> => d[Len(d)] = "nl"
     /\ \A p \in 1 .. Len(d) - Count + 1 : \E q \in p .. p + Count - 1 : d[q] = "nl"}

Init ==
  /\ \/ /\ reader = "readline_tout"
        /\ data \in UNION {[1 .. n -> {"x", "nl"}] : n \in 0 .. MaxLen}
     \/ /\ reader = "read_line_select"
        /\ data \in Whole
  /\ console!Init
  /\ fifo!Init

Next ==
  \/ /\ reader = "readline_tout"
     /\ console!Next
     /\ UNCHANGED <<reader, data_move>>
  \/ /\ reader = "read_line_select"
     /\ fifo!Next
     /\ UNCHANGED <<reader, consolevars>>

ReaderStep ==
  \/ /\ reader = "readline_tout"
     /\ console!Reader
     /\ UNCHANGED <<reader, data_move>>
  \/ /\ reader = "read_line_select"
     /\ fifo!Reader
     /\ UNCHANGED <<reader, consolevars>>

\* The program goes on, and a select that waits ends in time; nobody has to
\* write or close.
Spec == Init /\ [][Next]_vars /\ WF_vars(ReaderStep)

-----------------------------------------------------------------------------
(* Properties.                                                             *)

Taken == IF reader = "readline_tout" THEN console!Taken ELSE fifo!Taken

Stream == INSTANCE LineStream WITH taken <- Taken

\* However the input is cut into reads, both programs hand out the lines as
\* they were written: no byte twice, none of another line, and none missing
\* but the beginning of a line that a timeout or the size of the buffer cuts.
ImplementsLines == Stream!Spec

\* readline_tout ends the line inside the caller's buffer and not before the
\* line is over, but for one case: a line that does not start the inner buffer
\* and ends at the last byte of it puts its 0 one place behind a buffer of the
\* same size.
TerminatorPlaced ==
  reader = "readline_tout" /\ pc = "newline" /\ line_len < Count =>
    /\ console!Terminator >= line_len
    /\ console!Terminator <= Count
    /\ console!Terminator = Count <=>
         out = <<>> /\ starting_offset > 0 /\ offset = Count

\* A consumer of the pipe is never left inside a line, although a timeout would
\* drop the beginning of it: producers write whole lines.
FifoLinesWhole ==
  reader = "read_line_select" /\ pc = "call" => Taken = 0 \/ data[Taken] = "nl"

\* Whatever is written is taken in the end, also by a consumer that has been
\* at the end of the pipe before.
AllTaken ==
  \A n \in 1 .. MaxLen : written >= n ~> Taken >= n
=============================================================================
