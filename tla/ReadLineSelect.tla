--------------------------- MODULE ReadLineSelect ---------------------------
(***************************************************************************)
(* readline/producer.cpp: producers that write lines of numbers to a named *)
(* pipe, and one consumer that reads them byte by byte with                *)
(* read_line_select.  What the numbers of a line are, and the consumer's   *)
(* verdict on them, is left out.                                           *)
(***************************************************************************)
EXTENDS Integers, Sequences

CONSTANT Count    \* the size of the consumer's buffer

VARIABLES
  data, written, closed,     \* the pipe: closed while no producer has it open
  readpos,
  data_move,
  result, pc

input == <<data, written, closed>>
vars == <<input, readpos, data_move, result, pc>>

Init ==
  /\ written = 0
  /\ closed = FALSE
  /\ readpos = 0
  /\ data_move = 0
  /\ result = [kind |-> "none", text |-> <<>>]
  /\ pc = "call"

-----------------------------------------------------------------------------
(* The producers.                                                          *)

Newlines == {p \in 1 .. Len(data) : data[p] = "nl"}

\* As if a line were written in parts.
WriteParts ==
  /\ ~closed
  /\ written' \in written + 1 .. Len(data)
  /\ UNCHANGED <<data, closed, readpos, data_move, result, pc>>

\* A line is far shorter than PIPE_BUF, so one write puts it into the pipe
\* whole, whoever else writes.
WriteLine ==
  /\ ~closed
  /\ written' \in Newlines
  /\ written' > written
  /\ \A p \in Newlines : p <= written \/ p >= written'
  /\ UNCHANGED <<data, closed, readpos, data_move, result, pc>>

\* The last producer is stopped, or another one is started.
OpenOrClose ==
  /\ closed' = ~closed
  /\ UNCHANGED <<data, written, readpos, data_move, result, pc>>

-----------------------------------------------------------------------------
(* The consumer.                                                           *)

Silent == readpos = written /\ ~closed

\* The consumer of the code goes on after every result, the end included;
\* this is as if it stopped there.
ReturnOrStop(kind, text) ==
  /\ result' = [kind |-> kind, text |-> text]
  /\ data_move' = 0
  /\ pc' = IF kind = "end" THEN "stopped" ELSE "call"

\* 0 is not negative: the consumer takes the end of the input for a line.
Return(kind, text) ==
  /\ result' = [kind |-> kind, text |-> text]
  /\ data_move' = 0
  /\ pc' = "call"

Buffer == [k \in 1 .. data_move |-> readpos - data_move + k]

Call ==
  /\ pc = "call"
  /\ pc' = "select"
  /\ UNCHANGED <<input, readpos, data_move, result>>

Timeout ==
  /\ pc = "select"
  /\ Silent
  /\ Return("timeout", <<>>)
  /\ UNCHANGED <<input, readpos>>

Full ==
  /\ pc = "select"
  /\ ~Silent
  /\ data_move >= Count
  /\ Return("part", Buffer)
  /\ UNCHANGED <<input, readpos>>

\* One byte at a time.
ReadByte ==
  /\ pc = "select"
  /\ data_move < Count
  /\ readpos < written
  /\ readpos' = readpos + 1
  /\ IF data[readpos'] = "nl"
     THEN Return("line", Append(Buffer, readpos'))
     ELSE data_move' = data_move + 1 /\ UNCHANGED <<result, pc>>
  /\ UNCHANGED input

ReadEnd ==
  /\ pc = "select"
  /\ data_move < Count
  /\ readpos = written /\ closed
  /\ IF data_move = 0 THEN Return("end", <<>>) ELSE Return("part", Buffer)
  /\ UNCHANGED <<input, readpos>>

Reader == Call \/ Timeout \/ Full \/ ReadByte \/ ReadEnd

Next == WriteLine \/ OpenOrClose \/ Reader

-----------------------------------------------------------------------------
Taken == readpos - data_move
=============================================================================
