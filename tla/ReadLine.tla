------------------------------ MODULE ReadLine ------------------------------
(***************************************************************************)
(* readline/main.cpp: readline_tout, called in a loop by main on one       *)
(* descriptor.  What read has put into the inner buffer stays there from   *)
(* one call to the next; offset is how far it has been used, -1 before the *)
(* first read.  A byte is its position in the input.                       *)
(***************************************************************************)
EXTENDS Integers, Sequences

CONSTANTS
  Count,        \* the size of the caller's buffer
  BufferLen     \* L_BUFFER_SIZE

VARIABLES
  data, written, closed,     \* the input: what will be, what has been written
  readpos,                   \* how much of it has been read
  read_bytes, offset,        \* of the FdBufferPair
  starting_offset, line_len, out,
  result, pc

input == <<data, written, closed>>
pair == <<read_bytes, offset>>
locals == <<starting_offset, line_len, out>>
vars == <<input, readpos, pair, locals, result, pc>>

Init ==
  /\ written = 0
  /\ closed = FALSE
  /\ readpos = 0
  /\ read_bytes = 0
  /\ offset = -1
  /\ starting_offset = 0
  /\ line_len = 0
  /\ out = <<>>
  /\ result = [kind |-> "none", text |-> <<>>]
  /\ pc = "call"

-----------------------------------------------------------------------------
(* The other end of the input.                                             *)

Write ==
  /\ ~closed
  /\ written' \in written + 1 .. Len(data)
  /\ UNCHANGED <<data, closed, readpos, pair, locals, result, pc>>

Close ==
  /\ ~closed
  /\ written = Len(data)
  /\ closed' = TRUE
  /\ UNCHANGED <<data, written, readpos, pair, locals, result, pc>>

-----------------------------------------------------------------------------
(* readline_tout.                                                          *)

\* select reports bytes and the end of the input; the time left runs on from
\* one select of a call to the next, so it may also be over at once.
Silent == readpos = written /\ ~closed

Inner(k) == readpos - read_bytes + k

\* The part of the inner buffer that belongs to the line.
Chunk == [k \in 1 .. offset - starting_offset |-> Inner(starting_offset + k)]

\* main prints what it got and calls again, and stops at the end of the input.
Return(kind, text) ==
  /\ result' = [kind |-> kind, text |-> text]
  /\ line_len' = 0
  /\ pc' = IF kind = "end" THEN "stopped" ELSE "call"

Call ==
  /\ pc = "call"
  /\ out' = <<>>
  /\ starting_offset' = offset
  /\ pc' = IF offset = -1 THEN "first" ELSE "scan"
  /\ UNCHANGED <<input, readpos, pair, line_len, result>>

FirstTimeout ==
  /\ pc = "first"
  /\ Silent
  /\ Return("timeout", <<>>)
  /\ UNCHANGED <<input, readpos, pair, starting_offset, out>>

\* read gives what is there, at most what fits, and 0 bytes at the end.
Read ==
  \E n \in 0 .. BufferLen :
    /\ readpos + n <= written
    /\ n = 0 <=> readpos = written
    /\ readpos' = readpos + n
    /\ read_bytes' = n

FirstRead ==
  /\ pc = "first"
  /\ ~Silent
  /\ Read
  /\ offset' = 0
  /\ starting_offset' = 0
  /\ pc' = "scan"
  /\ UNCHANGED <<input, line_len, out, result>>

Scan ==
  /\ pc = "scan"
  /\ line_len < Count
  /\ offset < read_bytes
  /\ offset' = offset + 1
  /\ line_len' = line_len + 1
  /\ pc' = IF data[Inner(offset + 1)] = "nl" THEN "newline" ELSE "scan"
  /\ UNCHANGED <<input, readpos, read_bytes, starting_offset, out, result>>

\* As if the copied part were taken from the start of the inner buffer.
ExhaustedWhole ==
  /\ pc = "scan"
  /\ line_len < Count
  /\ offset >= read_bytes
  /\ out' = out \o [k \in 1 .. offset |-> Inner(k)]
  /\ offset' = 0
  /\ read_bytes' = 0
  /\ pc' = "refill"
  /\ UNCHANGED <<input, readpos, starting_offset, line_len, result>>

Exhausted ==
  /\ pc = "scan"
  /\ line_len < Count
  /\ offset >= read_bytes
  /\ out' = out \o Chunk
  /\ offset' = 0
  /\ read_bytes' = 0
  /\ pc' = "refill"
  /\ UNCHANGED <<input, readpos, starting_offset, line_len, result>>

\* What has been copied of the line is lost: main prints it only on EAGAIN.
RefillTimeout ==
  /\ pc = "refill"
  /\ Silent
  /\ Return("timeout", <<>>)
  /\ UNCHANGED <<input, readpos, pair, starting_offset, out>>

RefillRead ==
  /\ pc = "refill"
  /\ readpos < written
  /\ Read
  /\ starting_offset' = 0
  /\ pc' = "scan"
  /\ UNCHANGED <<input, offset, line_len, out, result>>

RefillEnd ==
  /\ pc = "refill"
  /\ readpos = written /\ closed
  /\ IF line_len > 0 THEN Return("part", out) ELSE Return("end", <<>>)
  /\ UNCHANGED <<input, readpos, pair, starting_offset, out>>

\* Also for a line whose newline is the last byte that would fit.  What is in
\* the inner buffer is not copied.
TooLong ==
  /\ pc \in {"scan", "newline"}
  /\ line_len >= Count
  /\ Return("part", out)
  /\ UNCHANGED <<input, readpos, pair, starting_offset, out>>

\* As if the newline and the zero each took a place.
TerminatorLater == Len(out) + offset + 1

\* Where the 0 behind the line is written; the line ends at line_len.
Terminator == Len(out) + offset

EndLine ==
  /\ pc = "newline"
  /\ line_len < Count
  /\ out' = out \o Chunk
  /\ Return("line", out')
  /\ UNCHANGED <<input, readpos, pair, starting_offset>>

Reader ==
  \/ Call
  \/ FirstTimeout \/ FirstRead
  \/ Scan \/ TooLong \/ EndLine
  \/ Exhausted \/ RefillTimeout \/ RefillRead \/ RefillEnd

Next == Write \/ Close \/ Reader

-----------------------------------------------------------------------------
\* How much of the input had been used up when the call began.
Taken == (IF offset = -1 THEN 0 ELSE Inner(offset)) - line_len
=============================================================================
