----------------------------- MODULE LineStream -----------------------------
(***************************************************************************)
(* What the two line readers of readline/ make of a stream of bytes:       *)
(* readline_tout of main.cpp and read_line_select of producer.cpp.  Each   *)
(* call hands out the next line, or says why it cannot.  A byte is its     *)
(* position in data; taken is how far the stream has been used up.         *)
(***************************************************************************)
EXTENDS Integers, Sequences

CONSTANT Count    \* the size of the caller's buffer

VARIABLES
  data,      \* all that will ever be written, never changed
  written,   \* how much of it has been
  closed,    \* nobody can write any more
  taken,
  result     \* of the last call

Nothing == [kind |-> "none", text |-> <<>>]

\* The positions from a + 1 to b.
Bytes(a, b) == [k \in 1 .. b - a |-> a + k]

Unbroken(a, b) == \A p \in a + 1 .. b : data[p] # "nl"

Init ==
  /\ written = 0
  /\ closed = FALSE
  /\ taken = 0
  /\ result = Nothing

Write ==
  /\ ~closed
  /\ written' \in written + 1 .. Len(data)
  /\ UNCHANGED <<closed, taken, result>>

OpenOrClose ==
  /\ closed' = ~closed
  /\ UNCHANGED <<written, taken, result>>

Hand(kind, text, to) ==
  /\ result' = [kind |-> kind, text |-> text]
  /\ taken' = to
  /\ UNCHANGED <<written, closed>>

\* A line that fits, whole and with its newline.
Line ==
  \E e \in taken + 1 .. written :
    /\ e - taken <= Count
    /\ data[e] = "nl"
    /\ Unbroken(taken, e - 1)
    /\ Hand("line", Bytes(taken, e), e)

\* The first bytes of a longer line.  All Count of them are used up, but not
\* all are handed out.
LongPart ==
  /\ taken + Count <= written
  /\ Unbroken(taken, taken + Count - 1)
  /\ \E k \in 0 .. Count : Hand("part", Bytes(taken, taken + k), taken + Count)

\* A timeout drops what had arrived of a line, never a line.
TimedOut ==
  \E e \in taken .. written :
    /\ Unbroken(taken, e)
    /\ Hand("timeout", <<>>, e)

\* The last bytes, without a newline.
Rest ==
  /\ closed
  /\ taken < written
  /\ written - taken < Count
  /\ Unbroken(taken, written)
  /\ Hand("part", Bytes(taken, written), written)

End ==
  /\ closed
  /\ taken = written
  /\ Hand("end", <<>>, taken)

Next ==
  /\ Write \/ OpenOrClose \/ Line \/ LongPart \/ TimedOut \/ Rest \/ End
  /\ UNCHANGED data

Spec == Init /\ [][Next]_<<data, written, closed, taken, result>>
=============================================================================
