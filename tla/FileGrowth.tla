----------------------------- MODULE FileGrowth -----------------------------
(***************************************************************************)
(* read_file of pipe-threads-cv2/threads_file_read.cpp, run by one thread: *)
(* a file is read in chunks into a buffer that is tripled when a chunk     *)
(* does not fit.  Threads share nothing, so one is enough.                 *)
(***************************************************************************)
EXTENDS Integers

CONSTANTS
  Chunk,      \* sizeof(buf)
  Initial     \* the first content_size

VARIABLES
  size,       \* of the file, never changed
  content_size, total_read, bytes_read, at

vars == <<size, content_size, total_read, bytes_read, at>>

Init ==
  /\ content_size = Initial
  /\ total_read = 0
  /\ bytes_read = 0
  /\ at = "open"

OpenFile ==
  /\ at = "open"
  /\ at' \in {"read", "no file"}
  /\ UNCHANGED <<size, content_size, total_read, bytes_read>>

Read ==
  /\ at = "read"
  /\ bytes_read' = IF size - total_read > Chunk THEN Chunk ELSE size - total_read
  /\ at' = "grow"
  /\ UNCHANGED <<size, content_size, total_read>>

\* A directory can be opened and not read: -1 bytes are then copied.
ReadFails ==
  /\ at = "read"
  /\ total_read = 0
  /\ bytes_read' = -1
  /\ at' = "crashed"
  /\ UNCHANGED <<size, content_size, total_read>>

Grow ==
  /\ at = "grow"
  /\ content_size' = IF total_read + bytes_read > content_size THEN 3 * content_size ELSE content_size
  /\ at' = "copy"
  /\ UNCHANGED <<size, total_read, bytes_read>>

Copy ==
  /\ at = "copy"
  /\ total_read' = total_read + bytes_read
  /\ at' = IF bytes_read > 0 THEN "read" ELSE "terminate"
  /\ UNCHANGED <<size, content_size, bytes_read>>

Terminator == total_read + 1

Terminate ==
  /\ at = "terminate"
  /\ at' = "returned"
  /\ UNCHANGED <<size, content_size, total_read, bytes_read>>

Thread == OpenFile \/ Read \/ ReadFails \/ Grow \/ Copy \/ Terminate

-----------------------------------------------------------------------------
Ended == at \in {"no file", "crashed", "returned"}

\* The sizes at which the buffer is full, and those one short of it.
Brim == LET Full == {Initial, 3 * Initial, 9 * Initial} IN Full \cup {s - 1 : s \in Full}

\* Every chunk fits into the buffer, the whole file is there at the end, and
\* the zero lies in the buffer too but for files of just the sizes that fill
\* it, or all but one place of it.
NothingLost ==
  /\ at = "copy" => total_read + bytes_read <= content_size
  /\ at = "terminate" =>
       /\ total_read = size
       /\ Terminator >= content_size <=> size \in Brim
=============================================================================
