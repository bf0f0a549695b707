-------------------------- MODULE LineReadersProofs --------------------------
(***************************************************************************)
(* Both line readers of readline/ hand out the lines of their input, for   *)
(* inputs of any length and buffers of any size.  The invariant relates    *)
(* the inner buffer, which outlives the calls, to the line that is being   *)
(* collected: what is copied and what is not yet are together the bytes    *)
(* since the last result.                                                  *)
(***************************************************************************)
EXTENDS LineReaders, CommonFacts

\* What both readers know of their input.
InputInv ==
  /\ data \in Seq({"x", "nl"})
  /\ written \in 0 .. Len(data) /\ readpos \in 0 .. written
  /\ closed \in BOOLEAN

\* readline_tout.
ConsoleTypes ==
  /\ read_bytes \in 0 .. readpos /\ read_bytes <= BufferLen
  /\ offset \in -1 .. read_bytes
  /\ starting_offset \in Int
  /\ line_len \in 0 .. Count
  /\ out \in Seq(Nat)
  /\ pc \in {"call", "first", "scan", "newline", "refill", "stopped"}

\* What the statements of a call find: where the line starts in the inner buffer,
\* and that it is all there, copied or not.
ConsoleCalls ==
  /\ offset = -1 => pc \in {"call", "first"} /\ readpos = 0 /\ read_bytes = 0
  /\ pc \in {"call", "first", "stopped"} => line_len = 0
  /\ pc = "first" => offset = -1 /\ out = <<>>
  /\ pc = "refill" => offset = 0 /\ read_bytes = 0 /\ line_len < Count /\ Len(out) = line_len
  /\ pc \in {"scan", "newline"} =>
       starting_offset \in 0 .. offset /\ Len(out) + (offset - starting_offset) = line_len
  /\ pc \in {"scan", "newline"} /\ out # <<>> => starting_offset = 0

\* How far the input has been used up.
Used == readpos - read_bytes + offset

\* The line so far has no newline, and what has been copied is its beginning.
ConsoleLine ==
  /\ pc \in {"scan", "newline", "refill"} =>
       /\ line_len <= Used
       /\ out = Stream!Bytes(Used - line_len, Used - line_len + Len(out))
  /\ pc \in {"scan", "refill"} => Stream!Unbroken(Used - line_len, Used)
  /\ pc = "newline" =>
       line_len > 0 /\ data[Used] = "nl" /\ Stream!Unbroken(Used - line_len, Used - 1)

ConsoleInv == InputInv /\ ConsoleTypes /\ ConsoleCalls /\ ConsoleLine

\* read_line_select: what is in the pipe are whole lines, and each is shorter
\* than the buffer.
FifoInv ==
  /\ InputInv
  /\ written = 0 \/ data[written] = "nl"
  /\ \A p \in 1 .. Len(data) - Count + 1 : \E q \in p .. p + Count - 1 : data[q] = "nl"
  /\ data_move \in 0 .. readpos /\ data_move < Count
  /\ pc \in {"call", "select"} /\ (pc = "call" => data_move = 0)
  /\ Stream!Unbroken(readpos - data_move, readpos)
  /\ pc = "call" => readpos = 0 \/ data[readpos] = "nl"


-----------------------------------------------------------------------------
(* Ranges of bytes.                                                        *)

LEMMA BytesAre ==
  ASSUME NEW a \in Nat, NEW b \in Nat, a <= b
  PROVE  /\ Stream!Bytes(a, b) \in Seq(Nat)
         /\ Len(Stream!Bytes(a, b)) = b - a
         /\ \A k \in 1 .. b - a : Stream!Bytes(a, b)[k] = a + k
         /\ a = b => Stream!Bytes(a, b) = <<>>
<1> DEFINE n == b - a
<1>1. n \in Nat
  OBVIOUS
<1>2. Stream!Bytes(a, b) = [k \in 1 .. n |-> a + k]
  BY DEF Stream!Bytes
<1> HIDE DEF n
<1>3. [k \in 1 .. n |-> a + k] \in Seq(Nat) /\ Len([k \in 1 .. n |-> a + k]) = n
  <2>1. \A k \in 1 .. n : a + k \in Nat
    BY <1>1
  <2>2. [k \in 1 .. n |-> a + k] \in [1 .. n -> Nat]
    BY <2>1
  <2> QED BY <1>1, <2>2, SeqDef, LenProperties
<1>4. a = b => Len(Stream!Bytes(a, b)) = 0
  BY <1>2, <1>3 DEF n
<1> QED BY <1>2, <1>3, <1>4, EmptySeq DEF n

LEMMA BytesJoin ==
  ASSUME NEW a \in Nat, NEW b \in Nat, NEW c \in Nat, a <= b, b <= c
  PROVE  Stream!Bytes(a, b) \o Stream!Bytes(b, c) = Stream!Bytes(a, c)
<1> DEFINE s == Stream!Bytes(a, b)
           t == Stream!Bytes(b, c)
           u == Stream!Bytes(a, c)
<1>1. /\ s \in Seq(Nat) /\ Len(s) = b - a /\ \A k \in 1 .. b - a : s[k] = a + k
      /\ t \in Seq(Nat) /\ Len(t) = c - b /\ \A k \in 1 .. c - b : t[k] = b + k
      /\ u \in Seq(Nat) /\ Len(u) = c - a /\ \A k \in 1 .. c - a : u[k] = a + k
  <2>1. s \in Seq(Nat) /\ Len(s) = b - a /\ \A k \in 1 .. b - a : s[k] = a + k
    BY BytesAre
  <2>2. t \in Seq(Nat) /\ Len(t) = c - b /\ \A k \in 1 .. c - b : t[k] = b + k
    BY BytesAre
  <2>3. u \in Seq(Nat) /\ Len(u) = c - a /\ \A k \in 1 .. c - a : u[k] = a + k
    <3>1. a <= c
      OBVIOUS
    <3> QED BY <3>1, BytesAre
  <2> QED BY <2>1, <2>2, <2>3
<1> HIDE DEF s, t, u
<1>2. /\ s \o t \in Seq(Nat) /\ Len(s \o t) = Len(s) + Len(t)
      /\ \A k \in 1 .. Len(s) + Len(t) :
           (s \o t)[k] = IF k <= Len(s) THEN s[k] ELSE t[k - Len(s)]
  BY <1>1, ConcatProperties
<1> DEFINE r == s \o t
<1>3. r \in Seq(Nat) /\ Len(r) = Len(u)
  BY <1>1, <1>2
<1>4. \A k \in 1 .. Len(u) : r[k] = u[k]
  <2>1. \A k \in 1 .. Len(s) + Len(t) : r[k] = IF k <= Len(s) THEN s[k] ELSE t[k - Len(s)]
    BY <1>2
  <2> HIDE DEF r
  <2> SUFFICES ASSUME NEW k \in 1 .. Len(u) PROVE r[k] = u[k]
    OBVIOUS
  <2>2. k \in 1 .. Len(s) + Len(t) /\ u[k] = a + k
    BY <1>1
  <2>3. CASE k <= b - a
    BY <1>1, <2>1, <2>2, <2>3
  <2>4. CASE k > b - a
    <3>1. k - (b - a) \in 1 .. c - b
      BY <1>1, <2>4
    <3>2. r[k] = b + (k - (b - a))
      BY <1>1, <2>1, <2>2, <2>4, <3>1
    <3> QED BY <2>2, <3>2
  <2> QED BY <2>3, <2>4
<1> HIDE DEF r
<1>5. r = u
  BY <1>1, <1>3, <1>4, SeqEqual
<1> QED BY <1>5 DEF r, s, t, u

\* One more byte that is no newline.
LEMMA UnbrokenGrows ==
  ASSUME NEW a \in Nat, NEW b \in Nat, a <= b
  PROVE  /\ Stream!Unbroken(a, b) /\ data[b + 1] # "nl" => Stream!Unbroken(a, b + 1)
         /\ Stream!Unbroken(a, a)
BY DEF Stream!Unbroken

-----------------------------------------------------------------------------
(* readline_tout.                                                          *)

\* What a call has used up, as the abstract stream sees it.
LEMMA ConsoleTaken ==
  ASSUME ConsoleInv
  PROVE  /\ offset # -1 => console!Taken = Used - line_len
         /\ offset = -1 => console!Taken = 0
         /\ console!Taken \in 0 .. readpos
         /\ pc \in {"scan", "newline", "refill"} => console!Taken = Used - line_len
<1>1. /\ readpos \in Nat /\ read_bytes \in 0 .. readpos /\ offset \in -1 .. read_bytes
      /\ line_len \in Nat
      /\ offset = -1 => pc \in {"call", "first"} /\ readpos = 0 /\ read_bytes = 0
      /\ pc \in {"call", "first", "stopped"} => line_len = 0
      /\ pc \in {"call", "first", "scan", "newline", "refill", "stopped"}
      /\ pc \in {"scan", "newline", "refill"} => line_len <= Used
  BY DEF ConsoleInv, InputInv, ConsoleTypes, ConsoleCalls, ConsoleLine
<1> QED BY <1>1 DEF console!Taken, console!Inner, Used

\* More is written, or the input closed.
LEMMA ConsoleWorld ==
  ASSUME ConsoleInv, console!Write \/ console!Close
  PROVE  /\ ConsoleInv' /\ console!Taken' = console!Taken
         /\ data' = data /\ result' = result
         /\ \/ ~ closed /\ written' \in written + 1 .. Len(data) /\ closed' = closed
            \/ closed' = ~ closed /\ written' = written
<1>1. /\ UNCHANGED <<data, readpos, read_bytes, offset, starting_offset, line_len, out, result, pc>>
      /\ \/ ~ closed /\ written' \in written + 1 .. Len(data) /\ closed' = closed
         \/ closed' = TRUE /\ ~ closed /\ written' = written
  BY DEF console!Write, console!Close, console!pair, console!locals
<1>2. Len(data) \in Nat
  BY LenProperties DEF ConsoleInv, InputInv
<1>3. InputInv'
  <2>1. written \in 0 .. Len(data) /\ readpos \in 0 .. written
    BY DEF ConsoleInv, InputInv
  <2>2. written' \in 0 .. Len(data) /\ readpos \in 0 .. written'
    BY <1>1, <1>2, <2>1
  <2> QED BY <1>1, <2>2 DEF ConsoleInv, InputInv
<1>4. ConsoleTypes' /\ ConsoleCalls' /\ ConsoleLine'
  BY <1>1 DEF ConsoleInv, ConsoleTypes, ConsoleCalls, ConsoleLine, Used, Stream!Unbroken, Stream!Bytes
<1>5. console!Taken' = console!Taken
  BY <1>1 DEF console!Taken, console!Inner
<1>6. closed \in BOOLEAN
  BY DEF ConsoleInv, InputInv
<1> QED BY <1>1, <1>3, <1>4, <1>5, <1>6 DEF ConsoleInv

\* A call starts where the last one ended.
LEMMA CallKeeps ==
  ASSUME ConsoleInv, console!Call
  PROVE  ConsoleInv' /\ console!Taken' = console!Taken
<1>1. /\ pc = "call" /\ line_len = 0 /\ offset \in -1 .. read_bytes /\ read_bytes \in 0 .. readpos
      /\ readpos \in Nat
      /\ out' = <<>> /\ starting_offset' = offset
      /\ pc' = IF offset = -1 THEN "first" ELSE "scan"
      /\ UNCHANGED <<data, written, closed, readpos, read_bytes, offset, line_len>>
  BY DEF console!Call, console!input, console!pair, ConsoleInv, InputInv, ConsoleTypes, ConsoleCalls
<1>2. InputInv'
  BY <1>1 DEF ConsoleInv, InputInv
<1>3. ConsoleTypes'
  BY <1>1, EmptySeq DEF ConsoleInv, ConsoleTypes
<1>4. ConsoleCalls'
  BY <1>1, EmptySeq DEF ConsoleInv, ConsoleCalls
<1>5. ConsoleLine'
  <2>1. pc' = "scan" => Used \in Nat /\ Used' = Used
    BY <1>1 DEF Used
  <2>2. pc' = "scan" => Stream!Bytes(Used, Used) = <<>> /\ Stream!Unbroken(Used, Used)
    BY <2>1, BytesAre, UnbrokenGrows
  <2>3. Stream!Unbroken(Used, Used)' <=> Stream!Unbroken(Used', Used')
    BY <1>1 DEF Stream!Unbroken
  <2>4. ASSUME pc' = "scan"
        PROVE  /\ line_len' <= Used' /\ out' = Stream!Bytes(Used', Used')
               /\ Used' - line_len' = Used' /\ Used' - line_len' + Len(out') = Used'
    BY <1>1, <2>1, <2>2, <2>4
  <2>5. pc' # "newline" /\ pc' # "refill"
    BY <1>1
  <2> QED BY <1>1, <2>1, <2>2, <2>3, <2>4, <2>5 DEF ConsoleLine, Stream!Unbroken, Stream!Bytes
<1>6. console!Taken' = console!Taken
  BY <1>1 DEF console!Taken, console!Inner
<1> QED BY <1>2, <1>3, <1>4, <1>5, <1>6 DEF ConsoleInv

\* What a read brings is behind what has been used up.
LEMMA ReadKeeps ==
  ASSUME ConsoleInv, console!FirstRead \/ console!RefillRead
  PROVE  ConsoleInv' /\ console!Taken' = console!Taken
<1>1. /\ pc \in {"first", "refill"} /\ pc' = "scan"
      /\ pc = "first" => offset = -1
      /\ pc = "refill" => offset = 0
      /\ offset' = 0 /\ starting_offset' = 0
      /\ UNCHANGED <<data, written, closed, line_len, out>>
      /\ \E n \in 0 .. BufferLen :
           readpos + n <= written /\ readpos' = readpos + n /\ read_bytes' = n
  BY DEF console!FirstRead, console!RefillRead, console!Read, console!input,
         ConsoleInv, ConsoleTypes, ConsoleCalls
<1>2. PICK n \in 0 .. BufferLen :
        readpos + n <= written /\ readpos' = readpos + n /\ read_bytes' = n
  BY <1>1
<1>3. /\ readpos \in 0 .. written /\ written \in Nat /\ read_bytes = 0 /\ n \in Nat /\ n <= BufferLen
      /\ line_len \in 0 .. Count /\ Len(out) = line_len /\ out \in Seq(Nat)
      /\ pc = "first" => readpos = 0 /\ line_len = 0 /\ out = <<>>
      /\ Len(data) \in Nat /\ written \in 0 .. Len(data)
  <2>1. Len(data) \in Nat
    BY LenProperties DEF ConsoleInv, InputInv
  <2> QED BY <1>1, <1>2, <2>1, LineReadersAssumption
        DEF ConsoleInv, InputInv, ConsoleTypes, ConsoleCalls
<1>4. readpos' \in 0 .. written /\ read_bytes' \in 0 .. readpos' /\ read_bytes' <= BufferLen
  BY <1>2, <1>3
<1>5. InputInv'
  BY <1>1, <1>3, <1>4 DEF ConsoleInv, InputInv
<1>6. ConsoleTypes'
  BY <1>1, <1>3, <1>4 DEF ConsoleInv, ConsoleTypes
<1>7. ConsoleCalls'
  BY <1>1, <1>3 DEF ConsoleCalls
<1>8. Used' = readpos
  BY <1>1, <1>2, <1>3 DEF Used
<1>9. line_len <= readpos /\ out = Stream!Bytes(readpos - line_len, readpos - line_len + Len(out))
      /\ Stream!Unbroken(readpos - line_len, readpos)
  <2>1. CASE pc = "refill"
    <3>1. Used = readpos
      BY <1>1, <1>3, <2>1 DEF Used
    <3> QED BY <2>1, <3>1 DEF ConsoleInv, ConsoleLine
  <2>2. CASE pc = "first"
    BY <1>3, <2>2, BytesAre, UnbrokenGrows
  <2> QED BY <1>1, <2>1, <2>2
<1>10. ConsoleLine'
  BY <1>1, <1>3, <1>8, <1>9 DEF ConsoleLine, Stream!Unbroken, Stream!Bytes
<1>11. console!Taken' = console!Taken
  BY <1>1, <1>2, <1>3 DEF console!Taken, console!Inner
<1> QED BY <1>5, <1>6, <1>7, <1>10, <1>11 DEF ConsoleInv

\* The next byte of the inner buffer.
LEMMA ScanKeeps ==
  ASSUME ConsoleInv, console!Scan
  PROVE  ConsoleInv' /\ console!Taken' = console!Taken
<1>1. /\ pc = "scan" /\ line_len < Count /\ offset < read_bytes
      /\ offset' = offset + 1 /\ line_len' = line_len + 1
      /\ pc' = IF data[Used + 1] = "nl" THEN "newline" ELSE "scan"
      /\ UNCHANGED <<data, written, closed, readpos, read_bytes, starting_offset, out>>
  <2>1. /\ readpos \in Nat /\ read_bytes \in 0 .. readpos /\ offset \in -1 .. read_bytes
    BY DEF ConsoleInv, InputInv, ConsoleTypes
  <2>2. console!Inner(offset + 1) = Used + 1
    BY <2>1 DEF console!Inner, Used
  <2> QED BY <2>2 DEF console!Scan, console!input
<1>2. /\ readpos \in Nat /\ read_bytes \in 0 .. readpos /\ line_len \in 0 .. Count
      /\ starting_offset \in 0 .. offset /\ offset \in 0 .. read_bytes
      /\ out \in Seq(Nat) /\ Len(out) \in Nat
      /\ Len(out) + (offset - starting_offset) = line_len
      /\ out # <<>> => starting_offset = 0
      /\ line_len <= Used
      /\ out = Stream!Bytes(Used - line_len, Used - line_len + Len(out))
      /\ Stream!Unbroken(Used - line_len, Used)
  <2>1. out \in Seq(Nat) /\ Len(out) \in Nat
    BY LenProperties DEF ConsoleInv, ConsoleTypes
  <2>2. offset # -1
    BY <1>1 DEF ConsoleInv, ConsoleCalls
  <2> QED BY <1>1, <2>1, <2>2 DEF ConsoleInv, InputInv, ConsoleTypes, ConsoleCalls, ConsoleLine
<1>3. /\ Used' = Used + 1 /\ Used \in Nat /\ line_len' <= Used' /\ Used' - line_len' = Used - line_len
      /\ Used - line_len \in Nat /\ Used - line_len <= Used /\ Used' - 1 = Used
  BY <1>1, <1>2 DEF Used
<1>4. InputInv'
  BY <1>1 DEF ConsoleInv, InputInv
<1>5. ConsoleTypes'
  BY <1>1, <1>2, LineReadersAssumption DEF ConsoleInv, ConsoleTypes
<1>6. ConsoleCalls'
  BY <1>1, <1>2 DEF ConsoleCalls
<1>7. pc' = "scan" => Stream!Unbroken(Used - line_len, Used + 1)
  BY <1>1, <1>2, <1>3, UnbrokenGrows
<1>8. ConsoleLine'
  <2>1. out' = Stream!Bytes(Used' - line_len', Used' - line_len' + Len(out'))
    BY <1>1, <1>2, <1>3
  <2>2. pc' = "newline" => line_len' > 0 /\ data[Used'] = "nl"
    BY <1>1, <1>2, <1>3
  <2> QED BY <1>1, <1>2, <1>3, <1>7, <2>1, <2>2 DEF ConsoleLine, Stream!Unbroken, Stream!Bytes
<1>9. console!Taken' = console!Taken
  BY <1>1, <1>2 DEF console!Taken, console!Inner
<1> QED BY <1>4, <1>5, <1>6, <1>8, <1>9 DEF ConsoleInv

\* The part of the line that is copied follows what was copied before.
LEMMA LineSoFar ==
  ASSUME ConsoleInv, pc \in {"scan", "newline"}
  PROVE  /\ out \o console!Chunk = Stream!Bytes(Used - line_len, Used)
         /\ Used - line_len \in Nat /\ Used \in Nat /\ Used - line_len <= Used
         /\ Used <= readpos /\ readpos <= written
<1>1. /\ readpos \in Nat /\ read_bytes \in 0 .. readpos /\ line_len \in 0 .. Count
      /\ starting_offset \in 0 .. offset /\ offset \in 0 .. read_bytes
      /\ readpos <= written
      /\ Len(out) \in Nat /\ Len(out) + (offset - starting_offset) = line_len
      /\ line_len <= Used
      /\ out = Stream!Bytes(Used - line_len, Used - line_len + Len(out))
  <2>1. out \in Seq(Nat) /\ Len(out) \in Nat
    BY LenProperties DEF ConsoleInv, ConsoleTypes
  <2>2. offset # -1
    BY DEF ConsoleInv, ConsoleCalls
  <2>3. written \in Nat
    BY LenProperties DEF ConsoleInv, InputInv
  <2> QED BY <2>1, <2>2, <2>3 DEF ConsoleInv, InputInv, ConsoleTypes, ConsoleCalls, ConsoleLine
<1> DEFINE a == Used - line_len
           b == Used - line_len + Len(out)
<1>2. a \in Nat /\ b \in Nat /\ Used \in Nat /\ a <= b /\ b <= Used /\ Used <= readpos
  BY <1>1, LineReadersAssumption DEF Used
<1>3. Used - b = offset - starting_offset /\ b = (readpos - read_bytes) + starting_offset
  BY <1>1, LineReadersAssumption DEF Used
<1>4. console!Chunk = Stream!Bytes(b, Used)
  <2>1. \A k \in 1 .. offset - starting_offset : console!Inner(starting_offset + k) = b + k
    BY <1>1, <1>3 DEF console!Inner
  <2> HIDE DEF b
  <2> QED BY <1>3, <2>1 DEF console!Chunk, Stream!Bytes
<1>5. Stream!Bytes(a, b) \o Stream!Bytes(b, Used) = Stream!Bytes(a, Used)
  <2> HIDE DEF a, b
  <2> QED BY <1>2, BytesJoin
<1> QED BY <1>1, <1>2, <1>4, <1>5

\* The inner buffer is used up before the line is over.
LEMMA ExhaustedKeeps ==
  ASSUME ConsoleInv, console!Exhausted
  PROVE  ConsoleInv' /\ console!Taken' = console!Taken
<1>1. /\ pc = "scan" /\ line_len < Count /\ offset >= read_bytes
      /\ out' = out \o console!Chunk /\ offset' = 0 /\ read_bytes' = 0 /\ pc' = "refill"
      /\ UNCHANGED <<data, written, closed, readpos, starting_offset, line_len>>
  BY DEF console!Exhausted, console!input
<1>2. /\ out' = Stream!Bytes(Used - line_len, Used)
      /\ Used - line_len \in Nat /\ Used \in Nat /\ Used - line_len <= Used
  BY <1>1, LineSoFar
<1>3. /\ readpos \in Nat /\ read_bytes \in 0 .. readpos /\ offset \in -1 .. read_bytes
      /\ line_len \in 0 .. Count /\ starting_offset \in Int
      /\ line_len <= Used /\ Stream!Unbroken(Used - line_len, Used)
  BY <1>1 DEF ConsoleInv, InputInv, ConsoleTypes, ConsoleLine
<1>4. Used = readpos /\ Used' = readpos
  BY <1>1, <1>3 DEF Used
<1>5. out' \in Seq(Nat) /\ Len(out') = line_len
  <2>1. Used - (Used - line_len) = line_len
    BY <1>2, <1>3, LineReadersAssumption
  <2> QED BY <1>2, <2>1, BytesAre
<1>6. InputInv'
  BY <1>1 DEF ConsoleInv, InputInv
<1>7. ConsoleTypes'
  BY <1>1, <1>3, <1>5, LineReadersAssumption DEF ConsoleTypes
<1>8. ConsoleCalls'
  BY <1>1, <1>5 DEF ConsoleCalls
<1>9. ConsoleLine'
  <2>1. Used' - line_len' + Len(out') = Used /\ Used' - line_len' = Used - line_len
    BY <1>1, <1>2, <1>3, <1>4, <1>5, LineReadersAssumption
  <2>2. out' = Stream!Bytes(Used' - line_len', Used' - line_len' + Len(out'))
    BY <1>2, <2>1
  <2> QED BY <1>1, <1>3, <1>4, <2>1, <2>2 DEF ConsoleLine, Stream!Unbroken, Stream!Bytes
<1>10. console!Taken' = console!Taken
  <2>1. offset # -1
    BY <1>1 DEF ConsoleInv, ConsoleCalls
  <2> QED BY <1>1, <1>3, <2>1 DEF console!Taken, console!Inner
<1> QED BY <1>6, <1>7, <1>8, <1>9, <1>10 DEF ConsoleInv

\* The statements of readline_tout that return.
ConsoleReturn ==
  \/ console!FirstTimeout \/ console!RefillTimeout \/ console!RefillEnd
  \/ console!TooLong \/ console!EndLine

\* A return forgets the line and leaves the inner buffer to the next call.
LEMMA ReturnKeeps ==
  ASSUME ConsoleInv, ConsoleReturn
  PROVE  /\ ConsoleInv'
         /\ UNCHANGED <<data, written, closed>>
         /\ console!Taken' = IF offset = -1 THEN 0 ELSE Used
<1>1. /\ UNCHANGED <<data, written, closed, readpos, read_bytes, offset, starting_offset>>
      /\ line_len' = 0 /\ pc' \in {"call", "stopped"} /\ (pc = "first" => pc' = "call")
      /\ out' = out \/ (pc = "newline" /\ out' = out \o console!Chunk)
      /\ pc \in {"first", "refill", "scan", "newline"}
  BY DEF ConsoleReturn, console!FirstTimeout, console!RefillTimeout, console!RefillEnd,
         console!TooLong, console!EndLine, console!Return, console!input, console!pair
<1>2. out' \in Seq(Nat)
  <2>1. CASE out' = out
    BY <2>1 DEF ConsoleInv, ConsoleTypes
  <2>2. CASE pc = "newline" /\ out' = out \o console!Chunk
    BY <2>2, LineSoFar, BytesAre
  <2> QED BY <1>1, <2>1, <2>2
<1>3. InputInv'
  BY <1>1 DEF ConsoleInv, InputInv
<1>4. ConsoleTypes'
  BY <1>1, <1>2, LineReadersAssumption DEF ConsoleInv, ConsoleTypes
<1>5. ConsoleCalls'
  BY <1>1 DEF ConsoleInv, ConsoleCalls
<1>6. ConsoleLine'
  BY <1>1 DEF ConsoleLine
<1>7. console!Taken' = IF offset = -1 THEN 0 ELSE Used
  <2>1. readpos \in Nat /\ read_bytes \in 0 .. readpos /\ offset \in -1 .. read_bytes
    BY DEF ConsoleInv, InputInv, ConsoleTypes
  <2> QED BY <1>1, <2>1 DEF console!Taken, console!Inner, Used
<1> QED BY <1>1, <1>3, <1>4, <1>5, <1>6, <1>7 DEF ConsoleInv

\* And what it hands out is a result that the stream allows.
LEMMA ReturnHands ==
  ASSUME ConsoleInv, ConsoleReturn, reader = "readline_tout", reader' = reader
  PROVE  Stream!Next
<1> DEFINE a == console!Taken
<1>1. Taken = a /\ Taken' = console!Taken'
  BY DEF Taken
<1>2. /\ UNCHANGED <<data, written, closed>>
      /\ Taken' = IF offset = -1 THEN 0 ELSE Used
  BY <1>1, ReturnKeeps
<1>3. /\ readpos \in Nat /\ readpos <= written /\ written \in Nat /\ line_len \in 0 .. Count
      /\ Used <= readpos /\ a \in 0 .. readpos /\ (offset # -1 => Used \in Nat)
  <2>1. written \in Nat /\ readpos \in Nat /\ readpos <= written
    BY LenProperties DEF ConsoleInv, InputInv
  <2>2. read_bytes \in 0 .. readpos /\ offset \in -1 .. read_bytes /\ line_len \in 0 .. Count
    BY DEF ConsoleInv, ConsoleTypes
  <2>3. Used <= readpos /\ (offset # -1 => Used \in Nat)
    BY <2>1, <2>2 DEF Used
  <2> QED BY <2>1, <2>2, <2>3, ConsoleTaken
<1>4. /\ pc \in {"scan", "newline", "refill"} => offset # -1 /\ a = Used - line_len
      /\ pc = "first" => offset = -1 /\ a = 0
  BY ConsoleTaken DEF ConsoleInv, ConsoleCalls
<1>5. Count \in Nat \ {0}
  BY LineReadersAssumption
<1>6. ASSUME pc \in {"scan", "newline", "refill"}
      PROVE  /\ out = Stream!Bytes(a, a + Len(out)) /\ Len(out) \in 0 .. line_len
             /\ pc # "newline" => Stream!Unbroken(a, Used)
             /\ pc = "newline" => /\ line_len > 0 /\ data[Used] = "nl"
                                  /\ Stream!Unbroken(a, Used - 1)
  <2>1. Len(out) \in Nat
    BY LenProperties DEF ConsoleInv, ConsoleTypes
  <2>2. Len(out) <= line_len
    BY <1>3, <1>6, <2>1 DEF ConsoleInv, ConsoleTypes, ConsoleCalls
  <2> QED BY <1>3, <1>4, <1>6, <2>1, <2>2 DEF ConsoleInv, ConsoleLine
<1> HIDE DEF a
<1>7. CASE console!FirstTimeout
  <2>1. pc = "first" /\ result' = [kind |-> "timeout", text |-> <<>>]
    BY <1>7 DEF console!FirstTimeout, console!Return
  <2>2. Stream!Unbroken(0, 0)
    BY UnbrokenGrows
  <2>3. Stream!TimedOut
    BY <1>1, <1>2, <1>3, <1>4, <2>1, <2>2 DEF Stream!TimedOut, Stream!Hand
  <2> QED BY <1>2, <2>3 DEF Stream!Next
<1>8. CASE console!RefillTimeout
  <2>1. pc = "refill" /\ result' = [kind |-> "timeout", text |-> <<>>]
    BY <1>8 DEF console!RefillTimeout, console!Return
  <2>2. Used \in a .. written /\ Stream!Unbroken(a, Used) /\ Taken' = Used
    BY <1>2, <1>3, <1>4, <1>5, <1>6, <2>1
  <2>3. Stream!TimedOut
    BY <1>1, <1>2, <2>1, <2>2 DEF Stream!TimedOut, Stream!Hand
  <2> QED BY <1>2, <2>3 DEF Stream!Next
<1>9. CASE console!RefillEnd
  <2>1. /\ pc = "refill" /\ readpos = written /\ closed
        /\ line_len > 0 => result' = [kind |-> "part", text |-> out]
        /\ ~ (line_len > 0) => result' = [kind |-> "end", text |-> <<>>]
    BY <1>9 DEF console!RefillEnd, console!Return
  <2>2. /\ Used = written /\ Taken' = written /\ line_len < Count /\ Len(out) = line_len
        /\ a = written - line_len
    <3>1. offset = 0 /\ read_bytes = 0 /\ line_len < Count /\ Len(out) = line_len
      BY <2>1 DEF ConsoleInv, ConsoleCalls
    <3>2. Used = written
      BY <1>3, <2>1, <3>1 DEF Used
    <3> QED BY <1>2, <1>4, <2>1, <3>1, <3>2
  <2>3. CASE line_len > 0
    <3>1. a < written /\ written - a < Count /\ a + Len(out) = written
      BY <1>3, <1>5, <2>2, <2>3
    <3>2. Stream!Unbroken(a, written) /\ out = Stream!Bytes(a, written)
      BY <1>6, <2>1, <2>2, <3>1
    <3>3. Stream!Rest
      BY <1>1, <1>2, <2>1, <2>2, <2>3, <3>1, <3>2 DEF Stream!Rest, Stream!Hand
    <3> QED BY <1>2, <3>3 DEF Stream!Next
  <2>4. CASE ~ (line_len > 0)
    <3>1. a = written
      BY <1>3, <1>5, <2>2, <2>4
    <3>2. Stream!End
      BY <1>1, <1>2, <2>1, <2>2, <2>4, <3>1 DEF Stream!End, Stream!Hand
    <3> QED BY <1>2, <3>2 DEF Stream!Next
  <2> QED BY <2>3, <2>4
<1>10. CASE console!TooLong
  <2>1. pc \in {"scan", "newline"} /\ line_len >= Count /\ result' = [kind |-> "part", text |-> out]
    BY <1>10 DEF console!TooLong, console!Return
  <2>2. /\ line_len = Count /\ a + Count = Used /\ Taken' = a + Count /\ a + Count <= written
        /\ Len(out) \in 0 .. Count /\ a + Count - 1 = Used - 1
    <3>1. line_len = Count
      BY <1>3, <1>5, <2>1
    <3>2. Len(out) \in 0 .. line_len /\ offset # -1 /\ a = Used - line_len /\ Used \in Nat
      BY <1>3, <1>4, <1>6, <2>1
    <3>3. a + Count = Used /\ a + Count - 1 = Used - 1 /\ Used <= written
      BY <1>3, <1>5, <3>1, <3>2
    <3> QED BY <1>2, <3>1, <3>2, <3>3
  <2>3. Stream!Unbroken(a, a + Count - 1)
    <3>1. CASE pc = "newline"
      BY <1>6, <2>2, <3>1
    <3>2. CASE pc = "scan"
      <4>1. Stream!Unbroken(a, Used)
        BY <1>6, <3>2
      <4>2. a + 1 .. a + Count - 1 \subseteq a + 1 .. Used
        BY <1>3, <1>5, <2>2
      <4> QED BY <4>1, <4>2 DEF Stream!Unbroken
    <3> QED BY <2>1, <3>1, <3>2
  <2>4. out = Stream!Bytes(a, a + Len(out))
    BY <1>6, <2>1
  <2>5. Stream!LongPart
    BY <1>1, <1>2, <2>1, <2>2, <2>3, <2>4 DEF Stream!LongPart, Stream!Hand
  <2> QED BY <1>2, <2>5 DEF Stream!Next
<1>11. CASE console!EndLine
  <2>1. /\ pc = "newline" /\ line_len < Count
        /\ result' = [kind |-> "line", text |-> out \o console!Chunk]
    BY <1>11 DEF console!EndLine, console!Return
  <2>2. out \o console!Chunk = Stream!Bytes(a, Used)
    BY <1>4, <2>1, LineSoFar
  <2>3. /\ Used \in a + 1 .. written /\ Used - a <= Count /\ data[Used] = "nl"
        /\ Stream!Unbroken(a, Used - 1) /\ Taken' = Used
    <3>1. line_len > 0 /\ data[Used] = "nl" /\ Stream!Unbroken(a, Used - 1)
      BY <1>6, <2>1
    <3>2. /\ offset # -1 /\ a = Used - line_len /\ Used \in Nat /\ Used <= written
          /\ line_len \in 0 .. Count /\ Taken' = Used
      BY <1>2, <1>3, <1>4, <1>5, <2>1
    <3>3. Used \in a + 1 .. written /\ Used - a <= Count
      BY <1>3, <1>5, <2>1, <3>1, <3>2
    <3> QED BY <3>1, <3>2, <3>3
  <2>4. Stream!Line
    BY <1>1, <1>2, <2>1, <2>2, <2>3 DEF Stream!Line, Stream!Hand
  <2> QED BY <1>2, <2>4 DEF Stream!Next
<1> QED BY <1>7, <1>8, <1>9, <1>10, <1>11 DEF ConsoleReturn

-----------------------------------------------------------------------------
(* read_line_select.                                                       *)

\* Producers write whole lines, and come and go.
LEMMA FifoWorld ==
  ASSUME FifoInv, fifo!WriteLine \/ fifo!OpenOrClose
  PROVE  /\ FifoInv' /\ fifo!Taken' = fifo!Taken
         /\ data' = data /\ result' = result
         /\ \/ ~ closed /\ written' \in written + 1 .. Len(data) /\ closed' = closed
            \/ closed' = ~ closed /\ written' = written
<1>1. /\ UNCHANGED <<data, readpos, data_move, result, pc>>
      /\ \/ /\ ~ closed /\ written' \in 1 .. Len(data) /\ written' > written /\ data[written'] = "nl"
            /\ closed' = closed
         \/ closed' = ~ closed /\ written' = written
  BY DEF fifo!WriteLine, fifo!OpenOrClose, fifo!Newlines
<1>2. Len(data) \in Nat /\ written \in 0 .. Len(data) /\ readpos \in 0 .. written /\ closed \in BOOLEAN
  BY LenProperties DEF FifoInv, InputInv
<1>3. /\ written' \in 0 .. Len(data) /\ readpos \in 0 .. written' /\ closed' \in BOOLEAN
      /\ \/ ~ closed /\ written' \in written + 1 .. Len(data) /\ closed' = closed
         \/ closed' = ~ closed /\ written' = written
  <2>1. CASE /\ ~ closed /\ written' \in 1 .. Len(data) /\ written' > written
             /\ closed' = closed
    BY <1>2, <2>1
  <2>2. CASE closed' = ~ closed /\ written' = written
    BY <1>2, <2>2
  <2> QED BY <1>1, <2>1, <2>2
<1>4. written' = 0 \/ data[written'] = "nl"
  BY <1>1, <1>2 DEF FifoInv
<1>5. InputInv'
  BY <1>1, <1>3 DEF FifoInv, InputInv
<1>6. FifoInv'
  BY <1>1, <1>4, <1>5 DEF FifoInv, Stream!Unbroken
<1>7. fifo!Taken' = fifo!Taken
  BY <1>1 DEF fifo!Taken
<1> QED BY <1>1, <1>3, <1>6, <1>7

\* What the consumer has read of a line is shorter than its buffer, since the
\* line is; so it is never full.
LEMMA FifoNeverFull ==
  ASSUME FifoInv, data_move + 1 = Count, readpos < written, data[readpos + 1] # "nl"
  PROVE  FALSE
<1> DEFINE a == readpos - data_move
<1>1. /\ readpos \in Nat /\ written \in Nat /\ Len(data) \in Nat /\ written <= Len(data)
      /\ data_move \in 0 .. readpos /\ Stream!Unbroken(a, readpos)
      /\ \A p \in 1 .. Len(data) - Count + 1 : \E q \in p .. p + Count - 1 : data[q] = "nl"
  BY LenProperties DEF FifoInv, InputInv
<1>2. Count \in Nat /\ a \in Nat /\ a + Count = readpos + 1
  BY <1>1, LineReadersAssumption
<1> HIDE DEF a
<1>3. a + 1 \in 1 .. Len(data) - Count + 1
  BY <1>1, <1>2
<1>4. PICK q \in a + 1 .. (a + 1) + Count - 1 : data[q] = "nl"
  BY <1>1, <1>3
<1>5. q \in a + 1 .. readpos \/ q = readpos + 1
  BY <1>1, <1>2, <1>4
<1> QED BY <1>1, <1>4, <1>5 DEF Stream!Unbroken

\* Each step of the consumer takes nothing, or hands out what the stream allows.
LEMMA FifoReader ==
  ASSUME FifoInv, fifo!Reader, reader = "read_line_select", reader' = reader
  PROVE  /\ FifoInv'
         /\ Stream!Next \/ UNCHANGED <<data, written, closed, Taken, result>>
<1> DEFINE a == readpos - data_move
<1>1. /\ readpos \in Nat /\ written \in Nat /\ Len(data) \in Nat /\ written <= Len(data)
      /\ readpos <= written /\ data_move \in 0 .. readpos /\ data_move < Count /\ Count \in Nat \ {0}
      /\ Stream!Unbroken(a, readpos) /\ InputInv
      /\ written = 0 \/ data[written] = "nl"
      /\ \A p \in 1 .. Len(data) - Count + 1 : \E q \in p .. p + Count - 1 : data[q] = "nl"
  BY LenProperties, LineReadersAssumption DEF FifoInv, InputInv
<1>2. UNCHANGED <<data, written, closed>>
  BY DEF fifo!Reader, fifo!Call, fifo!Timeout, fifo!Full, fifo!ReadByte, fifo!ReadEnd, fifo!input
<1>3. Taken = a /\ Taken' = readpos' - data_move' /\ a \in Nat /\ a <= readpos
  BY <1>1 DEF Taken, fifo!Taken
<1>4. fifo!Buffer = Stream!Bytes(a, readpos)
  <2>1. readpos - a = data_move
    BY <1>1
  <2> QED BY <2>1 DEF fifo!Buffer, Stream!Bytes
<1>5. \* after a result that takes all that has been read
      ASSUME readpos' = readpos, data_move' = 0, pc' = "call", readpos = written
      PROVE  FifoInv' /\ Taken' = readpos
  <2>1. Taken' = readpos
    BY <1>1, <1>3, <1>5
  <2>2. InputInv'
    BY <1>1, <1>2, <1>5 DEF InputInv
  <2>3. Stream!Unbroken(readpos - 0, readpos)
    BY <1>1, UnbrokenGrows
  <2> QED BY <1>1, <1>2, <1>5, <2>1, <2>2, <2>3 DEF FifoInv, Stream!Unbroken
<1> HIDE DEF a
<1>6. CASE fifo!Call
  <2>1. pc' = "select" /\ UNCHANGED <<readpos, data_move, result>>
    BY <1>6 DEF fifo!Call
  <2>2. InputInv'
    BY <1>1, <1>2, <2>1 DEF InputInv
  <2>3. FifoInv'
    BY <1>2, <2>1, <2>2 DEF FifoInv, Stream!Unbroken
  <2>4. Taken' = Taken
    BY <1>3, <2>1 DEF a
  <2> QED BY <1>2, <2>1, <2>3, <2>4
<1>7. CASE fifo!Timeout
  <2>1. /\ result' = [kind |-> "timeout", text |-> <<>>] /\ readpos = written
        /\ readpos' = readpos /\ data_move' = 0 /\ pc' = "call"
    BY <1>7 DEF fifo!Timeout, fifo!Return, fifo!Silent
  <2>2. FifoInv' /\ Taken' = readpos
    BY <1>5, <2>1
  <2>3. Stream!TimedOut
    <3>1. readpos \in a .. written /\ Stream!Unbroken(a, readpos)
      BY <1>1, <1>3
    <3> QED BY <1>2, <1>3, <2>1, <2>2, <3>1 DEF Stream!TimedOut, Stream!Hand
  <2> QED BY <1>2, <2>2, <2>3 DEF Stream!Next
<1>8. CASE fifo!Full
  BY <1>1, <1>8 DEF fifo!Full
<1>9. CASE fifo!ReadEnd
  <2>1. /\ readpos = written /\ closed /\ readpos' = readpos /\ data_move' = 0 /\ pc' = "call"
        /\ result' = IF data_move = 0 THEN [kind |-> "end", text |-> <<>>]
                     ELSE [kind |-> "part", text |-> fifo!Buffer]
    BY <1>9 DEF fifo!ReadEnd, fifo!Return
  <2>2. FifoInv' /\ Taken' = readpos
    BY <1>5, <2>1
  <2>3. CASE data_move = 0
    <3>1. a = written
      BY <1>1, <2>1, <2>3 DEF a
    <3>2. Stream!End
      BY <1>2, <1>3, <2>1, <2>2, <2>3, <3>1 DEF Stream!End, Stream!Hand
    <3> QED BY <1>2, <2>2, <3>2 DEF Stream!Next
  <2>4. CASE data_move # 0
    <3>1. a < written /\ written - a < Count
      BY <1>1, <2>1, <2>4 DEF a
    <3>2. Stream!Rest
      BY <1>1, <1>2, <1>3, <1>4, <2>1, <2>2, <2>4, <3>1 DEF Stream!Rest, Stream!Hand
    <3> QED BY <1>2, <2>2, <3>2 DEF Stream!Next
  <2> QED BY <2>3, <2>4
<1>10. CASE fifo!ReadByte
  <2>1. readpos < written /\ readpos' = readpos + 1
    BY <1>10 DEF fifo!ReadByte
  <2>2. InputInv'
    BY <1>1, <1>2, <2>1 DEF InputInv
  <2>3. CASE data[readpos + 1] = "nl"
    <3>1. /\ result' = [kind |-> "line", text |-> Append(fifo!Buffer, readpos + 1)]
          /\ data_move' = 0 /\ pc' = "call"
      BY <1>10, <2>1, <2>3 DEF fifo!ReadByte, fifo!Return
    <3>2. Append(fifo!Buffer, readpos + 1) = Stream!Bytes(a, readpos + 1)
      <4> DEFINE s == Stream!Bytes(a, readpos)
                 r == Stream!Bytes(a, readpos + 1)
      <4>1. /\ s \in Seq(Nat) /\ Len(s) = readpos - a /\ \A k \in 1 .. readpos - a : s[k] = a + k
        BY <1>1, <1>3, BytesAre
      <4>2. /\ r \in Seq(Nat) /\ Len(r) = (readpos + 1) - a
            /\ \A k \in 1 .. (readpos + 1) - a : r[k] = a + k
        <5> DEFINE b == readpos + 1
        <5>1. b \in Nat /\ a <= b /\ a \in Nat
          BY <1>1, <1>3
        <5>2. r = Stream!Bytes(a, b)
          OBVIOUS
        <5> HIDE DEF b, r
        <5>3. r \in Seq(Nat) /\ Len(r) = b - a /\ \A k \in 1 .. b - a : r[k] = a + k
          BY <5>1, <5>2, BytesAre
        <5>4. b - a = (readpos + 1) - a
          BY DEF b
        <5> QED BY <5>3, <5>4
      <4> HIDE DEF s, r
      <4>3. Len(r) = Len(s) + 1 /\ r[Len(r)] = readpos + 1 /\ \A k \in 1 .. Len(s) : r[k] = s[k]
        BY <1>1, <1>3, <4>1, <4>2
      <4>4. r = Append(s, readpos + 1)
        BY <4>1, <4>2, <4>3, AppendIs
      <4> QED BY <1>4, <4>4 DEF s, r
    <3>3. /\ readpos + 1 \in a + 1 .. written /\ (readpos + 1) - a <= Count
          /\ (readpos + 1) - 1 = readpos /\ Taken' = readpos + 1
      <4>1. readpos - a = data_move
        BY <1>1 DEF a
      <4> QED BY <1>1, <1>3, <2>1, <3>1, <4>1
    <3>4. Stream!Line
      BY <1>1, <1>2, <1>3, <2>3, <3>1, <3>2, <3>3 DEF Stream!Line, Stream!Hand
    <3>5. Stream!Unbroken(readpos' - data_move', readpos')
      <4>1. readpos' \in Nat /\ readpos' - data_move' = readpos'
        BY <1>1, <2>1, <3>1
      <4> QED BY <4>1, UnbrokenGrows
    <3>6. FifoInv'
      BY <1>1, <1>2, <2>1, <2>2, <2>3, <3>1, <3>5 DEF FifoInv, Stream!Unbroken
    <3> QED BY <1>2, <3>4, <3>6 DEF Stream!Next
  <2>4. CASE data[readpos + 1] # "nl"
    <3>1. data_move' = data_move + 1 /\ UNCHANGED <<result, pc>> /\ pc = "select"
      BY <1>10, <2>1, <2>4 DEF fifo!ReadByte
    <3>2. data_move + 1 < Count
      BY <1>1, <2>1, <2>4, FifoNeverFull
    <3>3. readpos' - data_move' = a /\ Taken' = Taken
      BY <1>1, <1>3, <2>1, <3>1 DEF a
    <3>4. Stream!Unbroken(a, readpos + 1)
      BY <1>1, <1>3, <2>4, UnbrokenGrows
    <3>5. data_move' \in 0 .. readpos'
      BY <1>1, <2>1, <3>1
    <3>6. FifoInv'
      BY <1>1, <1>2, <2>1, <2>2, <3>1, <3>2, <3>3, <3>4, <3>5 DEF FifoInv, Stream!Unbroken
    <3> QED BY <1>2, <3>1, <3>3, <3>6
  <2> QED BY <2>3, <2>4
<1> QED BY <1>6, <1>7, <1>8, <1>9, <1>10 DEF fifo!Reader

-----------------------------------------------------------------------------
(* Both programs.                                                          *)

IInv ==
  \/ reader = "readline_tout" /\ ConsoleInv
  \/ reader = "read_line_select" /\ FifoInv

\* Nothing has been written yet.
LEMMA Initial ==
  ASSUME Init
  PROVE  IInv /\ Stream!Init
<1>1. /\ written = 0 /\ closed = FALSE /\ readpos = 0 /\ pc = "call"
      /\ read_bytes = 0 /\ offset = -1 /\ starting_offset = 0 /\ line_len = 0 /\ out = <<>>
      /\ data_move = 0 /\ result = [kind |-> "none", text |-> <<>>]
      /\ reader \in {"readline_tout", "read_line_select"}
  BY DEF Init, console!Init, fifo!Init
<1>2. data \in UNION {[1 .. n -> {"x", "nl"}] : n \in 0 .. MaxLen}
  BY DEF Init, Whole
<1>3. data \in Seq({"x", "nl"})
  <2>1. PICK n \in 0 .. MaxLen : data \in [1 .. n -> {"x", "nl"}]
    BY <1>2
  <2>2. n \in Nat
    OBVIOUS
  <2> QED BY <2>1, <2>2, SeqDef
<1>4. InputInv
  <2>1. Len(data) \in Nat
    BY <1>3, LenProperties
  <2>2. written \in 0 .. Len(data) /\ readpos \in 0 .. written
    BY ONLY <1>1, <2>1
  <2>3. closed \in BOOLEAN
    BY <1>1, Zenon
  <2> QED BY <1>1, <1>3, <2>1, <2>2, <2>3 DEF InputInv
<1>5. Count \in Nat \ {0} /\ BufferLen \in Nat \ {0}
  BY LineReadersAssumption
<1>6. CASE reader = "readline_tout"
  <2>1. ConsoleTypes /\ ConsoleCalls /\ ConsoleLine
    BY <1>1, <1>5, EmptySeq DEF ConsoleTypes, ConsoleCalls, ConsoleLine
  <2>2. Taken = 0
    BY <1>1, <1>6 DEF Taken, console!Taken
  <2> QED BY <1>1, <1>4, <1>6, <2>1, <2>2 DEF IInv, ConsoleInv, Stream!Init, Stream!Nothing
<1>7. CASE reader = "read_line_select"
  <2>1. data \in Whole
    BY <1>7 DEF Init
  <2>2. \A p \in 1 .. Len(data) - Count + 1 : \E q \in p .. p + Count - 1 : data[q] = "nl"
    BY <2>1 DEF Whole
  <2>3. Stream!Unbroken(readpos - data_move, readpos)
    BY <1>1 DEF Stream!Unbroken
  <2>4. Taken = 0
    BY <1>1, <1>7 DEF Taken, fifo!Taken
  <2> QED BY <1>1, <1>4, <1>5, <1>7, <2>2, <2>3, <2>4 DEF IInv, FifoInv, Stream!Init, Stream!Nothing
<1> QED BY <1>1, <1>6, <1>7

\* Every step keeps the invariant, and is a step of the stream or none.
LEMMA Step ==
  ASSUME IInv, [Next]_vars
  PROVE  IInv' /\ (Stream!Next \/ UNCHANGED <<data, written, closed, Taken, result>>)
<1>1. CASE reader = "readline_tout" /\ console!Next /\ reader' = reader
  <2>0. ConsoleInv
    BY <1>1 DEF IInv
  <2>1. Taken = console!Taken /\ Taken' = console!Taken'
    BY <1>1 DEF Taken
  <2>2. CASE console!Write \/ console!Close
    <3>1. /\ ConsoleInv' /\ Taken' = Taken /\ data' = data /\ result' = result
          /\ \/ ~ closed /\ written' \in written + 1 .. Len(data) /\ closed' = closed
             \/ closed' = ~ closed /\ written' = written
      BY <2>0, <2>1, <2>2, ConsoleWorld
    <3>2. Stream!Next
      BY <3>1 DEF Stream!Next, Stream!Write, Stream!OpenOrClose
    <3> QED BY <1>1, <3>1, <3>2 DEF IInv
  <2>3. CASE ConsoleReturn
    <3>1. ConsoleInv' /\ Stream!Next
      BY <1>1, <2>0, <2>3, ReturnKeeps, ReturnHands
    <3> QED BY <1>1, <3>1 DEF IInv
  <2>4. CASE console!Call \/ console!FirstRead \/ console!RefillRead \/ console!Scan \/ console!Exhausted
    <3>1. ConsoleInv' /\ console!Taken' = console!Taken
      BY <2>0, <2>4, CallKeeps, ReadKeeps, ScanKeeps, ExhaustedKeeps
    <3>2. UNCHANGED <<data, written, closed, result>>
      BY <2>4 DEF console!Call, console!FirstRead, console!RefillRead, console!Scan,
                  console!Exhausted, console!input
    <3> QED BY <1>1, <2>1, <3>1, <3>2 DEF IInv
  <2> QED BY <1>1, <2>2, <2>3, <2>4 DEF console!Next, console!Reader, ConsoleReturn
<1>2. CASE reader = "read_line_select" /\ fifo!Next /\ reader' = reader
  <2>0. FifoInv
    BY <1>2 DEF IInv
  <2>1. Taken = fifo!Taken /\ Taken' = fifo!Taken'
    BY <1>2 DEF Taken
  <2>2. CASE fifo!WriteLine \/ fifo!OpenOrClose
    <3>1. /\ FifoInv' /\ Taken' = Taken /\ data' = data /\ result' = result
          /\ \/ ~ closed /\ written' \in written + 1 .. Len(data) /\ closed' = closed
             \/ closed' = ~ closed /\ written' = written
      BY <2>0, <2>1, <2>2, FifoWorld
    <3>2. Stream!Next
      BY <3>1 DEF Stream!Next, Stream!Write, Stream!OpenOrClose
    <3> QED BY <1>2, <3>1, <3>2 DEF IInv
  <2>3. CASE fifo!Reader
    <3>1. FifoInv' /\ (Stream!Next \/ UNCHANGED <<data, written, closed, Taken, result>>)
      BY <1>2, <2>0, <2>3, FifoReader
    <3> QED BY <1>2, <3>1 DEF IInv
  <2> QED BY <1>2, <2>2, <2>3 DEF fifo!Next
<1>3. CASE UNCHANGED vars
  <2>1. UNCHANGED <<reader, data, written, closed, readpos, result, pc,
                    read_bytes, offset, starting_offset, line_len, out, data_move>>
    BY <1>3 DEF vars, common, consolevars
  <2>2. Taken' = Taken
    BY <2>1 DEF Taken, console!Taken, console!Inner, fifo!Taken
  <2>3. ConsoleInv => ConsoleInv'
    BY <2>1 DEF ConsoleInv, InputInv, ConsoleTypes, ConsoleCalls, ConsoleLine, Used,
                Stream!Unbroken, Stream!Bytes
  <2>4. FifoInv => FifoInv'
    BY <2>1 DEF FifoInv, InputInv, Stream!Unbroken
  <2> QED BY <2>1, <2>2, <2>3, <2>4 DEF IInv
<1> QED BY <1>1, <1>2, <1>3 DEF Next

\* The inductive invariant holds of every behaviour.
THEOREM Invariance == Spec => []IInv
<1>1. Init => IInv
  BY Initial
<1>2. IInv /\ [Next]_vars => IInv'
  BY Step
<1> QED BY <1>1, <1>2, PTL DEF Spec

\* However the input is cut into reads (readline/main.cpp:31, readline_tout, and
\* readline/producer.cpp, read_line_select), what is handed out are the lines as
\* they were written, in order and each once, for inputs of any length and for
\* buffers of any size: the two programs implement the stream of lines.
THEOREM Implementation == Spec => ImplementsLines
<1>1. Init => Stream!Init
  BY Initial
<1>2. IInv /\ [Next]_vars => [Stream!Next]_<<data, written, closed, Taken, result>>
  BY Step
<1> QED BY <1>1, <1>2, Invariance, PTL DEF Spec, ImplementsLines, Stream!Spec

\* The 0 behind a line (readline/main.cpp, out_buffer) lies behind all of it, and
\* inside the caller's buffer but for the one case that TerminatorPlaced names.
THEOREM Termination == Spec => []TerminatorPlaced
<1>1. IInv => TerminatorPlaced
  <2> SUFFICES ASSUME IInv, reader = "readline_tout", pc = "newline", line_len < Count
               PROVE  /\ console!Terminator >= line_len /\ console!Terminator <= Count
                      /\ console!Terminator = Count <=>
                           out = <<>> /\ starting_offset > 0 /\ offset = Count
    BY DEF TerminatorPlaced
  <2>1. ConsoleInv
    BY DEF IInv
  <2>2. /\ offset \in Nat /\ offset <= BufferLen /\ starting_offset \in 0 .. offset
        /\ Len(out) + (offset - starting_offset) = line_len
        /\ out # <<>> => starting_offset = 0
        /\ line_len \in Nat
    <3>1. read_bytes \in 0 .. readpos /\ read_bytes <= BufferLen /\ offset \in -1 .. read_bytes
          /\ offset # -1 /\ readpos \in Nat
      BY <2>1 DEF ConsoleInv, InputInv, ConsoleTypes, ConsoleCalls
    <3> QED BY <2>1, <3>1, LineReadersAssumption DEF ConsoleInv, ConsoleTypes, ConsoleCalls
  <2>3. Len(out) \in Nat /\ (Len(out) = 0 <=> out = <<>>)
    <3>1. out \in Seq(Nat)
      BY <2>1 DEF ConsoleInv, ConsoleTypes
    <3> QED BY <3>1, LenProperties, EmptySeq
  <2>4. console!Terminator = Len(out) + offset
    BY DEF console!Terminator
  <2>5. Count \in Nat /\ BufferLen \in Nat /\ BufferLen <= Count
    BY LineReadersAssumption
  <2>6. CASE out = <<>>
    <3>1. console!Terminator = offset
      BY <2>2, <2>3, <2>4, <2>6
    <3> QED BY <2>2, <2>3, <2>5, <2>6, <3>1
  <2>7. CASE out # <<>>
    <3>1. console!Terminator = line_len
      BY <2>2, <2>3, <2>4, <2>7
    <3> QED BY <2>2, <2>5, <2>7, <3>1
  <2> QED BY <2>6, <2>7
<1> QED BY <1>1, Invariance, PTL

\* The consumer of readline/producer.cpp begins every call at the beginning of a
\* line.
THEOREM WholeLines == Spec => []FifoLinesWhole
<1>1. IInv => FifoLinesWhole
  <2> SUFFICES ASSUME IInv, reader = "read_line_select", pc = "call"
               PROVE  Taken = 0 \/ data[Taken] = "nl"
    BY DEF FifoLinesWhole
  <2>1. /\ readpos \in Nat /\ data_move = 0 /\ (readpos = 0 \/ data[readpos] = "nl")
    <3>1. readpos \in Nat
      BY LenProperties DEF IInv, FifoInv, InputInv
    <3> QED BY <3>1 DEF IInv, FifoInv
  <2>2. Taken = readpos
    BY <2>1 DEF Taken, fifo!Taken
  <2> QED BY <2>1, <2>2
<1> QED BY <1>1, Invariance, PTL
=============================================================================
