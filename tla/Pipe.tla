-------------------------------- MODULE Pipe --------------------------------
(***************************************************************************)
(* A pipe of the kernel, as the programs of pipe-redirect-pr2/ and         *)
(* pipe-threads-cv2/ use one: what is in it, and which descriptors of      *)
(* which processes are open on each of its ends.  A descriptor is a pair   *)
(* of a process and a name.                                                *)
(***************************************************************************)
EXTENDS Naturals, Sequences

CONSTANT Room    \* how much the pipe holds

VARIABLES bytes, readers, writers

pipe == <<bytes, readers, writers>>

\* pipe(2), called by p.
Opened(p) ==
  /\ bytes = <<>>
  /\ readers = {<<p, "pipes">>}
  /\ writers = {<<p, "pipes">>}

\* A read waits for bytes and reports the end when there is no writer left.
ReadPipe ==
  /\ bytes # <<>>
  /\ bytes' = Tail(bytes)
  /\ UNCHANGED <<readers, writers>>

EndOfPipe == bytes = <<>> /\ writers = {}

\* A write waits for room, and raises SIGPIPE when there is no reader left.
WriteTo(b) ==
  /\ readers # {}
  /\ Len(bytes) < Room
  /\ bytes' = Append(bytes, b)
  /\ UNCHANGED <<readers, writers>>

Broken == readers = {}

\* fork: the child c has what its parent p has.
Inherited(ends, p, c) == ends \cup {<<c, e[2]>> : e \in {d \in ends : d[1] = p}}

\* exit and death close everything.
Without(ends, p) == {e \in ends : e[1] # p}

ExitCloses(p) ==
  /\ readers' = Without(readers, p)
  /\ writers' = Without(writers, p)
  /\ UNCHANGED bytes
=============================================================================
