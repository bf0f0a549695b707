---------------------------- MODULE MCMsgqCrate ----------------------------
(* MsgqCrate with the limits of the programs, in proportion to the crate.  *)
EXTENDS MsgqCrate

\* custom_queue.cpp: QUEUE_CAPACITY equals crate_capacity.
Custom == [one |-> Capacity, all |-> 3 * Capacity]

\* main.cpp: ten messages by default, twice the crate.
Posix == [one |-> 2 * Capacity, all |-> 6 * Capacity]

\* v_msgq.cpp: a limit for everything, here the least that suffices.
SysV == [one |-> Capacity + 1, all |-> Capacity + 1]

AllPrograms == {Custom, Posix, SysV}
JustPosix == {Posix}
=============================================================================
