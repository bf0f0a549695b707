------------------------------ MODULE CrateShm ------------------------------
(***************************************************************************)
(* The shared memory of semaphores-pr and the code that both versions of   *)
(* the programs (POSIX: crate/producer/consumer.cpp, System V:             *)
(* vcrate/vproducer.cpp) run on it between their semaphore operations.     *)
(* PosixCrate and SysVCrate extend this module with their semaphores.      *)
(*                                                                         *)
(* A process is a program counter: the name of the statement it is about   *)
(* to execute.  Every statement that reads or writes the shared memory or  *)
(* a semaphore is a step of its own.  A process is stopped by a signal     *)
(* (the loops are endless, so Ctrl-C or kill is the only way out): it      *)
(* keeps whatever semaphores it has taken, since none is opened with an    *)
(* undo.  Another process may be started in its place at any time.         *)
(***************************************************************************)
EXTENDS Naturals, Sequences, FiniteSets

CONSTANTS
  Producers,   \* processes started with the argument "producer"
  Consumers,   \* processes started in the consumer role
  Capacity,    \* the argument of crate / vcrate
  MaxKills,    \* bound: how many processes are killed in a behaviour
  None         \* the zeros of a slot never written

\* items has nine names, so a larger crate reads past the array
\* (producer.cpp:24); a crate of capacity 0 lets nobody start.
NumItems == 9

ASSUME CrateAssumption ==
  /\ Capacity \in 1 .. NumItems
  /\ MaxKills \in Nat
  /\ IsFiniteSet(Producers)
  /\ IsFiniteSet(Consumers)
  /\ Producers \cap Consumers = {}

VARIABLES
  state,   \* crate_ptr->state, the number of items in the crate
  data,    \* crate_ptr->data, one item per slot; a slot is never cleared
  buf,     \* buf of each producer, the item it has formatted
  i,       \* the loop variable of each consumer
  out,     \* the items printed since the crate was last emptied
  pc,      \* the next statement of each process
  killed   \* the processes stopped by a signal

shmVars == <<state, data, buf, i, out, pc, killed>>

Processes == Producers \cup Consumers
Slot == 0 .. Capacity - 1
Item == Producers \X Slot

\* The statements between the wait for and the post of the memory semaphore.
Critical == {"format", "store", "bump", "check", "copy", "unlock"}

InCritical == {t \in Processes : pc[t] \in Critical}

ShmInit ==
  /\ state = 0
  /\ data = [s \in Slot |-> None]
  /\ buf = [p \in Producers |-> None]
  /\ i = [c \in Consumers |-> 0]
  /\ out = <<>>
  /\ pc = [t \in Processes |-> "off"]
  /\ killed = {}

Move(t, from, to) ==
  /\ t \notin killed
  /\ pc[t] = from
  /\ pc' = [pc EXCEPT ![t] = to]
  /\ UNCHANGED killed

\* The program is started, and opens and maps what the crate program created.
Attach(t, first) ==
  /\ Move(t, "off", first)
  /\ UNCHANGED <<state, data, buf, i, out>>

\* sprintf(buf, "(%d) %s", getpid(), items[state])
Format(p) ==
  /\ Move(p, "format", "store")
  /\ buf' = [buf EXCEPT ![p] = <<p, state>>]
  /\ UNCHANGED <<state, data, i, out>>

\* memcpy(data + state, buf)
Store(p) ==
  /\ Move(p, "store", "bump")
  /\ data' = [data EXCEPT ![state] = buf[p]]
  /\ UNCHANGED <<state, buf, i, out>>

\* state += 1
Bump(p) ==
  /\ Move(p, "bump", "check")
  /\ state' = state + 1
  /\ UNCHANGED <<data, buf, i, out>>

\* One turn of the consumer's loop: copy slot i and print it.
Copy(c) ==
  /\ i[c] < Capacity
  /\ Move(c, "copy", "copy")
  /\ out' = Append(out, data[i[c]])
  /\ i' = [i EXCEPT ![c] = @ + 1]
  /\ UNCHANGED <<state, data, buf>>

\* The loop is over: state = 0
Reset(c) ==
  /\ i[c] = Capacity
  /\ Move(c, "copy", "unlock")
  /\ state' = 0
  /\ out' = <<>>
  /\ i' = [i EXCEPT ![c] = 0]
  /\ UNCHANGED <<data, buf>>

\* A running process is stopped by a signal, between any two statements.
Kill(t) ==
  /\ t \notin killed
  /\ pc[t] # "off"
  /\ Cardinality(killed) < MaxKills
  /\ killed' = killed \cup {t}
  /\ UNCHANGED <<state, data, buf, i, out, pc>>

-----------------------------------------------------------------------------
(* The abstract crate seen in this memory.                                 *)

\* What is packed and not yet printed: slots Len(out) .. state - 1.
Content == [k \in 1 .. state - Len(out) |-> data[Len(out) + k - 1]]

AbstractCrate ==
  INSTANCE Crate WITH content <- Content

\* Some producer and some consumer run, and whoever was killed was idle.
Healthy(idle) ==
  /\ \E p \in Producers \ killed : pc[p] # "off"
  /\ \E c \in Consumers \ killed : pc[c] # "off"
  /\ \A t \in killed : pc[t] \in idle

ShmTypeOK ==
  /\ state \in 0 .. Capacity
  /\ data \in [Slot -> Item \cup {None}]
  /\ buf \in [Producers -> Item \cup {None}]
  /\ i \in [Consumers -> 0 .. Capacity]
  /\ out \in Seq(Item)
  /\ pc \in [Processes -> Critical \cup {"off", "slot", "full", "mem"}]
  /\ killed \subseteq Processes
=============================================================================
