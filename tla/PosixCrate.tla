----------------------------- MODULE PosixCrate -----------------------------
(***************************************************************************)
(* semaphores-pr/crate.cpp, producer.cpp and consumer.cpp: any number of   *)
(* producers and consumers share a crate in POSIX shared memory under      *)
(* three unnamed semaphores kept in a second shared memory object.         *)
(*                                                                         *)
(* The two semaphores a process needs are taken one after the other, so    *)
(* there is a window in which a producer owns a place in the crate but not *)
(* the memory; and the consumer posts the producers' semaphore once per    *)
(* item, while it still reads the crate.                                   *)
(***************************************************************************)
EXTENDS CrateShm

VARIABLES
  consumer_sem,  \* semptr: 1 when a full crate waits for a consumer
  mem_sem,       \* memsem_ptr: binary, protects the crate
  producer_sem   \* places that producers may still claim

semVars == <<consumer_sem, mem_sem, producer_sem>>
vars == <<shmVars, semVars>>

\* The crate program has run to its end: it creates both objects, sets the
\* capacity and initialises the semaphores.
Init ==
  /\ ShmInit
  /\ consumer_sem = 0
  /\ mem_sem = 1
  /\ producer_sem = Capacity

-----------------------------------------------------------------------------
(* The producer.                                                           *)

StartProducer(p) ==
  /\ Attach(p, "slot")
  /\ UNCHANGED semVars

\* As if the producer did not wait for a place.
WaitNoSlot(p) ==
  /\ Move(p, "slot", "mem")
  /\ UNCHANGED <<semVars, state, data, buf, i, out>>

\* sem_wait(producer_sem)
WaitSlot(p) ==
  /\ producer_sem > 0
  /\ Move(p, "slot", "mem")
  /\ producer_sem' = producer_sem - 1
  /\ UNCHANGED <<consumer_sem, mem_sem, state, data, buf, i, out>>

\* sem_wait(memsem_ptr)
ProducerWaitMem(p) ==
  /\ mem_sem > 0
  /\ Move(p, "mem", "format")
  /\ mem_sem' = mem_sem - 1
  /\ UNCHANGED <<consumer_sem, producer_sem, state, data, buf, i, out>>

FormatItem(p) == Format(p) /\ UNCHANGED semVars
StoreItem(p) == Store(p) /\ UNCHANGED semVars
BumpState(p) == Bump(p) /\ UNCHANGED semVars

\* As if the consumer were woken one item early, or never.
CheckEarly(p) ==
  /\ Move(p, "check", "unlock")
  /\ consumer_sem' = IF state = Capacity - 1 THEN consumer_sem + 1 ELSE consumer_sem
  /\ UNCHANGED <<mem_sem, producer_sem, state, data, buf, i, out>>

CheckSilently(p) ==
  /\ Move(p, "check", "unlock")
  /\ UNCHANGED <<semVars, state, data, buf, i, out>>

\* The producer of the last item unlocks the consumer.
CheckFull(p) ==
  /\ Move(p, "check", "unlock")
  /\ consumer_sem' = IF state = Capacity THEN consumer_sem + 1 ELSE consumer_sem
  /\ UNCHANGED <<mem_sem, producer_sem, state, data, buf, i, out>>

\* sem_post(memsem_ptr); the sleep that follows touches nothing shared.
ProducerUnlock(p) ==
  /\ Move(p, "unlock", "slot")
  /\ mem_sem' = mem_sem + 1
  /\ UNCHANGED <<consumer_sem, producer_sem, state, data, buf, i, out>>

Producer(p) ==
  \/ StartProducer(p)
  \/ WaitSlot(p)
  \/ ProducerWaitMem(p)
  \/ FormatItem(p)
  \/ StoreItem(p)
  \/ BumpState(p)
  \/ CheckFull(p)
  \/ ProducerUnlock(p)

-----------------------------------------------------------------------------
(* The consumer.                                                           *)

StartConsumer(c) ==
  /\ Attach(c, "full")
  /\ UNCHANGED semVars

\* sem_wait(semptr)
WaitFull(c) ==
  /\ consumer_sem > 0
  /\ Move(c, "full", "mem")
  /\ consumer_sem' = consumer_sem - 1
  /\ UNCHANGED <<mem_sem, producer_sem, state, data, buf, i, out>>

\* As if the consumer trusted its wake-up and did not wait for the memory.
ConsumerTakesMem(c) ==
  /\ Move(c, "mem", "copy")
  /\ UNCHANGED <<semVars, state, data, buf, i, out>>

\* sem_wait(memsem_ptr)
ConsumerWaitMem(c) ==
  /\ mem_sem > 0
  /\ Move(c, "mem", "copy")
  /\ mem_sem' = mem_sem - 1
  /\ UNCHANGED <<consumer_sem, producer_sem, state, data, buf, i, out>>

\* As if the loop posted one time less.
CopyItemButLast(c) ==
  /\ Copy(c)
  /\ producer_sem' = IF i[c] + 1 = Capacity THEN producer_sem ELSE producer_sem + 1
  /\ UNCHANGED <<consumer_sem, mem_sem>>

\* Copy and print one item, then post the producers' semaphore.
CopyItem(c) ==
  /\ Copy(c)
  /\ producer_sem' = producer_sem + 1
  /\ UNCHANGED <<consumer_sem, mem_sem>>

\* As if state kept counting the items that were printed.
ResetForgotten(c) ==
  /\ i[c] = Capacity
  /\ Move(c, "copy", "unlock")
  /\ out' = <<>>
  /\ i' = [i EXCEPT ![c] = 0]
  /\ UNCHANGED <<state, data, buf, semVars>>

ResetState(c) == Reset(c) /\ UNCHANGED semVars

\* As if all places were given back once more, as the System V version does.
ConsumerUnlockAll(c) ==
  /\ Move(c, "unlock", "full")
  /\ mem_sem' = mem_sem + 1
  /\ producer_sem' = producer_sem + Capacity
  /\ UNCHANGED <<consumer_sem, state, data, buf, i, out>>

\* sem_post(memsem_ptr)
ConsumerUnlock(c) ==
  /\ Move(c, "unlock", "full")
  /\ mem_sem' = mem_sem + 1
  /\ UNCHANGED <<consumer_sem, producer_sem, state, data, buf, i, out>>

Consumer(c) ==
  \/ StartConsumer(c)
  \/ WaitFull(c)
  \/ ConsumerWaitMem(c)
  \/ CopyItem(c)
  \/ ResetState(c)
  \/ ConsumerUnlock(c)

KillProcess(t) == Kill(t) /\ UNCHANGED semVars

Next ==
  \/ \E p \in Producers : Producer(p)
  \/ \E c \in Consumers : Consumer(c)
  \/ \E t \in Processes : KillProcess(t)

Spec == Init /\ [][Next]_vars

\* Every running process keeps being scheduled; a semaphore may favour any
\* waiter, so only weak fairness is assumed of a wait, and none of starting
\* or killing a program.
Fairness ==
  /\ \A p \in Producers : WF_vars(Producer(p) /\ pc[p] # "off")
  /\ \A c \in Consumers : WF_vars(Consumer(c) /\ pc[c] # "off")

FairSpec == Spec /\ Fairness

-----------------------------------------------------------------------------
(* Properties.                                                             *)

TypeOK ==
  /\ ShmTypeOK
  /\ consumer_sem \in 0 .. 1
  /\ mem_sem \in 0 .. 1
  /\ producer_sem \in 0 .. Capacity

\* The memory access semaphore (producer.cpp:46) keeps all but one process
\* out of the crate, also when a process is killed inside.
MutualExclusion == \A s, t \in InCritical : s = t

\* A producer that formats or stores an item does so for a free place: it
\* never indexes items or data beyond the capacity, and never writes over
\* an item that no consumer has printed.
StoreInBounds ==
  \A p \in Producers : pc[p] \in {"format", "store", "bump"} => state < Capacity

\* A consumer that was woken by the consumer semaphore finds a full crate,
\* and still finds it full after the wait for the memory semaphore.
WokenOnlyWhenFull ==
  \A c \in Consumers : pc[c] \in {"mem", "copy"} => state = Capacity

\* Places claimed, places filled and places offered never exceed the crate
\* (producer.cpp:81, "increase producer semaphore to maximum capacity"): the
\* places a consumer has given back are counted before it resets state.
Claimed == {p \in Producers : pc[p] \in {"mem", "format", "store", "bump"}}
GivenBack == {c \in Consumers : pc[c] = "copy"}
PlacesConserved ==
  producer_sem + Cardinality(Claimed) + state
    = Capacity + (IF GivenBack = {} THEN 0 ELSE Len(out))

\* The shared-memory programs implement the abstract crate: a batch is packed
\* in the order of the items array, handed over whole, printed once.
ImplementsCrate == AbstractCrate!Spec

\* While some producer and some consumer run, batch after batch is printed to
\* the end; killing a process that waits for its first semaphore (the sleep of
\* a producer included) changes nothing.
BatchesForever ==
  Healthy({"slot", "full"}) ~> (Len(out) = Capacity \/ ~Healthy({"slot", "full"}))
=============================================================================
