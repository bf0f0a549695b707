----------------------------- MODULE SysVCrate -----------------------------
(***************************************************************************)
(* semaphores-pr/vcrate.cpp and vproducer.cpp: the same crate in a System  *)
(* V shared memory segment, under one set of three semaphores.  A semop on *)
(* two semaphores is one indivisible operation, so a process holds a place *)
(* (or the order to empty the crate) together with the memory or holds     *)
(* nothing, and the consumer gives all places back at once.                *)
(***************************************************************************)
EXTENDS CrateShm, Integers

VARIABLE sem   \* the set of semaphores, by number

vars == <<shmVars, sem>>

Full == 0      \* 1 when a full crate waits for a consumer
Memory == 1    \* binary, protects the crate
Places == 2    \* places that producers may still claim

\* vcrate has run to its end: the segment and the set exist and the three
\* SETVAL are done.
Init ==
  /\ ShmInit
  /\ sem = [k \in {Full, Memory, Places} |->
              IF k = Full THEN 0 ELSE IF k = Memory THEN 1 ELSE Capacity]

\* semop with the change d[k] for each semaphore k in its domain: all of them
\* at once, and only when none would become negative.
Semop(d) ==
  /\ \A k \in DOMAIN d : sem[k] + d[k] >= 0
  /\ sem' = [k \in DOMAIN sem |-> IF k \in DOMAIN d THEN sem[k] + d[k] ELSE sem[k]]

-----------------------------------------------------------------------------
(* The producer.                                                           *)

StartProducer(p) == Attach(p, "slot") /\ UNCHANGED sem

\* semop(producer_mem_down): a place and the memory together.
ProducerDown(p) ==
  /\ Move(p, "slot", "format")
  /\ Semop([k \in {Places, Memory} |-> -1])
  /\ UNCHANGED <<state, data, buf, i, out>>

FormatItem(p) == Format(p) /\ UNCHANGED sem
StoreItem(p) == Store(p) /\ UNCHANGED sem
BumpState(p) == Bump(p) /\ UNCHANGED sem

\* As if the consumer were never woken.
CheckSilently(p) ==
  /\ Move(p, "check", "unlock")
  /\ UNCHANGED <<sem, state, data, buf, i, out>>

\* The producer of the last item unlocks the consumer: semop(sem_consumer_up).
CheckFull(p) ==
  /\ Move(p, "check", "unlock")
  /\ IF state = Capacity THEN Semop([k \in {Full} |-> 1]) ELSE UNCHANGED sem
  /\ UNCHANGED <<state, data, buf, i, out>>

\* semop(sem_memory_up); the sleep that follows touches nothing shared.
ProducerUnlock(p) ==
  /\ Move(p, "unlock", "slot")
  /\ Semop([k \in {Memory} |-> 1])
  /\ UNCHANGED <<state, data, buf, i, out>>

Producer(p) ==
  \/ StartProducer(p)
  \/ ProducerDown(p)
  \/ FormatItem(p)
  \/ StoreItem(p)
  \/ BumpState(p)
  \/ CheckFull(p)
  \/ ProducerUnlock(p)

-----------------------------------------------------------------------------
(* The consumer.                                                           *)

StartConsumer(c) == Attach(c, "full") /\ UNCHANGED sem

\* semop(consumer_mem_down): the order to empty the crate and the memory.
ConsumerDown(c) ==
  /\ Move(c, "full", "copy")
  /\ Semop([k \in {Full, Memory} |-> -1])
  /\ UNCHANGED <<state, data, buf, i, out>>

CopyItem(c) == Copy(c) /\ UNCHANGED sem
\* As if state kept counting the items that were printed.
ResetForgotten(c) ==
  /\ i[c] = Capacity
  /\ Move(c, "copy", "unlock")
  /\ out' = <<>>
  /\ i' = [i EXCEPT ![c] = 0]
  /\ UNCHANGED <<state, data, buf, sem>>

ResetState(c) == Reset(c) /\ UNCHANGED sem

\* As if one place were given back and not all.
ConsumerUpOne(c) ==
  /\ Move(c, "unlock", "full")
  /\ Semop([k \in {Places, Memory} |-> 1])
  /\ UNCHANGED <<state, data, buf, i, out>>

\* semop(producer_mem_up): all places and the memory given back together.
ConsumerUp(c) ==
  /\ Move(c, "unlock", "full")
  /\ Semop([k \in {Places, Memory} |-> IF k = Places THEN Capacity ELSE 1])
  /\ UNCHANGED <<state, data, buf, i, out>>

Consumer(c) ==
  \/ StartConsumer(c)
  \/ ConsumerDown(c)
  \/ CopyItem(c)
  \/ ResetState(c)
  \/ ConsumerUp(c)

KillProcess(t) == Kill(t) /\ UNCHANGED sem

Next ==
  \/ \E p \in Producers : Producer(p)
  \/ \E c \in Consumers : Consumer(c)
  \/ \E t \in Processes : KillProcess(t)

Spec == Init /\ [][Next]_vars

\* Every running process keeps being scheduled; no fairness of starting or
\* killing one.
Fairness ==
  /\ \A p \in Producers : WF_vars(Producer(p) /\ pc[p] # "off")
  /\ \A c \in Consumers : WF_vars(Consumer(c) /\ pc[c] # "off")

FairSpec == Spec /\ Fairness

-----------------------------------------------------------------------------
(* Properties.                                                             *)

\* Outside the critical section the free places are exactly what the producer
\* semaphore offers (vproducer.cpp:83, "increase producer sem by capacity and
\* unlock memory access"): a killed process takes none of them with it, unlike
\* in PosixCrate.
PlacesConserved ==
  InCritical = {} =>
    /\ sem[Places] = Capacity - state
    /\ sem[Full] = IF state = Capacity THEN 1 ELSE 0

\* The System V programs implement the same abstract crate.
ImplementsCrate == AbstractCrate!Spec

\* While some producer and some consumer run, batch after batch is printed to
\* the end; killing a process that waits changes nothing.
BatchesForever ==
  Healthy({"slot", "full"}) ~> (Len(out) = Capacity \/ ~Healthy({"slot", "full"}))
=============================================================================
