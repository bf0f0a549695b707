----------------------------- MODULE RingQueue -----------------------------
(***************************************************************************)
(* MQueue::send and MQueue::recv of msgq/custom_queue.cpp, run by any      *)
(* number of processes on one queue: a ring of cap slots in shared memory  *)
(* with the indices front and rear, the counting semaphores sem_full (free *)
(* slots, in spite of its name) and sem_empty (filled slots), and the      *)
(* binary semaphore sem_mutex.  Every access to shared memory and every    *)
(* semaphore operation is a step.                                          *)
(*                                                                         *)
(* The queue is taken as init_queue leaves it when it runs alone.          *)
(***************************************************************************)
EXTENDS Naturals, Sequences, FiniteSets

CONSTANTS
  Processes,
  Messages,
  Capacity,    \* cap
  MaxKills,    \* bound: how many processes are killed
  None         \* the contents of a slot never written

ASSUME RingAssumption ==
  /\ Capacity \in Nat \ {0}
  /\ MaxKills \in Nat
  /\ IsFiniteSet(Processes)
  /\ None \notin Messages

VARIABLES
  front, rear, data,               \* the Queue structure in shared memory
  sem_full, sem_empty, sem_mutex,
  msg,         \* the argument of the send each process is in
  msgbuf,      \* the buffer of each process that is in recv
  pc,
  killed

ring == <<front, rear, data>>
sems == <<sem_full, sem_empty, sem_mutex>>
vars == <<front, rear, data, sem_full, sem_empty, sem_mutex, msg, msgbuf, pc, killed>>

Slot == 0 .. Capacity - 1

Init ==
  /\ front = 0
  /\ rear = 0
  /\ data = [s \in Slot |-> None]
  /\ sem_full = Capacity
  /\ sem_empty = 0
  /\ sem_mutex = 1
  /\ msg = [t \in Processes |-> None]
  /\ msgbuf = [t \in Processes |-> <<>>]
  /\ pc = [t \in Processes |-> "idle"]
  /\ killed = {}

Move(t, from, to) ==
  /\ t \notin killed
  /\ pc[t] = from
  /\ pc' = [pc EXCEPT ![t] = to]
  /\ UNCHANGED killed

-----------------------------------------------------------------------------
(* send                                                                    *)

CallSend(t, m) ==
  /\ Move(t, "idle", "wait_full")
  /\ msg' = [msg EXCEPT ![t] = m]
  /\ UNCHANGED <<ring, sems, msgbuf>>

SendWaitFull(t) ==
  /\ sem_full > 0
  /\ Move(t, "wait_full", "send_lock")
  /\ sem_full' = sem_full - 1
  /\ UNCHANGED <<ring, sem_empty, sem_mutex, msg, msgbuf>>

SendLock(t) ==
  /\ sem_mutex > 0
  /\ Move(t, "send_lock", "insert")
  /\ sem_mutex' = sem_mutex - 1
  /\ UNCHANGED <<ring, sem_full, sem_empty, msg, msgbuf>>

Insert(t) ==
  /\ Move(t, "insert", "rear")
  /\ data' = [data EXCEPT ![rear] = msg[t]]
  /\ UNCHANGED <<front, rear, sems, msg, msgbuf>>

AdvanceRear(t) ==
  /\ Move(t, "rear", "send_unlock")
  /\ rear' = (rear + 1) % Capacity
  /\ UNCHANGED <<front, data, sems, msg, msgbuf>>

SendUnlock(t) ==
  /\ Move(t, "send_unlock", "post_empty")
  /\ sem_mutex' = sem_mutex + 1
  /\ UNCHANGED <<ring, sem_full, sem_empty, msg, msgbuf>>

\* As if the message were announced to nobody.
PostNoEmpty(t) ==
  /\ Move(t, "post_empty", "idle")
  /\ msg' = [msg EXCEPT ![t] = None]
  /\ UNCHANGED <<ring, sems, msgbuf>>

PostEmpty(t) ==
  /\ Move(t, "post_empty", "idle")
  /\ sem_empty' = sem_empty + 1
  /\ msg' = [msg EXCEPT ![t] = None]
  /\ UNCHANGED <<ring, sem_full, sem_mutex, msgbuf>>

SendStep(t) ==
  \/ SendWaitFull(t)
  \/ SendLock(t)
  \/ Insert(t)
  \/ AdvanceRear(t)
  \/ SendUnlock(t)
  \/ PostEmpty(t)

-----------------------------------------------------------------------------
(* recv                                                                    *)

CallRecv(t) ==
  /\ Move(t, "idle", "wait_empty")
  /\ UNCHANGED <<ring, sems, msg, msgbuf>>

RecvWaitEmpty(t) ==
  /\ sem_empty > 0
  /\ Move(t, "wait_empty", "recv_lock")
  /\ sem_empty' = sem_empty - 1
  /\ UNCHANGED <<ring, sem_full, sem_mutex, msg, msgbuf>>

RecvLock(t) ==
  /\ sem_mutex > 0
  /\ Move(t, "recv_lock", "copy")
  /\ sem_mutex' = sem_mutex - 1
  /\ UNCHANGED <<ring, sem_full, sem_empty, msg, msgbuf>>

\* As if the newest message were read, not the oldest.
CopyNewest(t) ==
  /\ Move(t, "copy", "front")
  /\ msgbuf' = [msgbuf EXCEPT ![t] = <<data[(rear + Capacity - 1) % Capacity]>>]
  /\ UNCHANGED <<ring, sems, msg>>

CopyOut(t) ==
  /\ Move(t, "copy", "front")
  /\ msgbuf' = [msgbuf EXCEPT ![t] = <<data[front]>>]
  /\ UNCHANGED <<ring, sems, msg>>

AdvanceFront(t) ==
  /\ Move(t, "front", "recv_unlock")
  /\ front' = (front + 1) % Capacity
  /\ UNCHANGED <<rear, data, sems, msg, msgbuf>>

RecvUnlock(t) ==
  /\ Move(t, "recv_unlock", "post_full")
  /\ sem_mutex' = sem_mutex + 1
  /\ UNCHANGED <<ring, sem_full, sem_empty, msg, msgbuf>>

\* As if the slot were freed for nobody.
PostNoFull(t) ==
  /\ Move(t, "post_full", "idle")
  /\ msgbuf' = [msgbuf EXCEPT ![t] = <<>>]
  /\ UNCHANGED <<ring, sems, msg>>

\* The buffer is the caller's again; what it held is of no more interest.
PostFull(t) ==
  /\ Move(t, "post_full", "idle")
  /\ sem_full' = sem_full + 1
  /\ msgbuf' = [msgbuf EXCEPT ![t] = <<>>]
  /\ UNCHANGED <<ring, sem_empty, sem_mutex, msg>>

RecvStep(t) ==
  \/ RecvWaitEmpty(t)
  \/ RecvLock(t)
  \/ CopyOut(t)
  \/ AdvanceFront(t)
  \/ RecvUnlock(t)
  \/ PostFull(t)

\* A process is stopped by a signal, inside or outside of a call.
Kill(t) ==
  /\ t \notin killed
  /\ Cardinality(killed) < MaxKills
  /\ killed' = killed \cup {t}
  /\ UNCHANGED <<ring, sems, msg, msgbuf, pc>>

Next ==
  \/ \E t \in Processes, m \in Messages : CallSend(t, m)
  \/ \E t \in Processes : CallRecv(t)
  \/ \E t \in Processes : SendStep(t) \/ RecvStep(t)
  \/ \E t \in Processes : Kill(t)

Spec == Init /\ [][Next]_vars

\* A call that can go on does; nobody has to make one.
FairSpec == Spec /\ \A t \in Processes : WF_vars(SendStep(t) \/ RecvStep(t))

-----------------------------------------------------------------------------
(* Properties.                                                             *)

At(labels) == {t \in Processes : pc[t] \in labels}

\* The filled slots, counted from the side of the senders: those that are not
\* free, not claimed by a sender that has still to fill one, and not emptied by
\* a receiver that has still to post.
Length ==
  Capacity - sem_full - Cardinality(At({"send_lock", "insert"}))
                      - Cardinality(At({"front", "recv_unlock", "post_full"}))

\* Counted from the side of the receivers the length is the same, so the two
\* semaphores never drift apart, whoever is killed and where.
SemaphoresAgree ==
  Length = sem_empty + Cardinality(At({"recv_lock", "copy"}))
                     + Cardinality(At({"rear", "send_unlock", "post_empty"}))

\* The slots in use, oldest first.  A message is in the queue once the sender
\* has copied it in, and out once the receiver has copied it out.
Contents ==
  [k \in 1 .. Length |-> data[(front + Cardinality(At({"front"})) + k - 1) % Capacity]]

Abstract == INSTANCE BoundedQueue WITH queue <- Contents, received <- msgbuf

\* The ring implements the FIFO queue: nothing is lost, duplicated, reordered
\* or overwritten by any interleaving of senders and receivers.
ImplementsQueue == Abstract!Spec

\* Nobody was killed but outside of a call or in its first wait.
Undisturbed == killed \subseteq At({"idle", "wait_full", "wait_empty"})

\* No wake-up is lost: when a receiver waits and the queue holds a message some
\* receiver will get one, and when a sender waits and the queue has room some
\* sender will use it.
NoLostWakeUp ==
  /\ Contents # <<>> /\ At({"wait_empty"}) \ killed # {}
       ~> (At({"front"}) # {} \/ At({"wait_empty"}) \subseteq killed \/ ~Undisturbed)
  /\ Length < Capacity /\ At({"wait_full"}) \ killed # {}
       ~> (At({"rear"}) # {} \/ At({"wait_full"}) \subseteq killed \/ ~Undisturbed)
=============================================================================
