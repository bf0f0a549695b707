----------------------------- MODULE QueueInit -----------------------------
(***************************************************************************)
(* MQueue::init_queue of msgq/custom_queue.cpp, run by processes that      *)
(* start at any time, followed by their calls of send and recv             *)
(* (RingQueue).  The first process creates the shared memory and the three *)
(* named semaphores one after the other, the next ones open them, and      *)
(* nothing keeps a process from opening what another is still creating.    *)
(***************************************************************************)
EXTENDS RingQueue

VARIABLES
  memory,      \* the shared memory object: "none", "empty" or "sized"
  names,       \* the named semaphores that exist
  got,         \* those each process has opened; the others are SEM_FAILED
  faults,      \* the processes that died of a signal of their own making
  raced        \* some process has used the queue while another created it

shared == <<memory, names>>
calls == <<msg, msgbuf>>
allvars == <<shared, got, faults, raced, ring, sems, calls, pc, killed>>

InitFromStart ==
  /\ memory = "none"
  /\ names = {}
  /\ got = [t \in Processes |-> {}]
  /\ faults = {}
  /\ raced = FALSE
  /\ front = 0
  /\ rear = 0
  /\ data = [s \in Slot |-> None]
  /\ sem_full = 0
  /\ sem_empty = 0
  /\ sem_mutex = 0
  /\ msg = [t \in Processes |-> None]
  /\ msgbuf = [t \in Processes |-> <<>>]
  /\ pc = [t \in Processes |-> "off"]
  /\ killed = {}

-----------------------------------------------------------------------------
(* open_shm and mmap.                                                      *)

Start(t) ==
  /\ Move(t, "off", "open memory")
  /\ UNCHANGED <<shared, got, faults, ring, sems, calls>>

OpenMemory(t) ==
  /\ Move(t, "open memory", IF memory = "none" THEN "create memory" ELSE "map")
  /\ UNCHANGED <<shared, got, faults, ring, sems, calls>>

\* O_TRUNC also empties an object another process has made in the meantime.
CreateMemory(t) ==
  /\ Move(t, "create memory", "size memory")
  /\ memory' = "empty"
  /\ front' = 0
  /\ rear' = 0
  /\ data' = [s \in Slot |-> None]
  /\ UNCHANGED <<names, got, faults, sems, calls>>

\* As if the size were set by the process that uses the memory first.
SizeLater(t) ==
  /\ Move(t, "size memory", "map")
  /\ UNCHANGED <<shared, got, faults, ring, sems, calls>>

SizeMemory(t) ==
  /\ Move(t, "size memory", "map")
  /\ memory' = "sized"
  /\ UNCHANGED <<names, got, faults, ring, sems, calls>>

\* The first word is read at once; Fault is what happens when there is none.
Map(t) ==
  /\ memory = "sized"
  /\ Move(t, "map", "open full")
  /\ UNCHANGED <<shared, got, faults, ring, sems, calls>>

-----------------------------------------------------------------------------
(* The semaphores.                                                         *)

\* As if a process that finds the semaphores set them again.
OpenFullAndSet(t) ==
  /\ Move(t, "open full", IF "full" \in names THEN "set full" ELSE "create full")
  /\ UNCHANGED <<shared, got, faults, ring, sems, calls>>

OpenFull(t) ==
  /\ Move(t, "open full", IF "full" \in names THEN "open empty" ELSE "create full")
  /\ UNCHANGED <<shared, got, faults, ring, sems, calls>>

\* Opening is not checked: a semaphore that does not exist is SEM_FAILED.
Open(t, name, from, to) ==
  /\ Move(t, from, to)
  /\ got' = [got EXCEPT ![t] = @ \cup ({name} \cap names)]
  /\ UNCHANGED <<shared, faults, ring, sems, calls>>

OpenEmpty(t) == Open(t, "empty", "open empty", "open mutex")
OpenMutex(t) == Open(t, "mutex", "open mutex", "idle")

\* A semaphore is created with the value 1, unless it is there by now.
Created(name, value) == IF name \in names THEN value ELSE 1

CreateFull(t) ==
  /\ Move(t, "create full", "set full")
  /\ names' = names \cup {"full"}
  /\ sem_full' = Created("full", sem_full)
  /\ UNCHANGED <<memory, got, faults, ring, sem_empty, sem_mutex, calls>>

SetFull(t) ==
  /\ Move(t, "set full", "create empty")
  /\ sem_full' = Capacity
  /\ UNCHANGED <<shared, got, faults, ring, sem_empty, sem_mutex, calls>>

CreateEmpty(t) ==
  /\ Move(t, "create empty", "set empty")
  /\ names' = names \cup {"empty"}
  /\ got' = [got EXCEPT ![t] = @ \cup {"empty"}]
  /\ sem_empty' = Created("empty", sem_empty)
  /\ UNCHANGED <<memory, faults, ring, sem_full, sem_mutex, calls>>

SetEmpty(t) ==
  /\ Move(t, "set empty", "create mutex")
  /\ sem_empty' = 0
  /\ UNCHANGED <<shared, got, faults, ring, sem_full, sem_mutex, calls>>

CreateMutex(t) ==
  /\ Move(t, "create mutex", "set mutex")
  /\ names' = names \cup {"mutex"}
  /\ got' = [got EXCEPT ![t] = @ \cup {"mutex"}]
  /\ sem_mutex' = Created("mutex", sem_mutex)
  /\ UNCHANGED <<memory, faults, ring, sem_full, sem_empty, calls>>

SetMutex(t) ==
  /\ Move(t, "set mutex", "idle")
  /\ sem_mutex' = 1
  /\ UNCHANGED <<shared, got, faults, ring, sem_full, sem_empty, calls>>

InitQueue(t) ==
  \/ Start(t) \/ OpenMemory(t) \/ CreateMemory(t) \/ SizeMemory(t) \/ Map(t)
  \/ OpenFull(t) \/ OpenEmpty(t) \/ OpenMutex(t)
  \/ CreateFull(t) \/ SetFull(t) \/ CreateEmpty(t) \/ SetEmpty(t)
  \/ CreateMutex(t) \/ SetMutex(t)

-----------------------------------------------------------------------------
(* The calls that follow, and what can end a process.                      *)

\* What the statement a process is at needs and it does not have: memory of
\* the full size, or a semaphore that could be opened.
Broken(t) ==
  \/ memory # "sized" /\ pc[t] \in {"map", "insert", "rear", "copy", "front"}
  \/ "empty" \notin got[t] /\ pc[t] \in {"wait_empty", "post_empty"}
  \/ "mutex" \notin got[t] /\ pc[t] \in {"send_lock", "recv_lock"}

Call(t) ==
  /\ ~Broken(t)
  /\ \/ \E m \in Messages : CallSend(t, m)
     \/ CallRecv(t)
     \/ SendStep(t)
     \/ RecvStep(t)
  /\ UNCHANGED <<shared, got, faults>>

Fault(t) ==
  /\ t \notin killed
  /\ Broken(t)
  /\ faults' = faults \cup {t}
  /\ killed' = killed \cup {t}
  /\ UNCHANGED <<shared, got, ring, sems, calls, pc>>

KillStarted(t) ==
  /\ pc[t] # "off"
  /\ Kill(t)
  /\ UNCHANGED <<shared, got, faults>>

-----------------------------------------------------------------------------
Opening == {"open memory", "map", "open full", "open empty", "open mutex"}
Making == {"create memory", "size memory", "create full", "set full",
           "create empty", "set empty", "create mutex", "set mutex"}

\* A process is in init_queue while another is in the middle of creating, or
\* was killed there.
Overlap ==
  \E s, t \in Processes :
    /\ s # t
    /\ pc[s] \in Making
    /\ t \notin killed
    /\ pc[t] \in Making \cup Opening

NextFromStart ==
  /\ \E t \in Processes : InitQueue(t) \/ Call(t) \/ Fault(t) \/ KillStarted(t)
  /\ raced' = (raced \/ Overlap')

SpecFromStart == InitFromStart /\ [][NextFromStart]_allvars

-----------------------------------------------------------------------------
(* Properties.                                                             *)

\* The queue exists once a process has come out of init_queue.
Available ==
  IF \E t \in Processes : pc[t] \notin {"off"} \cup Opening \cup Making
  THEN Contents
  ELSE <<>>

FromStart == INSTANCE BoundedQueue WITH queue <- Available, received <- msgbuf

\* As long as nobody comes while another creates, a bounded FIFO queue is
\* there from the start: init_queue leaves it empty the first time and as it
\* was every other time, and what killed processes sent is still received.
QueueFromStart ==
  /\ FromStart!Init
  /\ [][~raced' => (FromStart!Next \/ UNCHANGED <<Available, msgbuf>>)]_allvars

\* A process dies of a missing semaphore or of memory without a size only when
\* two of them were in init_queue at once, or one was killed creating.
CrashOnlyIfRaced == faults # {} => raced
=============================================================================
