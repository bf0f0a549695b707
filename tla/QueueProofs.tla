---------------------------- MODULE QueueProofs ----------------------------
(***************************************************************************)
(* The safety of the shared-memory queue for any number of processes, any  *)
(* capacity, any messages and any number of processes killed.              *)
(*                                                                         *)
(* First send and recv on a queue that is there (RingQueue): the           *)
(* semaphores agree on the length of the queue, and the ring implements    *)
(* the FIFO queue.  The argument needs three things at once.  The mutex    *)
(* makes at most one process move an index.  The calls counted by          *)
(* statement tie the two semaphores to each other.  And front and rear,    *)
(* with the index that is about to move taken into account, are as far     *)
(* apart as the queue is long, so that a sender fills the first slot       *)
(* behind the window and never one inside it.                              *)
(*                                                                         *)
(* Then the same queue from the start (QueueInit), where processes create  *)
(* and open it: unless one of them comes while another creates, the        *)
(* statement a process is at says what exists, the ring is fresh until the *)
(* last value is set, and from then on the first part applies.             *)
(***************************************************************************)
EXTENDS QueueInit, CommonFacts

Label == {"idle", "wait_full", "send_lock", "insert", "rear", "send_unlock", "post_empty",
          "wait_empty", "recv_lock", "copy", "front", "recv_unlock", "post_full"}

Value == Messages \cup {None}

Types ==
  /\ front \in Slot
  /\ rear \in Slot
  /\ data \in [Slot -> Value]
  /\ sem_full \in Nat
  /\ sem_empty \in Nat
  /\ sem_mutex \in Nat
  /\ msg \in [Processes -> Value]
  /\ msgbuf \in [Processes -> Seq(Value)]
  /\ pc \in [Processes -> Label \cup {"off"} \cup Opening \cup Making]
  /\ killed \subseteq Processes

\* The mutex and the statements between its wait and its post.
Inside == {t \in Processes :
             pc[t] \in {"insert", "rear", "send_unlock", "copy", "front", "recv_unlock"}}

Exclusive ==
  /\ sem_mutex <= 1
  /\ sem_mutex = 1 => Inside = {}
  /\ \A s, t \in Inside : s = t

\* The calls under way, by how far they are: a slot is claimed and not filled,
\* filled and not announced, claimed and not emptied, emptied and not announced.
Filling == Cardinality(At({"send_lock", "insert"}))
Filled == Cardinality(At({"rear", "send_unlock", "post_empty"}))
Emptying == Cardinality(At({"recv_lock", "copy"}))
Emptied == Cardinality(At({"front", "recv_unlock", "post_full"}))

\* 1 while rear, or front, is about to move and 0 otherwise.
RearMoves == Cardinality(At({"rear"}))
FrontMoves == Cardinality(At({"front"}))

\* From front the queue reaches to rear, directly or past the end of the ring.
Indices == front + FrontMoves + Length - (rear + RearMoves) \in {0, Capacity}

\* A sender has a message, and a buffer holds one from the copy to the return.
Hands ==
  \A t \in Processes :
    /\ pc[t] \in {"wait_full", "send_lock", "insert", "rear", "send_unlock", "post_empty"} =>
         msg[t] \in Messages
    /\ msgbuf[t] # <<>> <=> pc[t] \in {"front", "recv_unlock", "post_full"}

RingInv == Types /\ Exclusive /\ SemaphoresAgree /\ Indices /\ Hands

-----------------------------------------------------------------------------
(* Facts that several steps need.                                          *)

\* What the assumptions on the constants say of the capacity and the slots.
LEMMA Sizes ==
  /\ Capacity \in Nat /\ Capacity > 0 /\ IsFiniteSet(Processes) /\ None \notin Messages
  /\ \A s : s \in Slot <=> s \in Nat /\ s < Capacity
BY RingAssumption DEF Slot

\* An index that runs past the end of the ring starts again at its beginning.
LEMMA Around ==
  ASSUME NEW x \in Nat, x < 2 * Capacity
  PROVE  x % Capacity = (IF x < Capacity THEN x ELSE x - Capacity)
BY Sizes

\* What the move of one process does to the six numbers of calls under way.
LEMMA Tally ==
  ASSUME NEW t \in Processes, \A u \in Processes \ {t} : pc'[u] = pc[u]
  PROVE  /\ Filling \in Nat /\ Filled \in Nat /\ Emptying \in Nat /\ Emptied \in Nat
         /\ RearMoves \in Nat /\ FrontMoves \in Nat
         /\ pc[t] \in {"send_lock", "insert"} => Filling > 0
         /\ pc[t] \in {"recv_lock", "copy"} => Emptying > 0
         /\ Filling' = Filling + (IF pc'[t] \in {"send_lock", "insert"} THEN 1 ELSE 0)
                               - (IF pc[t] \in {"send_lock", "insert"} THEN 1 ELSE 0)
         /\ Filled' = Filled + (IF pc'[t] \in {"rear", "send_unlock", "post_empty"} THEN 1 ELSE 0)
                             - (IF pc[t] \in {"rear", "send_unlock", "post_empty"} THEN 1 ELSE 0)
         /\ Emptying' = Emptying + (IF pc'[t] \in {"recv_lock", "copy"} THEN 1 ELSE 0)
                                 - (IF pc[t] \in {"recv_lock", "copy"} THEN 1 ELSE 0)
         /\ Emptied' = Emptied + (IF pc'[t] \in {"front", "recv_unlock", "post_full"} THEN 1 ELSE 0)
                               - (IF pc[t] \in {"front", "recv_unlock", "post_full"} THEN 1 ELSE 0)
         /\ RearMoves' = RearMoves + (IF pc'[t] = "rear" THEN 1 ELSE 0)
                                   - (IF pc[t] = "rear" THEN 1 ELSE 0)
         /\ FrontMoves' = FrontMoves + (IF pc'[t] = "front" THEN 1 ELSE 0)
                                     - (IF pc[t] = "front" THEN 1 ELSE 0)
<1> DEFINE Now(L) == Cardinality(Among(Processes, pc, L))
           Then(L) == Cardinality(Among(Processes, pc', L))
<1>1. ASSUME NEW L
      PROVE  /\ Now(L) \in Nat
             /\ pc[t] \in L => Now(L) > 0
             /\ Then(L) = Now(L) + (IF pc'[t] \in L THEN 1 ELSE 0) - (IF pc[t] \in L THEN 1 ELSE 0)
  <2>1. /\ Cardinality(Among(Processes, pc, L)) \in Nat
        /\ pc[t] \in L => Cardinality(Among(Processes, pc, L)) > 0
        /\ Cardinality(Among(Processes, pc', L))
             = Cardinality(Among(Processes, pc, L)) + (IF pc'[t] \in L THEN 1 ELSE 0)
                                                    - (IF pc[t] \in L THEN 1 ELSE 0)
    BY Sizes, CountMove
  <2> QED BY <2>1
<1>2. /\ Filling = Now({"send_lock", "insert"}) /\ Filling' = Then({"send_lock", "insert"})
      /\ Filled = Now({"rear", "send_unlock", "post_empty"})
      /\ Filled' = Then({"rear", "send_unlock", "post_empty"})
      /\ Emptying = Now({"recv_lock", "copy"}) /\ Emptying' = Then({"recv_lock", "copy"})
      /\ Emptied = Now({"front", "recv_unlock", "post_full"})
      /\ Emptied' = Then({"front", "recv_unlock", "post_full"})
      /\ RearMoves = Now({"rear"}) /\ RearMoves' = Then({"rear"})
      /\ FrontMoves = Now({"front"}) /\ FrontMoves' = Then({"front"})
  BY DEF Filling, Filled, Emptying, Emptied, RearMoves, FrontMoves, At, Among
<1> HIDE DEF Now, Then
<1> QED BY <1>1, <1>2

\* The length as a sum, from both sides.
LEMMA LengthIs ==
  /\ Length = Capacity - sem_full - Filling - Emptied
  /\ Length' = Capacity - sem_full' - Filling' - Emptied'
  /\ SemaphoresAgree <=> Length = sem_empty + Emptying + Filled
  /\ SemaphoresAgree' <=> Length' = sem_empty' + Emptying' + Filled'
BY DEF Length, SemaphoresAgree, Filling, Filled, Emptying, Emptied

\* The six numbers are natural numbers.
LEMMA Counts ==
  /\ Filling \in Nat /\ Filled \in Nat /\ Emptying \in Nat /\ Emptied \in Nat
  /\ RearMoves \in Nat /\ FrontMoves \in Nat
<1>1. \A L : At(L) = Among(Processes, pc, L)
  BY DEF At, Among
<1>2. \A L : Cardinality(At(L)) \in Nat
  BY <1>1, Sizes, AmongCount
<1> QED BY <1>2 DEF Filling, Filled, Emptying, Emptied, RearMoves, FrontMoves

\* The queue is at most as long as the ring, and an index that is about to move
\* is moved by the one process inside.
LEMMA LengthInRange ==
  ASSUME RingInv
  PROVE  /\ Length \in 0 .. Capacity
         /\ Filling + Emptied + Length <= Capacity
         /\ Emptying + Filled <= Length
         /\ RearMoves \in {0, 1} /\ FrontMoves \in {0, 1} /\ FrontMoves <= Emptied
         /\ \A t \in Inside : /\ RearMoves = IF pc[t] = "rear" THEN 1 ELSE 0
                              /\ FrontMoves = IF pc[t] = "front" THEN 1 ELSE 0
<1>1. /\ Filling \in Nat /\ Filled \in Nat /\ Emptying \in Nat /\ Emptied \in Nat
      /\ RearMoves \in Nat /\ FrontMoves \in Nat
  BY Counts
<1>2. Length \in 0 .. Capacity /\ Filling + Emptied + Length <= Capacity /\ Emptying + Filled <= Length
  BY <1>1, LengthIs, Sizes DEF RingInv, Types
<1>3. At({"rear"}) \subseteq Inside /\ At({"front"}) \subseteq Inside
  BY DEF At, Inside
<1>4. /\ At({"rear"}) = {} \/ \E t \in Inside : At({"rear"}) = {t}
      /\ At({"front"}) = {} \/ \E t \in Inside : At({"front"}) = {t}
  BY <1>3 DEF RingInv, Exclusive
<1>5. RearMoves \in {0, 1} /\ FrontMoves \in {0, 1}
  BY <1>4, FS_EmptySet, FS_Singleton DEF RearMoves, FrontMoves
<1>6. FrontMoves <= Emptied
  <2>1. IsFiniteSet(At({"front", "recv_unlock", "post_full"}))
    BY Sizes, FS_Subset DEF At
  <2>2. At({"front"}) \subseteq At({"front", "recv_unlock", "post_full"})
    BY DEF At
  <2> QED BY <2>1, <2>2, FS_Subset DEF FrontMoves, Emptied
<1>7. ASSUME NEW t \in Inside
      PROVE  /\ RearMoves = IF pc[t] = "rear" THEN 1 ELSE 0
             /\ FrontMoves = IF pc[t] = "front" THEN 1 ELSE 0
  <2>1. At({"rear"}) = IF pc[t] = "rear" THEN {t} ELSE {}
    BY <1>3 DEF RingInv, Exclusive, At, Inside
  <2>2. At({"front"}) = IF pc[t] = "front" THEN {t} ELSE {}
    BY <1>3 DEF RingInv, Exclusive, At, Inside
  <2> QED BY <2>1, <2>2, FS_EmptySet, FS_Singleton DEF RearMoves, FrontMoves
<1> QED BY <1>2, <1>5, <1>6, <1>7

-----------------------------------------------------------------------------
(* The invariant is inductive: one lemma per action.  What the action does *)
(* to the length, and to front, is needed again for the refinement.        *)

\* A new call waits for a slot and holds its message.
LEMMA CallSendKeeps ==
  ASSUME RingInv, NEW t \in Processes, NEW m \in Messages, CallSend(t, m)
  PROVE  RingInv' /\ Length' = Length /\ FrontMoves' = FrontMoves
<1>1. pc[t] = "idle" /\ pc' = [pc EXCEPT ![t] = "wait_full"] /\ killed' = killed
  BY DEF CallSend, Move
<1>2. /\ Filling' = Filling /\ Filled' = Filled
      /\ Emptying' = Emptying /\ Emptied' = Emptied
      /\ RearMoves' = RearMoves /\ FrontMoves' = FrontMoves
  <2>1. pc'[t] = "wait_full" /\ \A u \in Processes \ {t} : pc'[u] = pc[u]
    BY <1>1 DEF RingInv, Types
  <2> QED BY <1>1, <2>1, Tally
<1>3. Length' = Length /\ SemaphoresAgree'
  <2>1. /\ Filling \in Nat /\ Filled \in Nat /\ Emptying \in Nat /\ Emptied \in Nat
    BY <1>2, Counts
  <2> QED BY <1>2, <2>1, LengthIs, Sizes DEF RingInv, Types, CallSend, ring, sems
<1>4. Types'
  BY <1>1, Sizes DEF RingInv, Types, Label, Value, CallSend, ring, sems
<1>5. Exclusive'
  BY <1>1 DEF RingInv, Types, Exclusive, Inside, CallSend, ring, sems
<1>6. Indices'
  BY <1>2, <1>3, LengthInRange, Sizes
     DEF RingInv, Types, Indices, CallSend, ring, sems
<1>7. Hands'
  BY <1>1, Sizes DEF RingInv, Types, Label, Hands, CallSend, ring, sems
<1> QED BY <1>2, <1>3, <1>4, <1>5, <1>6, <1>7 DEF RingInv

\* The slot taken off the semaphore is now claimed by the call.
LEMMA SendWaitFullKeeps ==
  ASSUME RingInv, NEW t \in Processes, SendWaitFull(t)
  PROVE  RingInv' /\ Length' = Length /\ FrontMoves' = FrontMoves
<1>1. pc[t] = "wait_full" /\ pc' = [pc EXCEPT ![t] = "send_lock"] /\ killed' = killed
  BY DEF SendWaitFull, Move
<1>2. /\ Filling' = Filling + 1 /\ Filled' = Filled
      /\ Emptying' = Emptying /\ Emptied' = Emptied
      /\ RearMoves' = RearMoves /\ FrontMoves' = FrontMoves
  <2>1. pc'[t] = "send_lock" /\ \A u \in Processes \ {t} : pc'[u] = pc[u]
    BY <1>1 DEF RingInv, Types
  <2> QED BY <1>1, <2>1, Tally
<1>3. Length' = Length /\ SemaphoresAgree'
  <2>1. /\ Filling \in Nat /\ Filled \in Nat /\ Emptying \in Nat /\ Emptied \in Nat
    BY <1>2, Counts
  <2> QED BY <1>2, <2>1, LengthIs, Sizes DEF RingInv, Types, SendWaitFull, ring, sems
<1>4. Types'
  BY <1>1, Sizes DEF RingInv, Types, Label, Value, SendWaitFull, ring, sems
<1>5. Exclusive'
  BY <1>1 DEF RingInv, Types, Exclusive, Inside, SendWaitFull, ring, sems
<1>6. Indices'
  BY <1>2, <1>3, LengthInRange, Sizes
     DEF RingInv, Types, Indices, SendWaitFull, ring, sems
<1>7. Hands'
  BY <1>1, Sizes DEF RingInv, Types, Label, Hands, SendWaitFull, ring, sems
<1> QED BY <1>2, <1>3, <1>4, <1>5, <1>6, <1>7 DEF RingInv

\* The mutex was free, so nobody moves an index.
LEMMA SendLockKeeps ==
  ASSUME RingInv, NEW t \in Processes, SendLock(t)
  PROVE  RingInv' /\ Length' = Length /\ FrontMoves' = FrontMoves
<1>1. pc[t] = "send_lock" /\ pc' = [pc EXCEPT ![t] = "insert"] /\ killed' = killed
  BY DEF SendLock, Move
<1>2. /\ Filling' = Filling /\ Filled' = Filled
      /\ Emptying' = Emptying /\ Emptied' = Emptied
      /\ RearMoves' = RearMoves /\ FrontMoves' = FrontMoves
      /\ Filling > 0
  <2>1. pc'[t] = "insert" /\ \A u \in Processes \ {t} : pc'[u] = pc[u]
    BY <1>1 DEF RingInv, Types
  <2> QED BY <1>1, <2>1, Tally
<1>3. Length' = Length /\ SemaphoresAgree'
  <2>1. /\ Filling \in Nat /\ Filled \in Nat /\ Emptying \in Nat /\ Emptied \in Nat
    BY <1>2, Counts
  <2> QED BY <1>2, <2>1, LengthIs, Sizes DEF RingInv, Types, SendLock, ring, sems
<1>4. Types'
  BY <1>1, Sizes DEF RingInv, Types, Label, Value, SendLock, ring, sems
<1>5. Exclusive'
  BY <1>1 DEF RingInv, Types, Exclusive, Inside, SendLock, ring, sems
<1>6. Indices'
  BY <1>2, <1>3, LengthInRange, Sizes
     DEF RingInv, Types, Indices, SendLock, ring, sems
<1>7. Hands'
  BY <1>1, Sizes DEF RingInv, Types, Label, Hands, SendLock, ring, sems
<1> QED BY <1>2, <1>3, <1>4, <1>5, <1>6, <1>7 DEF RingInv

\* The slot claimed is filled: the queue is longer, and rear about to follow.
LEMMA InsertKeeps ==
  ASSUME RingInv, NEW t \in Processes, Insert(t)
  PROVE  RingInv' /\ Length' = Length + 1 /\ FrontMoves' = FrontMoves
<1>1. pc[t] = "insert" /\ pc' = [pc EXCEPT ![t] = "rear"] /\ killed' = killed
  BY DEF Insert, Move
<1>2. /\ Filling' = Filling - 1 /\ Filled' = Filled + 1
      /\ Emptying' = Emptying /\ Emptied' = Emptied
      /\ RearMoves' = RearMoves + 1 /\ FrontMoves' = FrontMoves
      /\ Filling > 0
  <2>1. pc'[t] = "rear" /\ \A u \in Processes \ {t} : pc'[u] = pc[u]
    BY <1>1 DEF RingInv, Types
  <2> QED BY <1>1, <2>1, Tally
<1>3. Length' = Length + 1 /\ SemaphoresAgree'
  <2>1. /\ Filling \in Nat /\ Filled \in Nat /\ Emptying \in Nat /\ Emptied \in Nat
    BY <1>2, Counts
  <2> QED BY <1>2, <2>1, LengthIs, Sizes DEF RingInv, Types, Insert, ring, sems
<1>4. Types'
  BY <1>1, Sizes DEF RingInv, Types, Label, Value, Insert, ring, sems
<1>5. Exclusive'
  BY <1>1 DEF RingInv, Types, Exclusive, Inside, Insert, ring, sems
<1>6. Indices'
  <2>1. Length \in Nat /\ FrontMoves \in Nat /\ RearMoves \in Nat
    BY LengthInRange, Sizes
  <2>2. front \in Nat /\ rear \in Nat /\ front' = front /\ rear' = rear
    BY Sizes DEF RingInv, Types, Insert
  <2> QED BY <1>2, <1>3, <2>1, <2>2, Sizes DEF RingInv, Indices
<1>7. Hands'
  BY <1>1, Sizes DEF RingInv, Types, Label, Hands, Insert, ring, sems
<1> QED BY <1>2, <1>3, <1>4, <1>5, <1>6, <1>7 DEF RingInv

\* rear moves past the slot that was filled, or back to the start of the ring.
LEMMA AdvanceRearKeeps ==
  ASSUME RingInv, NEW t \in Processes, AdvanceRear(t)
  PROVE  RingInv' /\ Length' = Length /\ FrontMoves' = FrontMoves
<1>1. pc[t] = "rear" /\ pc' = [pc EXCEPT ![t] = "send_unlock"] /\ killed' = killed
  BY DEF AdvanceRear, Move
<1>2. /\ Filling' = Filling /\ Filled' = Filled
      /\ Emptying' = Emptying /\ Emptied' = Emptied
      /\ RearMoves' = RearMoves - 1 /\ FrontMoves' = FrontMoves
  <2>1. pc'[t] = "send_unlock" /\ \A u \in Processes \ {t} : pc'[u] = pc[u]
    BY <1>1 DEF RingInv, Types
  <2> QED BY <1>1, <2>1, Tally
<1>3. Length' = Length /\ SemaphoresAgree'
  <2>1. /\ Filling \in Nat /\ Filled \in Nat /\ Emptying \in Nat /\ Emptied \in Nat
    BY <1>2, Counts
  <2> QED BY <1>2, <2>1, LengthIs, Sizes DEF RingInv, Types, AdvanceRear, ring, sems
<1>4. Types'
  <2>1. (rear + 1) % Capacity \in Slot
    <3>1. rear \in Nat /\ rear < Capacity
      BY Sizes DEF RingInv, Types
    <3>2. rear + 1 \in Nat /\ rear + 1 < 2 * Capacity
      BY <3>1, Sizes
    <3> QED BY <3>1, <3>2, Around, Sizes
  <2> QED BY <1>1, <2>1 DEF RingInv, Types, Label, AdvanceRear, sems
<1>5. Exclusive'
  BY <1>1 DEF RingInv, Types, Exclusive, Inside, AdvanceRear, ring, sems
<1>6. Indices'
  <2>1. rear \in Nat /\ rear < Capacity /\ rear' = IF rear + 1 < Capacity THEN rear + 1 ELSE 0
    <3>1. rear \in Nat /\ rear < Capacity
      BY Sizes DEF RingInv, Types
    <3>2. rear + 1 \in Nat /\ rear + 1 < 2 * Capacity
      BY <3>1, Sizes
    <3> QED BY <3>1, <3>2, Around, Sizes DEF AdvanceRear
  <2>2. RearMoves = 1 /\ FrontMoves = 0
    BY <1>1, LengthInRange DEF Inside
  <2>3. front \in Nat /\ front < Capacity /\ front' = front
    BY Sizes DEF RingInv, Types, AdvanceRear
  <2>4. Length \in Nat /\ Length <= Capacity
    BY LengthInRange, Sizes
  <2> QED BY <1>2, <1>3, <2>1, <2>2, <2>3, <2>4, Sizes DEF RingInv, Indices
<1>7. Hands'
  BY <1>1, Sizes DEF RingInv, Types, Label, Hands, AdvanceRear, ring, sems
<1> QED BY <1>2, <1>3, <1>4, <1>5, <1>6, <1>7 DEF RingInv

\* The mutex is given back by the one process inside.
LEMMA SendUnlockKeeps ==
  ASSUME RingInv, NEW t \in Processes, SendUnlock(t)
  PROVE  RingInv' /\ Length' = Length /\ FrontMoves' = FrontMoves
<1>1. pc[t] = "send_unlock" /\ pc' = [pc EXCEPT ![t] = "post_empty"] /\ killed' = killed
  BY DEF SendUnlock, Move
<1>2. /\ Filling' = Filling /\ Filled' = Filled
      /\ Emptying' = Emptying /\ Emptied' = Emptied
      /\ RearMoves' = RearMoves /\ FrontMoves' = FrontMoves
  <2>1. pc'[t] = "post_empty" /\ \A u \in Processes \ {t} : pc'[u] = pc[u]
    BY <1>1 DEF RingInv, Types
  <2> QED BY <1>1, <2>1, Tally
<1>3. Length' = Length /\ SemaphoresAgree'
  <2>1. /\ Filling \in Nat /\ Filled \in Nat /\ Emptying \in Nat /\ Emptied \in Nat
    BY <1>2, Counts
  <2> QED BY <1>2, <2>1, LengthIs, Sizes DEF RingInv, Types, SendUnlock, ring, sems
<1>4. Types'
  BY <1>1, Sizes DEF RingInv, Types, Label, Value, SendUnlock, ring, sems
<1>5. Exclusive'
  BY <1>1 DEF RingInv, Types, Exclusive, Inside, SendUnlock, ring, sems
<1>6. Indices'
  BY <1>2, <1>3, LengthInRange, Sizes
     DEF RingInv, Types, Indices, SendUnlock, ring, sems
<1>7. Hands'
  BY <1>1, Sizes DEF RingInv, Types, Label, Hands, SendUnlock, ring, sems
<1> QED BY <1>2, <1>3, <1>4, <1>5, <1>6, <1>7 DEF RingInv

\* The message is announced by the semaphore instead of the call.
LEMMA PostEmptyKeeps ==
  ASSUME RingInv, NEW t \in Processes, PostEmpty(t)
  PROVE  RingInv' /\ Length' = Length /\ FrontMoves' = FrontMoves
<1>1. pc[t] = "post_empty" /\ pc' = [pc EXCEPT ![t] = "idle"] /\ killed' = killed
  BY DEF PostEmpty, Move
<1>2. /\ Filling' = Filling /\ Filled' = Filled - 1
      /\ Emptying' = Emptying /\ Emptied' = Emptied
      /\ RearMoves' = RearMoves /\ FrontMoves' = FrontMoves
  <2>1. pc'[t] = "idle" /\ \A u \in Processes \ {t} : pc'[u] = pc[u]
    BY <1>1 DEF RingInv, Types
  <2> QED BY <1>1, <2>1, Tally
<1>3. Length' = Length /\ SemaphoresAgree'
  <2>1. /\ Filling \in Nat /\ Filled \in Nat /\ Emptying \in Nat /\ Emptied \in Nat
    BY <1>2, Counts
  <2> QED BY <1>2, <2>1, LengthIs, Sizes DEF RingInv, Types, PostEmpty, ring, sems
<1>4. Types'
  BY <1>1, Sizes DEF RingInv, Types, Label, Value, PostEmpty, ring, sems
<1>5. Exclusive'
  BY <1>1 DEF RingInv, Types, Exclusive, Inside, PostEmpty, ring, sems
<1>6. Indices'
  BY <1>2, <1>3, LengthInRange, Sizes
     DEF RingInv, Types, Indices, PostEmpty, ring, sems
<1>7. Hands'
  BY <1>1, Sizes DEF RingInv, Types, Label, Hands, PostEmpty, ring, sems
<1> QED BY <1>2, <1>3, <1>4, <1>5, <1>6, <1>7 DEF RingInv

\* A new call waits for a message and touches nothing.
LEMMA CallRecvKeeps ==
  ASSUME RingInv, NEW t \in Processes, CallRecv(t)
  PROVE  RingInv' /\ Length' = Length /\ FrontMoves' = FrontMoves
<1>1. pc[t] = "idle" /\ pc' = [pc EXCEPT ![t] = "wait_empty"] /\ killed' = killed
  BY DEF CallRecv, Move
<1>2. /\ Filling' = Filling /\ Filled' = Filled
      /\ Emptying' = Emptying /\ Emptied' = Emptied
      /\ RearMoves' = RearMoves /\ FrontMoves' = FrontMoves
  <2>1. pc'[t] = "wait_empty" /\ \A u \in Processes \ {t} : pc'[u] = pc[u]
    BY <1>1 DEF RingInv, Types
  <2> QED BY <1>1, <2>1, Tally
<1>3. Length' = Length /\ SemaphoresAgree'
  <2>1. /\ Filling \in Nat /\ Filled \in Nat /\ Emptying \in Nat /\ Emptied \in Nat
    BY <1>2, Counts
  <2> QED BY <1>2, <2>1, LengthIs, Sizes DEF RingInv, Types, CallRecv, ring, sems
<1>4. Types'
  BY <1>1, Sizes DEF RingInv, Types, Label, Value, CallRecv, ring, sems
<1>5. Exclusive'
  BY <1>1 DEF RingInv, Types, Exclusive, Inside, CallRecv, ring, sems
<1>6. Indices'
  BY <1>2, <1>3, LengthInRange, Sizes
     DEF RingInv, Types, Indices, CallRecv, ring, sems
<1>7. Hands'
  BY <1>1, Sizes DEF RingInv, Types, Label, Hands, CallRecv, ring, sems
<1> QED BY <1>2, <1>3, <1>4, <1>5, <1>6, <1>7 DEF RingInv

\* The message taken off the semaphore is now claimed by the call.
LEMMA RecvWaitEmptyKeeps ==
  ASSUME RingInv, NEW t \in Processes, RecvWaitEmpty(t)
  PROVE  RingInv' /\ Length' = Length /\ FrontMoves' = FrontMoves
<1>1. pc[t] = "wait_empty" /\ pc' = [pc EXCEPT ![t] = "recv_lock"] /\ killed' = killed
  BY DEF RecvWaitEmpty, Move
<1>2. /\ Filling' = Filling /\ Filled' = Filled
      /\ Emptying' = Emptying + 1 /\ Emptied' = Emptied
      /\ RearMoves' = RearMoves /\ FrontMoves' = FrontMoves
  <2>1. pc'[t] = "recv_lock" /\ \A u \in Processes \ {t} : pc'[u] = pc[u]
    BY <1>1 DEF RingInv, Types
  <2> QED BY <1>1, <2>1, Tally
<1>3. Length' = Length /\ SemaphoresAgree'
  <2>1. /\ Filling \in Nat /\ Filled \in Nat /\ Emptying \in Nat /\ Emptied \in Nat
    BY <1>2, Counts
  <2> QED BY <1>2, <2>1, LengthIs, Sizes
        DEF RingInv, Types, RecvWaitEmpty, ring, sems
<1>4. Types'
  BY <1>1, Sizes DEF RingInv, Types, Label, Value, RecvWaitEmpty, ring, sems
<1>5. Exclusive'
  BY <1>1 DEF RingInv, Types, Exclusive, Inside, RecvWaitEmpty, ring, sems
<1>6. Indices'
  BY <1>2, <1>3, LengthInRange, Sizes
     DEF RingInv, Types, Indices, RecvWaitEmpty, ring, sems
<1>7. Hands'
  BY <1>1, Sizes DEF RingInv, Types, Label, Hands, RecvWaitEmpty, ring, sems
<1> QED BY <1>2, <1>3, <1>4, <1>5, <1>6, <1>7 DEF RingInv

\* The mutex was free, so nobody moves an index.
LEMMA RecvLockKeeps ==
  ASSUME RingInv, NEW t \in Processes, RecvLock(t)
  PROVE  RingInv' /\ Length' = Length /\ FrontMoves' = FrontMoves
<1>1. pc[t] = "recv_lock" /\ pc' = [pc EXCEPT ![t] = "copy"] /\ killed' = killed
  BY DEF RecvLock, Move
<1>2. /\ Filling' = Filling /\ Filled' = Filled
      /\ Emptying' = Emptying /\ Emptied' = Emptied
      /\ RearMoves' = RearMoves /\ FrontMoves' = FrontMoves
      /\ Emptying > 0
  <2>1. pc'[t] = "copy" /\ \A u \in Processes \ {t} : pc'[u] = pc[u]
    BY <1>1 DEF RingInv, Types
  <2> QED BY <1>1, <2>1, Tally
<1>3. Length' = Length /\ SemaphoresAgree'
  <2>1. /\ Filling \in Nat /\ Filled \in Nat /\ Emptying \in Nat /\ Emptied \in Nat
    BY <1>2, Counts
  <2> QED BY <1>2, <2>1, LengthIs, Sizes DEF RingInv, Types, RecvLock, ring, sems
<1>4. Types'
  BY <1>1, Sizes DEF RingInv, Types, Label, Value, RecvLock, ring, sems
<1>5. Exclusive'
  BY <1>1 DEF RingInv, Types, Exclusive, Inside, RecvLock, ring, sems
<1>6. Indices'
  BY <1>2, <1>3, LengthInRange, Sizes
     DEF RingInv, Types, Indices, RecvLock, ring, sems
<1>7. Hands'
  BY <1>1, Sizes DEF RingInv, Types, Label, Hands, RecvLock, ring, sems
<1> QED BY <1>2, <1>3, <1>4, <1>5, <1>6, <1>7 DEF RingInv

\* The message is out: the queue is shorter, and front about to follow.
LEMMA CopyOutKeeps ==
  ASSUME RingInv, NEW t \in Processes, CopyOut(t)
  PROVE  RingInv' /\ Length' = Length - 1 /\ FrontMoves' = FrontMoves + 1
<1>1. pc[t] = "copy" /\ pc' = [pc EXCEPT ![t] = "front"] /\ killed' = killed
  BY DEF CopyOut, Move
<1>2. /\ Filling' = Filling /\ Filled' = Filled
      /\ Emptying' = Emptying - 1 /\ Emptied' = Emptied + 1
      /\ RearMoves' = RearMoves /\ FrontMoves' = FrontMoves + 1
      /\ Emptying > 0
  <2>1. pc'[t] = "front" /\ \A u \in Processes \ {t} : pc'[u] = pc[u]
    BY <1>1 DEF RingInv, Types
  <2> QED BY <1>1, <2>1, Tally
<1>3. Length' = Length - 1 /\ SemaphoresAgree'
  <2>1. /\ Filling \in Nat /\ Filled \in Nat /\ Emptying \in Nat /\ Emptied \in Nat
    BY <1>2, Counts
  <2> QED BY <1>2, <2>1, LengthIs, Sizes DEF RingInv, Types, CopyOut, ring, sems
<1>4. Types'
  BY <1>1, Sizes DEF RingInv, Types, Label, Value, CopyOut, ring, sems
<1>5. Exclusive'
  BY <1>1 DEF RingInv, Types, Exclusive, Inside, CopyOut, ring, sems
<1>6. Indices'
  <2>1. Length \in Nat /\ FrontMoves \in Nat /\ RearMoves \in Nat
    BY LengthInRange, Sizes
  <2>2. front \in Nat /\ rear \in Nat /\ front' = front /\ rear' = rear
    BY Sizes DEF RingInv, Types, CopyOut, ring
  <2> QED BY <1>2, <1>3, <2>1, <2>2, Sizes DEF RingInv, Indices
<1>7. Hands'
  BY <1>1, Sizes DEF RingInv, Types, Label, Hands, CopyOut, ring, sems
<1> QED BY <1>2, <1>3, <1>4, <1>5, <1>6, <1>7 DEF RingInv

\* front moves past the slot that was emptied, or back to the start of the ring.
LEMMA AdvanceFrontKeeps ==
  ASSUME RingInv, NEW t \in Processes, AdvanceFront(t)
  PROVE  RingInv' /\ Length' = Length /\ FrontMoves' = FrontMoves - 1
<1>1. pc[t] = "front" /\ pc' = [pc EXCEPT ![t] = "recv_unlock"] /\ killed' = killed
  BY DEF AdvanceFront, Move
<1>2. /\ Filling' = Filling /\ Filled' = Filled
      /\ Emptying' = Emptying /\ Emptied' = Emptied
      /\ RearMoves' = RearMoves /\ FrontMoves' = FrontMoves - 1
  <2>1. pc'[t] = "recv_unlock" /\ \A u \in Processes \ {t} : pc'[u] = pc[u]
    BY <1>1 DEF RingInv, Types
  <2> QED BY <1>1, <2>1, Tally
<1>3. Length' = Length /\ SemaphoresAgree'
  <2>1. /\ Filling \in Nat /\ Filled \in Nat /\ Emptying \in Nat /\ Emptied \in Nat
    BY <1>2, Counts
  <2> QED BY <1>2, <2>1, LengthIs, Sizes DEF RingInv, Types, AdvanceFront, ring, sems
<1>4. Types'
  <2>1. (front + 1) % Capacity \in Slot
    <3>1. front \in Nat /\ front < Capacity
      BY Sizes DEF RingInv, Types
    <3>2. front + 1 \in Nat /\ front + 1 < 2 * Capacity
      BY <3>1, Sizes
    <3> QED BY <3>1, <3>2, Around, Sizes
  <2> QED BY <1>1, <2>1 DEF RingInv, Types, Label, AdvanceFront, sems
<1>5. Exclusive'
  BY <1>1 DEF RingInv, Types, Exclusive, Inside, AdvanceFront, ring, sems
<1>6. Indices'
  <2>1. front \in Nat /\ front < Capacity /\ front' = IF front + 1 < Capacity THEN front + 1 ELSE 0
    <3>1. front \in Nat /\ front < Capacity
      BY Sizes DEF RingInv, Types
    <3>2. front + 1 \in Nat /\ front + 1 < 2 * Capacity
      BY <3>1, Sizes
    <3> QED BY <3>1, <3>2, Around, Sizes DEF AdvanceFront
  <2>2. FrontMoves = 1 /\ RearMoves = 0
    BY <1>1, LengthInRange DEF Inside
  <2>3. rear \in Nat /\ rear < Capacity /\ rear' = rear
    BY Sizes DEF RingInv, Types, AdvanceFront
  <2>4. Length \in Nat /\ Length <= Capacity
    BY LengthInRange, Sizes
  <2> QED BY <1>2, <1>3, <2>1, <2>2, <2>3, <2>4, Sizes DEF RingInv, Indices
<1>7. Hands'
  BY <1>1, Sizes DEF RingInv, Types, Label, Hands, AdvanceFront, ring, sems
<1> QED BY <1>2, <1>3, <1>4, <1>5, <1>6, <1>7 DEF RingInv

\* The mutex is given back by the one process inside.
LEMMA RecvUnlockKeeps ==
  ASSUME RingInv, NEW t \in Processes, RecvUnlock(t)
  PROVE  RingInv' /\ Length' = Length /\ FrontMoves' = FrontMoves
<1>1. pc[t] = "recv_unlock" /\ pc' = [pc EXCEPT ![t] = "post_full"] /\ killed' = killed
  BY DEF RecvUnlock, Move
<1>2. /\ Filling' = Filling /\ Filled' = Filled
      /\ Emptying' = Emptying /\ Emptied' = Emptied
      /\ RearMoves' = RearMoves /\ FrontMoves' = FrontMoves
  <2>1. pc'[t] = "post_full" /\ \A u \in Processes \ {t} : pc'[u] = pc[u]
    BY <1>1 DEF RingInv, Types
  <2> QED BY <1>1, <2>1, Tally
<1>3. Length' = Length /\ SemaphoresAgree'
  <2>1. /\ Filling \in Nat /\ Filled \in Nat /\ Emptying \in Nat /\ Emptied \in Nat
    BY <1>2, Counts
  <2> QED BY <1>2, <2>1, LengthIs, Sizes DEF RingInv, Types, RecvUnlock, ring, sems
<1>4. Types'
  BY <1>1, Sizes DEF RingInv, Types, Label, Value, RecvUnlock, ring, sems
<1>5. Exclusive'
  BY <1>1 DEF RingInv, Types, Exclusive, Inside, RecvUnlock, ring, sems
<1>6. Indices'
  BY <1>2, <1>3, LengthInRange, Sizes
     DEF RingInv, Types, Indices, RecvUnlock, ring, sems
<1>7. Hands'
  BY <1>1, Sizes DEF RingInv, Types, Label, Hands, RecvUnlock, ring, sems
<1> QED BY <1>2, <1>3, <1>4, <1>5, <1>6, <1>7 DEF RingInv

\* The slot is offered by the semaphore instead of the call.
LEMMA PostFullKeeps ==
  ASSUME RingInv, NEW t \in Processes, PostFull(t)
  PROVE  RingInv' /\ Length' = Length /\ FrontMoves' = FrontMoves
<1>1. pc[t] = "post_full" /\ pc' = [pc EXCEPT ![t] = "idle"] /\ killed' = killed
  BY DEF PostFull, Move
<1>2. /\ Filling' = Filling /\ Filled' = Filled
      /\ Emptying' = Emptying /\ Emptied' = Emptied - 1
      /\ RearMoves' = RearMoves /\ FrontMoves' = FrontMoves
  <2>1. pc'[t] = "idle" /\ \A u \in Processes \ {t} : pc'[u] = pc[u]
    BY <1>1 DEF RingInv, Types
  <2> QED BY <1>1, <2>1, Tally
<1>3. Length' = Length /\ SemaphoresAgree'
  <2>1. /\ Filling \in Nat /\ Filled \in Nat /\ Emptying \in Nat /\ Emptied \in Nat
    BY <1>2, Counts
  <2> QED BY <1>2, <2>1, LengthIs, Sizes DEF RingInv, Types, PostFull, ring, sems
<1>4. Types'
  BY <1>1, Sizes DEF RingInv, Types, Label, Value, PostFull, ring, sems
<1>5. Exclusive'
  BY <1>1 DEF RingInv, Types, Exclusive, Inside, PostFull, ring, sems
<1>6. Indices'
  BY <1>2, <1>3, LengthInRange, Sizes
     DEF RingInv, Types, Indices, PostFull, ring, sems
<1>7. Hands'
  BY <1>1, Sizes DEF RingInv, Types, Label, Hands, PostFull, ring, sems
<1> QED BY <1>2, <1>3, <1>4, <1>5, <1>6, <1>7 DEF RingInv

\* A process that is stopped keeps its place in the invariant: it is counted on.
LEMMA RingKillKeeps ==
  ASSUME RingInv, NEW t \in Processes, Kill(t)
  PROVE  RingInv'
BY
   DEF RingInv, Types, Exclusive, Inside, SemaphoresAgree, Indices, Length, At,
       RearMoves,
       FrontMoves, Hands, Kill, ring, sems

\* Nothing changes when no variable does.
LEMMA RingStutterKeeps ==
  ASSUME RingInv, UNCHANGED vars
  PROVE  RingInv'
BY
   DEF RingInv, Types, Exclusive, Inside, SemaphoresAgree, Indices, Length, At,
       RearMoves,
       FrontMoves, Hands, vars

\* A ring with every slot free and nobody in a call.
Empty ==
  /\ front = 0 /\ rear = 0 /\ data = [s \in Slot |-> None]
  /\ sem_full = Capacity /\ sem_empty = 0 /\ sem_mutex = 1
  /\ msg = [t \in Processes |-> None] /\ msgbuf = [t \in Processes |-> <<>>]
  /\ pc \in [Processes -> {"idle", "off"} \cup Opening \cup Making]
  /\ killed \subseteq Processes

\* Such a ring satisfies the invariant, and the queue in it is empty.
LEMMA EmptyRing == Empty => RingInv /\ Length = 0
<1> SUFFICES ASSUME Empty PROVE RingInv /\ Length = 0
  OBVIOUS
<1> USE Sizes DEF Empty
<1>1. Types
  BY EmptySeq DEF Types, Label, Value
<1>2. \A t \in Processes : pc[t] \in {"idle", "off"} \cup Opening \cup Making
  OBVIOUS
<1>3. Exclusive /\ Hands
  <2>1. Inside = {}
    BY <1>2 DEF Inside, Opening, Making
  <2>2. \A t \in Processes : msgbuf[t] = <<>>
    OBVIOUS
  <2>3. Hands
    BY <1>2, <2>2 DEF Hands, Opening, Making
  <2> QED BY <2>1, <2>3 DEF Exclusive
<1>4. \A L \in SUBSET (Label \ {"idle"}) : At(L) = {}
  BY <1>2 DEF At, Label, Opening, Making
<1>5. Cardinality({}) = 0
  BY FS_EmptySet
<1>6. Filling = 0 /\ Filled = 0 /\ Emptying = 0 /\ Emptied = 0 /\ RearMoves = 0 /\ FrontMoves = 0
  BY <1>4, <1>5
     DEF Filling, Filled, Emptying, Emptied, RearMoves, FrontMoves, Label
<1>7. SemaphoresAgree /\ Indices /\ Length = 0
  BY <1>6, LengthIs DEF Indices
<1> QED BY <1>1, <1>3, <1>7 DEF RingInv

\* The same of the state after a step.
LEMMA EmptyNext == Empty' => RingInv' /\ (Length = 0)'
BY EmptyRing, PTL

\* init_queue leaves an empty ring with every slot free.
LEMMA RingInitially == Init => RingInv
<1>1. Init => Empty
  BY DEF Init, Empty
<1> QED BY <1>1, EmptyRing

\* Every step of every process keeps the invariant.
LEMMA RingInductive == RingInv /\ [Next]_vars => RingInv'
<1> SUFFICES ASSUME RingInv, [Next]_vars PROVE RingInv'
  OBVIOUS
<1>1. ASSUME NEW t \in Processes, SendStep(t) PROVE RingInv'
  BY <1>1, SendWaitFullKeeps, SendLockKeeps, InsertKeeps, AdvanceRearKeeps, SendUnlockKeeps,
     PostEmptyKeeps DEF SendStep
<1>2. ASSUME NEW t \in Processes, RecvStep(t) PROVE RingInv'
  BY <1>2, RecvWaitEmptyKeeps, RecvLockKeeps, CopyOutKeeps, AdvanceFrontKeeps, RecvUnlockKeeps,
     PostFullKeeps DEF RecvStep
<1> QED BY <1>1, <1>2, CallSendKeeps, CallRecvKeeps, RingKillKeeps, RingStutterKeeps DEF Next

\* The inductive invariant holds in every reachable state of the queue.
THEOREM RingInvariance == Spec => []RingInv
BY RingInitially, RingInductive, PTL DEF Spec

-----------------------------------------------------------------------------
(* What the invariant gives.                                               *)

\* Whoever is killed and where, the two semaphores count the same queue.
THEOREM RingAgreement == Spec => []SemaphoresAgree
<1>1. RingInv => SemaphoresAgree
  BY DEF RingInv
<1> QED BY <1>1, RingInvariance, PTL

-----------------------------------------------------------------------------
(* RingQueue implements BoundedQueue.                                      *)

\* The slot of the k-th message of the queue.
Place(k) == IF front + FrontMoves + k - 1 < Capacity THEN front + FrontMoves + k - 1
                                                     ELSE front + FrontMoves + k - 1 - Capacity

\* The queue is a window of the ring that starts at front, or behind it when
\* the oldest message was just copied out.
InWindow ==
  /\ Contents \in Seq(Value) /\ Len(Contents) = Length /\ Length \in Nat
  /\ \A k \in 1 .. Length : Place(k) \in Slot /\ Contents[k] = data[Place(k)]

\* The slots of the window, without the remainders.
LEMMA Window == RingInv => InWindow
<1> SUFFICES ASSUME RingInv PROVE InWindow
  OBVIOUS
<1>1. /\ Length \in Nat /\ FrontMoves \in {0, 1} /\ Length + FrontMoves <= Capacity
      /\ front \in Nat /\ front < Capacity
  BY LengthInRange, Counts, Sizes DEF RingInv, Types
<1>2. ASSUME NEW k \in 1 .. Length
      PROVE  /\ (front + FrontMoves + k - 1) % Capacity = Place(k)
             /\ Place(k) \in Slot
  <2> DEFINE x == front + FrontMoves + k - 1
  <2>1. x \in Nat /\ x < 2 * Capacity
    BY <1>1, Sizes
  <2>2. Place(k) = IF x < Capacity THEN x ELSE x - Capacity
    BY <1>1, Sizes DEF Place
  <2> HIDE DEF x
  <2>3. x % Capacity = Place(k)
    BY <2>1, <2>2, Around
  <2>4. Place(k) \in Nat /\ Place(k) < Capacity
    BY <2>1, <2>2, Sizes
  <2> QED BY <2>3, <2>4, Sizes DEF x
<1>3. Contents = [k \in 1 .. Length |-> data[Place(k)]]
  <2>1. Contents = [k \in 1 .. Length |-> data[(front + FrontMoves + k - 1) % Capacity]]
    BY DEF Contents, FrontMoves
  <2> QED BY <1>2, <2>1
<1>4. \A k \in 1 .. Length : data[Place(k)] \in Value
  BY <1>2 DEF RingInv, Types
<1> QED BY <1>1, <1>2, <1>3, <1>4 DEF InWindow

\* The same of the state after a step.
LEMMA WindowNext == RingInv' => InWindow'
BY Window, PTL

\* A step that moves neither front, nor the window behind it, nor a message
\* leaves the queue alone.
LEMMA Hidden ==
  ASSUME Length' = Length, FrontMoves' = FrontMoves, UNCHANGED <<front, data, msgbuf>>
  PROVE  UNCHANGED <<Contents, msgbuf>>
BY DEF Contents, FrontMoves

\* Copying the message into the ring is the step at which it is sent: the slot
\* at rear is the first behind the window.
LEMMA InsertIsSend ==
  ASSUME RingInv, RingInv', NEW t \in Processes, Insert(t)
  PROVE  \E m \in Messages : Abstract!Send(m)
<1>1. pc[t] = "insert" /\ UNCHANGED <<front, rear, msgbuf>> /\ data' = [data EXCEPT ![rear] = msg[t]]
  BY DEF Insert, Move
<1>2. Length' = Length + 1 /\ FrontMoves' = FrontMoves
  BY InsertKeeps
<1>3. FrontMoves = 0 /\ RearMoves = 0 /\ Length \in Nat /\ Length < Capacity
  <2>1. Filling > 0 /\ Filling \in Nat /\ Emptied \in Nat
    BY <1>1, Counts, Tally DEF Insert, Move, RingInv, Types
  <2> QED BY <1>1, <2>1, LengthInRange, Sizes DEF Inside
<1>4. front \in Nat /\ front < Capacity /\ rear \in Slot /\ msg[t] \in Messages
  BY <1>1, Sizes DEF RingInv, Types, Hands
<1>5. rear = IF front + Length < Capacity THEN front + Length ELSE front + Length - Capacity
  BY <1>3, <1>4, Sizes DEF RingInv, Indices
<1>6. ASSUME NEW k \in 1 .. Length
      PROVE  Place(k)' = Place(k) /\ Place(k) # rear
  BY <1>1, <1>2, <1>3, <1>4, <1>5, Sizes DEF Place
<1> PICK n \in Nat : n = Length + 1
  BY <1>3
<1>7. Place(n)' = rear
  BY <1>1, <1>2, <1>3, <1>4, <1>5, Sizes DEF Place
<1>8. /\ \A k \in 1 .. Length : Contents'[k] = Contents[k]
      /\ Contents'[n] = msg[t]
  <2>1. InWindow /\ InWindow'
    BY Window, WindowNext
  <2>2. ASSUME NEW k \in 1 .. Length PROVE Contents'[k] = Contents[k]
    <3>1. Contents[k] = data[Place(k)] /\ Place(k) \in Slot
      BY <2>1 DEF InWindow
    <3>2. k \in 1 .. Length' /\ Contents'[k] = data'[Place(k)']
      BY <1>2, <1>3, <2>1 DEF InWindow
    <3> QED BY <1>1, <1>6, <3>1, <3>2 DEF RingInv, Types
  <2>3. Contents'[n] = data'[Place(n)']
    BY <1>2, <1>3, <2>1 DEF InWindow
  <2> QED BY <1>1, <1>4, <1>7, <2>2, <2>3 DEF RingInv, Types
<1>9. Contents' = Append(Contents, msg[t])
  BY <1>2, <1>3, <1>8, Window, WindowNext, AppendIs DEF InWindow
<1> QED BY <1>1, <1>3, <1>4, <1>9, Window DEF InWindow, Abstract!Send

\* Copying the message out is the step at which it is received: front is the
\* slot of the oldest one.
LEMMA CopyOutIsRecv ==
  ASSUME RingInv, RingInv', NEW t \in Processes, CopyOut(t)
  PROVE  Abstract!Recv(t)
<1>1. pc[t] = "copy" /\ UNCHANGED <<front, data>> /\ msgbuf' = [msgbuf EXCEPT ![t] = <<data[front]>>]
  BY DEF CopyOut, Move, ring
<1>2. Length' = Length - 1 /\ FrontMoves' = FrontMoves + 1
  BY CopyOutKeeps
<1>3. FrontMoves = 0 /\ Length \in Nat /\ Length > 0
  <2>1. Emptying > 0 /\ Emptying \in Nat /\ Filled \in Nat
    BY <1>1, Counts, Tally DEF CopyOut, Move, RingInv, Types
  <2> QED BY <1>1, <2>1, LengthInRange, Sizes DEF Inside
<1>4. front \in Nat /\ front < Capacity
  BY Sizes DEF RingInv, Types
<1>5. Place(1) = front
  BY <1>3, <1>4, Sizes DEF Place
<1>6. ASSUME NEW k \in 1 .. Length - 1
      PROVE  Place(k)' = Place(k + 1)
  BY <1>1, <1>2, <1>3, <1>4, Sizes DEF Place
<1>7. InWindow /\ InWindow'
  BY Window, WindowNext
<1>8. Contents # <<>> /\ Head(Contents) = data[front]
  <2>1. Contents[1] = data[front] /\ Len(Contents) # 0
    BY <1>3, <1>5, <1>7 DEF InWindow
  <2> QED BY <1>7, <2>1 DEF InWindow
<1>9. ASSUME NEW k \in 1 .. Length - 1 PROVE Contents'[k] = Contents[k + 1]
  <2>1. k \in 1 .. Length' /\ k + 1 \in 1 .. Length
    BY <1>2, <1>3
  <2> QED BY <1>1, <1>6, <1>7, <2>1 DEF InWindow
<1>10. Contents' = Tail(Contents)
  BY <1>2, <1>3, <1>7, <1>8, <1>9, TailIs DEF InWindow
<1>11. msgbuf[t] = <<>>
  BY <1>1 DEF RingInv, Hands
<1> QED BY <1>1, <1>8, <1>10, <1>11 DEF Abstract!Recv

\* A window that begins behind front begins at front when front has moved on.
LEMMA AdvanceFrontIsHidden ==
  ASSUME RingInv, RingInv', NEW t \in Processes, AdvanceFront(t)
  PROVE  UNCHANGED <<Contents, msgbuf>>
<1>1. pc[t] = "front" /\ UNCHANGED <<data, msgbuf>> /\ front' = (front + 1) % Capacity
  BY DEF AdvanceFront, Move
<1>2. Length' = Length /\ FrontMoves' = FrontMoves - 1
  BY AdvanceFrontKeeps
<1>3. FrontMoves = 1 /\ Length \in Nat /\ Length < Capacity
  BY <1>1, LengthInRange, Counts, Sizes DEF Inside
<1>4. /\ front \in Nat /\ front < Capacity
      /\ front' = IF front + 1 < Capacity THEN front + 1 ELSE front + 1 - Capacity
  <2>1. front \in Nat /\ front < Capacity
    BY Sizes DEF RingInv, Types
  <2>2. front + 1 \in Nat /\ front + 1 < 2 * Capacity
    BY <2>1, Sizes
  <2>3. (front + 1) % Capacity = IF front + 1 < Capacity THEN front + 1 ELSE front + 1 - Capacity
    BY <2>1, <2>2, Around, Sizes
  <2> QED BY <1>1, <2>1, <2>3
<1>5. ASSUME NEW k \in 1 .. Length PROVE Place(k)' = Place(k)
  BY <1>2, <1>3, <1>4, Sizes DEF Place
<1>6. InWindow /\ InWindow'
  BY Window, WindowNext
<1>7. \A k \in 1 .. Length : Contents'[k] = Contents[k]
  BY <1>1, <1>2, <1>5, <1>6 DEF InWindow
<1> QED BY <1>1, <1>2, <1>6, <1>7, SeqEqual DEF InWindow

\* The call returns with its message when it gives the slot back.
LEMMA PostFullIsReturn ==
  ASSUME RingInv, RingInv', NEW t \in Processes, PostFull(t)
  PROVE  Abstract!Return(t)
<1>1. pc[t] = "post_full" /\ UNCHANGED <<front, data>> /\ msgbuf' = [msgbuf EXCEPT ![t] = <<>>]
  BY DEF PostFull, Move, ring
<1>2. Length' = Length /\ FrontMoves' = FrontMoves
  BY PostFullKeeps
<1>3. Contents' = Contents
  BY <1>1, <1>2 DEF Contents, FrontMoves
<1>4. msgbuf[t] # <<>>
  BY <1>1 DEF RingInv, Hands
<1> QED BY <1>1, <1>3, <1>4 DEF Abstract!Return

\* Every step of a call is a step of the queue, or none.
LEMMA RingStep ==
  ASSUME RingInv, RingInv', [Next]_vars
  PROVE  [Abstract!Next]_<<Contents, msgbuf>>
<1>1. ASSUME NEW t \in Processes, NEW m \in Messages, CallSend(t, m)
      PROVE  UNCHANGED <<Contents, msgbuf>>
  BY <1>1, CallSendKeeps, Hidden DEF CallSend, ring
<1>2. ASSUME NEW t \in Processes, CallRecv(t)
      PROVE  UNCHANGED <<Contents, msgbuf>>
  BY <1>2, CallRecvKeeps, Hidden DEF CallRecv, ring
<1>3. ASSUME NEW t \in Processes, SendStep(t)
      PROVE  [Abstract!Next]_<<Contents, msgbuf>>
  <2>1. CASE Insert(t)
    BY <2>1, InsertIsSend DEF Abstract!Next
  <2>2. CASE SendWaitFull(t)
    BY <2>2, SendWaitFullKeeps, Hidden DEF SendWaitFull, ring
  <2>3. CASE SendLock(t)
    BY <2>3, SendLockKeeps, Hidden DEF SendLock, ring
  <2>4. CASE AdvanceRear(t)
    BY <2>4, AdvanceRearKeeps, Hidden DEF AdvanceRear
  <2>5. CASE SendUnlock(t)
    BY <2>5, SendUnlockKeeps, Hidden DEF SendUnlock, ring
  <2>6. CASE PostEmpty(t)
    BY <2>6, PostEmptyKeeps, Hidden DEF PostEmpty, ring
  <2> QED BY <1>3, <2>1, <2>2, <2>3, <2>4, <2>5, <2>6 DEF SendStep
<1>4. ASSUME NEW t \in Processes, RecvStep(t)
      PROVE  [Abstract!Next]_<<Contents, msgbuf>>
  <2>1. CASE CopyOut(t)
    BY <2>1, CopyOutIsRecv DEF Abstract!Next
  <2>2. CASE PostFull(t)
    BY <2>2, PostFullIsReturn DEF Abstract!Next
  <2>3. CASE AdvanceFront(t)
    BY <2>3, AdvanceFrontIsHidden
  <2>4. CASE RecvWaitEmpty(t)
    BY <2>4, RecvWaitEmptyKeeps, Hidden DEF RecvWaitEmpty, ring
  <2>5. CASE RecvLock(t)
    BY <2>5, RecvLockKeeps, Hidden DEF RecvLock, ring
  <2>6. CASE RecvUnlock(t)
    BY <2>6, RecvUnlockKeeps, Hidden DEF RecvUnlock, ring
  <2> QED BY <1>4, <2>1, <2>2, <2>3, <2>4, <2>5, <2>6 DEF RecvStep
<1>5. ASSUME NEW t \in Processes, Kill(t)
      PROVE  UNCHANGED <<Contents, msgbuf>>
  BY <1>5 DEF Kill, ring, sems, Contents, Length, At
<1>6. CASE UNCHANGED vars
  BY <1>6 DEF vars, Contents, Length, At
<1> QED BY <1>1, <1>2, <1>3, <1>4, <1>5, <1>6 DEF Next

\* However senders and receivers interleave, whoever is killed, for every
\* capacity: the ring is a FIFO queue of that capacity.
THEOREM RingRefinement == Spec => ImplementsQueue
<1>1. Init => Abstract!Init
  <2> SUFFICES ASSUME Init PROVE Abstract!Init
    OBVIOUS
  <2>1. Length = 0
    BY EmptyRing DEF Init, Empty
  <2>2. InWindow
    BY RingInitially, Window
  <2>3. Contents = <<>>
    BY <2>1, <2>2 DEF InWindow
  <2> QED BY <2>3 DEF Init, Abstract!Init
<1>2. RingInv /\ RingInv' /\ [Next]_vars
      => [Abstract!Next]_<<Contents, msgbuf>>
  BY RingStep
<1> QED BY <1>1, <1>2, RingInvariance, PTL DEF Spec, ImplementsQueue, Abstract!Spec

-----------------------------------------------------------------------------
(* init_queue before the first call.  As long as nobody came while another *)
(* was creating the queue, the statement a process is at says how much of  *)
(* the queue exists, and what exists says that its maker is still there or *)
(* has finished.                                                           *)

Outside == {"off"} \cup Opening \cup Making
AllNames == {"full", "empty", "mutex"}

\* Some process has come out of init_queue.
Ready == \E t \in Processes : pc[t] \notin Outside

\* What a process at each statement knows of the memory and of the semaphores.
MemoryStage ==
  \A t \in Processes :
    /\ pc[t] = "create memory" => memory = "none"
    /\ pc[t] = "size memory" => memory = "empty"
    /\ pc[t] \notin {"off", "open memory", "create memory", "size memory"} => memory = "sized"

NamesStage ==
  \A t \in Processes :
    /\ pc[t] = "create full" => names = {}
    /\ pc[t] \in {"set full", "create empty"} => names = {"full"}
    /\ pc[t] \in {"set empty", "create mutex"} => names = {"full", "empty"}
    /\ pc[t] = "set mutex" => names = AllNames
    /\ pc[t] \in {"open empty", "open mutex"} => Ready

ValuesStage ==
  \A t \in Processes :
    /\ pc[t] \in {"create empty", "set empty", "create mutex", "set mutex"} => sem_full = Capacity
    /\ pc[t] \in {"create mutex", "set mutex"} => sem_empty = 0

GotStage ==
  \A t \in Processes :
    /\ pc[t] \in {"set empty", "create mutex", "set mutex", "open mutex"} \cup Label =>
         "empty" \in got[t]
    /\ pc[t] \in {"set mutex"} \cup Label => "mutex" \in got[t]

\* What exists was made by somebody who is still at it, dead or alive, unless
\* everything exists.
Makers ==
  /\ memory \in {"none", "empty", "sized"}
  /\ names \in {{}, {"full"}, {"full", "empty"}, AllNames}
  /\ memory = "empty" => \E t \in Processes : pc[t] = "size memory"
  /\ memory # "sized" => names = {}
  /\ names \notin {{}, AllNames} => \E t \in Processes : pc[t] \in Making
  /\ names = AllNames => Ready \/ \E t \in Processes : pc[t] = "set mutex"
  /\ \A s, t \in Processes : pc[s] \in Making /\ pc[t] \in Making => s = t

\* The ring as the first process finds it.
Fresh ==
  /\ front = 0 /\ rear = 0 /\ data = [s \in Slot |-> None]
  /\ msg = [t \in Processes |-> None] /\ msgbuf = [t \in Processes |-> <<>>]

Queues ==
  IF Ready
  THEN /\ RingInv /\ names = AllNames /\ memory = "sized"
       /\ \A t \in Processes : pc[t] \notin Making
  ELSE Fresh

Forms ==
  /\ pc \in [Processes -> Label \cup Outside]
  /\ got \in [Processes -> SUBSET AllNames]
  /\ killed \subseteq Processes
  /\ faults = {}

Steady ==
  /\ ~Overlap
  /\ Forms /\ Makers /\ MemoryStage /\ NamesStage /\ ValuesStage /\ GotStage /\ Queues

StartInv == ~raced => Steady

\* Nobody alive is opening the queue while another is creating it.
LEMMA NobodyElse ==
  ASSUME Steady, NEW t \in Processes, t \notin killed, pc[t] \in Opening
  PROVE  \A s \in Processes : pc[s] \notin Making
BY DEF Steady, Overlap, Opening, Making

\* A process that moves from one statement of init_queue to another that
\* creates nothing, or comes out of it, leaves the ring alone.
LEMMA OutsideKeeps ==
  ASSUME RingInv, NEW t \in Processes, NEW l \in Outside \cup {"idle"}, pc[t] \in Outside,
         pc' = [pc EXCEPT ![t] = l], killed' = killed,
         UNCHANGED <<front, rear, data, sem_full, sem_empty, sem_mutex, msg, msgbuf>>
  PROVE  RingInv' /\ Length' = Length /\ Contents' = Contents
<1>1. pc'[t] = l /\ \A u \in Processes \ {t} : pc'[u] = pc[u]
  BY DEF RingInv, Types
<1>2. \A L \in SUBSET (Label \ {"idle"}) : At(L)' = At(L)
  <2>1. ASSUME NEW L \in SUBSET (Label \ {"idle"}), NEW u \in Processes
        PROVE  pc'[u] \in L <=> pc[u] \in L
    BY <1>1, l \notin Label \ {"idle"}, pc[t] \notin Label DEF Label, Outside, Opening, Making
  <2> QED BY <2>1 DEF At
<1>3. /\ Length' = Length /\ FrontMoves' = FrontMoves /\ RearMoves' = RearMoves
      /\ Contents' = Contents
      /\ SemaphoresAgree' = SemaphoresAgree
  BY <1>2 DEF Length, FrontMoves, RearMoves, Contents, SemaphoresAgree, Label
<1>4. Types'
  BY <1>1 DEF RingInv, Types, Label, Outside
<1>5. Inside' = Inside
  BY <1>1 DEF Inside, Outside, Opening, Making
<1>6. Exclusive'
  BY <1>5 DEF RingInv, Exclusive
<1>7. Indices'
  BY <1>3 DEF RingInv, Indices
<1>8. Hands'
  BY <1>1 DEF RingInv, Hands, Outside, Opening, Making
<1> QED BY <1>3, <1>4, <1>6, <1>7, <1>8 DEF RingInv

\* So it keeps what is said of the ring, whether it is in use or fresh.
LEMMA QueuesStay ==
  ASSUME Steady, NEW t \in Processes, NEW l \in {"off", "idle"} \cup Opening, l = "idle" => Ready,
         pc[t] \in {"off"} \cup Opening, pc' = [pc EXCEPT ![t] = l], killed' = killed,
         UNCHANGED <<memory, names, front, rear, data, sem_full, sem_empty, sem_mutex, msg, msgbuf>>
  PROVE  Queues' /\ (Ready' <=> Ready) /\ Available' = Available
<1>1. pc'[t] = l /\ \A u \in Processes \ {t} : pc'[u] = pc[u]
  BY DEF Steady, Forms
<1>2. (Ready' <=> Ready)
  BY <1>1 DEF Ready, Outside, Opening, Making
<1>3. CASE Ready
  <2>1. l \in Outside \cup {"idle"} /\ pc[t] \in Outside /\ l \notin Making
    BY DEF Outside, Opening, Making
  <2>2. RingInv' /\ Contents' = Contents
    BY <1>3, <2>1, OutsideKeeps DEF Steady, Queues
  <2> QED BY <1>1, <1>2, <1>3, <2>1, <2>2 DEF Steady, Queues, Ready, Outside, Available
<1>4. CASE ~Ready
  BY <1>2, <1>4 DEF Steady, Queues, Fresh, Ready, Outside, Available
<1> QED BY <1>3, <1>4

\* Before anybody has come out of init_queue the ring is fresh.
LEMMA QueuesFresh ==
  ASSUME Steady, ~Ready, NEW t \in Processes, NEW l \in Outside,
         pc' = [pc EXCEPT ![t] = l], Fresh'
  PROVE  Queues' /\ ~Ready /\ ~Ready' /\ Available' = Available /\ msgbuf' = msgbuf
<1>1. ~Ready'
  BY DEF Steady, Forms, Ready
<1>2. msgbuf' = msgbuf
  BY DEF Steady, Queues, Fresh
<1> QED BY <1>1, <1>2 DEF Queues, Available, Ready, Outside

\* A process in the middle of creating the queue is the first.
LEMMA MakerIsFirst ==
  ASSUME Steady, NEW t \in Processes, pc[t] \in Making
  PROVE  ~Ready /\ Fresh
BY DEF Steady, Queues

\* A process that starts knows nothing of the queue.
LEMMA StartKeeps ==
  ASSUME Steady, ~Overlap', NEW t \in Processes, Start(t), faults' = faults
  PROVE  Steady' /\ UNCHANGED <<Available, msgbuf>>
<1>1. /\ pc[t] = "off" /\ pc' = [pc EXCEPT ![t] = "open memory"]
      /\ t \notin killed /\ killed' = killed
  BY DEF Start, Move
<1>2. pc'[t] = "open memory" /\ \A u \in Processes \ {t} : pc'[u] = pc[u]
  BY <1>1 DEF Steady, Forms
<1>3. Queues' /\ (Ready' <=> Ready) /\ UNCHANGED <<Available, msgbuf>>
  <2>1. Queues' /\ (Ready' <=> Ready) /\ Available' = Available
    BY <1>1, QueuesStay DEF Start, Move, shared, ring, sems, calls, Opening
  <2> QED BY <2>1 DEF Start, Move, shared, ring, sems, calls
<1>4. Forms'
  BY <1>1
     DEF Steady, Forms, Start, Move, shared, ring, sems, calls, AllNames, Outside,
         Opening, Making
<1>5. Makers'
  <2>1. memory' = memory /\ names' = names
    BY DEF Start, shared
  <2>2. /\ "off" \notin Making /\ "open memory" \notin Making
        /\ "size memory" \in Making /\ "set mutex" \in Making
    BY DEF Making
  <2>3. \A u \in Processes : pc[u] \in Making => pc'[u] = pc[u]
    BY <1>1, <1>2, <2>2
  <2>4. \A u \in Processes : pc'[u] \in Making => pc'[u] = pc[u]
    BY <1>2, <2>2
  <2>5. Makers
    BY DEF Steady
  <2>6. /\ memory' \in {"none", "empty", "sized"}
        /\ names' \in {{}, {"full"}, {"full", "empty"}, AllNames}
        /\ memory' # "sized" => names' = {}
    BY <2>1, <2>5 DEF Makers
  <2>7. memory' = "empty" => \E u \in Processes : pc'[u] = "size memory"
    BY <2>1, <2>2, <2>3, <2>5 DEF Makers
  <2>8. names' \notin {{}, AllNames} => \E u \in Processes : pc'[u] \in Making
    BY <2>1, <2>3, <2>5 DEF Makers
  <2>9. names' = AllNames => Ready' \/ \E u \in Processes : pc'[u] = "set mutex"
    BY <1>3, <2>1, <2>2, <2>3, <2>5 DEF Makers
  <2>10. \A u, v \in Processes : pc'[u] \in Making /\ pc'[v] \in Making => u = v
    BY <2>4, <2>5 DEF Makers
  <2> QED BY <2>6, <2>7, <2>8, <2>9, <2>10 DEF Makers, AllNames
<1>6. MemoryStage'
  BY <1>1, <1>2 DEF Steady, Makers, MemoryStage, Start, Move, shared, ring, sems, calls, Making
<1>7. NamesStage'
  BY <1>1, <1>2, <1>3
     DEF Steady, Makers, NamesStage, Start, Move, shared, ring, sems, calls, AllNames,
         Making
<1>8. ValuesStage'
  BY <1>1, <1>2 DEF Steady, Makers, ValuesStage, Start, Move, shared, ring, sems, calls, Making
<1>9. GotStage'
  BY <1>1, <1>2
     DEF Steady, Forms, GotStage, NamesStage, Start, Move, shared, ring, sems, calls,
         AllNames, Label
<1> QED BY <1>3, <1>4, <1>5, <1>6, <1>7, <1>8, <1>9 DEF Steady

\* The only process that creates the memory empties nobody's queue.
LEMMA CreateMemoryKeeps ==
  ASSUME Steady, ~Overlap', NEW t \in Processes, CreateMemory(t), faults' = faults
  PROVE  Steady' /\ UNCHANGED <<Available, msgbuf>>
<1>1. /\ pc[t] = "create memory" /\ pc' = [pc EXCEPT ![t] = "size memory"]
      /\ t \notin killed /\ killed' = killed
  BY DEF CreateMemory, Move
<1>2. pc'[t] = "size memory" /\ \A u \in Processes \ {t} : pc'[u] = pc[u]
  BY <1>1 DEF Steady, Forms
<1>3. Queues' /\ ~Ready /\ ~Ready' /\ UNCHANGED <<Available, msgbuf>>
  <2>1. ~Ready /\ Fresh
    BY <1>1, MakerIsFirst DEF Making
  <2>2. Fresh'
    BY <2>1 DEF Fresh, CreateMemory, Move, shared, ring, sems, calls
  <2> QED BY <1>1, <2>1, <2>2, QueuesFresh DEF Outside, Opening, Making
<1>4. Forms'
  BY <1>1
     DEF Steady, Forms, CreateMemory, Move, shared, ring, sems, calls, AllNames, Outside,
         Opening, Making
<1>5. Makers'
  BY <1>1, <1>2, <1>3
     DEF Steady, Forms, Makers, MemoryStage, NamesStage, CreateMemory, Move, shared, ring,
         sems, calls, AllNames, Opening, Making
<1>6. MemoryStage'
  BY <1>1, <1>2
     DEF Steady, Makers, MemoryStage, CreateMemory, Move, shared, ring, sems, calls, Making
<1>7. NamesStage'
  BY <1>1, <1>2, <1>3
     DEF Steady, Makers, NamesStage, CreateMemory, Move, shared, ring, sems, calls,
         AllNames, Making
<1>8. ValuesStage'
  BY <1>1, <1>2
     DEF Steady, Makers, ValuesStage, CreateMemory, Move, shared, ring, sems, calls, Making
<1>9. GotStage'
  BY <1>1, <1>2
     DEF Steady, Forms, GotStage, NamesStage, CreateMemory, Move, shared, ring, sems,
         calls, AllNames, Label
<1> QED BY <1>3, <1>4, <1>5, <1>6, <1>7, <1>8, <1>9 DEF Steady

\* The memory has its size before anybody else looks for it.
LEMMA SizeMemoryKeeps ==
  ASSUME Steady, ~Overlap', NEW t \in Processes, SizeMemory(t), faults' = faults
  PROVE  Steady' /\ UNCHANGED <<Available, msgbuf>>
<1>1. /\ pc[t] = "size memory" /\ pc' = [pc EXCEPT ![t] = "map"]
      /\ t \notin killed /\ killed' = killed
  BY DEF SizeMemory, Move
<1>2. pc'[t] = "map" /\ \A u \in Processes \ {t} : pc'[u] = pc[u]
  BY <1>1 DEF Steady, Forms
<1>3. Queues' /\ ~Ready /\ ~Ready' /\ UNCHANGED <<Available, msgbuf>>
  <2>1. ~Ready /\ Fresh
    BY <1>1, MakerIsFirst DEF Making
  <2>2. Fresh'
    BY <2>1 DEF Fresh, SizeMemory, Move, shared, ring, sems, calls
  <2> QED BY <1>1, <2>1, <2>2, QueuesFresh DEF Outside, Opening, Making
<1>4. Forms'
  BY <1>1
     DEF Steady, Forms, SizeMemory, Move, shared, ring, sems, calls, AllNames, Outside,
         Opening, Making
<1>5. Makers'
  BY <1>1, <1>2, <1>3
     DEF Steady, Forms, Makers, MemoryStage, NamesStage, SizeMemory, Move, shared, ring,
         sems, calls, AllNames, Opening, Making
<1>6. MemoryStage'
  BY <1>1, <1>2
     DEF Steady, Makers, MemoryStage, SizeMemory, Move, shared, ring, sems, calls, Making
<1>7. NamesStage'
  BY <1>1, <1>2, <1>3
     DEF Steady, Makers, NamesStage, SizeMemory, Move, shared, ring, sems, calls,
         AllNames, Making
<1>8. ValuesStage'
  BY <1>1, <1>2
     DEF Steady, Makers, ValuesStage, SizeMemory, Move, shared, ring, sems, calls, Making
<1>9. GotStage'
  BY <1>1, <1>2
     DEF Steady, Forms, GotStage, NamesStage, SizeMemory, Move, shared, ring, sems, calls,
         AllNames, Label
<1> QED BY <1>3, <1>4, <1>5, <1>6, <1>7, <1>8, <1>9 DEF Steady

\* Mapping changes nothing.
LEMMA MapKeeps ==
  ASSUME Steady, ~Overlap', NEW t \in Processes, Map(t), faults' = faults
  PROVE  Steady' /\ UNCHANGED <<Available, msgbuf>>
<1>1. /\ pc[t] = "map" /\ pc' = [pc EXCEPT ![t] = "open full"]
      /\ t \notin killed /\ killed' = killed
  BY DEF Map, Move
<1>2. pc'[t] = "open full" /\ \A u \in Processes \ {t} : pc'[u] = pc[u]
  BY <1>1 DEF Steady, Forms
<1>3. Queues' /\ (Ready' <=> Ready) /\ UNCHANGED <<Available, msgbuf>>
  <2>1. Queues' /\ (Ready' <=> Ready) /\ Available' = Available
    BY <1>1, QueuesStay DEF Map, Move, shared, ring, sems, calls, Opening
  <2> QED BY <2>1 DEF Map, Move, shared, ring, sems, calls
<1>4. Forms'
  BY <1>1
     DEF Steady, Forms, Map, Move, shared, ring, sems, calls, AllNames, Outside, Opening,
         Making
<1>5. Makers'
  BY <1>1, <1>2, <1>3
     DEF Steady, Forms, Makers, MemoryStage, NamesStage, Map, Move, shared, ring, sems,
         calls, AllNames, Opening, Making
<1>6. MemoryStage'
  BY <1>1, <1>2 DEF Steady, Makers, MemoryStage, Map, Move, shared, ring, sems, calls, Making
<1>7. NamesStage'
  BY <1>1, <1>2, <1>3
     DEF Steady, Makers, NamesStage, Map, Move, shared, ring, sems, calls, AllNames, Making
<1>8. ValuesStage'
  BY <1>1, <1>2 DEF Steady, Makers, ValuesStage, Map, Move, shared, ring, sems, calls, Making
<1>9. GotStage'
  BY <1>1, <1>2
     DEF Steady, Forms, GotStage, NamesStage, Map, Move, shared, ring, sems, calls,
         AllNames, Label
<1> QED BY <1>3, <1>4, <1>5, <1>6, <1>7, <1>8, <1>9 DEF Steady

\* The second semaphore is there.
LEMMA OpenEmptyKeeps ==
  ASSUME Steady, ~Overlap', NEW t \in Processes, OpenEmpty(t), faults' = faults
  PROVE  Steady' /\ UNCHANGED <<Available, msgbuf>>
<1>1. /\ pc[t] = "open empty" /\ pc' = [pc EXCEPT ![t] = "open mutex"]
      /\ t \notin killed /\ killed' = killed
  BY DEF OpenEmpty, Open, Move
<1>2. pc'[t] = "open mutex" /\ \A u \in Processes \ {t} : pc'[u] = pc[u]
  BY <1>1 DEF Steady, Forms
<1>3. Queues' /\ (Ready' <=> Ready) /\ UNCHANGED <<Available, msgbuf>>
  <2>1. Queues' /\ (Ready' <=> Ready) /\ Available' = Available
    BY <1>1, QueuesStay DEF OpenEmpty, Move, shared, ring, sems, calls, Open, Opening
  <2> QED BY <2>1 DEF OpenEmpty, Move, shared, ring, sems, calls, Open
<1>4. Forms'
  BY <1>1
     DEF Steady, Forms, OpenEmpty, Move, shared, ring, sems, calls, Open, AllNames,
         Outside, Opening, Making
<1>5. Makers'
  BY <1>1, <1>2, <1>3
     DEF Steady, Forms, Makers, MemoryStage, NamesStage, OpenEmpty, Move, shared, ring,
         sems, calls, Open, AllNames, Opening, Making
<1>6. MemoryStage'
  BY <1>1, <1>2
     DEF Steady, Makers, MemoryStage, OpenEmpty, Move, shared, ring, sems, calls, Open,
         Making
<1>7. NamesStage'
  BY <1>1, <1>2, <1>3
     DEF Steady, Makers, NamesStage, OpenEmpty, Move, shared, ring, sems, calls, Open,
         AllNames, Making
<1>8. ValuesStage'
  BY <1>1, <1>2
     DEF Steady, Makers, ValuesStage, OpenEmpty, Move, shared, ring, sems, calls, Open,
         Making
<1>9. GotStage'
  <2>1. names = AllNames
    BY <1>1 DEF Steady, NamesStage, Queues
  <2>2. got' = [got EXCEPT ![t] = @ \cup {"empty"}]
    BY <2>1 DEF OpenEmpty, Open, AllNames
  <2> QED BY <1>1, <1>2, <2>2 DEF Steady, Forms, GotStage, Label
<1> QED BY <1>3, <1>4, <1>5, <1>6, <1>7, <1>8, <1>9 DEF Steady

\* The first semaphore is made by the one process that makes it.
LEMMA CreateFullKeeps ==
  ASSUME Steady, ~Overlap', NEW t \in Processes, CreateFull(t), faults' = faults
  PROVE  Steady' /\ UNCHANGED <<Available, msgbuf>>
<1>1. /\ pc[t] = "create full" /\ pc' = [pc EXCEPT ![t] = "set full"]
      /\ t \notin killed /\ killed' = killed
  BY DEF CreateFull, Move
<1>2. pc'[t] = "set full" /\ \A u \in Processes \ {t} : pc'[u] = pc[u]
  BY <1>1 DEF Steady, Forms
<1>3. Queues' /\ ~Ready /\ ~Ready' /\ UNCHANGED <<Available, msgbuf>>
  <2>1. ~Ready /\ Fresh
    BY <1>1, MakerIsFirst DEF Making
  <2>2. Fresh'
    BY <2>1 DEF Fresh, CreateFull, Move, shared, ring, sems, calls, Created
  <2> QED BY <1>1, <2>1, <2>2, QueuesFresh DEF Outside, Opening, Making
<1>4. Forms'
  BY <1>1
     DEF Steady, Forms, CreateFull, Move, shared, ring, sems, calls, Created, AllNames,
         Outside, Opening, Making
<1>5. Makers'
  <2>1. names = {} /\ names' = {"full"} /\ memory' = memory /\ memory = "sized"
    BY <1>1 DEF Steady, NamesStage, MemoryStage, CreateFull
  <2>2. names' # {} /\ names' # AllNames
    BY <2>1 DEF AllNames
  <2>3. \A u \in Processes : pc'[u] \in Making <=> pc[u] \in Making
    BY <1>1, <1>2 DEF Making
  <2>4. pc'[t] \in Making
    BY <1>2 DEF Making
  <2> QED BY <2>1, <2>2, <2>3, <2>4 DEF Steady, Makers
<1>6. MemoryStage'
  BY <1>1, <1>2
     DEF Steady, Makers, MemoryStage, CreateFull, Move, shared, ring, sems, calls,
         Created, Making
<1>7. NamesStage'
  BY <1>1, <1>2, <1>3
     DEF Steady, Makers, NamesStage, CreateFull, Move, shared, ring, sems, calls, Created,
         AllNames, Making
<1>8. ValuesStage'
  BY <1>1, <1>2
     DEF Steady, Makers, ValuesStage, CreateFull, Move, shared, ring, sems, calls,
         Created, Making
<1>9. GotStage'
  BY <1>1, <1>2
     DEF Steady, Forms, GotStage, NamesStage, CreateFull, Move, shared, ring, sems, calls,
         Created, AllNames, Label
<1> QED BY <1>3, <1>4, <1>5, <1>6, <1>7, <1>8, <1>9 DEF Steady

\* It counts every place of the ring.
LEMMA SetFullKeeps ==
  ASSUME Steady, ~Overlap', NEW t \in Processes, SetFull(t), faults' = faults
  PROVE  Steady' /\ UNCHANGED <<Available, msgbuf>>
<1>1. /\ pc[t] = "set full" /\ pc' = [pc EXCEPT ![t] = "create empty"]
      /\ t \notin killed /\ killed' = killed
  BY DEF SetFull, Move
<1>2. pc'[t] = "create empty" /\ \A u \in Processes \ {t} : pc'[u] = pc[u]
  BY <1>1 DEF Steady, Forms
<1>3. Queues' /\ ~Ready /\ ~Ready' /\ UNCHANGED <<Available, msgbuf>>
  <2>1. ~Ready /\ Fresh
    BY <1>1, MakerIsFirst DEF Making
  <2>2. Fresh'
    BY <2>1 DEF Fresh, SetFull, Move, shared, ring, sems, calls
  <2> QED BY <1>1, <2>1, <2>2, QueuesFresh DEF Outside, Opening, Making
<1>4. Forms'
  BY <1>1
     DEF Steady, Forms, SetFull, Move, shared, ring, sems, calls, AllNames, Outside,
         Opening, Making
<1>5. Makers'
  BY <1>1, <1>2, <1>3
     DEF Steady, Forms, Makers, MemoryStage, NamesStage, SetFull, Move, shared, ring,
         sems, calls, AllNames, Opening, Making
<1>6. MemoryStage'
  BY <1>1, <1>2
     DEF Steady, Makers, MemoryStage, SetFull, Move, shared, ring, sems, calls, Making
<1>7. NamesStage'
  BY <1>1, <1>2, <1>3
     DEF Steady, Makers, NamesStage, SetFull, Move, shared, ring, sems, calls, AllNames,
         Making
<1>8. ValuesStage'
  BY <1>1, <1>2
     DEF Steady, Makers, ValuesStage, SetFull, Move, shared, ring, sems, calls, Making
<1>9. GotStage'
  BY <1>1, <1>2
     DEF Steady, Forms, GotStage, NamesStage, SetFull, Move, shared, ring, sems, calls,
         AllNames, Label
<1> QED BY <1>3, <1>4, <1>5, <1>6, <1>7, <1>8, <1>9 DEF Steady

\* The second semaphore is made by the same process.
LEMMA CreateEmptyKeeps ==
  ASSUME Steady, ~Overlap', NEW t \in Processes, CreateEmpty(t), faults' = faults
  PROVE  Steady' /\ UNCHANGED <<Available, msgbuf>>
<1>1. /\ pc[t] = "create empty" /\ pc' = [pc EXCEPT ![t] = "set empty"]
      /\ t \notin killed /\ killed' = killed
  BY DEF CreateEmpty, Move
<1>2. pc'[t] = "set empty" /\ \A u \in Processes \ {t} : pc'[u] = pc[u]
  BY <1>1 DEF Steady, Forms
<1>3. Queues' /\ ~Ready /\ ~Ready' /\ UNCHANGED <<Available, msgbuf>>
  <2>1. ~Ready /\ Fresh
    BY <1>1, MakerIsFirst DEF Making
  <2>2. Fresh'
    BY <2>1 DEF Fresh, CreateEmpty, Move, shared, ring, sems, calls, Created
  <2> QED BY <1>1, <2>1, <2>2, QueuesFresh DEF Outside, Opening, Making
<1>4. Forms'
  BY <1>1
     DEF Steady, Forms, CreateEmpty, Move, shared, ring, sems, calls, Created, AllNames,
         Outside, Opening, Making
<1>5. Makers'
  <2>1. names = {"full"} /\ names' = {"full", "empty"} /\ memory' = memory /\ memory = "sized"
    BY <1>1 DEF Steady, NamesStage, MemoryStage, CreateEmpty
  <2>2. names' # {} /\ names' # AllNames
    BY <2>1 DEF AllNames
  <2>3. \A u \in Processes : pc'[u] \in Making <=> pc[u] \in Making
    BY <1>1, <1>2 DEF Making
  <2>4. pc'[t] \in Making
    BY <1>2 DEF Making
  <2> QED BY <2>1, <2>2, <2>3, <2>4 DEF Steady, Makers
<1>6. MemoryStage'
  BY <1>1, <1>2
     DEF Steady, Makers, MemoryStage, CreateEmpty, Move, shared, ring, sems, calls,
         Created, Making
<1>7. NamesStage'
  BY <1>1, <1>2, <1>3
     DEF Steady, Makers, NamesStage, CreateEmpty, Move, shared, ring, sems, calls,
         Created, AllNames, Making
<1>8. ValuesStage'
  BY <1>1, <1>2
     DEF Steady, Makers, ValuesStage, CreateEmpty, Move, shared, ring, sems, calls,
         Created, Making
<1>9. GotStage'
  BY <1>1, <1>2
     DEF Steady, Forms, GotStage, NamesStage, CreateEmpty, Move, shared, ring, sems,
         calls, Created, AllNames, Label
<1> QED BY <1>3, <1>4, <1>5, <1>6, <1>7, <1>8, <1>9 DEF Steady

\* It counts no message.
LEMMA SetEmptyKeeps ==
  ASSUME Steady, ~Overlap', NEW t \in Processes, SetEmpty(t), faults' = faults
  PROVE  Steady' /\ UNCHANGED <<Available, msgbuf>>
<1>1. /\ pc[t] = "set empty" /\ pc' = [pc EXCEPT ![t] = "create mutex"]
      /\ t \notin killed /\ killed' = killed
  BY DEF SetEmpty, Move
<1>2. pc'[t] = "create mutex" /\ \A u \in Processes \ {t} : pc'[u] = pc[u]
  BY <1>1 DEF Steady, Forms
<1>3. Queues' /\ ~Ready /\ ~Ready' /\ UNCHANGED <<Available, msgbuf>>
  <2>1. ~Ready /\ Fresh
    BY <1>1, MakerIsFirst DEF Making
  <2>2. Fresh'
    BY <2>1 DEF Fresh, SetEmpty, Move, shared, ring, sems, calls
  <2> QED BY <1>1, <2>1, <2>2, QueuesFresh DEF Outside, Opening, Making
<1>4. Forms'
  BY <1>1
     DEF Steady, Forms, SetEmpty, Move, shared, ring, sems, calls, AllNames, Outside,
         Opening, Making
<1>5. Makers'
  BY <1>1, <1>2, <1>3
     DEF Steady, Forms, Makers, MemoryStage, NamesStage, SetEmpty, Move, shared, ring,
         sems, calls, AllNames, Opening, Making
<1>6. MemoryStage'
  BY <1>1, <1>2
     DEF Steady, Makers, MemoryStage, SetEmpty, Move, shared, ring, sems, calls, Making
<1>7. NamesStage'
  BY <1>1, <1>2, <1>3
     DEF Steady, Makers, NamesStage, SetEmpty, Move, shared, ring, sems, calls, AllNames,
         Making
<1>8. ValuesStage'
  BY <1>1, <1>2
     DEF Steady, Makers, ValuesStage, SetEmpty, Move, shared, ring, sems, calls, Making
<1>9. GotStage'
  BY <1>1, <1>2
     DEF Steady, Forms, GotStage, NamesStage, SetEmpty, Move, shared, ring, sems, calls,
         AllNames, Label
<1> QED BY <1>3, <1>4, <1>5, <1>6, <1>7, <1>8, <1>9 DEF Steady

\* The third semaphore is made by the same process.
LEMMA CreateMutexKeeps ==
  ASSUME Steady, ~Overlap', NEW t \in Processes, CreateMutex(t), faults' = faults
  PROVE  Steady' /\ UNCHANGED <<Available, msgbuf>>
<1>1. /\ pc[t] = "create mutex" /\ pc' = [pc EXCEPT ![t] = "set mutex"]
      /\ t \notin killed /\ killed' = killed
  BY DEF CreateMutex, Move
<1>2. pc'[t] = "set mutex" /\ \A u \in Processes \ {t} : pc'[u] = pc[u]
  BY <1>1 DEF Steady, Forms
<1>3. Queues' /\ ~Ready /\ ~Ready' /\ UNCHANGED <<Available, msgbuf>>
  <2>1. ~Ready /\ Fresh
    BY <1>1, MakerIsFirst DEF Making
  <2>2. Fresh'
    BY <2>1 DEF Fresh, CreateMutex, Move, shared, ring, sems, calls, Created
  <2> QED BY <1>1, <2>1, <2>2, QueuesFresh DEF Outside, Opening, Making
<1>4. Forms'
  BY <1>1
     DEF Steady, Forms, CreateMutex, Move, shared, ring, sems, calls, Created, AllNames,
         Outside, Opening, Making
<1>5. Makers'
  BY <1>1, <1>2, <1>3
     DEF Steady, Forms, Makers, MemoryStage, NamesStage, CreateMutex, Move, shared, ring,
         sems, calls, Created, AllNames, Opening, Making
<1>6. MemoryStage'
  BY <1>1, <1>2
     DEF Steady, Makers, MemoryStage, CreateMutex, Move, shared, ring, sems, calls,
         Created, Making
<1>7. NamesStage'
  BY <1>1, <1>2, <1>3
     DEF Steady, Makers, NamesStage, CreateMutex, Move, shared, ring, sems, calls,
         Created, AllNames, Making
<1>8. ValuesStage'
  BY <1>1, <1>2
     DEF Steady, Makers, ValuesStage, CreateMutex, Move, shared, ring, sems, calls,
         Created, Making
<1>9. GotStage'
  BY <1>1, <1>2
     DEF Steady, Forms, GotStage, NamesStage, CreateMutex, Move, shared, ring, sems,
         calls, Created, AllNames, Label
<1> QED BY <1>3, <1>4, <1>5, <1>6, <1>7, <1>8, <1>9 DEF Steady

\* The memory is there and has its size, or nobody has created it yet.
LEMMA OpenMemoryKeeps ==
  ASSUME Steady, ~Overlap', NEW t \in Processes, OpenMemory(t), faults' = faults
  PROVE  Steady' /\ UNCHANGED <<Available, msgbuf>>
<1> DEFINE l == IF memory = "none" THEN "create memory" ELSE "map"
<1>0. ((memory = "none") /\ l = "create memory") \/ (~(memory = "none") /\ l = "map")
  OBVIOUS
<1>1. /\ pc[t] = "open memory" /\ pc' = [pc EXCEPT ![t] = l]
      /\ t \notin killed /\ killed' = killed
      /\ UNCHANGED <<memory, names, got, front, rear, data, sem_full, sem_empty, sem_mutex, msg, msgbuf>>
  BY DEF OpenMemory, Move, shared, ring, sems, calls
<1>2. pc'[t] = l /\ \A u \in Processes \ {t} : pc'[u] = pc[u]
  BY <1>1 DEF Steady, Forms
<1>3. \A s \in Processes : pc[s] \notin Making
  BY <1>1, NobodyElse DEF Opening
<1>4. memory # "empty"
  BY <1>3 DEF Steady, Makers, Making
<1>5. Queues' /\ (Ready' <=> Ready) /\ UNCHANGED <<Available, msgbuf>>
  <2>1. CASE memory = "none"
    <3>1. ~Ready /\ Fresh
      BY <2>1 DEF Steady, Queues
    <3>2. Fresh'
      BY <1>1, <3>1 DEF Fresh
    <3>3. l \in Outside
      BY <2>1 DEF Outside, Making
    <3> HIDE DEF l
    <3> QED BY <1>1, <3>1, <3>2, <3>3, QueuesFresh
  <2>2. CASE memory # "none"
    <3>1. l \in {"off", "idle"} \cup Opening /\ l # "idle" /\ pc[t] \in {"off"} \cup Opening
      BY <1>1, <2>2 DEF Opening
    <3> HIDE DEF l
    <3>2. Queues' /\ (Ready' <=> Ready) /\ Available' = Available
      BY <1>1, <3>1, QueuesStay
    <3> QED BY <1>1, <3>2
  <2> QED BY <2>1, <2>2
<1> HIDE DEF l
<1>6. Forms'
  BY <1>0, <1>1 DEF Steady, Forms, AllNames, Outside, Opening, Making
<1>7. Makers' /\ MemoryStage'
  BY <1>0, <1>1, <1>2, <1>3, <1>4, <1>5 DEF Steady, Makers, MemoryStage, Making
<1>8. NamesStage'
  BY <1>0, <1>1, <1>2, <1>5 DEF Steady, NamesStage
<1>9. ValuesStage' /\ GotStage'
  BY <1>0, <1>1, <1>2 DEF Steady, ValuesStage, GotStage, Label
<1> QED BY <1>5, <1>6, <1>7, <1>8, <1>9 DEF Steady

\* All three semaphores are there, or none and nobody is creating them.
LEMMA OpenFullKeeps ==
  ASSUME Steady, ~Overlap', NEW t \in Processes, OpenFull(t), faults' = faults
  PROVE  Steady' /\ UNCHANGED <<Available, msgbuf>>
<1> DEFINE l == IF "full" \in names THEN "open empty" ELSE "create full"
<1>0. (("full" \in names) /\ l = "open empty") \/ (~("full" \in names) /\ l = "create full")
  OBVIOUS
<1>1. /\ pc[t] = "open full" /\ pc' = [pc EXCEPT ![t] = l]
      /\ t \notin killed /\ killed' = killed
      /\ UNCHANGED <<memory, names, got, front, rear, data, sem_full, sem_empty, sem_mutex, msg, msgbuf>>
  BY DEF OpenFull, Move, shared, ring, sems, calls
<1>2. pc'[t] = l /\ \A u \in Processes \ {t} : pc'[u] = pc[u]
  BY <1>1 DEF Steady, Forms
<1>3. \A s \in Processes : pc[s] \notin Making
  BY <1>1, NobodyElse DEF Opening
<1>4. IF "full" \in names THEN Ready ELSE names = {} /\ ~Ready
  BY <1>3 DEF Steady, Makers, Queues, Making, AllNames
<1>5. Queues' /\ (Ready' <=> Ready) /\ UNCHANGED <<Available, msgbuf>>
  <2>1. CASE "full" \notin names
    <3>1. ~Ready /\ Fresh
      BY <1>4, <2>1 DEF Steady, Queues
    <3>2. Fresh'
      BY <1>1, <3>1 DEF Fresh
    <3>3. l \in Outside
      BY <2>1 DEF Outside, Making
    <3> HIDE DEF l
    <3> QED BY <1>1, <3>1, <3>2, <3>3, QueuesFresh
  <2>2. CASE "full" \in names
    <3>1. l \in {"off", "idle"} \cup Opening /\ l # "idle" /\ pc[t] \in {"off"} \cup Opening
      BY <1>1, <2>2 DEF Opening
    <3> HIDE DEF l
    <3>2. Queues' /\ (Ready' <=> Ready) /\ Available' = Available
      BY <1>1, <3>1, QueuesStay
    <3> QED BY <1>1, <3>2
  <2> QED BY <2>1, <2>2
<1> HIDE DEF l
<1>6. Forms'
  BY <1>0, <1>1 DEF Steady, Forms, AllNames, Outside, Opening, Making
<1>7. Makers' /\ MemoryStage'
  BY <1>0, <1>1, <1>2, <1>3, <1>4, <1>5 DEF Steady, Makers, MemoryStage, Making
<1>8. NamesStage'
  BY <1>0, <1>1, <1>2, <1>4, <1>5 DEF Steady, NamesStage
<1>9. ValuesStage' /\ GotStage'
  BY <1>0, <1>1, <1>2 DEF Steady, ValuesStage, GotStage, Label
<1> QED BY <1>5, <1>6, <1>7, <1>8, <1>9 DEF Steady

\* The third semaphore is there, and the process may use the queue.
LEMMA OpenMutexKeeps ==
  ASSUME Steady, ~Overlap', NEW t \in Processes, OpenMutex(t), faults' = faults
  PROVE  Steady' /\ UNCHANGED <<Available, msgbuf>>
<1>1. /\ pc[t] = "open mutex" /\ pc' = [pc EXCEPT ![t] = "idle"]
      /\ t \notin killed /\ killed' = killed
      /\ UNCHANGED <<memory, names, front, rear, data, sem_full, sem_empty, sem_mutex, msg, msgbuf>>
  BY DEF OpenMutex, Open, Move, shared, ring, sems, calls
<1>2. pc'[t] = "idle" /\ \A u \in Processes \ {t} : pc'[u] = pc[u]
  BY <1>1 DEF Steady, Forms
<1>3. Ready /\ names = AllNames /\ memory = "sized"
  BY <1>1 DEF Steady, NamesStage, Queues
<1>4. Queues' /\ (Ready' <=> Ready) /\ UNCHANGED <<Available, msgbuf>>
  <2>1. "open mutex" \in {"off"} \cup Opening /\ "idle" \in {"off", "idle"} \cup Opening
    BY DEF Opening
  <2> QED BY <1>1, <1>3, <2>1, QueuesStay
<1>5. got' = [got EXCEPT ![t] = @ \cup {"mutex"}]
  BY <1>3 DEF OpenMutex, Open, AllNames
<1>6. Forms'
  BY <1>1, <1>5 DEF Steady, Forms, AllNames, Label
<1>7. Makers' /\ MemoryStage'
  BY <1>1, <1>2, <1>3, <1>4 DEF Steady, Makers, MemoryStage, Making
<1>8. NamesStage' /\ ValuesStage'
  BY <1>1, <1>2, <1>4 DEF Steady, NamesStage, ValuesStage
<1>9. GotStage'
  BY <1>1, <1>2, <1>5 DEF Steady, Forms, GotStage, Label
<1> QED BY <1>4, <1>6, <1>7, <1>8, <1>9 DEF Steady

\* The last value is set, and the queue is there, empty.
LEMMA SetMutexKeeps ==
  ASSUME Steady, ~Overlap', NEW t \in Processes, SetMutex(t), faults' = faults
  PROVE  Steady' /\ UNCHANGED <<Available, msgbuf>>
<1>1. /\ pc[t] = "set mutex" /\ pc' = [pc EXCEPT ![t] = "idle"]
      /\ t \notin killed /\ killed' = killed /\ sem_mutex' = 1
      /\ UNCHANGED <<memory, names, got, front, rear, data, sem_full, sem_empty, msg, msgbuf>>
  BY DEF SetMutex, Move, shared, ring, sems, calls
<1>2. pc'[t] = "idle" /\ \A u \in Processes \ {t} : pc'[u] = pc[u]
  BY <1>1 DEF Steady, Forms
<1>3. /\ ~Ready /\ Fresh /\ names = AllNames /\ memory = "sized"
      /\ sem_full = Capacity /\ sem_empty = 0
  BY <1>1, MakerIsFirst DEF Steady, NamesStage, MemoryStage, ValuesStage, Making
<1>4. Ready'
  BY <1>2 DEF Ready, Outside, Opening, Making
<1>5. Empty'
  <2>1. \A u \in Processes : pc[u] \in Outside
    BY <1>3 DEF Ready
  <2>2. pc' \in [Processes -> {"idle", "off"} \cup Opening \cup Making]
    BY <1>1, <2>1 DEF Steady, Forms, Outside
  <2> QED BY <1>1, <1>3, <2>2 DEF Empty, Fresh, Steady, Forms
<1>6. RingInv' /\ Length' = 0
  BY <1>5, EmptyNext
<1>7. \A u \in Processes : pc'[u] \notin Making
  BY <1>1, <1>2 DEF Steady, Makers, Making
<1>8. Queues'
  BY <1>1, <1>3, <1>4, <1>6, <1>7 DEF Queues
<1>9. UNCHANGED <<Available, msgbuf>>
  <2>1. Contents' = <<>>
    BY <1>6, WindowNext DEF InWindow
  <2>2. Available = <<>> /\ Available' = Contents'
    BY <1>3, <1>4 DEF Available, Ready, Outside
  <2> QED BY <1>1, <2>1, <2>2
<1>10. Forms'
  BY <1>1 DEF Steady, Forms, Label
<1>11. Makers' /\ MemoryStage'
  BY <1>1, <1>2, <1>3, <1>4, <1>7 DEF Steady, Makers, MemoryStage, Making
<1>12. NamesStage' /\ ValuesStage' /\ GotStage'
  BY <1>1, <1>2, <1>4, <1>7 DEF Steady, NamesStage, ValuesStage, GotStage, Label, Making
<1> QED BY <1>8, <1>9, <1>10, <1>11, <1>12 DEF Steady

\* A call is a step of the ring, made by a process that may use it.
LEMMA CallKeeps ==
  ASSUME Steady, ~Overlap', NEW t \in Processes, Call(t), faults' = faults
  PROVE  Steady' /\ [FromStart!Next]_<<Available, msgbuf>>
<1>1. \E l \in Label : pc' = [pc EXCEPT ![t] = l]
  BY DEF Call, CallSend, CallRecv, SendStep, RecvStep, SendWaitFull,
     SendLock, Insert, AdvanceRear, SendUnlock, PostEmpty,
     RecvWaitEmpty, RecvLock, CopyOut, AdvanceFront, RecvUnlock,
     PostFull, Move, Label
<1>2. pc[t] \in Label /\ killed' = killed
  BY DEF Call, CallSend, CallRecv, SendStep, RecvStep, SendWaitFull,
     SendLock, Insert, AdvanceRear, SendUnlock, PostEmpty,
     RecvWaitEmpty, RecvLock, CopyOut, AdvanceFront, RecvUnlock,
     PostFull, Move, Label
<1>3. pc'[t] \in Label /\ \A u \in Processes \ {t} : pc'[u] = pc[u]
  BY <1>1 DEF Steady, Forms
<1>4. Label \cap Outside = {}
  BY DEF Label, Outside, Opening, Making
<1>5. Ready /\ Ready'
  BY <1>2, <1>3, <1>4 DEF Ready
<1>6. /\ UNCHANGED <<memory, names, got>> /\ names = AllNames /\ memory = "sized"
      /\ \A u \in Processes : pc[u] \notin Making /\ pc'[u] \notin Making
  BY <1>3, <1>4, <1>5 DEF Call, shared, Steady, Queues, Outside
<1>7. [Next]_vars
  BY DEF Call, Next
<1>8. RingInv /\ RingInv'
  BY <1>5, <1>7, RingInductive DEF Steady, Queues
<1>9. [FromStart!Next]_<<Available, msgbuf>>
  <2>1. [Abstract!Next]_<<Contents, msgbuf>>
    BY <1>7, <1>8, RingStep
  <2>2. Available = Contents /\ Available' = Contents'
    BY <1>5 DEF Available, Ready, Outside
  <2> QED BY <2>1, <2>2
        DEF Abstract!Next, Abstract!Send, Abstract!Recv, Abstract!Return,
            FromStart!Next, FromStart!Send, FromStart!Recv, FromStart!Return
<1>10. Queues'
  BY <1>5, <1>6, <1>8 DEF Queues
<1>11. Forms'
  BY <1>1, <1>2, <1>6 DEF Steady, Forms
<1>12. Makers' /\ MemoryStage'
  BY <1>5, <1>6, <1>3, <1>4 DEF Steady, Makers, MemoryStage, Making, Outside, Opening
<1>13. NamesStage' /\ ValuesStage'
  BY <1>3, <1>5, <1>6 DEF Steady, NamesStage, ValuesStage, Making
<1>14. GotStage'
  BY <1>2, <1>3, <1>6 DEF Steady, GotStage, Label
<1> QED BY <1>9, <1>10, <1>11, <1>12, <1>13, <1>14 DEF Steady

\* A process that is killed stays where it is.
LEMMA KillKeeps ==
  ASSUME Steady, ~Overlap', NEW t \in Processes, KillStarted(t), faults' = faults
  PROVE  Steady' /\ UNCHANGED <<Available, msgbuf>>
<1>1. /\ UNCHANGED <<memory, names, got, front, rear, data, sem_full, sem_empty, sem_mutex>>
      /\ UNCHANGED <<msg, msgbuf, pc>>
      /\ killed' = killed \cup {t}
  BY DEF KillStarted, Kill, shared, ring, sems
<1>2. Ready' <=> Ready
  BY <1>1 DEF Ready
<1>3. Available' = Available
  BY <1>1 DEF Available, Contents, Length, At
<1>4. Queues'
  <2>1. RingInv => RingInv'
    BY RingKillKeeps DEF KillStarted
  <2> QED BY <1>1, <1>2, <2>1 DEF Steady, Queues, Fresh
<1>5. Forms' /\ Makers' /\ MemoryStage' /\ NamesStage' /\ ValuesStage' /\ GotStage'
  BY <1>1, <1>2 DEF Steady, Forms, Makers, MemoryStage, NamesStage, ValuesStage, GotStage
<1> QED BY <1>1, <1>3, <1>4, <1>5 DEF Steady

\* Everything a process needs is there when it needs it.
LEMMA NoFault ==
  ASSUME Steady, NEW t \in Processes
  PROVE  ~Broken(t)
BY DEF Steady, MemoryStage, GotStage, Broken, Label

\* One step of the system.
LEMMA StartStep ==
  ASSUME Steady, ~Overlap', NextFromStart
  PROVE  Steady' /\ [FromStart!Next]_<<Available, msgbuf>>
<1>1. PICK t \in Processes : InitQueue(t) \/ Call(t) \/ Fault(t) \/ KillStarted(t)
  BY DEF NextFromStart
<1>2. ~Fault(t)
  BY NoFault DEF Fault
<1>3. faults' = faults
  BY <1>1, <1>2 DEF InitQueue, Call, KillStarted, Start, OpenMemory, CreateMemory, SizeMemory, Map,
     OpenFull, OpenEmpty, OpenMutex, Open, CreateFull, SetFull, CreateEmpty, SetEmpty,
     CreateMutex, SetMutex
<1>4. CASE Call(t)
  BY <1>3, <1>4, CallKeeps
<1>5. CASE KillStarted(t)
  BY <1>3, <1>5, KillKeeps
<1>6. CASE InitQueue(t)
  BY <1>3, <1>6, StartKeeps, OpenMemoryKeeps, CreateMemoryKeeps, SizeMemoryKeeps, MapKeeps,
     OpenFullKeeps, OpenEmptyKeeps, OpenMutexKeeps, CreateFullKeeps, SetFullKeeps,
     CreateEmptyKeeps, SetEmptyKeeps, CreateMutexKeeps, SetMutexKeeps DEF InitQueue
<1> QED BY <1>1, <1>2, <1>4, <1>5, <1>6

\* Nothing exists and nobody has started.
LEMMA StartInitially == InitFromStart => Steady /\ ~raced /\ FromStart!Init
<1> SUFFICES ASSUME InitFromStart PROVE Steady /\ ~raced /\ FromStart!Init
  OBVIOUS
<1>1. \A t \in Processes : pc[t] = "off"
  BY DEF InitFromStart
<1>2. ~Ready /\ ~Overlap
  BY <1>1 DEF Ready, Overlap, Outside, Making
<1>3. Available = <<>>
  BY <1>1 DEF Available
<1>4. FromStart!Init
  BY <1>3 DEF InitFromStart, FromStart!Init
<1>5. Queues /\ Forms
  BY <1>2 DEF InitFromStart, Queues, Fresh, Forms, Outside
<1>6. Makers /\ MemoryStage /\ NamesStage /\ ValuesStage /\ GotStage
  BY <1>1 DEF InitFromStart, Makers, MemoryStage, NamesStage, ValuesStage, GotStage, AllNames, Making, Label
<1> QED BY <1>2, <1>4, <1>5, <1>6 DEF InitFromStart, Steady

\* Once two processes have met in init_queue nothing more is said.
LEMMA StartInductive == StartInv /\ [NextFromStart]_allvars => StartInv'
<1> SUFFICES ASSUME StartInv, [NextFromStart]_allvars, ~raced' PROVE Steady'
  BY DEF StartInv
<1>1. CASE NextFromStart
  BY <1>1, StartStep DEF NextFromStart, StartInv
<1>2. CASE UNCHANGED allvars
  <2>1. Ready' <=> Ready
    BY <1>2 DEF allvars, Ready
  <2>2. Overlap' <=> Overlap
    BY <1>2 DEF allvars, Overlap
  <2>3. RingInv => RingInv'
    BY <1>2, RingStutterKeeps DEF allvars, vars, shared, ring, sems, calls
  <2>4. Steady
    BY <1>2 DEF allvars, StartInv
  <2> QED BY <1>2, <2>1, <2>2, <2>3, <2>4
        DEF allvars, shared, ring, sems, calls, Steady, Forms, Makers, MemoryStage, NamesStage,
            ValuesStage, GotStage, Queues, Fresh
<1> QED BY <1>1, <1>2

\* The invariant of the start holds in every reachable state.
THEOREM Invariance == SpecFromStart => []StartInv
<1>1. InitFromStart => StartInv
  BY StartInitially DEF StartInv
<1> QED BY <1>1, StartInductive, PTL DEF SpecFromStart

\* For any number of processes, started and killed at any time: a process dies
\* of a semaphore that could not be opened (custom_queue.cpp:100-101) or of memory
\* without a size only when another was in init_queue at the same time, or was
\* killed while it created the queue.
THEOREM Crash == SpecFromStart => []CrashOnlyIfRaced
<1>1. StartInv => CrashOnlyIfRaced
  BY DEF StartInv, Steady, Forms, CrashOnlyIfRaced
<1> QED BY <1>1, Invariance, PTL

\* As long as that does not happen every process finds one bounded FIFO queue,
\* which init_queue leaves empty the first time and alone every other time.
THEOREM Refinement == SpecFromStart => QueueFromStart
<1>1. InitFromStart => FromStart!Init
  BY StartInitially
<1>2. StartInv /\ [NextFromStart]_allvars =>
        [~raced' => (FromStart!Next \/ UNCHANGED <<Available, msgbuf>>)]_allvars
  BY StartStep DEF StartInv, NextFromStart
<1> QED BY <1>1, <1>2, Invariance, PTL DEF SpecFromStart, QueueFromStart
=============================================================================
