-------------------------- MODULE PosixCrateProofs --------------------------
(***************************************************************************)
(* The safety of PosixCrate for any number of producers and consumers, any *)
(* capacity up to the nine names of items, and any number of processes     *)
(* killed.                                                                 *)
(***************************************************************************)
EXTENDS PosixCrate, CommonFacts

ClaimedPc == {"mem", "format", "store", "bump"}

\* Types, without the upper bounds, which follow from the parts below.
Types ==
  /\ state \in 0 .. Capacity
  /\ data \in [Slot -> Item \cup {None}]
  /\ buf \in [Producers -> Item \cup {None}]
  /\ i \in [Consumers -> 0 .. Capacity]
  /\ out \in Seq(Item)
  /\ pc \in [Processes -> Critical \cup {"off", "slot", "full", "mem"}]
  /\ killed \subseteq Processes
  /\ consumer_sem \in Nat
  /\ mem_sem \in Nat
  /\ producer_sem \in Nat

\* Which statements a process of each role can be at.
Roles ==
  /\ \A p \in Producers :
       pc[p] \in {"off", "slot", "mem", "format", "store", "bump", "check", "unlock"}
  /\ \A c \in Consumers : pc[c] \in {"off", "full", "mem", "copy", "unlock"}

\* The memory semaphore and the critical section exclude each other.
Memory ==
  /\ mem_sem <= 1
  /\ mem_sem = 1 => InCritical = {}
  /\ \A s, t \in InCritical : s = t

Woken == {c \in Consumers : pc[c] \in {"mem", "copy"}}

\* One wake-up per full crate: it is in the consumer semaphore, or with one
\* consumer, or still to be made by the producer that is about to check.
WakeUp ==
  /\ consumer_sem <= 1
  /\ consumer_sem = 1 \/ Woken # {} =>
       /\ state = Capacity
       /\ \A p \in Producers : pc[p] # "check"
  /\ consumer_sem = 1 => Woken = {}
  /\ \A c, d \in Woken : c = d

\* What a consumer has printed of the current batch.
Draining ==
  /\ \A c \in Consumers :
       IF pc[c] = "copy" THEN Len(out) = i[c] ELSE i[c] = 0
  /\ out # <<>> => \E c \in Consumers : pc[c] = "copy"

\* Every place is free, claimed or filled, once.
Owned == Cardinality(Among(Producers, pc, ClaimedPc))
Places == producer_sem + Owned + state = Capacity + Len(out)

\* What the slots in use and the buffers of the producers hold.
Packed ==
  /\ \A s \in Slot : s < state => data[s] \in Item /\ data[s][2] = s
  /\ \A p \in Producers :
       /\ pc[p] = "store" => buf[p] = <<p, state>>
       /\ pc[p] = "bump" => data[state] = <<p, state>>

IInv == Types /\ Roles /\ Memory /\ WakeUp /\ Draining /\ Places /\ Packed

-----------------------------------------------------------------------------
(* Facts that several steps need.                                          *)

\* A process is a producer or a consumer, never both.
LEMMA Roster ==
  /\ Producers \subseteq Processes /\ Consumers \subseteq Processes
  /\ \A p \in Producers, c \in Consumers : p # c
  /\ IsFiniteSet(Producers)
  /\ Capacity \in Nat /\ Capacity > 0
BY CrateAssumption DEF Processes, NumItems

\* A producer that owns a place and has not counted it in state finds room.
LEMMA RoomToStore ==
  ASSUME IInv, NEW p \in Producers, pc[p] \in {"format", "store", "bump"}
  PROVE  state < Capacity /\ out = <<>> /\ Woken = {} /\ consumer_sem = 0
<1>1. \A c \in Consumers : pc[c] # "copy"
  BY Roster DEF IInv, Memory, InCritical, Critical
<1>2. out = <<>>
  BY <1>1 DEF IInv, Draining
<1>3. Owned \in Nat \ {0}
  BY Roster, AmongCount DEF Owned, ClaimedPc
<1>4. state < Capacity
  BY <1>2, <1>3, Roster DEF IInv, Types, Places
<1> QED BY <1>2, <1>4, Roster DEF IInv, Types, WakeUp

\* What the move of one process does to the number of places claimed.
LEMMA ClaimedMove ==
  ASSUME Types, NEW t \in Processes, NEW l, pc' = [pc EXCEPT ![t] = l]
  PROVE  /\ Owned \in Nat
         /\ t \in Producers /\ pc[t] \notin ClaimedPc /\ l \in ClaimedPc => Owned' = Owned + 1
         /\ t \in Producers /\ pc[t] \in ClaimedPc /\ l \notin ClaimedPc => Owned' = Owned - 1
         /\ (t \in Producers => (pc[t] \in ClaimedPc <=> l \in ClaimedPc)) => Owned' = Owned
<1>1. IsFiniteSet(Producers) /\ \A u \in Producers \ {t} : pc'[u] = pc[u]
  BY Roster DEF Types
<1>2. t \in Producers => pc'[t] = l
  BY Roster DEF Types
<1>3. Owned \in Nat
  BY <1>1, AmongCount DEF Owned
<1>4. CASE t \in Producers /\ pc[t] \notin ClaimedPc /\ l \in ClaimedPc
  BY <1>1, <1>2, <1>3, <1>4, CountEnter DEF Owned
<1>5. CASE t \in Producers /\ pc[t] \in ClaimedPc /\ l \notin ClaimedPc
  BY <1>1, <1>2, <1>3, <1>5, CountLeave DEF Owned
<1>6. CASE t \in Producers => (pc[t] \in ClaimedPc <=> l \in ClaimedPc)
  <2>1. \A u \in Producers : pc[u] \in ClaimedPc <=> pc'[u] \in ClaimedPc
    BY <1>1, <1>2, <1>6
  <2> QED BY <1>3, <1>6, <2>1, CountStay DEF Owned
<1> QED BY <1>4, <1>5, <1>6

-----------------------------------------------------------------------------
(* The invariant is inductive: one lemma per action.                       *)

\* The place taken off the semaphore is now claimed by the process.
LEMMA WaitSlotKeeps ==
  ASSUME IInv, NEW p \in Producers, WaitSlot(p)
  PROVE  IInv'
<1>0. pc[p] = "slot" /\ pc' = [pc EXCEPT ![p] = "mem"]
  BY DEF WaitSlot, Move
<1>1. Types'
  BY Roster DEF IInv, Types, WaitSlot, Move, semVars
<1>2. Roles'
  BY Roster DEF IInv, Types, Roles, WaitSlot, Move, semVars
<1>3. Memory'
  BY Roster DEF IInv, Types, Roles, Memory, InCritical, Critical, WaitSlot, Move, semVars
<1>4. WakeUp'
  BY Roster DEF IInv, Types, Roles, Memory, InCritical, Critical, WakeUp, Woken, WaitSlot, Move, semVars
<1>5. Draining'
  BY Roster DEF IInv, Types, Roles, Memory, InCritical, Critical, Draining, WaitSlot, Move, semVars
<1>6. Owned \in Nat /\ Owned' = Owned + 1
  <2>1. "slot" \notin ClaimedPc /\ "mem" \in ClaimedPc
    BY DEF ClaimedPc
  <2> QED BY <1>0, <2>1, Roster, ClaimedMove DEF IInv
<1>7. Places'
  BY <1>6, Roster DEF IInv, Types, Places, WaitSlot, Move, semVars
<1>8. Packed'
  BY Roster DEF IInv, Types, Roles, Memory, InCritical, Critical, Packed, WaitSlot, Move, semVars
<1> QED BY <1>1, <1>2, <1>3, <1>4, <1>5, <1>7, <1>8 DEF IInv

\* The memory was free, so nobody else is inside the crate.
LEMMA ProducerWaitMemKeeps ==
  ASSUME IInv, NEW p \in Producers, ProducerWaitMem(p)
  PROVE  IInv'
<1>0. pc[p] = "mem" /\ pc' = [pc EXCEPT ![p] = "format"]
  BY DEF ProducerWaitMem, Move
<1>1. Types'
  BY Roster DEF IInv, Types, Critical, ProducerWaitMem, Move, semVars
<1>2. Roles'
  BY Roster DEF IInv, Types, Roles, ProducerWaitMem, Move, semVars
<1>3. Memory'
  BY Roster DEF IInv, Types, Roles, Memory, InCritical, Critical, ProducerWaitMem, Move, semVars
<1>4. WakeUp'
  BY Roster DEF IInv, Types, Roles, Memory, InCritical, Critical, WakeUp, Woken, ProducerWaitMem, Move, semVars
<1>5. Draining'
  BY Roster DEF IInv, Types, Roles, Memory, InCritical, Critical, Draining, ProducerWaitMem, Move, semVars
<1>6. Owned \in Nat /\ Owned' = Owned
  <2>1. "mem" \in ClaimedPc /\ "format" \in ClaimedPc
    BY DEF ClaimedPc
  <2> QED BY <1>0, <2>1, Roster, ClaimedMove DEF IInv
<1>7. Places'
  BY <1>6, Roster DEF IInv, Types, Places, ProducerWaitMem, Move, semVars
<1>8. Packed'
  BY Roster DEF IInv, Types, Roles, Memory, InCritical, Critical, Packed, ProducerWaitMem, Move, semVars
<1> QED BY <1>1, <1>2, <1>3, <1>4, <1>5, <1>7, <1>8 DEF IInv

\* There is room for the item, so its name is one of the items array.
LEMMA FormatItemKeeps ==
  ASSUME IInv, NEW p \in Producers, FormatItem(p)
  PROVE  IInv'
<1>0. pc[p] = "format" /\ pc' = [pc EXCEPT ![p] = "store"]
  BY DEF FormatItem, Move, Format
<1>1. Types'
  <2>1. <<p, state>> \in Item
    BY RoomToStore, <1>0, Roster DEF IInv, Types, Item, Slot
  <2> QED BY <2>1, Roster DEF IInv, Types, Critical, FormatItem, Move, Format, semVars
<1>2. Roles'
  BY Roster DEF IInv, Types, Roles, FormatItem, Move, Format, semVars
<1>3. Memory'
  BY Roster DEF IInv, Types, Roles, Memory, InCritical, Critical, FormatItem, Move, Format, semVars
<1>4. WakeUp'
  BY Roster, RoomToStore DEF IInv, Types, Roles, Memory, InCritical, Critical, WakeUp, Woken, FormatItem, Move, Format, semVars
<1>5. Draining'
  BY Roster DEF IInv, Types, Roles, Memory, InCritical, Critical, Draining, FormatItem, Move, Format, semVars
<1>6. Owned \in Nat /\ Owned' = Owned
  <2>1. "format" \in ClaimedPc /\ "store" \in ClaimedPc
    BY DEF ClaimedPc
  <2> QED BY <1>0, <2>1, Roster, ClaimedMove DEF IInv
<1>7. Places'
  BY <1>6, Roster DEF IInv, Types, Places, FormatItem, Move, Format, semVars
<1>8. Packed'
  BY Roster, RoomToStore DEF IInv, Types, Roles, Memory, InCritical, Critical, Packed, FormatItem, Move, Format, semVars
<1> QED BY <1>1, <1>2, <1>3, <1>4, <1>5, <1>7, <1>8 DEF IInv

\* The slot written is the first free one, and nobody else is storing.
LEMMA StoreItemKeeps ==
  ASSUME IInv, NEW p \in Producers, StoreItem(p)
  PROVE  IInv'
<1>0. pc[p] = "store" /\ pc' = [pc EXCEPT ![p] = "bump"]
  BY DEF StoreItem, Move, Store
<1>1. Types'
  BY Roster, RoomToStore DEF IInv, Types, Critical, Slot, StoreItem, Move, Store, semVars
<1>2. Roles'
  BY Roster DEF IInv, Types, Roles, StoreItem, Move, Store, semVars
<1>3. Memory'
  BY Roster DEF IInv, Types, Roles, Memory, InCritical, Critical, StoreItem, Move, Store, semVars
<1>4. WakeUp'
  BY Roster, RoomToStore DEF IInv, Types, Roles, Memory, InCritical, Critical, WakeUp, Woken, StoreItem, Move, Store, semVars
<1>5. Draining'
  BY Roster DEF IInv, Types, Roles, Memory, InCritical, Critical, Draining, StoreItem, Move, Store, semVars
<1>6. Owned \in Nat /\ Owned' = Owned
  <2>1. "store" \in ClaimedPc /\ "bump" \in ClaimedPc
    BY DEF ClaimedPc
  <2> QED BY <1>0, <2>1, Roster, ClaimedMove DEF IInv
<1>7. Places'
  BY <1>6, Roster DEF IInv, Types, Places, StoreItem, Move, Store, semVars
<1>8. Packed'
  <2>1. state \in Slot /\ data' = [data EXCEPT ![state] = <<p, state>>] /\ UNCHANGED <<state, buf>>
    <3>1. state < Capacity
      BY <1>0, RoomToStore
    <3>2. buf[p] = <<p, state>>
      BY <1>0 DEF IInv, Packed
    <3> QED BY <3>1, <3>2, Roster DEF IInv, Types, Slot, StoreItem, Store
  <2>2. \A q \in Producers : q # p => pc'[q] \notin {"store", "bump"}
    BY <1>0, Roster DEF IInv, Types, Memory, InCritical, Critical
  <2>3. pc'[p] = "bump" /\ data'[state] = <<p, state>>
    BY <1>0, <2>1, Roster DEF IInv, Types
  <2> QED BY <2>1, <2>2, <2>3 DEF IInv, Types, Packed, Slot
<1> QED BY <1>1, <1>2, <1>3, <1>4, <1>5, <1>7, <1>8 DEF IInv

\* The place claimed becomes a place filled, and its slot holds the item.
LEMMA BumpStateKeeps ==
  ASSUME IInv, NEW p \in Producers, BumpState(p)
  PROVE  IInv'
<1>0. pc[p] = "bump" /\ pc' = [pc EXCEPT ![p] = "check"]
  BY DEF BumpState, Move, Bump
<1>1. Types'
  BY Roster, RoomToStore DEF IInv, Types, Critical, BumpState, Move, Bump, semVars
<1>2. Roles'
  BY Roster DEF IInv, Types, Roles, BumpState, Move, Bump, semVars
<1>3. Memory'
  BY Roster DEF IInv, Types, Roles, Memory, InCritical, Critical, BumpState, Move, Bump, semVars
<1>4. WakeUp'
  BY Roster, RoomToStore DEF IInv, Types, Roles, Memory, InCritical, Critical, WakeUp, Woken, BumpState, Move, Bump, semVars
<1>5. Draining'
  BY Roster DEF IInv, Types, Roles, Memory, InCritical, Critical, Draining, BumpState, Move, Bump, semVars
<1>6. Owned \in Nat /\ Owned' = Owned - 1
  <2>1. "bump" \in ClaimedPc /\ "check" \notin ClaimedPc
    BY DEF ClaimedPc
  <2> QED BY <1>0, <2>1, Roster, ClaimedMove DEF IInv
<1>7. Places'
  BY <1>6, Roster DEF IInv, Types, Places, BumpState, Move, Bump, semVars
<1>8. Packed'
  <2>1. state \in Slot /\ state' = state + 1 /\ UNCHANGED <<data, buf>>
    BY <1>0, RoomToStore, Roster DEF IInv, Types, Slot, BumpState, Bump
  <2>2. \A q \in Producers : pc'[q] \notin {"store", "bump"}
    BY <1>0, Roster DEF IInv, Types, Memory, InCritical, Critical
  <2>3. data[state] = <<p, state>> /\ data[state] \in Item
    BY <1>0, <2>1 DEF IInv, Packed, Item
  <2> QED BY <2>1, <2>2, <2>3 DEF IInv, Types, Packed, Slot
<1> QED BY <1>1, <1>2, <1>3, <1>4, <1>5, <1>7, <1>8 DEF IInv

\* Only one process checks, so a full crate is announced once.
LEMMA CheckFullKeeps ==
  ASSUME IInv, NEW p \in Producers, CheckFull(p)
  PROVE  IInv'
<1>0. pc[p] = "check" /\ pc' = [pc EXCEPT ![p] = "unlock"]
  BY DEF CheckFull, Move
<1>1. Types'
  BY Roster DEF IInv, Types, Critical, CheckFull, Move, semVars
<1>2. Roles'
  BY Roster DEF IInv, Types, Roles, CheckFull, Move, semVars
<1>3. Memory'
  BY Roster DEF IInv, Types, Roles, Memory, InCritical, Critical, CheckFull, Move, semVars
<1>4. WakeUp'
  BY Roster DEF IInv, Types, Roles, Memory, InCritical, Critical, WakeUp, Woken, CheckFull, Move, semVars
<1>5. Draining'
  BY Roster DEF IInv, Types, Roles, Memory, InCritical, Critical, Draining, CheckFull, Move, semVars
<1>6. Owned \in Nat /\ Owned' = Owned
  <2>1. "check" \notin ClaimedPc /\ "unlock" \notin ClaimedPc
    BY DEF ClaimedPc
  <2> QED BY <1>0, <2>1, Roster, ClaimedMove DEF IInv
<1>7. Places'
  BY <1>6, Roster DEF IInv, Types, Places, CheckFull, Move, semVars
<1>8. Packed'
  BY Roster DEF IInv, Types, Roles, Memory, InCritical, Critical, Packed, CheckFull, Move, semVars
<1> QED BY <1>1, <1>2, <1>3, <1>4, <1>5, <1>7, <1>8 DEF IInv

\* The memory is given back by the one process inside.
LEMMA ProducerUnlockKeeps ==
  ASSUME IInv, NEW p \in Producers, ProducerUnlock(p)
  PROVE  IInv'
<1>0. pc[p] = "unlock" /\ pc' = [pc EXCEPT ![p] = "slot"]
  BY DEF ProducerUnlock, Move
<1>1. Types'
  BY Roster DEF IInv, Types, Critical, ProducerUnlock, Move, semVars
<1>2. Roles'
  BY Roster DEF IInv, Types, Roles, ProducerUnlock, Move, semVars
<1>3. Memory'
  BY Roster DEF IInv, Types, Roles, Memory, InCritical, Critical, ProducerUnlock, Move, semVars
<1>4. WakeUp'
  BY Roster DEF IInv, Types, Roles, Memory, InCritical, Critical, WakeUp, Woken, ProducerUnlock, Move, semVars
<1>5. Draining'
  BY Roster DEF IInv, Types, Roles, Memory, InCritical, Critical, Draining, ProducerUnlock, Move, semVars
<1>6. Owned \in Nat /\ Owned' = Owned
  <2>1. "unlock" \notin ClaimedPc /\ "slot" \notin ClaimedPc
    BY DEF ClaimedPc
  <2> QED BY <1>0, <2>1, Roster, ClaimedMove DEF IInv
<1>7. Places'
  BY <1>6, Roster DEF IInv, Types, Places, ProducerUnlock, Move, semVars
<1>8. Packed'
  BY Roster DEF IInv, Types, Roles, Memory, InCritical, Critical, Packed, ProducerUnlock, Move, semVars
<1> QED BY <1>1, <1>2, <1>3, <1>4, <1>5, <1>7, <1>8 DEF IInv

\* A new producer waits for a place and touches nothing.
LEMMA StartProducerKeeps ==
  ASSUME IInv, NEW p \in Producers, StartProducer(p)
  PROVE  IInv'
<1>0. pc[p] = "off" /\ pc' = [pc EXCEPT ![p] = "slot"]
  BY DEF StartProducer, Move, Attach
<1>1. Types'
  BY Roster DEF IInv, Types, StartProducer, Move, Attach, semVars
<1>2. Roles'
  BY Roster DEF IInv, Types, Roles, StartProducer, Move, Attach, semVars
<1>3. Memory'
  BY Roster DEF IInv, Types, Roles, Memory, InCritical, Critical, StartProducer, Move, Attach, semVars
<1>4. WakeUp'
  BY Roster DEF IInv, Types, Roles, Memory, InCritical, Critical, WakeUp, Woken, StartProducer, Move, Attach, semVars
<1>5. Draining'
  BY Roster DEF IInv, Types, Roles, Memory, InCritical, Critical, Draining, StartProducer, Move, Attach, semVars
<1>6. Owned \in Nat /\ Owned' = Owned
  <2>1. "off" \notin ClaimedPc /\ "slot" \notin ClaimedPc
    BY DEF ClaimedPc
  <2> QED BY <1>0, <2>1, Roster, ClaimedMove DEF IInv
<1>7. Places'
  BY <1>6, Roster DEF IInv, Types, Places, StartProducer, Move, Attach, semVars
<1>8. Packed'
  BY Roster DEF IInv, Types, Roles, Memory, InCritical, Critical, Packed, StartProducer, Move, Attach, semVars
<1> QED BY <1>1, <1>2, <1>3, <1>4, <1>5, <1>7, <1>8 DEF IInv

\* A new consumer waits for a full crate and touches nothing.
LEMMA StartConsumerKeeps ==
  ASSUME IInv, NEW c \in Consumers, StartConsumer(c)
  PROVE  IInv'
<1>0. pc[c] = "off" /\ pc' = [pc EXCEPT ![c] = "full"]
  BY DEF StartConsumer, Move, Attach
<1>1. Types'
  BY Roster DEF IInv, Types, StartConsumer, Move, Attach, semVars
<1>2. Roles'
  BY Roster DEF IInv, Types, Roles, StartConsumer, Move, Attach, semVars
<1>3. Memory'
  BY Roster DEF IInv, Types, Roles, Memory, InCritical, Critical, StartConsumer, Move, Attach, semVars
<1>4. WakeUp'
  BY Roster DEF IInv, Types, Roles, Memory, InCritical, Critical, WakeUp, Woken, StartConsumer, Move, Attach, semVars
<1>5. Draining'
  BY Roster DEF IInv, Types, Roles, Memory, InCritical, Critical, Draining, StartConsumer, Move, Attach, semVars
<1>6. Owned \in Nat /\ Owned' = Owned
  <2>1. "off" \notin ClaimedPc /\ "full" \notin ClaimedPc
    BY DEF ClaimedPc
  <2> QED BY <1>0, <2>1, Roster, ClaimedMove DEF IInv
<1>7. Places'
  BY <1>6, Roster DEF IInv, Types, Places, StartConsumer, Move, Attach, semVars
<1>8. Packed'
  BY Roster DEF IInv, Types, Roles, Memory, InCritical, Critical, Packed, StartConsumer, Move, Attach, semVars
<1> QED BY <1>1, <1>2, <1>3, <1>4, <1>5, <1>7, <1>8 DEF IInv

\* The wake-up goes from the semaphore to one consumer.
LEMMA WaitFullKeeps ==
  ASSUME IInv, NEW c \in Consumers, WaitFull(c)
  PROVE  IInv'
<1>0. pc[c] = "full" /\ pc' = [pc EXCEPT ![c] = "mem"]
  BY DEF WaitFull, Move
<1>1. Types'
  BY Roster DEF IInv, Types, WaitFull, Move, semVars
<1>2. Roles'
  BY Roster DEF IInv, Types, Roles, WaitFull, Move, semVars
<1>3. Memory'
  BY Roster DEF IInv, Types, Roles, Memory, InCritical, Critical, WaitFull, Move, semVars
<1>4. WakeUp'
  BY Roster DEF IInv, Types, Roles, Memory, InCritical, Critical, WakeUp, Woken, WaitFull, Move, semVars
<1>5. Draining'
  BY Roster DEF IInv, Types, Roles, Memory, InCritical, Critical, Draining, WaitFull, Move, semVars
<1>6. Owned \in Nat /\ Owned' = Owned
  <2>1. "full" \notin ClaimedPc /\ "mem" \in ClaimedPc
    BY DEF ClaimedPc
  <2> QED BY <1>0, <2>1, Roster, ClaimedMove DEF IInv
<1>7. Places'
  BY <1>6, Roster DEF IInv, Types, Places, WaitFull, Move, semVars
<1>8. Packed'
  BY Roster DEF IInv, Types, Roles, Memory, InCritical, Critical, Packed, WaitFull, Move, semVars
<1> QED BY <1>1, <1>2, <1>3, <1>4, <1>5, <1>7, <1>8 DEF IInv

\* A consumer that has not started to copy has printed nothing.
LEMMA ConsumerWaitMemKeeps ==
  ASSUME IInv, NEW c \in Consumers, ConsumerWaitMem(c)
  PROVE  IInv'
<1>0. pc[c] = "mem" /\ pc' = [pc EXCEPT ![c] = "copy"]
  BY DEF ConsumerWaitMem, Move
<1>1. Types'
  BY Roster DEF IInv, Types, Critical, ConsumerWaitMem, Move, semVars
<1>2. Roles'
  BY Roster DEF IInv, Types, Roles, ConsumerWaitMem, Move, semVars
<1>3. Memory'
  BY Roster DEF IInv, Types, Roles, Memory, InCritical, Critical, ConsumerWaitMem, Move, semVars
<1>4. WakeUp'
  BY Roster DEF IInv, Types, Roles, Memory, InCritical, Critical, WakeUp, Woken, ConsumerWaitMem, Move, semVars
<1>5. Draining'
  BY Roster DEF IInv, Types, Roles, Memory, InCritical, Critical, Draining, ConsumerWaitMem, Move, semVars
<1>6. Owned \in Nat /\ Owned' = Owned
  <2>1. "mem" \in ClaimedPc /\ "copy" \notin ClaimedPc
    BY DEF ClaimedPc
  <2> QED BY <1>0, <2>1, Roster, ClaimedMove DEF IInv
<1>7. Places'
  BY <1>6, Roster DEF IInv, Types, Places, ConsumerWaitMem, Move, semVars
<1>8. Packed'
  BY Roster DEF IInv, Types, Roles, Memory, InCritical, Critical, Packed, ConsumerWaitMem, Move, semVars
<1> QED BY <1>1, <1>2, <1>3, <1>4, <1>5, <1>7, <1>8 DEF IInv

\* A place is offered for each item printed, while state still counts it.
LEMMA CopyItemKeeps ==
  ASSUME IInv, NEW c \in Consumers, CopyItem(c)
  PROVE  IInv'
<1>0. pc[c] = "copy" /\ pc' = [pc EXCEPT ![c] = "copy"]
  BY DEF CopyItem, Move, Copy
<1>1. Types'
  <2>1. data[i[c]] \in Item
    BY <1>0, Roster DEF IInv, Types, WakeUp, Woken, Packed, Slot, CopyItem, Copy
  <2> QED BY <2>1, Roster DEF IInv, Types, Critical, CopyItem, Move, Copy, semVars
<1>2. Roles'
  BY Roster DEF IInv, Types, Roles, CopyItem, Move, Copy, semVars
<1>3. Memory'
  BY Roster DEF IInv, Types, Roles, Memory, InCritical, Critical, CopyItem, Move, Copy, semVars
<1>4. WakeUp'
  BY Roster DEF IInv, Types, Roles, Memory, InCritical, Critical, WakeUp, Woken, CopyItem, Move, Copy, semVars
<1>5. Draining'
  BY Roster DEF IInv, Types, Roles, Memory, InCritical, Critical, Draining, CopyItem, Move, Copy, semVars
<1>6. Owned \in Nat /\ Owned' = Owned
  <2>1. "copy" \notin ClaimedPc
    BY DEF ClaimedPc
  <2> QED BY <1>0, <2>1, Roster, ClaimedMove DEF IInv
<1>7. Places'
  <2>1. Len(out') = Len(out) + 1
    BY <1>1 DEF IInv, Types, CopyItem, Copy
  <2>2. producer_sem' = producer_sem + 1 /\ state' = state
    BY DEF CopyItem, Copy
  <2>3. producer_sem \in Nat /\ state \in Nat /\ Len(out) \in Nat
    BY Roster DEF IInv, Types
  <2> QED BY <1>6, <2>1, <2>2, <2>3, Roster DEF IInv, Places
<1>8. Packed'
  BY Roster DEF IInv, Types, Roles, Memory, InCritical, Critical, Packed, CopyItem, Move, Copy, semVars
<1> QED BY <1>1, <1>2, <1>3, <1>4, <1>5, <1>7, <1>8 DEF IInv

\* All places were offered again: state may forget them.
LEMMA ResetStateKeeps ==
  ASSUME IInv, NEW c \in Consumers, ResetState(c)
  PROVE  IInv'
<1>0. pc[c] = "copy" /\ pc' = [pc EXCEPT ![c] = "unlock"]
  BY DEF ResetState, Move, Reset
<1>1. Types'
  BY Roster DEF IInv, Types, Critical, ResetState, Move, Reset, semVars
<1>2. Roles'
  BY Roster DEF IInv, Types, Roles, ResetState, Move, Reset, semVars
<1>3. Memory'
  BY Roster DEF IInv, Types, Roles, Memory, InCritical, Critical, ResetState, Move, Reset, semVars
<1>4. WakeUp'
  BY Roster DEF IInv, Types, Roles, Memory, InCritical, Critical, WakeUp, Woken, ResetState, Move, Reset, semVars
<1>5. Draining'
  BY Roster DEF IInv, Types, Roles, Memory, InCritical, Critical, Draining, ResetState, Move, Reset, semVars
<1>6. Owned \in Nat /\ Owned' = Owned
  <2>1. "copy" \notin ClaimedPc /\ "unlock" \notin ClaimedPc
    BY DEF ClaimedPc
  <2> QED BY <1>0, <2>1, Roster, ClaimedMove DEF IInv
<1>7. Places'
  <2>1. state = Capacity /\ Len(out) = Capacity
    BY <1>0 DEF IInv, WakeUp, Woken, Draining, ResetState, Reset
  <2> QED BY <1>6, <2>1, Roster DEF IInv, Types, Places, ResetState, Reset, semVars
<1>8. Packed'
  <2>1. \A q \in Producers : pc'[q] \notin {"store", "bump"}
    BY <1>0, Roster DEF IInv, Types, Memory, InCritical, Critical
  <2> QED BY <2>1, Roster DEF IInv, Types, Packed, Slot, ResetState, Reset
<1> QED BY <1>1, <1>2, <1>3, <1>4, <1>5, <1>7, <1>8 DEF IInv

\* The memory is given back by the one process inside.
LEMMA ConsumerUnlockKeeps ==
  ASSUME IInv, NEW c \in Consumers, ConsumerUnlock(c)
  PROVE  IInv'
<1>0. pc[c] = "unlock" /\ pc' = [pc EXCEPT ![c] = "full"]
  BY DEF ConsumerUnlock, Move
<1>1. Types'
  BY Roster DEF IInv, Types, Critical, ConsumerUnlock, Move, semVars
<1>2. Roles'
  BY Roster DEF IInv, Types, Roles, ConsumerUnlock, Move, semVars
<1>3. Memory'
  BY Roster DEF IInv, Types, Roles, Memory, InCritical, Critical, ConsumerUnlock, Move, semVars
<1>4. WakeUp'
  BY Roster DEF IInv, Types, Roles, Memory, InCritical, Critical, WakeUp, Woken, ConsumerUnlock, Move, semVars
<1>5. Draining'
  BY Roster DEF IInv, Types, Roles, Memory, InCritical, Critical, Draining, ConsumerUnlock, Move, semVars
<1>6. Owned \in Nat /\ Owned' = Owned
  <2>1. "unlock" \notin ClaimedPc /\ "full" \notin ClaimedPc
    BY DEF ClaimedPc
  <2> QED BY <1>0, <2>1, Roster, ClaimedMove DEF IInv
<1>7. Places'
  BY <1>6, Roster DEF IInv, Types, Places, ConsumerUnlock, Move, semVars
<1>8. Packed'
  BY Roster DEF IInv, Types, Roles, Memory, InCritical, Critical, Packed, ConsumerUnlock, Move, semVars
<1> QED BY <1>1, <1>2, <1>3, <1>4, <1>5, <1>7, <1>8 DEF IInv
\* A process that is stopped keeps its place in the invariant: it is counted on.
LEMMA KillProcessKeeps ==
  ASSUME IInv, NEW t \in Processes, KillProcess(t)
  PROVE  IInv'
BY DEF IInv, Types, Roles, Memory, InCritical, WakeUp, Woken, Draining, Places, Owned, Packed,
       KillProcess, Kill, semVars

\* Nothing changes when no variable does.
LEMMA StutterKeeps ==
  ASSUME IInv, UNCHANGED vars
  PROVE  IInv'
BY DEF IInv, Types, Roles, Memory, InCritical, WakeUp, Woken, Draining, Places, Owned, Packed,
       vars, shmVars, semVars

\* The crate program leaves an empty crate with all places offered.
LEMMA Initially == Init => IInv
<1> SUFFICES ASSUME Init PROVE IInv
  OBVIOUS
<1> USE Roster DEF Init, ShmInit
<1>1. Types
  BY EmptySeq DEF Types
<1>2. Among(Producers, pc, ClaimedPc) = {}
  BY DEF Among, ClaimedPc
<1>3. Owned = 0
  BY <1>2, FS_EmptySet DEF Owned
<1>4. Places
  BY <1>3 DEF Places
<1>5. Roles /\ Memory /\ WakeUp /\ Draining /\ Packed
  BY DEF Roles, Memory, InCritical, Critical, WakeUp, Woken, Draining, Packed, Processes
<1> QED BY <1>1, <1>4, <1>5 DEF IInv

\* Every step of every process keeps the invariant.
LEMMA Inductive == IInv /\ [Next]_vars => IInv'
<1> SUFFICES ASSUME IInv, [Next]_vars PROVE IInv'
  OBVIOUS
<1>1. ASSUME NEW p \in Producers, Producer(p) PROVE IInv'
  BY <1>1, StartProducerKeeps, WaitSlotKeeps, ProducerWaitMemKeeps, FormatItemKeeps,
     StoreItemKeeps, BumpStateKeeps, CheckFullKeeps, ProducerUnlockKeeps DEF Producer
<1>2. ASSUME NEW c \in Consumers, Consumer(c) PROVE IInv'
  BY <1>2, StartConsumerKeeps, WaitFullKeeps, ConsumerWaitMemKeeps, CopyItemKeeps,
     ResetStateKeeps, ConsumerUnlockKeeps DEF Consumer
<1> QED BY <1>1, <1>2, KillProcessKeeps, StutterKeeps DEF Next

\* The inductive invariant holds in every reachable state of the POSIX programs.
THEOREM Invariance == Spec => []IInv
BY Initially, Inductive, PTL DEF Spec

-----------------------------------------------------------------------------
(* What the invariant gives.                                               *)

\* In every reachable state the semaphores and the crate have their types:
\* in particular no semaphore rises above its maximum, and state stays within
\* the capacity the crate program was started with.
THEOREM TypeCorrect == Spec => []TypeOK
<1>1. ASSUME IInv PROVE TypeOK
  <2>1. Owned \in Nat
    BY Roster, AmongCount DEF Owned
  <2>2. Len(out) \in Nat /\ (out # <<>> => state = Capacity /\ Len(out) <= Capacity)
    BY <1>1, Roster DEF IInv, Types, WakeUp, Woken, Draining
  <2>3. producer_sem <= Capacity
    BY <1>1, <2>1, <2>2, Roster DEF IInv, Types, Places
  <2> QED BY <1>1, <2>3, Roster DEF IInv, Types, Memory, WakeUp, TypeOK, ShmTypeOK
<1> QED BY <1>1, Invariance, PTL

\* However many processes run and are killed, one at most is inside the crate.
THEOREM Exclusion == Spec => []MutualExclusion
<1>1. IInv => MutualExclusion
  BY DEF IInv, Memory, MutualExclusion
<1> QED BY <1>1, Invariance, PTL

\* No producer ever formats, stores or counts an item for a slot beyond the
\* capacity, or for one that still holds an item.
THEOREM InBounds == Spec => []StoreInBounds
<1>1. IInv => StoreInBounds
  BY RoomToStore DEF StoreInBounds
<1> QED BY <1>1, Invariance, PTL

\* A consumer that was woken finds the crate full.
THEOREM WokenFull == Spec => []WokenOnlyWhenFull
<1>1. IInv => WokenOnlyWhenFull
  BY DEF IInv, WakeUp, Woken, WokenOnlyWhenFull
<1> QED BY <1>1, Invariance, PTL

\* No place is lost or counted twice, not even by a process that is killed.
THEOREM Conservation == Spec => []PlacesConserved
<1>1. ASSUME IInv PROVE PlacesConserved
  <2>1. Cardinality(Claimed) = Owned
    BY DEF Claimed, Owned, Among, ClaimedPc
  <2>2. GivenBack = {} => out = <<>>
    BY <1>1 DEF IInv, Draining, GivenBack
  <2>3. producer_sem + Cardinality(Claimed) + state
          = Capacity + (IF GivenBack = {} THEN 0 ELSE Len(out))
    BY <1>1, <2>1, <2>2 DEF IInv, Places
  <2> QED BY <2>3 DEF PlacesConserved
<1> QED BY <1>1, Invariance, PTL

-----------------------------------------------------------------------------
(* PosixCrate implements Crate.                                            *)

\* The items of the slots from Len(out) on are a sequence, and all of it is
\* the items array in order.
LEMMA ContentIsSeq ==
  ASSUME IInv
  PROVE  /\ Content \in Seq(Item)
         /\ Len(out) \in Nat /\ Len(out) <= Capacity
         /\ Len(Content) = state - Len(out)
         /\ \A k \in 1 .. Len(Content) : Content[k] = data[Len(out) + k - 1]
         /\ out # <<>> => state = Capacity
<1>1. Len(out) \in Nat /\ (out # <<>> => state = Capacity /\ Len(out) <= Capacity)
  BY Roster DEF IInv, Types, WakeUp, Woken, Draining
<1>2. state - Len(out) \in Nat
  BY <1>1, Roster DEF IInv, Types
<1>3. \A k \in 1 .. state - Len(out) : data[Len(out) + k - 1] \in Item
  BY <1>1, <1>2, Roster DEF IInv, Types, Packed, Slot
<1>4. Content \in Seq(Item)
  BY <1>2, <1>3 DEF Content
<1> QED BY <1>1, <1>2, <1>4, Roster DEF Content

\* Counting an item is the step at which the abstract producer puts it.
LEMMA BumpIsPut ==
  ASSUME IInv, IInv', NEW p \in Producers, BumpState(p)
  PROVE  AbstractCrate!Put(p)
<1>1. pc[p] = "bump" /\ state' = state + 1 /\ UNCHANGED <<data, out>>
  BY DEF BumpState, Bump, Move
<1>2. out = <<>> /\ state < Capacity
  BY <1>1, RoomToStore
<1>3. data[state] = <<p, state>>
  BY <1>1 DEF IInv, Packed
<1>4. Len(out) = 0 /\ state \in Nat
  BY <1>2, Roster DEF IInv, Types
<1>5. Content' = Append(Content, <<p, Len(Content)>>)
  BY <1>1, <1>3, <1>4 DEF Content
<1>6. Len(Content) = state
  BY <1>4, ContentIsSeq
<1> QED BY <1>1, <1>2, <1>5, <1>6 DEF AbstractCrate!Put

\* Copying an item out is the step at which the abstract consumer takes it.
LEMMA CopyIsTake ==
  ASSUME IInv, IInv', NEW c \in Consumers, CopyItem(c)
  PROVE  AbstractCrate!Take
<1>1. pc[c] = "copy" /\ i[c] < Capacity /\ out' = Append(out, data[i[c]]) /\ UNCHANGED <<state, data>>
  BY DEF CopyItem, Copy, Move
<1>2. state = Capacity /\ Len(out) = i[c] /\ Len(out) \in Nat /\ i[c] \in Nat
  BY <1>1, Roster DEF IInv, Types, WakeUp, Woken, Draining
<1>3. Len(out') = Len(out) + 1
  BY <1>1 DEF IInv, Types
<1>4. Len(Content) = Capacity - Len(out) /\ Content \in Seq(Item)
  BY <1>2, ContentIsSeq
<1>5. Content # <<>> /\ Head(Content) = data[i[c]]
  BY <1>1, <1>2, <1>4, ContentIsSeq, Roster
<1>6. Content' = Tail(Content)
  <2> DEFINE n == state - Len(out) - 1
  <2>1. /\ n \in Nat /\ state' - Len(out') = n
        /\ \A k \in 1 .. n : Len(out') + k - 1 = Len(out) + k
    BY <1>1, <1>2, <1>3, Roster
  <2>2. Content' = [k \in 1 .. n |-> data[Len(out) + k]]
    <3>1. Content' = [k \in 1 .. n |-> data'[Len(out') + k - 1]]
      BY <2>1 DEF Content
    <3> QED BY <1>1, <2>1, <3>1
  <2>3. ASSUME NEW k \in 1 .. n
        PROVE  Content[k + 1] = data[Len(out) + k] /\ Content[k + 1] \in Item
    <3>1. k + 1 \in 1 .. Len(Content) /\ Len(out) + (k + 1) - 1 = Len(out) + k
      BY <1>2, <1>4, <2>1
    <3> QED BY <1>4, <3>1, ContentIsSeq
  <2>4. Content' \in Seq(Item) /\ Len(Content') = n
    BY <2>1, <2>2, <2>3
  <2> QED BY <1>2, <1>4, <1>5, <2>2, <2>3, <2>4, TailIs
<1> QED BY <1>1, <1>2, <1>4, <1>5, <1>6, Roster DEF AbstractCrate!Take

\* Resetting state ends the abstract batch.
LEMMA ResetIsFinish ==
  ASSUME IInv, IInv', NEW c \in Consumers, ResetState(c)
  PROVE  AbstractCrate!Finish
<1>1. pc[c] = "copy" /\ i[c] = Capacity /\ out' = <<>> /\ state' = 0
  BY DEF ResetState, Reset, Move
<1>2. state = Capacity /\ Len(out) = Capacity
  BY <1>1, Roster DEF IInv, Types, WakeUp, Woken, Draining
<1>3. Content = <<>> /\ Content' = <<>>
  BY <1>1, <1>2, Roster DEF Content
<1> QED BY <1>1, <1>2, <1>3 DEF AbstractCrate!Finish

\* Storing an item changes a slot beyond the contents.
LEMMA StoreIsHidden ==
  ASSUME IInv, IInv', NEW p \in Producers, StoreItem(p)
  PROVE  UNCHANGED <<Content, out>>
<1>1. pc[p] = "store" /\ data' = [data EXCEPT ![state] = buf[p]] /\ UNCHANGED <<state, out>>
  BY DEF StoreItem, Store, Move
<1>2. Len(out) = 0 /\ state \in Nat /\ state < Capacity
  BY <1>1, RoomToStore, Roster DEF IInv, Types
<1>3. \A k \in 1 .. state - Len(out) : data'[Len(out) + k - 1] = data[Len(out) + k - 1]
  BY <1>1, <1>2, Roster DEF IInv, Types, Slot
<1> QED BY <1>1, <1>3 DEF Content

\* Every other step leaves the abstract crate alone.
LEMMA OthersAreHidden ==
  ASSUME UNCHANGED <<state, data, out>>
  PROVE  UNCHANGED <<Content, out>>
BY DEF Content

\* The POSIX programs hand over whole batches, in the order of the items array,
\* whatever their number, the capacity and the processes killed.
THEOREM Refinement == Spec => ImplementsCrate
<1>1. Init => AbstractCrate!Init
  BY DEF Init, ShmInit, Content, AbstractCrate!Init
<1>2. ASSUME IInv, IInv', [Next]_vars
      PROVE  [AbstractCrate!Next]_<<Content, out>>
  <2>1. ASSUME NEW p \in Producers, Producer(p)
        PROVE  [AbstractCrate!Next]_<<Content, out>>
    <3>1. CASE BumpState(p)
      BY <1>2, <3>1, BumpIsPut DEF AbstractCrate!Next
    <3>2. CASE StoreItem(p)
      BY <1>2, <3>2, StoreIsHidden
    <3> QED BY <2>1, <3>1, <3>2, OthersAreHidden
          DEF Producer, StartProducer, Attach, WaitSlot, ProducerWaitMem, FormatItem, Format,
              CheckFull, ProducerUnlock
  <2>2. ASSUME NEW c \in Consumers, Consumer(c)
        PROVE  [AbstractCrate!Next]_<<Content, out>>
    <3>1. CASE CopyItem(c)
      BY <1>2, <3>1, CopyIsTake DEF AbstractCrate!Next
    <3>2. CASE ResetState(c)
      BY <1>2, <3>2, ResetIsFinish DEF AbstractCrate!Next
    <3> QED BY <2>2, <3>1, <3>2, OthersAreHidden
          DEF Consumer, StartConsumer, Attach, WaitFull, ConsumerWaitMem, ConsumerUnlock
  <2>3. ASSUME NEW t \in Processes, KillProcess(t)
        PROVE  [AbstractCrate!Next]_<<Content, out>>
    BY <2>3, OthersAreHidden DEF KillProcess, Kill
  <2>4. CASE UNCHANGED vars
    BY <2>4, OthersAreHidden DEF vars, shmVars
  <2> QED BY <1>2, <2>1, <2>2, <2>3, <2>4 DEF Next
<1> QED BY <1>1, <1>2, Invariance, PTL DEF Spec, ImplementsCrate, AbstractCrate!Spec, AbstractCrate!vars
=============================================================================
