-------------------------- MODULE SysVCrateProofs --------------------------
(***************************************************************************)
(* The safety of SysVCrate for any number of producers and consumers, any  *)
(* capacity up to the nine names of items, and any number of processes     *)
(* killed.                                                                 *)
(*                                                                         *)
(* Since a semop takes two semaphores at once, what the semaphores hold is *)
(* a function of state and of where the one process inside is: no counting *)
(* of processes is needed, unlike in PosixCrateProofs.                     *)
(***************************************************************************)
EXTENDS SysVCrate, CommonFacts

Semaphore == {Full, Memory, Places}

Types ==
  /\ state \in 0 .. Capacity
  /\ data \in [Slot -> Item \cup {None}]
  /\ buf \in [Producers -> Item \cup {None}]
  /\ i \in [Consumers -> 0 .. Capacity]
  /\ out \in Seq(Item)
  /\ pc \in [Processes -> Critical \cup {"off", "slot", "full"}]
  /\ killed \subseteq Processes
  /\ sem \in [Semaphore -> Nat]

\* Which statements a process of each role can be at.
Roles ==
  /\ \A p \in Producers :
       pc[p] \in {"off", "slot", "format", "store", "bump", "check", "unlock"}
  /\ \A c \in Consumers : pc[c] \in {"off", "full", "copy", "unlock"}

\* The memory semaphore and the critical section exclude each other.
Exclusive ==
  /\ sem[Memory] <= 1
  /\ sem[Memory] = 1 => InCritical = {}
  /\ \A s, t \in InCritical : s = t

\* What the semaphores offer while a process is inside the crate.
ProducerAccount(p) ==
  /\ pc[p] \in {"format", "store", "bump"} => sem[Places] = Capacity - state - 1 /\ sem[Full] = 0
  /\ pc[p] = "check" => sem[Places] = Capacity - state /\ sem[Full] = 0
  /\ pc[p] = "unlock" => /\ sem[Places] = Capacity - state
                         /\ sem[Full] = IF state = Capacity THEN 1 ELSE 0

ConsumerAccount(c) ==
  /\ pc[c] = "copy" => state = Capacity
  /\ pc[c] = "unlock" => state = 0
  /\ pc[c] \in {"copy", "unlock"} => sem[Places] = 0 /\ sem[Full] = 0

Accounts ==
  /\ PlacesConserved
  /\ \A p \in Producers : ProducerAccount(p)
  /\ \A c \in Consumers : ConsumerAccount(c)

\* What a consumer has printed of the current batch.
Draining ==
  /\ \A c \in Consumers : IF pc[c] = "copy" THEN Len(out) = i[c] ELSE i[c] = 0
  /\ out # <<>> => \E c \in Consumers : pc[c] = "copy"

\* What the slots in use and the buffers of the producers hold.
Packed ==
  /\ \A s \in Slot : s < state => data[s] \in Item /\ data[s][2] = s
  /\ \A p \in Producers :
       /\ pc[p] = "store" => buf[p] = <<p, state>>
       /\ pc[p] = "bump" => data[state] = <<p, state>>

IInv == Types /\ Roles /\ Exclusive /\ Accounts /\ Draining /\ Packed

-----------------------------------------------------------------------------
(* Facts that several steps need.                                          *)

\* A process is a producer or a consumer, never both.
LEMMA Roster ==
  /\ Producers \subseteq Processes /\ Consumers \subseteq Processes
  /\ \A p \in Producers, c \in Consumers : p # c
  /\ Capacity \in Nat /\ Capacity > 0
BY CrateAssumption DEF Processes, NumItems

\* semop takes one from both semaphores or nothing from either.
LEMMA SemopTakes ==
  ASSUME sem \in [Semaphore -> Nat], NEW a \in Semaphore, NEW b \in Semaphore, a # b,
         Semop([k \in {a, b} |-> -1])
  PROVE  /\ sem[a] > 0 /\ sem[b] > 0
         /\ sem' = [sem EXCEPT ![a] = @ - 1, ![b] = @ - 1]
<1> DEFINE d == [k \in {a, b} |-> -1]
<1>1. DOMAIN d = {a, b} /\ \A k \in {a, b} : d[k] = -1
  OBVIOUS
<1>2. DOMAIN sem = Semaphore /\ \A k \in Semaphore : sem[k] \in Nat
  OBVIOUS
<1>3. Semop(d)
  OBVIOUS
<1> HIDE DEF d
<1>4. sem[a] > 0 /\ sem[b] > 0
  BY <1>1, <1>2, <1>3 DEF Semop
<1>5. sem' = [k \in Semaphore |-> IF k \in {a, b} THEN sem[k] - 1 ELSE sem[k]]
  BY <1>1, <1>2, <1>3 DEF Semop
<1> QED BY <1>2, <1>4, <1>5

\* semop adds to one semaphore, or to both at once.
LEMMA SemopAdds ==
  ASSUME sem \in [Semaphore -> Nat], NEW a \in Semaphore
  PROVE  /\ Semop([k \in {a} |-> 1]) => sem' = [sem EXCEPT ![a] = @ + 1]
         /\ Semop([k \in {Places, Memory} |-> IF k = Places THEN Capacity ELSE 1]) =>
              sem' = [sem EXCEPT ![Places] = @ + Capacity, ![Memory] = @ + 1]
<1>1. Semop([k \in {a} |-> 1]) => sem' = [sem EXCEPT ![a] = @ + 1]
  BY DEF Semop
<1>2. ASSUME Semop([k \in {Places, Memory} |-> IF k = Places THEN Capacity ELSE 1])
      PROVE  sem' = [sem EXCEPT ![Places] = @ + Capacity, ![Memory] = @ + 1]
  <2> DEFINE d == [k \in {Places, Memory} |-> IF k = Places THEN Capacity ELSE 1]
  <2>1. DOMAIN d = {Places, Memory} /\ d[Places] = Capacity /\ d[Memory] = 1
    BY DEF Memory, Places
  <2>2. Places \in Semaphore /\ Memory \in Semaphore /\ Places # Memory /\ DOMAIN sem = Semaphore
    BY DEF Semaphore, Memory, Places
  <2>3. Semop(d)
    BY <1>2
  <2> HIDE DEF d
  <2>4. sem' = [k \in Semaphore |-> IF k \in {Places, Memory} THEN sem[k] + d[k] ELSE sem[k]]
    BY <2>1, <2>2, <2>3 DEF Semop
  <2> QED BY <2>1, <2>2, <2>4
<1> QED BY <1>1, <1>2

\* A producer inside that has not counted its item in state finds room.
LEMMA RoomToStore ==
  ASSUME IInv, NEW p \in Producers, pc[p] \in {"format", "store", "bump"}
  PROVE  state < Capacity /\ out = <<>>
<1>1. \A c \in Consumers : pc[c] # "copy"
  BY Roster DEF IInv, Exclusive, InCritical, Critical
<1>2. sem[Places] \in Nat /\ sem[Places] = Capacity - state - 1 /\ state \in Nat
  BY Roster DEF IInv, Types, Accounts, ProducerAccount, Semaphore
<1> QED BY <1>1, <1>2, Roster DEF IInv, Draining

-----------------------------------------------------------------------------
(* The invariant is inductive: one lemma per action.                       *)

\* A new producer waits for a place and touches nothing.
LEMMA StartProducerKeeps ==
  ASSUME IInv, NEW p \in Producers, StartProducer(p)
  PROVE  IInv'
<1>1. pc[p] = "off" /\ pc' = [pc EXCEPT ![p] = "slot"] /\ killed' = killed
  BY DEF StartProducer, Attach, Move
<1>2. Types'
  BY <1>1, Roster DEF IInv, Types, Critical, StartProducer, Attach
<1>3. Roles'
  BY <1>1, Roster DEF IInv, Types, Roles
<1>4. Exclusive'
  BY <1>1, Roster DEF IInv, Types, Roles, Exclusive, InCritical, Critical, Semaphore, Full, Memory, Places, StartProducer, Attach
<1>5. Accounts'
  BY <1>1, Roster DEF IInv, Types, Roles, Exclusive, InCritical, Critical, Accounts, PlacesConserved, ProducerAccount, ConsumerAccount, Semaphore, Full, Memory, Places, StartProducer, Attach
<1>6. Draining'
  BY <1>1, Roster DEF IInv, Types, Roles, Exclusive, InCritical, Critical, Draining, StartProducer, Attach
<1>7. Packed'
  BY <1>1, Roster DEF IInv, Types, Roles, Exclusive, InCritical, Critical, Packed, StartProducer, Attach
<1> QED BY <1>2, <1>3, <1>4, <1>5, <1>6, <1>7 DEF IInv

\* The memory was free, so the places offered are those not filled; one of them
\* is now taken with it.
LEMMA ProducerDownKeeps ==
  ASSUME IInv, NEW p \in Producers, ProducerDown(p)
  PROVE  IInv'
<1>1. pc[p] = "slot" /\ pc' = [pc EXCEPT ![p] = "format"] /\ killed' = killed
  BY DEF ProducerDown, Move
<1>2. sem[Places] > 0 /\ sem[Memory] > 0 /\ sem' = [sem EXCEPT ![Places] = @ - 1, ![Memory] = @ - 1]
  BY SemopTakes DEF IInv, Types, ProducerDown, Semaphore, Full, Memory, Places
<1>3. Types'
  BY <1>1, <1>2, Roster DEF IInv, Types, Critical, Semaphore, Full, Memory, Places, ProducerDown
<1>4. Roles'
  BY <1>1, <1>2, Roster DEF IInv, Types, Roles
<1>5. Exclusive'
  BY <1>1, <1>2, Roster DEF IInv, Types, Roles, Exclusive, InCritical, Critical, Semaphore, Full, Memory, Places, ProducerDown
<1>6. Accounts'
  BY <1>1, <1>2, Roster DEF IInv, Types, Roles, Exclusive, InCritical, Critical, Accounts, PlacesConserved, ProducerAccount, ConsumerAccount, Semaphore, Full, Memory, Places, ProducerDown
<1>7. Draining'
  BY <1>1, <1>2, Roster DEF IInv, Types, Roles, Exclusive, InCritical, Critical, Draining, ProducerDown
<1>8. Packed'
  BY <1>1, <1>2, Roster DEF IInv, Types, Roles, Exclusive, InCritical, Critical, Packed, ProducerDown
<1> QED BY <1>3, <1>4, <1>5, <1>6, <1>7, <1>8 DEF IInv

\* There is room for the item, so its name is one of the items array.
LEMMA FormatItemKeeps ==
  ASSUME IInv, NEW p \in Producers, FormatItem(p)
  PROVE  IInv'
<1>1. pc[p] = "format" /\ pc' = [pc EXCEPT ![p] = "store"] /\ killed' = killed
  BY DEF FormatItem, Format, Move
<1>2. Types'
  <2>1. <<p, state>> \in Item
    BY <1>1, RoomToStore, Roster DEF IInv, Types, Item, Slot
  <2> QED BY <1>1, <2>1, Roster DEF IInv, Types, Critical, FormatItem, Format
<1>3. Roles'
  BY <1>1, Roster DEF IInv, Types, Roles
<1>4. Exclusive'
  BY <1>1, Roster DEF IInv, Types, Roles, Exclusive, InCritical, Critical, Semaphore, Full, Memory, Places, FormatItem, Format
<1>5. Accounts'
  BY <1>1, Roster DEF IInv, Types, Roles, Exclusive, InCritical, Critical, Accounts, PlacesConserved, ProducerAccount, ConsumerAccount, Semaphore, Full, Memory, Places, FormatItem, Format
<1>6. Draining'
  BY <1>1, Roster DEF IInv, Types, Roles, Exclusive, InCritical, Critical, Draining, FormatItem, Format
<1>7. Packed'
  BY <1>1, Roster DEF IInv, Types, Roles, Exclusive, InCritical, Critical, Packed, FormatItem, Format
<1> QED BY <1>2, <1>3, <1>4, <1>5, <1>6, <1>7 DEF IInv

\* The slot written is the first free one, and nobody else is storing.
LEMMA StoreItemKeeps ==
  ASSUME IInv, NEW p \in Producers, StoreItem(p)
  PROVE  IInv'
<1>1. pc[p] = "store" /\ pc' = [pc EXCEPT ![p] = "bump"] /\ killed' = killed
  BY DEF StoreItem, Store, Move
<1>2. state \in Slot /\ data' = [data EXCEPT ![state] = <<p, state>>]
  <2>1. state < Capacity /\ buf[p] = <<p, state>>
    BY <1>1, RoomToStore DEF IInv, Packed
  <2> QED BY <2>1, Roster DEF IInv, Types, Slot, StoreItem, Store
<1>3. Types'
  BY <1>1, <1>2, Roster DEF IInv, Types, Critical, StoreItem, Store
<1>4. Roles'
  BY <1>1, <1>2, Roster DEF IInv, Types, Roles
<1>5. Exclusive'
  BY <1>1, <1>2, Roster DEF IInv, Types, Roles, Exclusive, InCritical, Critical, Semaphore, Full, Memory, Places, StoreItem, Store
<1>6. Accounts'
  BY <1>1, <1>2, Roster DEF IInv, Types, Roles, Exclusive, InCritical, Critical, Accounts, PlacesConserved, ProducerAccount, ConsumerAccount, Semaphore, Full, Memory, Places, StoreItem, Store
<1>7. Draining'
  BY <1>1, <1>2, Roster DEF IInv, Types, Roles, Exclusive, InCritical, Critical, Draining, StoreItem, Store
<1>8. Packed'
  <2>1. \A q \in Producers : q # p => pc'[q] \notin {"store", "bump"}
    BY <1>1, Roster DEF IInv, Types, Exclusive, InCritical, Critical
  <2>2. pc'[p] = "bump" /\ UNCHANGED <<state, buf>>
    BY <1>1, Roster DEF IInv, Types, StoreItem, Store
  <2> QED BY <1>2, <2>1, <2>2 DEF IInv, Types, Packed, Slot
<1> QED BY <1>3, <1>4, <1>5, <1>6, <1>7, <1>8 DEF IInv

\* The place taken becomes a place filled, and its slot holds the item.
LEMMA BumpStateKeeps ==
  ASSUME IInv, NEW p \in Producers, BumpState(p)
  PROVE  IInv'
<1>1. pc[p] = "bump" /\ pc' = [pc EXCEPT ![p] = "check"] /\ killed' = killed
  BY DEF BumpState, Bump, Move
<1>2. state \in Slot /\ state' = state + 1
  BY <1>1, RoomToStore, Roster DEF IInv, Types, Slot, BumpState, Bump
<1>3. Types'
  BY <1>1, <1>2, Roster DEF IInv, Types, Critical, Slot, BumpState, Bump
<1>4. Roles'
  BY <1>1, <1>2, Roster DEF IInv, Types, Roles
<1>5. Exclusive'
  BY <1>1, <1>2, Roster DEF IInv, Types, Roles, Exclusive, InCritical, Critical, Semaphore, Full, Memory, Places, BumpState, Bump
<1>6. Accounts'
  BY <1>1, <1>2, Roster DEF IInv, Types, Roles, Exclusive, InCritical, Critical, Accounts, PlacesConserved, ProducerAccount, ConsumerAccount, Semaphore, Full, Memory, Places, BumpState, Bump
<1>7. Draining'
  BY <1>1, <1>2, Roster DEF IInv, Types, Roles, Exclusive, InCritical, Critical, Draining, BumpState, Bump
<1>8. Packed'
  <2>1. \A q \in Producers : pc'[q] \notin {"store", "bump"}
    BY <1>1, Roster DEF IInv, Types, Exclusive, InCritical, Critical
  <2>2. data[state] = <<p, state>> /\ data[state] \in Item /\ UNCHANGED <<data, buf>>
    BY <1>1, <1>2 DEF IInv, Packed, Item, BumpState, Bump
  <2>3. \A s \in Slot : s < state' => s < state \/ s = state
    BY <1>2, Roster DEF Slot
  <2> QED BY <2>1, <2>2, <2>3 DEF IInv, Packed
<1> QED BY <1>3, <1>4, <1>5, <1>6, <1>7, <1>8 DEF IInv

\* Only one process checks, so a full crate is announced once.
LEMMA CheckFullKeeps ==
  ASSUME IInv, NEW p \in Producers, CheckFull(p)
  PROVE  IInv'
<1>1. pc[p] = "check" /\ pc' = [pc EXCEPT ![p] = "unlock"] /\ killed' = killed
  BY DEF CheckFull, Move
<1>2. sem' = IF state = Capacity THEN [sem EXCEPT ![Full] = @ + 1] ELSE sem
  BY SemopAdds DEF IInv, Types, CheckFull, Semaphore
<1>3. Types'
  BY <1>1, <1>2, Roster DEF IInv, Types, Critical, Semaphore, Full, Memory, Places, CheckFull
<1>4. Roles'
  BY <1>1, <1>2, Roster DEF IInv, Types, Roles
<1>5. Exclusive'
  BY <1>1, <1>2, Roster DEF IInv, Types, Roles, Exclusive, InCritical, Critical, Semaphore, Full, Memory, Places, CheckFull
<1>6. Accounts'
  BY <1>1, <1>2, Roster DEF IInv, Types, Roles, Exclusive, InCritical, Critical, Accounts, PlacesConserved, ProducerAccount, ConsumerAccount, Semaphore, Full, Memory, Places, CheckFull
<1>7. Draining'
  BY <1>1, <1>2, Roster DEF IInv, Types, Roles, Exclusive, InCritical, Critical, Draining, CheckFull
<1>8. Packed'
  BY <1>1, <1>2, Roster DEF IInv, Types, Roles, Exclusive, InCritical, Critical, Packed, CheckFull
<1> QED BY <1>3, <1>4, <1>5, <1>6, <1>7, <1>8 DEF IInv

\* The memory is given back by the one process inside.
LEMMA ProducerUnlockKeeps ==
  ASSUME IInv, NEW p \in Producers, ProducerUnlock(p)
  PROVE  IInv'
<1>1. pc[p] = "unlock" /\ pc' = [pc EXCEPT ![p] = "slot"] /\ killed' = killed
  BY DEF ProducerUnlock, Move
<1>2. sem' = [sem EXCEPT ![Memory] = @ + 1]
  BY SemopAdds DEF IInv, Types, ProducerUnlock, Semaphore
<1>3. Types'
  BY <1>1, <1>2, Roster DEF IInv, Types, Critical, Semaphore, Full, Memory, Places, ProducerUnlock
<1>4. Roles'
  BY <1>1, <1>2, Roster DEF IInv, Types, Roles
<1>5. Exclusive'
  BY <1>1, <1>2, Roster DEF IInv, Types, Roles, Exclusive, InCritical, Critical, Semaphore, Full, Memory, Places, ProducerUnlock
<1>6. Accounts'
  BY <1>1, <1>2, Roster DEF IInv, Types, Roles, Exclusive, InCritical, Critical, Accounts, PlacesConserved, ProducerAccount, ConsumerAccount, Semaphore, Full, Memory, Places, ProducerUnlock
<1>7. Draining'
  BY <1>1, <1>2, Roster DEF IInv, Types, Roles, Exclusive, InCritical, Critical, Draining, ProducerUnlock
<1>8. Packed'
  BY <1>1, <1>2, Roster DEF IInv, Types, Roles, Exclusive, InCritical, Critical, Packed, ProducerUnlock
<1> QED BY <1>3, <1>4, <1>5, <1>6, <1>7, <1>8 DEF IInv

\* A new consumer waits for a full crate and touches nothing.
LEMMA StartConsumerKeeps ==
  ASSUME IInv, NEW c \in Consumers, StartConsumer(c)
  PROVE  IInv'
<1>1. pc[c] = "off" /\ pc' = [pc EXCEPT ![c] = "full"] /\ killed' = killed
  BY DEF StartConsumer, Attach, Move
<1>2. Types'
  BY <1>1, Roster DEF IInv, Types, Critical, StartConsumer, Attach
<1>3. Roles'
  BY <1>1, Roster DEF IInv, Types, Roles
<1>4. Exclusive'
  BY <1>1, Roster DEF IInv, Types, Roles, Exclusive, InCritical, Critical, Semaphore, Full, Memory, Places, StartConsumer, Attach
<1>5. Accounts'
  BY <1>1, Roster DEF IInv, Types, Roles, Exclusive, InCritical, Critical, Accounts, PlacesConserved, ProducerAccount, ConsumerAccount, Semaphore, Full, Memory, Places, StartConsumer, Attach
<1>6. Draining'
  BY <1>1, Roster DEF IInv, Types, Roles, Exclusive, InCritical, Critical, Draining, StartConsumer, Attach
<1>7. Packed'
  BY <1>1, Roster DEF IInv, Types, Roles, Exclusive, InCritical, Critical, Packed, StartConsumer, Attach
<1> QED BY <1>2, <1>3, <1>4, <1>5, <1>6, <1>7 DEF IInv

\* The memory was free, so the order to empty the crate stands for a full one.
LEMMA ConsumerDownKeeps ==
  ASSUME IInv, NEW c \in Consumers, ConsumerDown(c)
  PROVE  IInv'
<1>1. pc[c] = "full" /\ pc' = [pc EXCEPT ![c] = "copy"] /\ killed' = killed
  BY DEF ConsumerDown, Move
<1>2. sem[Full] > 0 /\ sem[Memory] > 0 /\ sem' = [sem EXCEPT ![Full] = @ - 1, ![Memory] = @ - 1]
  BY SemopTakes DEF IInv, Types, ConsumerDown, Semaphore, Full, Memory, Places
<1>3. Types'
  <2>1. sem' \in [Semaphore -> Nat]
    BY <1>2 DEF IInv, Types, Semaphore, Full, Memory, Places
  <2> QED BY <1>1, <2>1, Roster DEF IInv, Types, Critical, ConsumerDown
<1>4. Roles'
  BY <1>1, <1>2, Roster DEF IInv, Types, Roles
<1>5. Exclusive'
  BY <1>1, <1>2, Roster DEF IInv, Types, Roles, Exclusive, InCritical, Critical, Semaphore, Full, Memory, Places, ConsumerDown
<1>6. Accounts'
  BY <1>1, <1>2, Roster DEF IInv, Types, Roles, Exclusive, InCritical, Critical, Accounts, PlacesConserved, ProducerAccount, ConsumerAccount, Semaphore, Full, Memory, Places, ConsumerDown
<1>7. Draining'
  <2>1. InCritical = {}
    BY <1>2 DEF IInv, Types, Exclusive, Semaphore, Memory
  <2>2. out = <<>>
    BY <2>1, Roster DEF IInv, Draining, InCritical, Critical
  <2> QED BY <1>1, <2>1, <2>2, Roster DEF IInv, Types, Draining, InCritical, Critical, ConsumerDown
<1>8. Packed'
  BY <1>1, <1>2, Roster DEF IInv, Types, Roles, Exclusive, InCritical, Critical, Packed, ConsumerDown
<1> QED BY <1>3, <1>4, <1>5, <1>6, <1>7, <1>8 DEF IInv

\* An item is printed; the places are all given back later.
LEMMA CopyItemKeeps ==
  ASSUME IInv, NEW c \in Consumers, CopyItem(c)
  PROVE  IInv'
<1>1. pc[c] = "copy" /\ pc' = [pc EXCEPT ![c] = "copy"] /\ killed' = killed
  BY DEF CopyItem, Copy, Move
<1>2. data[i[c]] \in Item /\ out' = Append(out, data[i[c]])
  BY <1>1, Roster DEF IInv, Types, Accounts, ConsumerAccount, Packed, Slot, CopyItem, Copy
<1>3. Types'
  BY <1>1, <1>2, Roster DEF IInv, Types, Critical, CopyItem, Copy
<1>4. Roles'
  BY <1>1, <1>2, Roster DEF IInv, Types, Roles
<1>5. Exclusive'
  BY <1>1, <1>2, Roster DEF IInv, Types, Roles, Exclusive, InCritical, Critical, Semaphore, Full, Memory, Places, CopyItem, Copy
<1>6. Accounts'
  BY <1>1, <1>2, Roster DEF IInv, Types, Roles, Exclusive, InCritical, Critical, Accounts, PlacesConserved, ProducerAccount, ConsumerAccount, Semaphore, Full, Memory, Places, CopyItem, Copy
<1>7. Draining'
  BY <1>1, <1>2, Roster DEF IInv, Types, Roles, Exclusive, InCritical, Critical, Draining, CopyItem, Copy
<1>8. Packed'
  BY <1>1, <1>2, Roster DEF IInv, Types, Roles, Exclusive, InCritical, Critical, Packed, CopyItem, Copy
<1> QED BY <1>3, <1>4, <1>5, <1>6, <1>7, <1>8 DEF IInv

\* state forgets the items; the places are still with the consumer.
LEMMA ResetStateKeeps ==
  ASSUME IInv, NEW c \in Consumers, ResetState(c)
  PROVE  IInv'
<1>1. pc[c] = "copy" /\ pc' = [pc EXCEPT ![c] = "unlock"] /\ killed' = killed
  BY DEF ResetState, Reset, Move
<1>2. Types'
  BY <1>1, Roster DEF IInv, Types, Critical, ResetState, Reset
<1>3. Roles'
  BY <1>1, Roster DEF IInv, Types, Roles
<1>4. Exclusive'
  BY <1>1, Roster DEF IInv, Types, Roles, Exclusive, InCritical, Critical, Semaphore, Full, Memory, Places, ResetState, Reset
<1>5. Accounts'
  BY <1>1, Roster DEF IInv, Types, Roles, Exclusive, InCritical, Critical, Accounts, PlacesConserved, ProducerAccount, ConsumerAccount, Semaphore, Full, Memory, Places, ResetState, Reset
<1>6. Draining'
  BY <1>1, Roster DEF IInv, Types, Roles, Exclusive, InCritical, Critical, Draining, ResetState, Reset
<1>7. Packed'
  <2>1. \A q \in Producers : pc'[q] \notin {"store", "bump"}
    BY <1>1, Roster DEF IInv, Types, Exclusive, InCritical, Critical
  <2> QED BY <2>1, Roster DEF IInv, Types, Packed, Slot, ResetState, Reset
<1> QED BY <1>2, <1>3, <1>4, <1>5, <1>6, <1>7 DEF IInv

\* All places and the memory are given back together.
LEMMA ConsumerUpKeeps ==
  ASSUME IInv, NEW c \in Consumers, ConsumerUp(c)
  PROVE  IInv'
<1>1. pc[c] = "unlock" /\ pc' = [pc EXCEPT ![c] = "full"] /\ killed' = killed
  BY DEF ConsumerUp, Move
<1>2. sem' = [sem EXCEPT ![Places] = @ + Capacity, ![Memory] = @ + 1]
  BY SemopAdds DEF IInv, Types, ConsumerUp, Semaphore
<1>3. Types'
  BY <1>1, <1>2, Roster DEF IInv, Types, Critical, Semaphore, Full, Memory, Places, ConsumerUp
<1>4. Roles'
  BY <1>1, <1>2, Roster DEF IInv, Types, Roles
<1>5. Exclusive'
  BY <1>1, <1>2, Roster DEF IInv, Types, Roles, Exclusive, InCritical, Critical, Semaphore, Full, Memory, Places, ConsumerUp
<1>6. Accounts'
  BY <1>1, <1>2, Roster DEF IInv, Types, Roles, Exclusive, InCritical, Critical, Accounts, PlacesConserved, ProducerAccount, ConsumerAccount, Semaphore, Full, Memory, Places, ConsumerUp
<1>7. Draining'
  BY <1>1, <1>2, Roster DEF IInv, Types, Roles, Exclusive, InCritical, Critical, Draining, ConsumerUp
<1>8. Packed'
  BY <1>1, <1>2, Roster DEF IInv, Types, Roles, Exclusive, InCritical, Critical, Packed, ConsumerUp
<1> QED BY <1>3, <1>4, <1>5, <1>6, <1>7, <1>8 DEF IInv

\* A process that is stopped keeps its place in the invariant.
LEMMA KillProcessKeeps ==
  ASSUME IInv, NEW t \in Processes, KillProcess(t)
  PROVE  IInv'
BY DEF IInv, Types, Roles, Exclusive, InCritical, Accounts, PlacesConserved, ProducerAccount,
       ConsumerAccount, Draining, Packed, KillProcess, Kill

\* Nothing changes when no variable does.
LEMMA StutterKeeps ==
  ASSUME IInv, UNCHANGED vars
  PROVE  IInv'
BY DEF IInv, Types, Roles, Exclusive, InCritical, Accounts, PlacesConserved, ProducerAccount,
       ConsumerAccount, Draining, Packed, vars, shmVars

\* The vcrate program leaves an empty crate with all places offered.
LEMMA Initially == Init => IInv
<1> SUFFICES ASSUME Init PROVE IInv
  OBVIOUS
<1> USE Roster DEF Init, ShmInit
<1>1. Types
  BY EmptySeq DEF Types, Semaphore, Full, Memory, Places
<1>2. Roles /\ Draining /\ Packed
  BY DEF Roles, Draining, Packed, Processes
<1>3. Exclusive /\ Accounts
  BY DEF Exclusive, InCritical, Critical, Accounts, PlacesConserved, ProducerAccount,
         ConsumerAccount, Full, Memory, Places, Processes
<1> QED BY <1>1, <1>2, <1>3 DEF IInv

\* Every step of every process keeps the invariant.
LEMMA Inductive == IInv /\ [Next]_vars => IInv'
<1> SUFFICES ASSUME IInv, [Next]_vars PROVE IInv'
  OBVIOUS
<1>1. ASSUME NEW p \in Producers, Producer(p) PROVE IInv'
  BY <1>1, StartProducerKeeps, ProducerDownKeeps, FormatItemKeeps, StoreItemKeeps,
     BumpStateKeeps, CheckFullKeeps, ProducerUnlockKeeps DEF Producer
<1>2. ASSUME NEW c \in Consumers, Consumer(c) PROVE IInv'
  BY <1>2, StartConsumerKeeps, ConsumerDownKeeps, CopyItemKeeps, ResetStateKeeps,
     ConsumerUpKeeps DEF Consumer
<1> QED BY <1>1, <1>2, KillProcessKeeps, StutterKeeps DEF Next

\* The inductive invariant holds in every reachable state of the System V
\* programs.
THEOREM Invariance == Spec => []IInv
BY Initially, Inductive, PTL DEF Spec

-----------------------------------------------------------------------------
(* What the invariant gives.                                               *)

\* However many processes run and are killed, the places offered to producers
\* and the order to consumers are exact whenever nobody is inside the crate.
THEOREM Conservation == Spec => []PlacesConserved
<1>1. IInv => PlacesConserved
  BY DEF IInv, Accounts
<1> QED BY <1>1, Invariance, PTL

-----------------------------------------------------------------------------
(* SysVCrate implements Crate.                                             *)

\* The items of the slots from Len(out) on are a sequence, and all of it is
\* the items array in order.
LEMMA ContentIsSeq ==
  ASSUME IInv
  PROVE  /\ Content \in Seq(Item)
         /\ Len(out) \in Nat /\ Len(out) <= Capacity
         /\ Len(Content) = state - Len(out)
         /\ \A k \in 1 .. Len(Content) : Content[k] = data[Len(out) + k - 1]
         /\ out # <<>> => state = Capacity
<1>1. Len(out) \in Nat /\ (out # <<>> => state = Capacity /\ Len(out) <= Capacity)
  BY Roster DEF IInv, Types, Accounts, ConsumerAccount, Draining
<1>2. state - Len(out) \in Nat
  BY <1>1, Roster DEF IInv, Types
<1>3. \A k \in 1 .. state - Len(out) : data[Len(out) + k - 1] \in Item
  BY <1>1, <1>2, Roster DEF IInv, Types, Packed, Slot
<1>4. Content \in Seq(Item)
  BY <1>2, <1>3 DEF Content
<1> QED BY <1>1, <1>2, <1>4, Roster DEF Content

\* Counting an item is the step at which the abstract producer puts it.
LEMMA BumpIsPut ==
  ASSUME IInv, IInv', NEW p \in Producers, BumpState(p)
  PROVE  AbstractCrate!Put(p)
<1>1. pc[p] = "bump" /\ state' = state + 1 /\ UNCHANGED <<data, out>>
  BY DEF BumpState, Bump, Move
<1>2. out = <<>> /\ state < Capacity
  BY <1>1, RoomToStore
<1>3. data[state] = <<p, state>>
  BY <1>1 DEF IInv, Packed
<1>4. Len(out) = 0 /\ state \in Nat
  BY <1>2, Roster DEF IInv, Types
<1>5. Content' = Append(Content, <<p, Len(Content)>>)
  BY <1>1, <1>3, <1>4 DEF Content
<1>6. Len(Content) = state
  BY <1>4, ContentIsSeq
<1> QED BY <1>1, <1>2, <1>5, <1>6 DEF AbstractCrate!Put

\* Copying an item out is the step at which the abstract consumer takes it.
LEMMA CopyIsTake ==
  ASSUME IInv, IInv', NEW c \in Consumers, CopyItem(c)
  PROVE  AbstractCrate!Take
<1>1. pc[c] = "copy" /\ i[c] < Capacity /\ out' = Append(out, data[i[c]]) /\ UNCHANGED <<state, data>>
  BY DEF CopyItem, Copy, Move
<1>2. state = Capacity /\ Len(out) = i[c] /\ Len(out) \in Nat /\ i[c] \in Nat
  BY <1>1, Roster DEF IInv, Types, Accounts, ConsumerAccount, Draining
<1>3. Len(out') = Len(out) + 1
  BY <1>1 DEF IInv, Types
<1>4. Len(Content) = Capacity - Len(out) /\ Content \in Seq(Item)
  BY <1>2, ContentIsSeq
<1>5. Content # <<>> /\ Head(Content) = data[i[c]]
  BY <1>1, <1>2, <1>4, ContentIsSeq, Roster
<1>6. Content' = Tail(Content)
  <2> DEFINE n == state - Len(out) - 1
  <2>1. /\ n \in Nat /\ state' - Len(out') = n
        /\ \A k \in 1 .. n : Len(out') + k - 1 = Len(out) + k
    BY <1>1, <1>2, <1>3, Roster
  <2>2. Content' = [k \in 1 .. n |-> data[Len(out) + k]]
    <3>1. Content' = [k \in 1 .. n |-> data'[Len(out') + k - 1]]
      BY <2>1 DEF Content
    <3> QED BY <1>1, <2>1, <3>1
  <2>3. ASSUME NEW k \in 1 .. n
        PROVE  Content[k + 1] = data[Len(out) + k] /\ Content[k + 1] \in Item
    <3>1. k + 1 \in 1 .. Len(Content) /\ Len(out) + (k + 1) - 1 = Len(out) + k
      BY <1>2, <1>4, <2>1
    <3> QED BY <1>4, <3>1, ContentIsSeq
  <2>4. Content' \in Seq(Item) /\ Len(Content') = n
    BY <2>1, <2>2, <2>3
  <2> QED BY <1>2, <1>4, <1>5, <2>2, <2>3, <2>4, TailIs
<1> QED BY <1>1, <1>2, <1>4, <1>5, <1>6, Roster DEF AbstractCrate!Take

\* Resetting state ends the abstract batch.
LEMMA ResetIsFinish ==
  ASSUME IInv, IInv', NEW c \in Consumers, ResetState(c)
  PROVE  AbstractCrate!Finish
<1>1. pc[c] = "copy" /\ i[c] = Capacity /\ out' = <<>> /\ state' = 0
  BY DEF ResetState, Reset, Move
<1>2. state = Capacity /\ Len(out) = Capacity
  BY <1>1, Roster DEF IInv, Types, Accounts, ConsumerAccount, Draining
<1>3. Content = <<>> /\ Content' = <<>>
  BY <1>1, <1>2, Roster DEF Content
<1> QED BY <1>1, <1>2, <1>3 DEF AbstractCrate!Finish

\* Storing an item changes a slot beyond the contents.
LEMMA StoreIsHidden ==
  ASSUME IInv, IInv', NEW p \in Producers, StoreItem(p)
  PROVE  UNCHANGED <<Content, out>>
<1>1. pc[p] = "store" /\ data' = [data EXCEPT ![state] = buf[p]] /\ UNCHANGED <<state, out>>
  BY DEF StoreItem, Store, Move
<1>2. Len(out) = 0 /\ state \in Nat /\ state < Capacity
  BY <1>1, RoomToStore, Roster DEF IInv, Types
<1>3. \A k \in 1 .. state - Len(out) : data'[Len(out) + k - 1] = data[Len(out) + k - 1]
  BY <1>1, <1>2, Roster DEF IInv, Types, Slot
<1> QED BY <1>1, <1>3 DEF Content

\* Every other step leaves the abstract crate alone.
LEMMA OthersAreHidden ==
  ASSUME UNCHANGED <<state, data, out>>
  PROVE  UNCHANGED <<Content, out>>
BY DEF Content

\* The System V programs hand over whole batches, in the order of the items array,
\* whatever their number, the capacity and the processes killed.
THEOREM Refinement == Spec => ImplementsCrate
<1>1. Init => AbstractCrate!Init
  BY DEF Init, ShmInit, Content, AbstractCrate!Init
<1>2. ASSUME IInv, IInv', [Next]_vars
      PROVE  [AbstractCrate!Next]_<<Content, out>>
  <2>1. ASSUME NEW p \in Producers, Producer(p)
        PROVE  [AbstractCrate!Next]_<<Content, out>>
    <3>1. CASE BumpState(p)
      BY <1>2, <3>1, BumpIsPut DEF AbstractCrate!Next
    <3>2. CASE StoreItem(p)
      BY <1>2, <3>2, StoreIsHidden
    <3> QED BY <2>1, <3>1, <3>2, OthersAreHidden
          DEF Producer, StartProducer, Attach, ProducerDown, FormatItem, Format,
              CheckFull, ProducerUnlock
  <2>2. ASSUME NEW c \in Consumers, Consumer(c)
        PROVE  [AbstractCrate!Next]_<<Content, out>>
    <3>1. CASE CopyItem(c)
      BY <1>2, <3>1, CopyIsTake DEF AbstractCrate!Next
    <3>2. CASE ResetState(c)
      BY <1>2, <3>2, ResetIsFinish DEF AbstractCrate!Next
    <3> QED BY <2>2, <3>1, <3>2, OthersAreHidden
          DEF Consumer, StartConsumer, Attach, ConsumerDown, ConsumerUp
  <2>3. ASSUME NEW t \in Processes, KillProcess(t)
        PROVE  [AbstractCrate!Next]_<<Content, out>>
    BY <2>3, OthersAreHidden DEF KillProcess, Kill
  <2>4. CASE UNCHANGED vars
    BY <2>4, OthersAreHidden DEF vars, shmVars
  <2> QED BY <1>2, <2>1, <2>2, <2>3, <2>4 DEF Next
<1> QED BY <1>1, <1>2, Invariance, PTL DEF Spec, ImplementsCrate, AbstractCrate!Spec, AbstractCrate!vars
=============================================================================
