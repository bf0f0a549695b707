----------------------------- MODULE MsgqCrate -----------------------------
(***************************************************************************)
(* msgq: the crate as a protocol of three message queues.  One token       *)
(* message "capacity curidx" circulates among the producers; whoever holds *)
(* it packs one item and passes it on, the producer of the last item sends *)
(* an order to the consumers instead, and the consumer returns the token   *)
(* after it has emptied the crate.                                         *)
(*                                                                         *)
(* The three programs run the same protocol on different queues:           *)
(*   main.cpp          three POSIX queues, each with its own limit         *)
(*   v_msgq.cpp        one System V queue with three message types, and    *)
(*                     one limit for all of them                           *)
(*   custom_queue.cpp  three MQueue rings of Capacity slots, whose send    *)
(*                     and recv are the Send and Recv of BoundedQueue      *)
(*                     (module RingQueue)                                  *)
(*                                                                         *)
(* The queues outlive the processes.  A process is stopped by a signal at  *)
(* any point and the message it holds is lost; others are started later,   *)
(* with or without "init", on the queues as they are: the O_TRUNC that     *)
(* init adds to the flags empties neither kind of queue.                   *)
(***************************************************************************)
EXTENDS Naturals, Sequences, FiniteSets, Functions

CONSTANTS
  Producers,    \* processes started as "producer"
  Consumers,    \* processes started as "consumer"
  Capacity,     \* crate_capacity: 5 in the programs
  Limits,       \* for each of the programs, how many messages one queue and
                \* all three together hold before a send blocks
  MaxInits,     \* bound: how many processes are started with "init"
  MaxKills      \* bound: how many processes are killed

ASSUME MsgqAssumption ==
  /\ Capacity \in Nat \ {0}
  /\ Limits \subseteq [one : Nat \ {0}, all : Nat \ {0}]
  /\ MaxInits \in Nat
  /\ MaxKills \in Nat
  /\ IsFiniteSet(Producers)
  /\ IsFiniteSet(Consumers)
  /\ Producers \cap Consumers = {}

VARIABLES
  limit,      \* which of the programs it is that runs
  producers,  \* the token queue: the curidx of each token
  consumers,  \* the order queue: one message per crate to be emptied
  crate,      \* the items
  curidx,     \* the index each producer has read from its token
  left,       \* the items each consumer still has to take
  out,        \* the items printed since the last token was returned
  pc,
  inits,      \* how many processes were started with "init"
  killed

vars == <<limit, producers, consumers, crate, curidx, left, out, pc, inits, killed>>
queues == <<producers, consumers, crate>>
locals == <<curidx, left, out>>

Processes == Producers \cup Consumers
Item == Producers \X (0 .. Capacity - 1)

Init ==
  /\ limit \in Limits
  /\ producers = <<>>
  /\ consumers = <<>>
  /\ crate = <<>>
  /\ curidx = [p \in Producers |-> 0]
  /\ left = [c \in Consumers |-> 0]
  /\ out = <<>>
  /\ pc = [t \in Processes |-> "off"]
  /\ inits = 0
  /\ killed = {}

Move(t, from, to) ==
  /\ t \notin killed
  /\ pc[t] = from
  /\ pc' = [pc EXCEPT ![t] = to]
  /\ UNCHANGED <<killed, limit>>

\* A send to queue q does not block.
Room(q) ==
  /\ Len(q) < limit.one
  /\ Len(producers) + Len(consumers) + Len(crate) < limit.all

-----------------------------------------------------------------------------
(* Starting: the queues are opened, or created when they do not exist.     *)

StartPlain(t) ==
  /\ Move(t, "off", "receive")
  /\ UNCHANGED <<queues, locals, inits>>

StartInit(t) ==
  /\ inits < MaxInits
  /\ inits' = inits + 1
  /\ Move(t, "off", "init")
  /\ UNCHANGED <<queues, locals>>

\* The initial message, sent whatever the queues already hold.
SendInitial(t) ==
  /\ Room(producers)
  /\ Move(t, "init", "receive")
  /\ producers' = Append(producers, 0)
  /\ UNCHANGED <<consumers, crate, locals, inits>>

-----------------------------------------------------------------------------
(* The producer.                                                           *)

ReceiveToken(p) ==
  /\ producers # <<>>
  /\ Move(p, "receive", "pack")
  /\ curidx' = [curidx EXCEPT ![p] = Head(producers)]
  /\ producers' = Tail(producers)
  /\ UNCHANGED <<consumers, crate, left, out, inits>>

\* items[curidx++] is sent to the crate.
SendItem(p) ==
  /\ Room(crate)
  /\ Move(p, "pack", "pass")
  /\ crate' = Append(crate, <<p, curidx[p]>>)
  /\ curidx' = [curidx EXCEPT ![p] = @ + 1]
  /\ UNCHANGED <<producers, consumers, left, out, inits>>

\* Slips of the last producer: the index compared before it is raised, the
\* token passed on as well, the order never sent.
SendOrderEarly(p) ==
  /\ curidx[p] = Capacity - 1
  /\ Room(consumers)
  /\ Move(p, "pass", "receive")
  /\ consumers' = Append(consumers, Capacity)
  /\ UNCHANGED <<producers, crate, locals, inits>>

SendOrderAndToken(p) ==
  /\ curidx[p] = Capacity
  /\ Room(consumers)
  /\ Room(producers)
  /\ Move(p, "pass", "receive")
  /\ consumers' = Append(consumers, Capacity)
  /\ producers' = Append(producers, 0)
  /\ UNCHANGED <<crate, locals, inits>>

SendNoOrder(p) ==
  /\ curidx[p] = Capacity
  /\ Move(p, "pass", "receive")
  /\ UNCHANGED <<queues, locals, inits>>

\* The crate is full by this token: an order goes to the consumers.
SendOrder(p) ==
  /\ curidx[p] = Capacity
  /\ Room(consumers)
  /\ Move(p, "pass", "receive")
  /\ consumers' = Append(consumers, Capacity)
  /\ UNCHANGED <<producers, crate, locals, inits>>

\* Otherwise the token goes to the next producer.
PassToken(p) ==
  /\ curidx[p] # Capacity
  /\ Room(producers)
  /\ Move(p, "pass", "receive")
  /\ producers' = Append(producers, curidx[p])
  /\ UNCHANGED <<consumers, crate, locals, inits>>

Producer(p) ==
  \/ SendInitial(p)
  \/ ReceiveToken(p)
  \/ SendItem(p)
  \/ SendOrder(p)
  \/ PassToken(p)

-----------------------------------------------------------------------------
(* The consumer.                                                           *)

\* As if the loop ran one time less.
ReceiveOrderShort(c) ==
  /\ consumers # <<>>
  /\ Move(c, "receive", "take")
  /\ left' = [left EXCEPT ![c] = Head(consumers) - 1]
  /\ consumers' = Tail(consumers)
  /\ UNCHANGED <<producers, crate, curidx, out, inits>>

ReceiveOrder(c) ==
  /\ consumers # <<>>
  /\ Move(c, "receive", "take")
  /\ left' = [left EXCEPT ![c] = Head(consumers)]
  /\ consumers' = Tail(consumers)
  /\ UNCHANGED <<producers, crate, curidx, out, inits>>

\* One turn of the loop: receive an item from the crate and print it.
TakeItem(c) ==
  /\ left[c] > 0
  /\ crate # <<>>
  /\ Move(c, "take", "take")
  /\ out' = Append(out, Head(crate))
  /\ crate' = Tail(crate)
  /\ left' = [left EXCEPT ![c] = @ - 1]
  /\ UNCHANGED <<producers, consumers, curidx, inits>>

\* The loop is over: a token with index 0 goes back to the producers.
ReturnToken(c) ==
  /\ left[c] = 0
  /\ Room(producers)
  /\ Move(c, "take", "receive")
  /\ producers' = Append(producers, 0)
  /\ out' = <<>>
  /\ UNCHANGED <<consumers, crate, curidx, left, inits>>

Consumer(c) ==
  \/ SendInitial(c)
  \/ ReceiveOrder(c)
  \/ TakeItem(c)
  \/ ReturnToken(c)

\* A process is stopped by a signal; whatever message it holds is gone.
Kill(t) ==
  /\ t \notin killed
  /\ pc[t] # "off"
  /\ Cardinality(killed) < MaxKills
  /\ killed' = killed \cup {t}
  /\ UNCHANGED <<limit, queues, locals, pc, inits>>

Next ==
  \/ \E t \in Processes : StartPlain(t) \/ StartInit(t)
  \/ \E p \in Producers : Producer(p)
  \/ \E c \in Consumers : Consumer(c)
  \/ \E t \in Processes : Kill(t)

Spec == Init /\ [][Next]_vars

\* A running process keeps being scheduled, and a send or receive that can
\* complete does; nobody has to be started or killed.
Fairness ==
  /\ \A p \in Producers : WF_vars(Producer(p))
  /\ \A c \in Consumers : WF_vars(Consumer(c))

FairSpec == Spec /\ Fairness

-----------------------------------------------------------------------------
(* Properties.                                                             *)

\* A token is on its way, or lost with a killed process, as often as a process
\* was started with "init": no step of the protocol makes or drops one, and
\* with one "init" a single process at a time works on the crate, though no lock
\* protects it.
Holders == {t \in Processes : pc[t] \in {"init", "pack", "pass", "take"}}
TokensConserved ==
  Len(producers) + Len(consumers) + Cardinality(Holders) = inits

\* A consumer that has received an order never waits for an item: the crate
\* holds what all outstanding orders still have to take, whatever the number
\* of tokens and the processes killed.
OrdersCovered ==
  Capacity * Len(consumers) + FoldFunction(+, 0, left) <= Len(crate)

\* As long as there was one "init" the protocol implements the abstract crate,
\* in all three programs.
AbstractCrate == INSTANCE Crate WITH content <- crate
ImplementsCrate ==
  /\ AbstractCrate!Init
  /\ [][inits' <= 1 => [AbstractCrate!Next]_<<crate, out>>]_vars

Healthy ==
  /\ \E p \in Producers \ killed : pc[p] # "off"
  /\ \E c \in Consumers \ killed : pc[c] # "off"
  /\ \A t \in killed : pc[t] = "receive"

\* While a producer and a consumer run, one process was started with "init" and
\* whoever was killed was waiting for a message, batches are printed for ever:
\* no queue is so short that the one token gets stuck behind its own items.
BatchesForever ==
  Healthy /\ inits = 1 ~> (Len(out) = Capacity \/ ~Healthy \/ inits > 1)

\* "another queue is for producers - consumers to know when consumer should
\* awaken" (main.cpp:65): a crate that holds Capacity items awakens a consumer.
FullCrateAwakensConsumer ==
  Healthy /\ Len(crate) >= Capacity
    ~> ((\E c \in Consumers : pc[c] = "take") \/ ~Healthy)
=============================================================================
