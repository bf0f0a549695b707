------------------------------- MODULE Crate -------------------------------
(***************************************************************************)
(* What every producer/consumer program of the repository promises,        *)
(* whatever it is built from (POSIX semaphores, System V semaphores,       *)
(* message queues): a crate of Capacity places is filled one item at a     *)
(* time, is handed over whole and in order once it is full, and is filled  *)
(* again only when the last item of the batch has been handed over.        *)
(*                                                                         *)
(* The k-th item of a batch carries the k-th name of the items array of    *)
(* the program and the identity of the producer that packed it.            *)
(***************************************************************************)
EXTENDS Naturals, Sequences

CONSTANTS
  Producers,  \* the producer processes
  Capacity    \* the number of places in the crate

VARIABLES
  content,    \* the items packed and not handed over yet, oldest first
  out         \* the items of the current batch already handed over

vars == <<content, out>>

Item == Producers \X (0 .. Capacity - 1)

Init ==
  /\ content = <<>>
  /\ out = <<>>

\* Producer p packs the next item of the batch.
Put(p) ==
  /\ out = <<>>
  /\ Len(content) < Capacity
  /\ content' = Append(content, <<p, Len(content)>>)
  /\ UNCHANGED out

\* The consumer takes the oldest item; only a crate that was filled is emptied.
Take ==
  /\ content # <<>>
  /\ Len(content) + Len(out) = Capacity
  /\ out' = Append(out, Head(content))
  /\ content' = Tail(content)

\* The batch is over and the crate goes back to the producers.
Finish ==
  /\ Len(out) = Capacity
  /\ out' = <<>>
  /\ UNCHANGED content

Next ==
  \/ \E p \in Producers : Put(p)
  \/ Take
  \/ Finish

Spec == Init /\ [][Next]_vars

-----------------------------------------------------------------------------

TypeOK ==
  /\ content \in Seq(Item)
  /\ out \in Seq(Item)

\* The items handed over followed by the items still in the crate are the
\* names 0, 1, 2, ... in the order of the items array: no name is skipped,
\* repeated or reordered, however producers and consumers interleave.
OrderedBatch ==
  \A k \in 1 .. Len(out \o content) : (out \o content)[k][2] = k - 1

\* A consumer never holds part of a batch that is still being packed.
WholeBatch == out # <<>> => Len(out) + Len(content) = Capacity
=============================================================================
