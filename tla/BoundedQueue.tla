---------------------------- MODULE BoundedQueue ----------------------------
(***************************************************************************)
(* A FIFO queue of bounded length: what MQueue (msgq/custom_queue.cpp)     *)
(* offers to the crate protocol, and what the other programs get from the  *)
(* kernel.  A send appends when there is room, a receive hands the oldest  *)
(* message to the process that asked.                                      *)
(***************************************************************************)
EXTENDS Naturals, Sequences

CONSTANTS
  Processes,
  Messages,
  Capacity

VARIABLES
  queue,
  received    \* the message each process has received and not returned with

Init ==
  /\ queue = <<>>
  /\ received \in [Processes -> {<<>>}]

Send(m) ==
  /\ Len(queue) < Capacity
  /\ queue' = Append(queue, m)
  /\ UNCHANGED received

Recv(t) ==
  /\ queue # <<>>
  /\ received[t] = <<>>
  /\ received' = [received EXCEPT ![t] = <<Head(queue)>>]
  /\ queue' = Tail(queue)

Return(t) ==
  /\ received[t] # <<>>
  /\ received' = [received EXCEPT ![t] = <<>>]
  /\ UNCHANGED queue

Next ==
  \/ \E m \in Messages : Send(m)
  \/ \E t \in Processes : Recv(t) \/ Return(t)

Spec == Init /\ [][Next]_<<queue, received>>
=============================================================================
