-------------------------- MODULE MsgqCrateProofs --------------------------
(***************************************************************************)
(* The safety of MsgqCrate for any number of producers and consumers, any  *)
(* capacity, any limits of the queues, any number of processes started     *)
(* with "init" and any number of them killed.                              *)
(*                                                                         *)
(* Two accounts are kept.  Tokens: each "init" made one, which is in a     *)
(* queue or with a process.  Items: each one in the crate is covered by an *)
(* order, by what a consumer still has to take, or by the index of a       *)
(* token.  With one token the second account gives the exact contents of   *)
(* the crate at every statement, which is what the refinement needs.       *)
(***************************************************************************)
EXTENDS MsgqCrate, CommonFacts

Types ==
  /\ limit \in Limits
  /\ producers \in Seq(0 .. Capacity - 1)
  /\ consumers \in Seq({Capacity})
  /\ crate \in Seq(Item)
  /\ curidx \in [Producers -> 0 .. Capacity]
  /\ left \in [Consumers -> 0 .. Capacity]
  /\ out \in Seq(Item)
  /\ pc \in [Processes -> {"off", "init", "receive", "pack", "pass", "take"}]
  /\ inits \in Nat
  /\ killed \subseteq Processes

\* Which statements a process of each role can be at, and what it has read.
Roles ==
  /\ \A p \in Producers : /\ pc[p] # "take"
                          /\ pc[p] = "pack" => curidx[p] < Capacity
  /\ \A c \in Consumers : /\ pc[c] \notin {"pack", "pass"}
                          /\ pc[c] # "take" => left[c] = 0

\* The index of the token that each producer holds, 0 when it holds none.
held == [p \in Producers |-> IF pc[p] \in {"pack", "pass"} THEN curidx[p] ELSE 0]

\* What the tokens in the queue say together, what those with producers say,
\* and what the consumers still have to take.
TokenSum == SumFunctionOnSet(producers, 1 .. Len(producers))
HeldSum == SumFunctionOnSet(held, Producers)
LeftSum == SumFunctionOnSet(left, Consumers)

\* Every item in the crate is covered once.
Items == Len(crate) = Capacity * Len(consumers) + LeftSum + TokenSum + HeldSum

\* One token at most: what it says of the crate, wherever it is.
Batch ==
  /\ inits = 0 => crate = <<>> /\ out = <<>>
  /\ \A t \in Processes : pc[t] = "init" => crate = <<>> /\ out = <<>>
  /\ producers # <<>> => Len(crate) = producers[1] /\ out = <<>>
  /\ \A p \in Producers : pc[p] \in {"pack", "pass"} => Len(crate) = curidx[p] /\ out = <<>>
  /\ consumers # <<>> => Len(crate) = Capacity /\ out = <<>>
  /\ \A c \in Consumers :
       pc[c] = "take" => Len(crate) = left[c] /\ Len(crate) + Len(out) = Capacity

OneBatch == inits <= 1 => Batch

IInv == Types /\ Roles /\ TokensConserved /\ Items /\ OneBatch

-----------------------------------------------------------------------------
(* Facts that several steps need.                                          *)

\* A process is a producer or a consumer, never both.
LEMMA Roster ==
  /\ Producers \subseteq Processes /\ Consumers \subseteq Processes
  /\ \A p \in Producers, c \in Consumers : p # c
  /\ IsFiniteSet(Producers) /\ IsFiniteSet(Consumers) /\ IsFiniteSet(Processes)
  /\ Capacity \in Nat /\ Capacity > 0
<1>1. IsFiniteSet(Processes)
  BY MsgqAssumption, FS_Union DEF Processes
<1> QED BY <1>1, MsgqAssumption DEF Processes

\* The statements at which a process has a token, or owes the first one.
HoldingPc == {"init", "pack", "pass", "take"}
Holding == Cardinality(Holders)

\* What the move of one process does to the number of tokens with processes.
LEMMA HoldersMove ==
  ASSUME NEW t \in Processes, \A u \in Processes \ {t} : pc'[u] = pc[u]
  PROVE  /\ Holding \in Nat
         /\ pc[t] \in HoldingPc => Holding > 0
         /\ Holding' = Holding + (IF pc'[t] \in HoldingPc THEN 1 ELSE 0)
                               - (IF pc[t] \in HoldingPc THEN 1 ELSE 0)
<1>1. /\ Cardinality(Among(Processes, pc, HoldingPc)) \in Nat
      /\ pc[t] \in HoldingPc => Cardinality(Among(Processes, pc, HoldingPc)) > 0
      /\ Cardinality(Among(Processes, pc', HoldingPc))
           = Cardinality(Among(Processes, pc, HoldingPc))
               + (IF pc'[t] \in HoldingPc THEN 1 ELSE 0) - (IF pc[t] \in HoldingPc THEN 1 ELSE 0)
  <2>1. IsFiniteSet(Processes) /\ \A u \in Processes \ {t} : pc'[u] = pc[u]
    BY Roster
  <2> QED BY ONLY <2>1, t \in Processes, CountMove, SMTT(60)
<1>2. /\ Holding = Cardinality(Among(Processes, pc, HoldingPc))
      /\ Holding' = Cardinality(Among(Processes, pc', HoldingPc))
  BY DEF Holding, Holders, Among, HoldingPc
<1> QED BY <1>1, <1>2

\* The lengths that the accounts are about, and the elements of the queues.
LEMMA Lengths ==
  ASSUME Types
  PROVE  /\ Len(producers) \in Nat /\ Len(consumers) \in Nat /\ Len(crate) \in Nat
         /\ Len(out) \in Nat /\ Holding \in Nat
         /\ producers = <<>> <=> Len(producers) = 0
         /\ consumers = <<>> <=> Len(consumers) = 0
         /\ crate = <<>> <=> Len(crate) = 0
         /\ out = <<>> <=> Len(out) = 0
         /\ producers # <<>> => Head(producers) = producers[1] /\ producers[1] \in 0 .. Capacity - 1
         /\ consumers # <<>> => Head(consumers) = Capacity
<1>1. Holding \in Nat
  <2>1. Holders = Among(Processes, pc, HoldingPc)
    BY DEF Holders, Among, HoldingPc
  <2> QED BY <2>1, Roster, AmongCount DEF Holding
<1>2. producers # <<>> => Head(producers) = producers[1] /\ producers[1] \in 0 .. Capacity - 1
  <2>1. producers \in Seq(0 .. Capacity - 1)
    BY DEF Types
  <2>2. producers # <<>> => Len(producers) \in Nat /\ 1 \in 1 .. Len(producers)
    BY <2>1, EmptySeq, LenProperties
  <2>3. producers # <<>> => producers[1] \in 0 .. Capacity - 1
    BY <2>1, <2>2, ElementOfSeq
  <2>4. producers # <<>> => Head(producers) = producers[1]
    BY <2>1
  <2> QED BY <2>3, <2>4
<1>3. consumers # <<>> => Head(consumers) \in {Capacity}
  BY HeadTailProperties DEF Types
<1> QED BY <1>1, <1>2, <1>3, EmptySeq, LenProperties DEF Types

\* With one token, whoever has it is alone and no queue holds one.
LEMMA OneToken ==
  ASSUME IInv, inits <= 1
  PROVE  /\ inits = 0 => producers = <<>> /\ consumers = <<>> /\ Holders = {}
         /\ \A t \in Holders : producers = <<>> /\ consumers = <<>> /\ Holders = {t}
         /\ producers # <<>> => Len(producers) = 1 /\ consumers = <<>> /\ Holders = {}
         /\ consumers # <<>> => Len(consumers) = 1 /\ producers = <<>> /\ Holders = {}
<1>1. /\ Len(producers) + Len(consumers) + Holding = inits /\ inits \in Nat
      /\ IsFiniteSet(Holders)
  BY Roster, FS_Subset DEF IInv, Types, TokensConserved, Holding, Holders
<1>2. Holding = 0 => Holders = {}
  BY <1>1, FS_EmptySet DEF Holding
<1>3. ASSUME NEW t \in Holders, Holding = 1 PROVE Holders = {t}
  <2>1. PICK u : Holders = {u}
    BY <1>1, <1>3, FS_Singleton DEF Holding
  <2> QED BY <2>1
<1>4. \A t \in Holders : Holding # 0
  BY <1>1, FS_EmptySet DEF Holding
<1>5. /\ Len(producers) \in Nat /\ Len(consumers) \in Nat /\ Holding \in Nat
      /\ producers = <<>> <=> Len(producers) = 0
      /\ consumers = <<>> <=> Len(consumers) = 0
  BY Lengths DEF IInv
<1>6. ASSUME NEW a \in Nat, NEW b \in Nat, NEW c \in Nat, a + b + c <= 1
       PROVE  /\ a # 0 => a = 1 /\ b = 0 /\ c = 0
              /\ b # 0 => b = 1 /\ a = 0 /\ c = 0
  BY <1>6
<1>7. Len(producers) + Len(consumers) + Holding <= 1
  BY <1>1
<1>8. inits = 0 => producers = <<>> /\ consumers = <<>> /\ Holders = {}
  BY <1>1, <1>2, <1>5
<1>9. ASSUME NEW t \in Holders PROVE producers = <<>> /\ consumers = <<>> /\ Holders = {t}
  BY <1>1, <1>3, <1>4, <1>5
<1>10. ASSUME producers # <<>> PROVE Len(producers) = 1 /\ consumers = <<>> /\ Holders = {}
  <2>1. Len(producers) # 0
    BY <1>5, <1>10
  <2>2. Len(producers) = 1 /\ Len(consumers) = 0 /\ Holding = 0
    BY <1>5, <1>6, <1>7, <2>1
  <2> QED BY <1>2, <1>5, <2>2
<1>11. ASSUME consumers # <<>> PROVE Len(consumers) = 1 /\ producers = <<>> /\ Holders = {}
  <2>1. Len(consumers) # 0
    BY <1>5, <1>11
  <2>2. Len(consumers) = 1 /\ Len(producers) = 0 /\ Holding = 0
    BY <1>5, <1>6, <1>7, <2>1
  <2> QED BY <1>2, <1>5, <2>2
<1> QED BY <1>8, <1>9, <1>10, <1>11

\* What a token added to the queue, or taken from it, does to the account.
LEMMA TokenSumMoves ==
  ASSUME Types
  PROVE  /\ TokenSum \in Int
         /\ \A v \in Int : producers' = Append(producers, v) => TokenSum' = TokenSum + v
         /\ producers # <<>> /\ producers' = Tail(producers) => TokenSum' = TokenSum - producers[1]
         /\ producers' = producers => TokenSum' = TokenSum
<1>1. producers \in Seq(Int)
  <2>1. producers \in Seq(0 .. Capacity - 1) /\ 0 .. Capacity - 1 \subseteq Int
    BY Roster DEF Types
  <2> QED BY <2>1, SeqMonotonic
<1>2. ASSUME NEW v \in Int, producers' = Append(producers, v) PROVE TokenSum' = TokenSum + v
  BY <1>1, <1>2, SumAppend DEF TokenSum
<1>3. ASSUME producers # <<>>, producers' = Tail(producers)
      PROVE  TokenSum' = TokenSum - producers[1]
  BY <1>1, <1>3, SumTail DEF TokenSum
<1>4. TokenSum \in Int
  BY <1>1, SumAppend DEF TokenSum
<1> QED BY <1>2, <1>3, <1>4 DEF TokenSum

\* What a producer that moves, or whose index changes, does to the account.
LEMMA HeldSumMoves ==
  ASSUME Types, Types', NEW p \in Producers,
         \A q \in Producers \ {p} : pc'[q] = pc[q] /\ curidx'[q] = curidx[q]
  PROVE  /\ HeldSum \in Int
         /\ HeldSum' = HeldSum + (IF pc'[p] \in {"pack", "pass"} THEN curidx'[p] ELSE 0)
                               - (IF pc[p] \in {"pack", "pass"} THEN curidx[p] ELSE 0)
<1>1. /\ \A q \in Producers : held[q] \in Int /\ held'[q] \in Int
      /\ \A q \in Producers \ {p} : held'[q] = held[q]
      /\ held[p] = IF pc[p] \in {"pack", "pass"} THEN curidx[p] ELSE 0
      /\ held'[p] = IF pc'[p] \in {"pack", "pass"} THEN curidx'[p] ELSE 0
  BY Roster DEF Types, held
<1>2. /\ SumFunctionOnSet(held, Producers) \in Int
      /\ SumFunctionOnSet(held', Producers) = SumFunctionOnSet(held, Producers) + held'[p] - held[p]
  <2>1. IsFiniteSet(Producers)
    BY Roster
  <2> QED BY ONLY <1>1, <2>1, p \in Producers, SumChange
<1> QED BY <1>1, <1>2 DEF HeldSum

\* Any other step leaves that account alone.
LEMMA HeldSumStays ==
  ASSUME Types, curidx' = curidx,
         \A q \in Producers : pc'[q] \in {"pack", "pass"} <=> pc[q] \in {"pack", "pass"}
  PROVE  HeldSum \in Int /\ HeldSum' = HeldSum
<1>1. held' = held
  BY DEF held
<1>2. \A q \in Producers : held[q] \in Int
  BY Roster DEF Types, held
<1>3. SumFunctionOnSet(held, Producers) \in Int
  BY <1>2, Roster, SumRemove
<1> QED BY <1>1, <1>3 DEF HeldSum

\* What a consumer does to what is left to take.
LEMMA LeftSumMoves ==
  ASSUME Types
  PROVE  /\ LeftSum \in Int
         /\ \A c \in Consumers, v \in Int :
              left' = [left EXCEPT ![c] = v] => LeftSum' = LeftSum + v - left[c]
         /\ left' = left => LeftSum' = LeftSum
<1>1. \A d \in Consumers : left[d] \in Int
  BY Roster DEF Types
<1>2. LeftSum \in Int
  BY <1>1, Roster, SumRemove DEF LeftSum
<1>3. ASSUME NEW c \in Consumers, NEW v \in Int, left' = [left EXCEPT ![c] = v]
      PROVE  LeftSum' = LeftSum + v - left[c]
  <2>1. /\ \A d \in Consumers : left[d] \in Int /\ left'[d] \in Int
        /\ \A d \in Consumers \ {c} : left'[d] = left[d]
    BY <1>1, <1>3 DEF Types
  <2>2. /\ SumFunctionOnSet(left, Consumers) \in Int
        /\ SumFunctionOnSet(left', Consumers) = SumFunctionOnSet(left, Consumers) + left'[c] - left[c]
    <3>1. IsFiniteSet(Consumers)
      BY Roster
    <3> QED BY ONLY <2>1, <3>1, c \in Consumers, SumChange
  <2>3. left'[c] = v
    BY <1>3 DEF Types
  <2> QED BY <2>2, <2>3 DEF LeftSum
<1> QED BY <1>2, <1>3 DEF LeftSum

\* One order more, or less, is Capacity items more, or less.
LEMMA Multiple ==
  ASSUME NEW n \in Int
  PROVE  /\ Capacity * n \in Int
         /\ Capacity * (n + 1) = Capacity * n + Capacity
         /\ Capacity * (n - 1) = Capacity * n - Capacity
BY Roster

-----------------------------------------------------------------------------
(* The invariant is inductive: one lemma per action.                       *)

\* A process that opens the queues touches nothing.
LEMMA StartPlainKeeps ==
  ASSUME IInv, NEW t \in Processes, StartPlain(t)
  PROVE  IInv'
<1>1. /\ pc[t] = "off" /\ pc' = [pc EXCEPT ![t] = "receive"] /\ t \in Processes
      /\ pc'[t] = "receive" /\ \A u \in Processes \ {t} : pc'[u] = pc[u]
  BY Roster DEF IInv, Types, StartPlain, Move
<1>2. Types'
  BY <1>1, Roster DEF IInv, Types, StartPlain, queues, locals, Move
<1>3. Roles'
  BY <1>1, Roster DEF IInv, Types, Roles, StartPlain, queues, locals
<1>4. /\ Len(producers') = Len(producers) /\ Len(consumers') = Len(consumers)
      /\ Len(crate') = Len(crate) /\ inits' = inits
  BY Lengths DEF IInv, Types, StartPlain, queues, locals
<1>5. TokensConserved'
  <2>1. Holding \in Nat /\ Holding' = Holding
    BY <1>1, HoldersMove DEF HoldingPc
  <2> QED BY <1>4, <2>1, Lengths DEF IInv, Types, TokensConserved, Holding
<1>6. Items'
  <2>1. TokenSum \in Int /\ TokenSum' = TokenSum
    BY TokenSumMoves, Roster DEF IInv, Types, StartPlain, queues, locals
  <2>2. HeldSum \in Int /\ HeldSum' = HeldSum
    BY <1>1, HeldSumStays, Roster DEF IInv, StartPlain, queues, locals
  <2>3. LeftSum \in Int /\ LeftSum' = LeftSum
    BY LeftSumMoves, Roster DEF IInv, Types, StartPlain, queues, locals
  <2> QED BY <1>1, <1>4, <2>1, <2>2, <2>3, Multiple, Lengths, Roster DEF IInv, Types, Items
<1>7. OneBatch'
  <2> SUFFICES ASSUME inits' <= 1 PROVE Batch'
    BY DEF OneBatch
  <2>1. inits <= 1 /\ Batch
    BY <1>4 DEF IInv, OneBatch
  <2> QED BY <1>1, <2>1, Roster DEF Batch, StartPlain, queues, locals
<1> QED BY <1>2, <1>3, <1>5, <1>6, <1>7 DEF IInv

\* The first token is owed by the process; before it there is no item either.
LEMMA StartInitKeeps ==
  ASSUME IInv, NEW t \in Processes, StartInit(t)
  PROVE  IInv'
<1>1. /\ pc[t] = "off" /\ pc' = [pc EXCEPT ![t] = "init"] /\ t \in Processes
      /\ pc'[t] = "init" /\ \A u \in Processes \ {t} : pc'[u] = pc[u]
  BY Roster DEF IInv, Types, StartInit, Move
<1>2. Types'
  BY <1>1, Roster DEF IInv, Types, StartInit, queues, locals, Move
<1>3. Roles'
  BY <1>1, Roster DEF IInv, Types, Roles, StartInit, queues, locals
<1>4. /\ Len(producers') = Len(producers) /\ Len(consumers') = Len(consumers)
      /\ Len(crate') = Len(crate) /\ inits' = inits + 1
  BY Lengths DEF IInv, Types, StartInit, queues, locals
<1>5. TokensConserved'
  <2>1. Holding \in Nat /\ Holding' = Holding + 1
    BY <1>1, HoldersMove DEF HoldingPc
  <2> QED BY <1>4, <2>1, Lengths DEF IInv, Types, TokensConserved, Holding
<1>6. Items'
  <2>1. TokenSum \in Int /\ TokenSum' = TokenSum
    BY TokenSumMoves, Roster DEF IInv, Types, StartInit, queues, locals
  <2>2. HeldSum \in Int /\ HeldSum' = HeldSum
    BY <1>1, HeldSumStays, Roster DEF IInv, StartInit, queues, locals
  <2>3. LeftSum \in Int /\ LeftSum' = LeftSum
    BY LeftSumMoves, Roster DEF IInv, Types, StartInit, queues, locals
  <2> QED BY <1>1, <1>4, <2>1, <2>2, <2>3, Multiple, Lengths, Roster DEF IInv, Types, Items
<1>7. OneBatch'
  <2> SUFFICES ASSUME inits' <= 1 PROVE Batch'
    BY DEF OneBatch
  <2>1. inits = 0 /\ inits' = 1
    BY <1>4 DEF IInv, Types
  <2>2. producers = <<>> /\ consumers = <<>> /\ Holders = {} /\ crate = <<>> /\ out = <<>>
    BY <2>1, OneToken DEF IInv, OneBatch, Batch
  <2>3. \A u \in Processes : pc'[u] \notin {"pack", "pass", "take"}
    BY <1>1, <2>2 DEF Holders
  <2> QED BY <2>1, <2>2, <2>3, Roster DEF Batch, StartInit, queues, locals
<1> QED BY <1>2, <1>3, <1>5, <1>6, <1>7 DEF IInv

\* The token owed is in the queue.
LEMMA SendInitialKeeps ==
  ASSUME IInv, NEW t \in Processes, SendInitial(t)
  PROVE  IInv'
<1>1. /\ pc[t] = "init" /\ pc' = [pc EXCEPT ![t] = "receive"] /\ t \in Processes
      /\ pc'[t] = "receive" /\ \A u \in Processes \ {t} : pc'[u] = pc[u]
  BY Roster DEF IInv, Types, SendInitial, Move
<1>2. Types'
  BY <1>1, Roster DEF IInv, Types, SendInitial, queues, locals, Move
<1>3. Roles'
  BY <1>1, Roster DEF IInv, Types, Roles, SendInitial, queues, locals
<1>4. /\ Len(producers') = Len(producers) + 1 /\ Len(consumers') = Len(consumers)
      /\ Len(crate') = Len(crate) /\ inits' = inits
  BY Lengths DEF IInv, Types, SendInitial, queues, locals
<1>5. TokensConserved'
  <2>1. Holding \in Nat /\ Holding' = Holding - 1
    BY <1>1, HoldersMove DEF HoldingPc
  <2> QED BY <1>4, <2>1, Lengths DEF IInv, Types, TokensConserved, Holding
<1>6. Items'
  <2>1. TokenSum \in Int /\ TokenSum' = TokenSum + 0
    BY <1>1, TokenSumMoves, Roster DEF IInv, Types, SendInitial, queues, locals
  <2>2. HeldSum \in Int /\ HeldSum' = HeldSum
    BY <1>1, HeldSumStays, Roster DEF IInv, SendInitial, queues, locals
  <2>3. LeftSum \in Int /\ LeftSum' = LeftSum
    BY LeftSumMoves, Roster DEF IInv, Types, SendInitial, queues, locals
  <2> QED BY <1>1, <1>4, <2>1, <2>2, <2>3, Multiple, Lengths, Roster DEF IInv, Types, Items
<1>7. OneBatch'
  <2> SUFFICES ASSUME inits' <= 1 PROVE Batch'
    BY DEF OneBatch
  <2>1. inits <= 1 /\ Batch
    BY <1>4, Roster DEF IInv, OneBatch, Types
  <2>2. producers = <<>> /\ consumers = <<>> /\ Holders = {t}
    BY <1>1, <2>1, OneToken DEF Holders
  <2>3. \A u \in Processes \ {t} : pc'[u] \notin {"init", "pack", "pass", "take"}
    BY <1>1, <2>2 DEF Holders
  <2>4. inits # 0
    BY <1>1, <2>1, OneToken DEF Holders
  <2>5. producers' = <<0>> /\ consumers' = <<>> /\ crate' = <<>> /\ out' = <<>> /\ inits' = inits
    BY <1>1, <2>1, <2>2 DEF Batch, SendInitial, locals
  <2> QED BY <1>1, <2>1, <2>2, <2>3, <2>4, <2>5, Roster DEF Batch
<1> QED BY <1>2, <1>3, <1>5, <1>6, <1>7 DEF IInv

\* The token moves from the queue to the producer, with its index.
LEMMA ReceiveTokenKeeps ==
  ASSUME IInv, NEW p \in Producers, ReceiveToken(p)
  PROVE  IInv'
<1>1. /\ pc[p] = "receive" /\ pc' = [pc EXCEPT ![p] = "pack"] /\ p \in Processes
      /\ pc'[p] = "pack" /\ \A u \in Processes \ {p} : pc'[u] = pc[u]
  BY Roster DEF IInv, Types, ReceiveToken, Move
<1>2. Types'
  BY <1>1, Roster DEF IInv, Types, ReceiveToken, queues, locals, Move
<1>3. Roles'
  BY <1>1, Roster DEF IInv, Types, Roles, ReceiveToken, queues, locals
<1>4. /\ Len(producers') = Len(producers) - 1 /\ Len(consumers') = Len(consumers)
      /\ Len(crate') = Len(crate) /\ inits' = inits
  BY Lengths DEF IInv, Types, ReceiveToken, queues, locals
<1>5. TokensConserved'
  <2>1. Holding \in Nat /\ Holding' = Holding + 1
    BY <1>1, HoldersMove DEF HoldingPc
  <2> QED BY <1>4, <2>1, Lengths DEF IInv, Types, TokensConserved, Holding
<1>6. Items'
  <2>1. TokenSum \in Int /\ TokenSum' = TokenSum - producers[1]
    BY <1>1, TokenSumMoves, Roster DEF IInv, Types, ReceiveToken, queues, locals
  <2>2. HeldSum \in Int /\ HeldSum' = HeldSum + producers[1]
    <3>1. producers # <<>> /\ Head(producers) = producers[1]
      BY Lengths DEF IInv, ReceiveToken
    <3>2. curidx'[p] = producers[1] /\ p \in Producers
      BY <3>1 DEF IInv, Types, ReceiveToken
    <3>3. \A q \in Producers \ {p} : pc'[q] = pc[q] /\ curidx'[q] = curidx[q]
      BY <1>1, Roster DEF IInv, Types, ReceiveToken
    <3>4. Types /\ Types'
      BY <1>2 DEF IInv
    <3>5. /\ HeldSum \in Int
          /\ HeldSum' = HeldSum + (IF pc'[p] \in {"pack", "pass"} THEN curidx'[p] ELSE 0)
                                - (IF pc[p] \in {"pack", "pass"} THEN curidx[p] ELSE 0)
      BY <3>3, <3>4, HeldSumMoves
    <3>6. producers[1] \in Int
      BY <3>1, Lengths, Roster DEF IInv
    <3> QED BY <1>1, <3>2, <3>5, <3>6
  <2>3. LeftSum \in Int /\ LeftSum' = LeftSum
    BY LeftSumMoves, Roster DEF IInv, Types, ReceiveToken, queues, locals
  <2>4. producers[1] \in Int
    BY Lengths, Roster DEF IInv, ReceiveToken
  <2>5. /\ Len(crate) = Capacity * Len(consumers) + LeftSum + TokenSum + HeldSum
        /\ Capacity * Len(consumers) \in Int
    BY Multiple, Lengths DEF IInv, Items
  <2> DEFINE m == Capacity * Len(consumers)
  <2>6. m \in Int
    BY <2>5
  <2> HIDE DEF m
  <2>7. m + LeftSum + TokenSum + HeldSum
          = m + LeftSum + (TokenSum - producers[1]) + (HeldSum + producers[1])
    BY ONLY <2>1, <2>2, <2>3, <2>4, <2>6
  <2> QED BY ONLY <1>4, <2>1, <2>2, <2>3, <2>5, <2>7 DEF Items, m
<1>7. OneBatch'
  <2> SUFFICES ASSUME inits' <= 1 PROVE Batch'
    BY DEF OneBatch
  <2>1. inits <= 1 /\ Batch
    BY <1>4, Roster DEF IInv, OneBatch, Types
  <2>2. Len(producers') = 0 /\ Len(consumers') = 0 /\ Holders = {}
    BY <1>4, <2>1, OneToken, Lengths DEF IInv, Types, ReceiveToken
  <2>3. \A u \in Processes \ {p} : pc'[u] \notin {"init", "pack", "pass", "take"}
    BY <1>1, <2>2 DEF Holders
  <2>4. inits # 0 /\ producers' = <<>> /\ consumers' = <<>>
    BY <1>2, <2>1, <2>2, OneToken, EmptySeq DEF IInv, Types, ReceiveToken
  <2>5. Len(crate') = curidx'[p] /\ out' = <<>>
    BY <2>1, Lengths DEF IInv, Types, Batch, ReceiveToken
  <2>6. \A q \in Producers : pc'[q] \in {"pack", "pass"} => q = p
    BY <2>3, Roster
  <2>7. \A u \in Processes : pc'[u] \notin {"init", "take"}
    BY <1>1, <2>3
  <2> QED BY <1>4, <2>4, <2>5, <2>6, <2>7, Roster DEF Batch
<1> QED BY <1>2, <1>3, <1>5, <1>6, <1>7 DEF IInv

\* One item more in the crate, and one more on the token.
LEMMA SendItemKeeps ==
  ASSUME IInv, NEW p \in Producers, SendItem(p)
  PROVE  IInv'
<1>1. /\ pc[p] = "pack" /\ pc' = [pc EXCEPT ![p] = "pass"] /\ p \in Processes
      /\ pc'[p] = "pass" /\ \A u \in Processes \ {p} : pc'[u] = pc[u]
  BY Roster DEF IInv, Types, SendItem, Move
<1>2. Types'
  <2>1. curidx[p] \in 0 .. Capacity /\ curidx[p] < Capacity
    BY <1>1 DEF IInv, Types, Roles
  <2>2. <<p, curidx[p]>> \in Item /\ curidx[p] + 1 \in 0 .. Capacity
    BY <2>1, Roster DEF Item
  <2>3. crate' \in Seq(Item)
    BY <2>2, AppendProperties DEF IInv, Types, SendItem
  <2>4. curidx' \in [Producers -> 0 .. Capacity]
    BY <2>2 DEF IInv, Types, SendItem
  <2> QED BY <1>1, <2>3, <2>4 DEF IInv, Types, SendItem, Move
<1>3. Roles'
  BY <1>1, Roster DEF IInv, Types, Roles, SendItem, queues, locals
<1>4. /\ Len(producers') = Len(producers) /\ Len(consumers') = Len(consumers)
      /\ Len(crate') = Len(crate) + 1 /\ inits' = inits
  BY Lengths DEF IInv, Types, SendItem, queues, locals
<1>5. TokensConserved'
  <2>1. Holding \in Nat /\ Holding' = Holding
    BY <1>1, HoldersMove DEF HoldingPc
  <2> QED BY <1>4, <2>1, Lengths DEF IInv, Types, TokensConserved, Holding
<1>6. Items'
  <2>1. TokenSum \in Int /\ TokenSum' = TokenSum
    BY TokenSumMoves, Roster DEF IInv, Types, SendItem, queues, locals
  <2>2. HeldSum \in Int /\ HeldSum' = HeldSum + 1
    BY <1>1, <1>2, HeldSumMoves, Roster DEF IInv, Types, SendItem, queues, locals
  <2>3. LeftSum \in Int /\ LeftSum' = LeftSum
    BY LeftSumMoves, Roster DEF IInv, Types, SendItem, queues, locals
  <2> QED BY <1>1, <1>4, <2>1, <2>2, <2>3, Multiple, Lengths, Roster DEF IInv, Types, Items
<1>7. OneBatch'
  <2> SUFFICES ASSUME inits' <= 1 PROVE Batch'
    BY DEF OneBatch
  <2>1. inits <= 1 /\ Batch
    BY <1>4, Roster DEF IInv, OneBatch, Types
  <2>2. producers = <<>> /\ consumers = <<>> /\ Holders = {p}
    BY <1>1, <2>1, OneToken DEF Holders
  <2>3. \A u \in Processes \ {p} : pc'[u] \notin {"init", "pack", "pass", "take"}
    BY <1>1, <2>2 DEF Holders
  <2>4. inits # 0
    BY <1>1, <2>1, OneToken DEF Holders
  <2>5. Len(crate') = curidx'[p] /\ out' = <<>> /\ UNCHANGED <<producers, consumers, inits>>
    BY <1>1, <1>4, <2>1 DEF IInv, Types, Batch, SendItem
  <2> QED BY <1>1, <2>1, <2>2, <2>3, <2>4, <2>5, Roster DEF Batch
<1> QED BY <1>2, <1>3, <1>5, <1>6, <1>7 DEF IInv

\* A token whose index is the capacity becomes an order for as many items.
LEMMA SendOrderKeeps ==
  ASSUME IInv, NEW p \in Producers, SendOrder(p)
  PROVE  IInv'
<1>1. /\ pc[p] = "pass" /\ pc' = [pc EXCEPT ![p] = "receive"] /\ p \in Processes
      /\ pc'[p] = "receive" /\ \A u \in Processes \ {p} : pc'[u] = pc[u]
  BY Roster DEF IInv, Types, SendOrder, Move
<1>2. Types'
  BY <1>1, Roster DEF IInv, Types, SendOrder, queues, locals, Move
<1>3. Roles'
  BY <1>1, Roster DEF IInv, Types, Roles, SendOrder, queues, locals
<1>4. /\ Len(producers') = Len(producers) /\ Len(consumers') = Len(consumers) + 1
      /\ Len(crate') = Len(crate) /\ inits' = inits
  BY Lengths DEF IInv, Types, SendOrder, queues, locals
<1>5. TokensConserved'
  <2>1. Holding \in Nat /\ Holding' = Holding - 1
    BY <1>1, HoldersMove DEF HoldingPc
  <2> QED BY <1>4, <2>1, Lengths DEF IInv, Types, TokensConserved, Holding
<1>6. Items'
  <2>1. TokenSum \in Int /\ TokenSum' = TokenSum
    BY TokenSumMoves, Roster DEF IInv, Types, SendOrder, queues, locals
  <2>2. HeldSum \in Int /\ HeldSum' = HeldSum - Capacity
    BY <1>1, <1>2, HeldSumMoves, Roster DEF IInv, Types, SendOrder, queues, locals
  <2>3. LeftSum \in Int /\ LeftSum' = LeftSum
    BY LeftSumMoves, Roster DEF IInv, Types, SendOrder, queues, locals
  <2> QED BY <1>1, <1>4, <2>1, <2>2, <2>3, Multiple, Lengths, Roster DEF IInv, Types, Items
<1>7. OneBatch'
  <2> SUFFICES ASSUME inits' <= 1 PROVE Batch'
    BY DEF OneBatch
  <2>1. inits <= 1 /\ Batch
    BY <1>4, Roster DEF IInv, OneBatch, Types
  <2>2. producers = <<>> /\ consumers = <<>> /\ Holders = {p}
    BY <1>1, <2>1, OneToken DEF Holders
  <2>3. \A u \in Processes \ {p} : pc'[u] \notin {"init", "pack", "pass", "take"}
    BY <1>1, <2>2 DEF Holders
  <2>4. inits # 0
    BY <1>1, <2>1, OneToken DEF Holders
  <2>5. Len(crate') = Capacity /\ out' = <<>> /\ UNCHANGED <<producers, inits>>
    BY <1>1, <2>1 DEF Batch, SendOrder, locals
  <2> QED BY <1>1, <2>1, <2>2, <2>3, <2>4, <2>5, Roster DEF Batch
<1> QED BY <1>2, <1>3, <1>5, <1>6, <1>7 DEF IInv

\* Any other token moves from the producer to the queue.
LEMMA PassTokenKeeps ==
  ASSUME IInv, NEW p \in Producers, PassToken(p)
  PROVE  IInv'
<1>1. /\ pc[p] = "pass" /\ pc' = [pc EXCEPT ![p] = "receive"] /\ p \in Processes
      /\ pc'[p] = "receive" /\ \A u \in Processes \ {p} : pc'[u] = pc[u]
  BY Roster DEF IInv, Types, PassToken, Move
<1>2. Types'
  BY <1>1, Roster DEF IInv, Types, PassToken, queues, locals, Move
<1>3. Roles'
  BY <1>1, Roster DEF IInv, Types, Roles, PassToken, queues, locals
<1>4. /\ Len(producers') = Len(producers) + 1 /\ Len(consumers') = Len(consumers)
      /\ Len(crate') = Len(crate) /\ inits' = inits
  BY Lengths DEF IInv, Types, PassToken, queues, locals
<1>5. TokensConserved'
  <2>1. Holding \in Nat /\ Holding' = Holding - 1
    BY <1>1, HoldersMove DEF HoldingPc
  <2> QED BY <1>4, <2>1, Lengths DEF IInv, Types, TokensConserved, Holding
<1>6. Items'
  <2>1. TokenSum \in Int /\ TokenSum' = TokenSum + curidx[p]
    BY <1>1, TokenSumMoves, Roster DEF IInv, Types, PassToken, queues, locals
  <2>2. HeldSum \in Int /\ HeldSum' = HeldSum - curidx[p]
    BY <1>1, <1>2, HeldSumMoves, Roster DEF IInv, Types, PassToken, queues, locals
  <2>3. LeftSum \in Int /\ LeftSum' = LeftSum
    BY LeftSumMoves, Roster DEF IInv, Types, PassToken, queues, locals
  <2>4. curidx[p] \in Int
    BY Roster DEF IInv, Types
  <2>5. /\ Len(crate) = Capacity * Len(consumers) + LeftSum + TokenSum + HeldSum
        /\ Capacity * Len(consumers) \in Int
    BY Multiple, Lengths DEF IInv, Items
  <2> DEFINE m == Capacity * Len(consumers)
  <2>6. m \in Int
    BY <2>5
  <2> HIDE DEF m
  <2>7. m + LeftSum + TokenSum + HeldSum
          = m + LeftSum + (TokenSum + curidx[p]) + (HeldSum - curidx[p])
    BY ONLY <2>1, <2>2, <2>3, <2>4, <2>6
  <2> QED BY ONLY <1>4, <2>1, <2>2, <2>3, <2>5, <2>7 DEF Items, m
<1>7. OneBatch'
  <2> SUFFICES ASSUME inits' <= 1 PROVE Batch'
    BY DEF OneBatch
  <2>1. inits <= 1 /\ Batch
    BY <1>4, Roster DEF IInv, OneBatch, Types
  <2>2. producers = <<>> /\ consumers = <<>> /\ Holders = {p}
    BY <1>1, <2>1, OneToken DEF Holders
  <2>3. \A u \in Processes \ {p} : pc'[u] \notin {"init", "pack", "pass", "take"}
    BY <1>1, <2>2 DEF Holders
  <2>4. inits # 0
    BY <1>1, <2>1, OneToken DEF Holders
  <2>5. Len(crate') = curidx[p] /\ out' = <<>> /\ producers' = <<curidx[p]>> /\ UNCHANGED <<consumers, inits>>
    BY <1>1, <2>1, <2>2 DEF Batch, PassToken, locals
  <2> QED BY <1>1, <2>1, <2>2, <2>3, <2>4, <2>5, Roster DEF Batch
<1> QED BY <1>2, <1>3, <1>5, <1>6, <1>7 DEF IInv

\* The order becomes what the consumer has left to take.
LEMMA ReceiveOrderKeeps ==
  ASSUME IInv, NEW c \in Consumers, ReceiveOrder(c)
  PROVE  IInv'
<1>1. /\ pc[c] = "receive" /\ pc' = [pc EXCEPT ![c] = "take"] /\ c \in Processes
      /\ pc'[c] = "take" /\ \A u \in Processes \ {c} : pc'[u] = pc[u]
  BY Roster DEF IInv, Types, ReceiveOrder, Move
<1>2. Types'
  BY <1>1, Roster DEF IInv, Types, ReceiveOrder, queues, locals, Move
<1>3. Roles'
  BY <1>1, Roster DEF IInv, Types, Roles, ReceiveOrder, queues, locals
<1>4. /\ Len(producers') = Len(producers) /\ Len(consumers') = Len(consumers) - 1
      /\ Len(crate') = Len(crate) /\ inits' = inits
  BY Lengths DEF IInv, Types, ReceiveOrder, queues, locals
<1>5. TokensConserved'
  <2>1. Holding \in Nat /\ Holding' = Holding + 1
    BY <1>1, HoldersMove DEF HoldingPc
  <2> QED BY <1>4, <2>1, Lengths DEF IInv, Types, TokensConserved, Holding
<1>6. Items'
  <2>1. TokenSum \in Int /\ TokenSum' = TokenSum
    BY TokenSumMoves, Roster DEF IInv, Types, ReceiveOrder, queues, locals
  <2>2. HeldSum \in Int /\ HeldSum' = HeldSum
    BY <1>1, HeldSumStays, Roster DEF IInv, ReceiveOrder, queues, locals
  <2>3. LeftSum \in Int /\ LeftSum' = LeftSum + Capacity
    <3>1. left[c] = 0 /\ Capacity \in Int
      BY <1>1, Lengths, Roster DEF IInv, Types, Roles, ReceiveOrder
    <3>2. left' = [left EXCEPT ![c] = Capacity] /\ c \in Consumers
      BY Lengths DEF IInv, ReceiveOrder
    <3>3. LeftSum \in Int /\ LeftSum' = LeftSum + (Capacity) - left[c]
      BY ONLY <3>1, <3>2, LeftSumMoves, IInv DEF IInv
    <3> QED BY <3>1, <3>3
  <2> QED BY <1>1, <1>4, <2>1, <2>2, <2>3, Multiple, Lengths, Roster DEF IInv, Types, Items
<1>7. OneBatch'
  <2> SUFFICES ASSUME inits' <= 1 PROVE Batch'
    BY DEF OneBatch
  <2>1. inits <= 1 /\ Batch
    BY <1>4, Roster DEF IInv, OneBatch, Types
  <2>2. Len(producers') = 0 /\ Len(consumers') = 0 /\ Holders = {}
    BY <1>4, <2>1, OneToken, Lengths DEF IInv, Types, ReceiveOrder
  <2>3. \A u \in Processes \ {c} : pc'[u] \notin {"init", "pack", "pass", "take"}
    BY <1>1, <2>2 DEF Holders
  <2>4. inits # 0 /\ producers' = <<>> /\ consumers' = <<>>
    BY <1>2, <2>1, <2>2, OneToken, EmptySeq DEF IInv, Types, ReceiveOrder
  <2>5. Len(crate') = left'[c] /\ Len(crate') + Len(out') = Capacity
    BY <2>1, Lengths, EmptySeq, Roster DEF IInv, Types, Batch, ReceiveOrder
  <2>6. \A d \in Consumers : pc'[d] = "take" => d = c
    BY <2>3, Roster
  <2>7. \A u \in Processes : pc'[u] \notin {"init", "pack", "pass"}
    BY <1>1, <2>3
  <2> QED BY <1>4, <2>4, <2>5, <2>6, <2>7, Roster DEF Batch
<1> QED BY <1>2, <1>3, <1>5, <1>6, <1>7 DEF IInv

\* One item less in the crate, and one less to take.
LEMMA TakeItemKeeps ==
  ASSUME IInv, NEW c \in Consumers, TakeItem(c)
  PROVE  IInv'
<1>1. /\ pc[c] = "take" /\ pc' = [pc EXCEPT ![c] = "take"] /\ c \in Processes
      /\ pc'[c] = "take" /\ \A u \in Processes \ {c} : pc'[u] = pc[u]
  BY Roster DEF IInv, Types, TakeItem, Move
<1>2. Types'
  BY <1>1, Roster DEF IInv, Types, TakeItem, queues, locals, Move
<1>3. Roles'
  BY <1>1, Roster DEF IInv, Types, Roles, TakeItem, queues, locals
<1>4. /\ Len(producers') = Len(producers) /\ Len(consumers') = Len(consumers)
      /\ Len(crate') = Len(crate) - 1 /\ inits' = inits
  BY Lengths DEF IInv, Types, TakeItem, queues, locals
<1>5. TokensConserved'
  <2>1. Holding \in Nat /\ Holding' = Holding
    BY <1>1, HoldersMove DEF HoldingPc
  <2> QED BY <1>4, <2>1, Lengths DEF IInv, Types, TokensConserved, Holding
<1>6. Items'
  <2>1. TokenSum \in Int /\ TokenSum' = TokenSum
    BY TokenSumMoves, Roster DEF IInv, Types, TakeItem, queues, locals
  <2>2. HeldSum \in Int /\ HeldSum' = HeldSum
    BY <1>1, HeldSumStays, Roster DEF IInv, TakeItem, queues, locals
  <2>3. LeftSum \in Int /\ LeftSum' = LeftSum - 1
    <3>1. left[c] \in Int /\ left[c] - 1 \in Int
      BY <1>1, Lengths, Roster DEF IInv, Types, Roles, TakeItem
    <3>2. left' = [left EXCEPT ![c] = left[c] - 1] /\ c \in Consumers
      BY Lengths DEF IInv, TakeItem
    <3>3. LeftSum \in Int /\ LeftSum' = LeftSum + (left[c] - 1) - left[c]
      BY ONLY <3>1, <3>2, LeftSumMoves, IInv DEF IInv
    <3> QED BY <3>1, <3>3
  <2> QED BY <1>1, <1>4, <2>1, <2>2, <2>3, Multiple, Lengths, Roster DEF IInv, Types, Items
<1>7. OneBatch'
  <2> SUFFICES ASSUME inits' <= 1 PROVE Batch'
    BY DEF OneBatch
  <2>1. inits <= 1 /\ Batch
    BY <1>4, Roster DEF IInv, OneBatch, Types
  <2>2. producers = <<>> /\ consumers = <<>> /\ Holders = {c}
    BY <1>1, <2>1, OneToken DEF Holders
  <2>3. \A u \in Processes \ {c} : pc'[u] \notin {"init", "pack", "pass", "take"}
    BY <1>1, <2>2 DEF Holders
  <2>4. inits # 0
    BY <1>1, <2>1, OneToken DEF Holders
  <2>5. Len(crate') = left'[c] /\ Len(crate') + Len(out') = Capacity /\ UNCHANGED <<producers, consumers, inits>>
    <3>1. Len(crate) = left[c] /\ Len(crate) + Len(out) = Capacity
      BY <1>1, <2>1 DEF Batch
    <3>2. Len(out') = Len(out) + 1
      <4>1. Head(crate) \in Item
        BY HeadTailProperties DEF IInv, Types, TakeItem
      <4> QED BY <4>1, AppendProperties DEF IInv, Types, TakeItem
    <3>3. left'[c] = left[c] - 1 /\ UNCHANGED <<producers, consumers, inits>>
      BY DEF IInv, Types, TakeItem
    <3> QED BY <1>4, <3>1, <3>2, <3>3, Lengths, Roster DEF IInv
  <2> QED BY <1>1, <2>1, <2>2, <2>3, <2>4, <2>5, Roster DEF Batch
<1> QED BY <1>2, <1>3, <1>5, <1>6, <1>7 DEF IInv

\* The consumer that has taken all gives a new token back.
LEMMA ReturnTokenKeeps ==
  ASSUME IInv, NEW c \in Consumers, ReturnToken(c)
  PROVE  IInv'
<1>1. /\ pc[c] = "take" /\ pc' = [pc EXCEPT ![c] = "receive"] /\ c \in Processes
      /\ pc'[c] = "receive" /\ \A u \in Processes \ {c} : pc'[u] = pc[u]
  BY Roster DEF IInv, Types, ReturnToken, Move
<1>2. Types'
  BY <1>1, Roster DEF IInv, Types, ReturnToken, queues, locals, Move
<1>3. Roles'
  BY <1>1, Roster DEF IInv, Types, Roles, ReturnToken, queues, locals
<1>4. /\ Len(producers') = Len(producers) + 1 /\ Len(consumers') = Len(consumers)
      /\ Len(crate') = Len(crate) /\ inits' = inits
  BY Lengths DEF IInv, Types, ReturnToken, queues, locals
<1>5. TokensConserved'
  <2>1. Holding \in Nat /\ Holding' = Holding - 1
    BY <1>1, HoldersMove DEF HoldingPc
  <2> QED BY <1>4, <2>1, Lengths DEF IInv, Types, TokensConserved, Holding
<1>6. Items'
  <2>1. TokenSum \in Int /\ TokenSum' = TokenSum + 0
    BY <1>1, TokenSumMoves, Roster DEF IInv, Types, ReturnToken, queues, locals
  <2>2. HeldSum \in Int /\ HeldSum' = HeldSum
    BY <1>1, HeldSumStays, Roster DEF IInv, ReturnToken, queues, locals
  <2>3. LeftSum \in Int /\ LeftSum' = LeftSum
    BY LeftSumMoves, Roster DEF IInv, Types, ReturnToken, queues, locals
  <2> QED BY <1>1, <1>4, <2>1, <2>2, <2>3, Multiple, Lengths, Roster DEF IInv, Types, Items
<1>7. OneBatch'
  <2> SUFFICES ASSUME inits' <= 1 PROVE Batch'
    BY DEF OneBatch
  <2>1. inits <= 1 /\ Batch
    BY <1>4, Roster DEF IInv, OneBatch, Types
  <2>2. producers = <<>> /\ consumers = <<>> /\ Holders = {c}
    BY <1>1, <2>1, OneToken DEF Holders
  <2>3. \A u \in Processes \ {c} : pc'[u] \notin {"init", "pack", "pass", "take"}
    BY <1>1, <2>2 DEF Holders
  <2>4. inits # 0
    BY <1>1, <2>1, OneToken DEF Holders
  <2>5. Len(crate') = 0 /\ out' = <<>> /\ producers' = <<0>> /\ UNCHANGED <<consumers, inits>>
    BY <1>1, <2>1, <2>2 DEF Batch, ReturnToken
  <2> QED BY <1>1, <2>1, <2>2, <2>3, <2>4, <2>5, Roster DEF Batch
<1> QED BY <1>2, <1>3, <1>5, <1>6, <1>7 DEF IInv

\* A process that is killed keeps its token: the token is lost with it, and
\* counted where it was.
LEMMA KillKeeps ==
  ASSUME IInv, NEW t \in Processes, Kill(t)
  PROVE  IInv'
<1>1. killed' \subseteq Processes /\ UNCHANGED <<limit, queues, locals, pc, inits>>
  BY DEF IInv, Types, Kill
<1>2. Types'
  BY <1>1 DEF IInv, Types, queues, locals
<1>3. Roles' /\ TokensConserved' /\ OneBatch'
  BY <1>1 DEF IInv, Roles, TokensConserved, Holders, OneBatch, Batch, queues, locals
<1>4. Items'
  BY <1>1 DEF IInv, Items, TokenSum, HeldSum, LeftSum, held, queues, locals
<1> QED BY <1>2, <1>3, <1>4 DEF IInv

\* Nothing changes.
LEMMA StutterKeeps ==
  ASSUME IInv, UNCHANGED vars
  PROVE  IInv'
<1>1. Types' /\ Roles' /\ TokensConserved' /\ OneBatch'
  BY DEF IInv, Types, Roles, TokensConserved, Holders, OneBatch, Batch, vars
<1>2. Items'
  BY DEF IInv, Items, TokenSum, HeldSum, LeftSum, held, vars
<1> QED BY <1>1, <1>2 DEF IInv

\* In the beginning both accounts are empty.
LEMMA Initially ==
  ASSUME Init
  PROVE  IInv
<1>1. Types
  <2>1. producers \in Seq(0 .. Capacity - 1) /\ consumers \in Seq({Capacity})
        /\ crate \in Seq(Item) /\ out \in Seq(Item)
    BY DEF Init
  <2>2. curidx \in [Producers -> 0 .. Capacity] /\ left \in [Consumers -> 0 .. Capacity]
    BY Roster DEF Init
  <2> QED BY <2>1, <2>2 DEF Init, Types
<1>2. Roles
  BY Roster DEF Init, Roles
<1>3. TokensConserved
  <2>1. Holders = {}
    BY DEF Init, Holders
  <2> QED BY <2>1, FS_EmptySet DEF Init, TokensConserved
<1>4. Items
  <2>1. TokenSum = 0
    <3>1. 1 .. Len(producers) = {}
      BY DEF Init
    <3> QED BY <3>1, FS_EmptySet, SumRemove DEF TokenSum
  <2>2. HeldSum = 0
    <3>1. \A p \in Producers : held[p] = 0
      BY Roster DEF Init, held
    <3> QED BY <3>1, Roster, SumNat DEF HeldSum
  <2>3. LeftSum = 0
    <3>1. \A c \in Consumers : left[c] = 0
      BY DEF Init
    <3> QED BY <3>1, Roster, SumNat DEF LeftSum
  <2>4. Len(crate) = 0 /\ Capacity * Len(consumers) = 0
    BY Roster DEF Init
  <2> QED BY <2>1, <2>2, <2>3, <2>4 DEF Items
<1>5. OneBatch
  BY Roster DEF Init, OneBatch, Batch
<1> QED BY <1>1, <1>2, <1>3, <1>4, <1>5 DEF IInv

\* Every step keeps the invariant.
LEMMA Inductive ==
  ASSUME IInv, [Next]_vars
  PROVE  IInv'
<1>1. ASSUME NEW t \in Processes, StartPlain(t) \/ StartInit(t) PROVE IInv'
  BY <1>1, StartPlainKeeps, StartInitKeeps
<1>2. ASSUME NEW p \in Producers, Producer(p) PROVE IInv'
  <2>1. p \in Processes
    BY Roster
  <2> QED BY <1>2, <2>1, SendInitialKeeps, ReceiveTokenKeeps, SendItemKeeps,
             SendOrderKeeps, PassTokenKeeps DEF Producer
<1>3. ASSUME NEW c \in Consumers, Consumer(c) PROVE IInv'
  <2>1. c \in Processes
    BY Roster
  <2> QED BY <1>3, <2>1, SendInitialKeeps, ReceiveOrderKeeps, TakeItemKeeps,
             ReturnTokenKeeps DEF Consumer
<1>4. ASSUME NEW t \in Processes, Kill(t) PROVE IInv'
  BY <1>4, KillKeeps
<1>5. CASE UNCHANGED vars
  BY <1>5, StutterKeeps
<1> QED BY <1>1, <1>2, <1>3, <1>4, <1>5 DEF Next

\* The inductive invariant holds of every behaviour.
THEOREM Invariance == Spec => []IInv
<1>1. Init => IInv
  BY Initially
<1>2. IInv /\ [Next]_vars => IInv'
  BY Inductive
<1> QED BY <1>1, <1>2, PTL DEF Spec

-----------------------------------------------------------------------------
(* What follows from it.                                                   *)

\* No step of the protocol makes or drops a token: there are as many of them
\* as processes were started with "init", with any number of processes, at any
\* limit of the queues and whoever is killed.
THEOREM Conservation == Spec => []TokensConserved
<1>1. IInv => TokensConserved
  BY DEF IInv
<1> QED BY <1>1, Invariance, PTL

\* The crate holds what the orders sent, and those being carried out, still
\* have to take, however many tokens there are: a consumer that has received an
\* order never waits for an item.
THEOREM Coverage == Spec => []OrdersCovered
<1>1. IInv => OrdersCovered
  <2> SUFFICES ASSUME IInv PROVE OrdersCovered
    OBVIOUS
  <2>1. FoldFunction(+, 0, left) = LeftSum
    <3>1. DOMAIN left = Consumers
      BY DEF IInv, Types
    <3> QED BY <3>1 DEF FoldFunction, LeftSum, SumFunctionOnSet
  <2>2. LeftSum \in Nat
    <3>1. \A c \in Consumers : left[c] \in Nat
      BY Roster DEF IInv, Types
    <3> QED BY <3>1, Roster, SumNat DEF LeftSum
  <2>3. HeldSum \in Nat
    <3>1. \A p \in Producers : held[p] \in Nat
      BY Roster DEF IInv, Types, held
    <3> QED BY <3>1, Roster, SumNat DEF HeldSum
  <2>4. TokenSum \in Nat
    <3>1. \A k \in 1 .. Len(producers) : producers[k] \in Nat
      <4>1. \A k \in 1 .. Len(producers) : producers[k] \in 0 .. Capacity - 1
        BY ElementOfSeq DEF IInv, Types
      <4> QED BY <4>1, Roster
    <3>2. IsFiniteSet(1 .. Len(producers))
      BY Lengths, FS_Interval DEF IInv
    <3> QED BY <3>1, <3>2, SumNat DEF TokenSum
  <2>5. Capacity * Len(consumers) \in Nat
    BY Lengths, Multiple, Roster DEF IInv
  <2>6. Len(crate) = Capacity * Len(consumers) + LeftSum + TokenSum + HeldSum
    BY DEF IInv, Items
  <2> DEFINE m == Capacity * Len(consumers)
  <2>7. m \in Nat /\ Len(crate) = m + LeftSum + TokenSum + HeldSum
    BY <2>5, <2>6
  <2> HIDE DEF m
  <2>8. m + LeftSum <= Len(crate)
    BY ONLY <2>2, <2>3, <2>4, <2>7
  <2> QED BY ONLY <2>1, <2>8 DEF OrdersCovered, m
<1> QED BY <1>1, Invariance, PTL

(* With one "init" each step on the items is one of the abstract crate.    *)

\* A producer sends the next item of the batch to a crate that is not full.
LEMMA SendIsPut ==
  ASSUME IInv, inits' <= 1, NEW p \in Producers, SendItem(p)
  PROVE  AbstractCrate!Put(p)
<1>1. Batch /\ pc[p] = "pack" /\ crate' = Append(crate, <<p, curidx[p]>>) /\ out' = out
  BY DEF IInv, OneBatch, SendItem, Move
<1>2. Len(crate) = curidx[p] /\ out = <<>> /\ curidx[p] < Capacity
  BY <1>1 DEF IInv, Batch, Roles
<1> QED BY <1>1, <1>2 DEF AbstractCrate!Put

\* A consumer takes the oldest item of a batch that was complete.
LEMMA TakeIsTake ==
  ASSUME IInv, inits' <= 1, NEW c \in Consumers, TakeItem(c)
  PROVE  AbstractCrate!Take
<1>1. Batch /\ pc[c] = "take" /\ crate # <<>>
  BY DEF IInv, OneBatch, TakeItem, Move
<1>2. Len(crate) + Len(out) = Capacity
  BY <1>1 DEF Batch
<1> QED BY <1>1, <1>2 DEF AbstractCrate!Take, TakeItem

\* The token is returned when the whole batch has been taken.
LEMMA ReturnIsFinish ==
  ASSUME IInv, inits' <= 1, NEW c \in Consumers, ReturnToken(c)
  PROVE  AbstractCrate!Finish
<1>1. Batch /\ pc[c] = "take" /\ left[c] = 0
  BY DEF IInv, OneBatch, ReturnToken, Move
<1>2. Len(crate) = 0 /\ Len(crate) + Len(out) = Capacity
  BY <1>1 DEF Batch
<1>3. Len(out) = Capacity
  BY <1>2, Lengths DEF IInv
<1> QED BY <1>3 DEF AbstractCrate!Finish, ReturnToken

\* As long as there was one "init" the three programs fill, empty and hand
\* over the crate as the abstract one does.
THEOREM Refinement == Spec => ImplementsCrate
<1>1. Init => AbstractCrate!Init
  BY DEF Init, AbstractCrate!Init
<1>2. ASSUME IInv, [Next]_vars, inits' <= 1
      PROVE  [AbstractCrate!Next]_<<crate, out>>
  <2>1. ASSUME NEW t \in Processes, StartPlain(t) \/ StartInit(t) \/ SendInitial(t) \/ Kill(t)
        PROVE  UNCHANGED <<crate, out>>
    BY <2>1 DEF StartPlain, StartInit, SendInitial, Kill, queues, locals
  <2>2. ASSUME NEW p \in Producers, Producer(p)
        PROVE  [AbstractCrate!Next]_<<crate, out>>
    <3>1. CASE SendItem(p)
      BY <1>2, <3>1, SendIsPut DEF AbstractCrate!Next
    <3>2. CASE SendInitial(p)
      BY <2>1, <3>2, Roster
    <3> QED BY <2>2, <3>1, <3>2
          DEF Producer, ReceiveToken, SendOrder, PassToken, locals
  <2>3. ASSUME NEW c \in Consumers, Consumer(c)
        PROVE  [AbstractCrate!Next]_<<crate, out>>
    <3>1. CASE TakeItem(c)
      BY <1>2, <3>1, TakeIsTake DEF AbstractCrate!Next
    <3>2. CASE ReturnToken(c)
      BY <1>2, <3>2, ReturnIsFinish DEF AbstractCrate!Next
    <3>3. CASE SendInitial(c)
      BY <2>1, <3>3, Roster
    <3> QED BY <2>3, <3>1, <3>2, <3>3 DEF Consumer, ReceiveOrder
  <2>4. CASE UNCHANGED vars
    BY <2>4 DEF vars
  <2> QED BY <1>2, <2>1, <2>2, <2>3, <2>4 DEF Next
<1>3. IInv /\ [Next]_vars => [inits' <= 1 => [AbstractCrate!Next]_<<crate, out>>]_vars
  BY <1>2
<1> QED BY <1>1, <1>3, Invariance, PTL DEF Spec, ImplementsCrate

-----------------------------------------------------------------------------
(* What the abstract crate guarantees by itself.  Here its variables are   *)
(* those of this protocol, the crate and what has been printed; the proof  *)
(* uses nothing else of them, so the facts hold of whatever implements     *)
(* Crate.                                                                  *)

\* A batch never outgrows the crate, and it is handed over whole.
CrateBounded ==
  /\ Capacity \in Nat
  /\ Len(out) + Len(crate) <= Capacity

CrateInv ==
  /\ AbstractCrate!TypeOK /\ AbstractCrate!OrderedBatch /\ AbstractCrate!WholeBatch
  /\ CrateBounded

\* What a position of a concatenation holds, in one place.
LEMMA CrateAt ==
  ASSUME NEW S, NEW s \in Seq(S), NEW t \in Seq(S)
  PROVE  /\ s \o t \in Seq(S)
         /\ Len(s \o t) = Len(s) + Len(t)
         /\ \A k \in 1 .. Len(s) + Len(t) :
              (s \o t)[k] = IF k <= Len(s) THEN s[k] ELSE t[k - Len(s)]
  BY ConcatProperties

\* Nothing is packed and nothing printed yet.
LEMMA CrateInitial ==
  ASSUME AbstractCrate!Init
  PROVE  CrateInv
<1>1. crate \o out = <<>> /\ Len(out) + Len(crate) = 0
  BY DEF AbstractCrate!Init
<1>2. AbstractCrate!TypeOK
  BY EmptySeq DEF AbstractCrate!Init, AbstractCrate!TypeOK
<1> QED BY <1>1, <1>2, MsgqAssumption
      DEF AbstractCrate!Init, CrateInv, AbstractCrate!OrderedBatch,
          AbstractCrate!WholeBatch, CrateBounded

\* The next item gets the next name.
LEMMA CratePutKeeps ==
  ASSUME CrateInv, NEW p \in Producers, AbstractCrate!Put(p)
  PROVE  CrateInv'
<1> DEFINE n == Len(crate)
<1>1. /\ crate \in Seq(AbstractCrate!Item) /\ n \in Nat /\ n < Capacity /\ Capacity \in Nat
      /\ out = <<>> /\ out' = <<>> /\ crate' = Append(crate, <<p, n>>)
  BY DEF CrateInv, AbstractCrate!TypeOK, CrateBounded, AbstractCrate!Put
<1>2. <<p, n>> \in AbstractCrate!Item
  BY <1>1 DEF AbstractCrate!Item
<1>3. /\ crate' \in Seq(AbstractCrate!Item) /\ Len(crate') = n + 1
      /\ \A k \in 1 .. n : crate'[k] = crate[k]
      /\ crate'[n + 1] = <<p, n>>
  BY <1>1, <1>2, AppendProperties
<1>4. \A k \in 1 .. n : crate[k][2] = k - 1
  BY <1>1 DEF CrateInv, AbstractCrate!OrderedBatch
<1>5. AbstractCrate!OrderedBatch'
  <2>1. \A k \in 1 .. n + 1 : crate'[k][2] = k - 1
    BY <1>1, <1>3, <1>4
  <2>2. out' \o crate' = crate'
    BY <1>1, <1>3
  <2> QED BY <1>3, <2>1, <2>2 DEF AbstractCrate!OrderedBatch
<1> QED BY <1>1, <1>3, <1>5
      DEF CrateInv, AbstractCrate!TypeOK, AbstractCrate!WholeBatch, CrateBounded

\* Taking the oldest item moves it and changes no position.
LEMMA CrateTakeKeeps ==
  ASSUME CrateInv, AbstractCrate!Take
  PROVE  CrateInv'
<1>1. /\ crate \in Seq(AbstractCrate!Item) /\ out \in Seq(AbstractCrate!Item) /\ crate # <<>>
      /\ Len(crate) + Len(out) = Capacity /\ Capacity \in Nat
      /\ out' = Append(out, Head(crate)) /\ crate' = Tail(crate)
  BY DEF CrateInv, AbstractCrate!TypeOK, CrateBounded, AbstractCrate!Take
<1>2. /\ Head(crate) \in AbstractCrate!Item /\ Head(crate) = crate[1]
      /\ crate' \in Seq(AbstractCrate!Item) /\ Len(crate') = Len(crate) - 1
      /\ \A k \in 1 .. Len(crate) - 1 : crate'[k] = crate[k + 1]
      /\ Len(crate) \in Nat \ {0}
  BY <1>1, HeadTailProperties, EmptySeq
<1>3. /\ out' \in Seq(AbstractCrate!Item) /\ Len(out') = Len(out) + 1 /\ Len(out) \in Nat
      /\ \A k \in 1 .. Len(out) : out'[k] = out[k]
      /\ out'[Len(out) + 1] = crate[1]
  BY <1>1, <1>2, AppendProperties
<1>4. Len(out) + Len(crate) = Capacity
  BY <1>1, <1>2, <1>3
<1>5. Len(out') = Len(out) + 1 /\ Len(crate') = Len(crate) - 1
  BY <1>2, <1>3
<1>6. Len(out) \in Nat /\ Len(crate) \in Nat
  BY <1>2, <1>3
<1>7. Len(out') + Len(crate') = Capacity
  BY <1>4, <1>5, <1>6
<1>8. /\ Len(out' \o crate') = Capacity
      /\ Len(out \o crate) = Capacity
  <2>1. Len(out \o crate) = Len(out) + Len(crate)
    BY <1>1, CrateAt
  <2>2. Len(out' \o crate') = Len(out') + Len(crate')
    BY <1>2, <1>3, CrateAt
  <2> QED BY <1>4, <1>7, <2>1, <2>2
<1>9. ASSUME NEW k \in 1 .. Capacity
      PROVE  (out' \o crate')[k] = (out \o crate)[k]
  <2>1. (out \o crate)[k] = IF k <= Len(out) THEN out[k] ELSE crate[k - Len(out)]
    BY <1>1, CrateAt
  <2>2. (out' \o crate')[k]
          = IF k <= Len(out') THEN out'[k] ELSE crate'[k - Len(out')]
    BY <1>1, <1>2, <1>3, CrateAt
  <2>3. CASE k <= Len(out)
    BY <1>1, <1>3, <2>1, <2>2, <2>3
  <2>4. CASE k = Len(out) + 1
    BY <1>1, <1>3, <2>1, <2>2, <2>4
  <2>5. CASE k > Len(out) + 1
    <3>1. k - Len(out') \in 1 .. Len(crate) - 1 /\ k - Len(out') + 1 = k - Len(out)
      BY <1>1, <1>2, <1>3, <2>5
    <3> QED BY <1>2, <1>3, <2>1, <2>2, <2>5, <3>1, SMTT(30)
  <2> QED BY <1>1, <1>3, <2>3, <2>4, <2>5
<1>10. AbstractCrate!OrderedBatch'
  BY <1>8, <1>9 DEF CrateInv, AbstractCrate!OrderedBatch
<1>11. AbstractCrate!TypeOK'
  BY <1>2, <1>3 DEF AbstractCrate!TypeOK
<1> QED BY <1>1, <1>10, <1>11, <1>7
      DEF CrateInv, AbstractCrate!WholeBatch, CrateBounded

\* A batch that is over leaves nothing behind.
LEMMA CrateFinishKeeps ==
  ASSUME CrateInv, AbstractCrate!Finish
  PROVE  CrateInv'
<1>1. /\ crate \in Seq(AbstractCrate!Item) /\ Capacity \in Nat
      /\ Len(out) + Len(crate) <= Capacity /\ Len(out) = Capacity
      /\ out' = <<>> /\ crate' = crate
  BY DEF CrateInv, AbstractCrate!TypeOK, CrateBounded, AbstractCrate!Finish
<1>2. crate' = <<>>
  BY <1>1, EmptySeq
<1>3. out' \o crate' = <<>>
  BY <1>1, <1>2
<1> QED BY <1>1, <1>2, <1>3, EmptySeq
      DEF CrateInv, AbstractCrate!TypeOK, AbstractCrate!OrderedBatch,
          AbstractCrate!WholeBatch, CrateBounded

\* Every step keeps the invariant.
LEMMA CratePreserved ==
  ASSUME CrateInv, [AbstractCrate!Next]_<<crate, out>>
  PROVE  CrateInv'
<1>1. ASSUME NEW p \in Producers, AbstractCrate!Put(p) PROVE CrateInv'
  BY <1>1, CratePutKeeps
<1>2. CASE AbstractCrate!Take
  BY <1>2, CrateTakeKeeps
<1>3. CASE AbstractCrate!Finish
  BY <1>3, CrateFinishKeeps
<1>4. CASE UNCHANGED <<crate, out>>
  BY <1>4
     DEF CrateInv, AbstractCrate!TypeOK, AbstractCrate!OrderedBatch,
         AbstractCrate!WholeBatch, CrateBounded
<1> QED BY <1>1, <1>2, <1>3, <1>4 DEF AbstractCrate!Next

\* In every implementation of the crate (producer.cpp:62, items[state]) what is
\* printed and what is packed are the names of one batch, in order, and a
\* consumer holds part of a batch only when all of it was packed.
THEOREM BatchInOrder ==
  AbstractCrate!Spec => [](AbstractCrate!OrderedBatch /\ AbstractCrate!WholeBatch)
<1>1. AbstractCrate!Init => CrateInv
  BY CrateInitial
<1>2. CrateInv /\ [AbstractCrate!Next]_<<crate, out>> => CrateInv'
  BY CratePreserved
<1>3. CrateInv => AbstractCrate!OrderedBatch /\ AbstractCrate!WholeBatch
  BY DEF CrateInv
<1> QED BY <1>1, <1>2, <1>3, PTL DEF AbstractCrate!Spec, AbstractCrate!vars

\* So the message-queue programs print whole batches in the order of the items
\* array (msgq main.cpp:80, items[curidx++]) as long as one process was started
\* with "init".
THEOREM PrintedInOrder ==
  Spec => [](inits <= 1 => AbstractCrate!OrderedBatch /\ AbstractCrate!WholeBatch)
<1> DEFINE Good == inits <= 1 => CrateInv
<1>1. Init => Good
  <2>1. Init => AbstractCrate!Init
    BY DEF Init, AbstractCrate!Init
  <2> QED BY <2>1, CrateInitial
<1>2. ASSUME IInv, [Next]_vars, [inits' <= 1 => [AbstractCrate!Next]_<<crate, out>>]_vars, Good
      PROVE  Good'
  <2>1. inits' \in {inits, inits + 1} /\ inits \in Nat
    BY <1>2 DEF IInv, Types, Next, Producer, Consumer, StartPlain, StartInit, SendInitial, Kill,
       ReceiveToken, SendItem, SendOrder, PassToken, ReceiveOrder, TakeItem, ReturnToken,
       vars, queues, locals
  <2> SUFFICES ASSUME inits' <= 1 PROVE CrateInv'
    OBVIOUS
  <2>2. CrateInv
    BY <1>2, <2>1
  <2>3. [AbstractCrate!Next]_<<crate, out>>
    BY <1>2 DEF vars
  <2> QED BY <2>2, <2>3, CratePreserved
<1>3. Good => (inits <= 1 => AbstractCrate!OrderedBatch /\ AbstractCrate!WholeBatch)
  BY DEF CrateInv
<1> QED BY <1>1, <1>2, <1>3, Invariance, Refinement, PTL DEF Spec, ImplementsCrate
=============================================================================
