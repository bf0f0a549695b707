---------------------------- MODULE ServerProofs ----------------------------
(***************************************************************************)
(* The safety of the three servers of socksrv for any number of clients,   *)
(* lines and messages: first the threaded one (ThreadServer), then the     *)
(* multiplexing and the forking one, which share its variables (Servers).  *)
(***************************************************************************)
EXTENDS Servers, CommonFacts

-----------------------------------------------------------------------------
(* The threaded server.  Whatever the threads do, a client has one         *)
(* descriptor and the variable that is handed over holds the descriptor of *)
(* the client accepted last, or one that has been closed.  Until an accept *)
(* overtakes a thread that has not copied it, at most one thread is about  *)
(* to, and it is that client's.                                            *)

Types ==
  /\ backlog \in Seq(Clients) /\ accepted \in Seq(Clients)
  /\ table \in [Fd -> Clients \cup {None}]
  /\ l_sock_client \in Fd \cup {None}
  /\ overtaken \in BOOLEAN
  /\ main \in {"poll", "stdin", "accept"}
  /\ sockfd \in [Clients -> Fd \cup {None}]
  /\ rev \in [Clients \cup {Main} -> SUBSET {"socket"}]
  /\ pc \in [Clients -> {"off", "start", "poll", "stdin", "socket", "check", "close", "done",
                        "failed"}]

\* A client is accepted once, and then its thread is started or could not be;
\* the main thread accepts only when somebody waits.
Queue ==
  /\ Distinct(backlog) /\ Distinct(accepted)
  /\ Range(backlog) \cap Range(accepted) = {}
  /\ \A c \in Clients : pc[c] = "off" <=> c \notin Range(accepted)
  /\ main = "accept" => backlog # <<>>
  /\ rev[Main] # {} => main = "stdin" /\ backlog # <<>>

\* A client has one descriptor, and l_sock_client that of the last one.
Table ==
  /\ \A f \in Fd : table[f] # None => table[f] \in Range(accepted)
  /\ \A f, g \in Fd : table[f] = table[g] /\ table[f] # None => f = g
  /\ accepted # <<>> => l_sock_client \in Fd /\ table[l_sock_client] \in {None, Last(accepted)}

\* As long as no accept has overtaken a thread.
HandOver ==
  ~overtaken =>
  /\ \A t \in Running : sockfd[t] \in Fd /\ table[sockfd[t]] = t
  /\ \A f \in Fd : table[f] # None => table[f] \in Running \/ pc[table[f]] \in {"start", "failed"}
  /\ \A t \in Clients : pc[t] = "start" => l_sock_client \in Fd /\ table[l_sock_client] = t
  /\ exited # "close failed"

IInv == Types /\ Queue /\ Table /\ HandOver

-----------------------------------------------------------------------------
(* Facts that several steps need.                                          *)

RunningPc == {"poll", "stdin", "socket", "check", "close"}

\* The clients are finitely many and neither None nor the main thread.
LEMMA Names ==
  /\ IsFiniteSet(Clients) /\ None \notin Clients /\ Main \notin Clients
  /\ Cardinality(Clients) \in Nat /\ Fd \subseteq Nat
  /\ Running = {t \in Clients : pc[t] \in RunningPc}
BY ThreadServerAssumption, FS_CardinalityType DEF Fd, Running, RunningPc

\* A set of numbers that is not empty has a least one.
LEMMA LeastIsIn ==
  ASSUME NEW S \in SUBSET Nat, S # {}
  PROVE  Min(S) \in S
<1>1. IsWellFoundedOn(OpToRel(<, Nat), Nat)
  BY NatLessThanWellFounded
<1>2. PICK n \in S : \A m \in S : ~ (<<m, n>> \in OpToRel(<, Nat))
  BY <1>1, WFMin
<1>3. ASSUME NEW m \in S PROVE n <= m
  <2>1. m \in Nat /\ n \in Nat
    OBVIOUS
  <2>2. CASE m < n
    <3>1. <<m, n>> \in OpToRel(<, Nat)
      BY <2>1, <2>2 DEF OpToRel
    <3> QED BY <1>2, <3>1
  <2> QED BY <2>1, <2>2
<1> QED BY <1>3 DEF Min

\* There are as many descriptors as clients, so a client that has none leaves
\* one free.
LEMMA DescriptorFree ==
  ASSUME Types, Table, NEW c \in Clients, c \notin Range(accepted)
  PROVE  Free \in Fd /\ table[Free] = None
<1> DEFINE unused == {g \in Fd : table[g] = None}
<1>1. unused # {}
  <2> SUFFICES ASSUME unused = {} PROVE FALSE
    OBVIOUS
  <2>1. table \in [Fd -> Clients \ {c}]
    BY DEF Types, Table
  <2>2. /\ IsFiniteSet(Clients \ {c})
        /\ Cardinality(Clients \ {c}) = Cardinality(Clients) - 1
    BY Names, FS_RemoveElement
  <2>3. IsFiniteSet(Fd) /\ Cardinality(Fd) = Cardinality(Clients)
    BY Names, FS_Interval DEF Fd
  <2>4. Cardinality(Clients \ {c}) < Cardinality(Fd)
    BY <2>2, <2>3, Names
  <2>5. \E f, g \in Fd : f # g /\ table[f] = table[g]
    BY ONLY <2>1, <2>2, <2>3, <2>4, FS_PigeonHole
  <2>6. \A f \in Fd : table[f] # None
    BY <2>1, Names
  <2> QED BY <2>5, <2>6 DEF Table
<1>2. unused \in SUBSET Nat
  BY Names
<1> HIDE DEF unused
<1>3. Min(unused) \in unused
  BY <1>1, <1>2, LeastIsIn
<1> QED BY <1>3 DEF unused, Free

-----------------------------------------------------------------------------
(* The invariant is inductive.                                             *)

\* What the invariant reads does not change.
LEMMA IdleKeeps ==
  ASSUME IInv,
         UNCHANGED <<backlog, accepted, table, l_sock_client, overtaken, main, sockfd, rev, pc, exited>>
  PROVE  IInv'
<1>1. Types' /\ Queue'
  BY DEF IInv, Types, Queue
<1>2. Table'
  BY DEF IInv, Table
<1>3. HandOver'
  BY DEF IInv, HandOver, Running
<1> QED BY <1>1, <1>2, <1>3 DEF IInv

\* A client that connects waits, and did not before.
LEMMA ConnectKeeps ==
  ASSUME IInv, NEW c \in Clients, Connect(c)
  PROVE  IInv'
<1>1. /\ backlog' = Append(backlog, c) /\ c \notin Range(backlog) /\ c \notin Range(accepted)
      /\ UNCHANGED <<accepted, table, l_sock_client, overtaken, main, sockfd, rev, pc, exited>>
  BY DEF Connect, descriptors, threads
<1>2. backlog \in Seq(Clients) /\ backlog' \in Seq(Clients) /\ backlog' # <<>>
  BY <1>1, AppendProperties DEF IInv, Types
<1>3. Range(backlog') = Range(backlog) \cup {c} /\ (Distinct(backlog) => Distinct(backlog'))
  BY <1>1, <1>2, RangeAppend
<1>4. Types'
  BY <1>1, <1>2 DEF IInv, Types
<1>5. Queue'
  BY <1>1, <1>2, <1>3 DEF IInv, Queue, Distinct
<1>6. Table'
  BY <1>1 DEF IInv, Table
<1>7. HandOver'
  BY <1>1 DEF IInv, HandOver, Running
<1> QED BY <1>4, <1>5, <1>6, <1>7 DEF IInv

\* The main thread polls and reads the console.
LEMMA MainKeeps ==
  ASSUME IInv, MainPoll \/ MainReadStdin
  PROVE  IInv'
<1>1. /\ UNCHANGED <<backlog, accepted, table, l_sock_client, overtaken, sockfd, pc>>
      /\ exited' # "close failed"
  BY DEF MainPoll, MainReadStdin, network, descriptors, threads
<1>2. main' \in {"poll", "stdin", "accept"}
  BY DEF MainPoll, MainReadStdin
<1>3. rev' \in [Clients \cup {Main} -> SUBSET {"socket"}]
  BY DEF IInv, Types, MainPoll, MainReadStdin
<1>4. /\ main' = "accept" => backlog # <<>>
      /\ rev'[Main] # {} => main' = "stdin" /\ backlog # <<>>
  BY DEF IInv, Types, Queue, MainPoll, MainReadStdin
<1>5. Types'
  BY <1>1, <1>2, <1>3 DEF IInv, Types
<1>6. Queue'
  BY <1>1, <1>4 DEF IInv, Queue
<1>7. Table'
  BY <1>1 DEF IInv, Table
<1>8. HandOver'
  BY <1>1 DEF IInv, HandOver, Running
<1> QED BY <1>5, <1>6, <1>7, <1>8 DEF IInv

\* An accept gives the client a descriptor that nobody has, and is the only
\* step that sets overtaken.
LEMMA AcceptKeeps ==
  ASSUME IInv, Accept
  PROVE  IInv'
<1> DEFINE c == Head(backlog)
           f == Free
<1>1. /\ backlog # <<>> /\ backlog \in Seq(Clients) /\ accepted \in Seq(Clients)
      /\ Distinct(backlog) /\ Distinct(accepted)
  BY DEF IInv, Types, Queue, Accept, AcceptWith
<1>2. /\ c \in Clients /\ c \in Range(backlog) /\ Tail(backlog) \in Seq(Clients)
      /\ Distinct(Tail(backlog)) /\ Range(Tail(backlog)) = Range(backlog) \ {c}
  BY <1>1, RangeTail
<1>3. c \notin Range(accepted) /\ pc[c] = "off" /\ c # None
  BY <1>2, Names DEF IInv, Queue
<1>4. f \in Fd /\ table[f] = None
  BY <1>2, <1>3, DescriptorFree DEF IInv
<1>5. /\ backlog' = Tail(backlog) /\ accepted' = Append(accepted, c)
      /\ table' = [table EXCEPT ![f] = c] /\ l_sock_client' = f
      /\ \E s \in {"start", "failed"} : pc' = [pc EXCEPT ![c] = s]
      /\ main' = "poll" /\ exited' # "close failed"
      /\ overtaken' = (overtaken \/ \E t \in Clients : pc[t] = "start")
      /\ sockfd' = sockfd /\ rev' = rev /\ main = "accept"
  BY DEF Accept, AcceptWith
<1> HIDE DEF c, f
<1>6. /\ Range(accepted') = Range(accepted) \cup {c} /\ Distinct(accepted')
      /\ accepted' \in Seq(Clients) /\ Last(accepted') = c
  <2>1. Append(accepted, c) \in Seq(Clients) /\ Last(Append(accepted, c)) = c
    BY <1>1, <1>2, AppendProperties, LenProperties DEF Last
  <2>2. accepted' = Append(accepted, c)
    BY <1>5
  <2> QED BY <1>1, <1>2, <1>3, <2>1, <2>2, RangeAppend
<1>7. /\ table' \in [Fd -> Clients \cup {None}] /\ table'[f] = c
      /\ \A g \in Fd \ {f} : table'[g] = table[g]
  BY <1>2, <1>4, <1>5 DEF IInv, Types
<1>8. /\ pc' \in [Clients -> {"off", "start", "poll", "stdin", "socket", "check", "close", "done",
                            "failed"}]
      /\ pc'[c] \in {"start", "failed"} /\ \A t \in Clients \ {c} : pc'[t] = pc[t]
  <2>1. PICK s \in {"start", "failed"} : pc' = [pc EXCEPT ![c] = s]
    BY <1>5
  <2> QED BY <1>2, <2>1 DEF IInv, Types
<1>9. Types'
  BY <1>2, <1>4, <1>5, <1>6, <1>7, <1>8 DEF IInv, Types
<1>10. Queue'
  <2>1. Distinct(backlog') /\ Distinct(accepted') /\ Range(backlog') \cap Range(accepted') = {}
    BY <1>2, <1>5, <1>6 DEF IInv, Queue
  <2>2. \A d \in Clients : pc'[d] = "off" <=> d \notin Range(accepted')
    BY <1>6, <1>8 DEF IInv, Queue
  <2>3. rev[Main] = {}
    BY <1>5 DEF IInv, Queue
  <2> QED BY <1>5, <2>1, <2>2, <2>3 DEF Queue
<1>11. Table'
  <2>1. \A g \in Fd : table'[g] # None => table'[g] \in Range(accepted')
    BY <1>6, <1>7 DEF IInv, Table
  <2>2. \A g \in Fd \ {f} : table'[g] # c
    BY <1>3, <1>7 DEF IInv, Table
  <2>3. \A g, h \in Fd : table'[g] = table'[h] /\ table'[g] # None => g = h
    BY <1>4, <1>7, <2>2 DEF IInv, Table
  <2>4. l_sock_client' \in Fd /\ table'[l_sock_client'] \in {None, Last(accepted')}
    BY <1>4, <1>5, <1>6, <1>7
  <2> QED BY <2>1, <2>3, <2>4 DEF Table
<1>12. HandOver'
  <2> SUFFICES ASSUME ~overtaken'
               PROVE  /\ \A t \in Running' : sockfd'[t] \in Fd /\ table'[sockfd'[t]] = t
                      /\ \A g \in Fd : table'[g] # None =>
                           table'[g] \in Running' \/ pc'[table'[g]] \in {"start", "failed"}
                      /\ \A t \in Clients : pc'[t] = "start" =>
                           l_sock_client' \in Fd /\ table'[l_sock_client'] = t
                      /\ exited' # "close failed"
    BY DEF HandOver
  <2>1. ~overtaken /\ \A t \in Clients : pc[t] # "start"
    BY <1>5
  <2>2. Running' = Running
    BY <1>3, <1>8 DEF Running
  <2>3. /\ \A t \in Running : sockfd[t] \in Fd /\ table[sockfd[t]] = t
        /\ \A g \in Fd : table[g] # None => table[g] \in Running \/ pc[table[g]] \in {"start", "failed"}
    BY <2>1 DEF IInv, HandOver
  <2>4. \A t \in Running : sockfd'[t] \in Fd /\ table'[sockfd'[t]] = t
    <3>1. \A t \in Running : t # None
      BY Names
    <3> QED BY <1>4, <1>5, <1>7, <2>3, <3>1
  <2>5. \A g \in Fd : table[g] # None => table[g] \in Running \/ pc'[table[g]] = "failed"
    <3>1. \A g \in Fd : table[g] # None => table[g] \in Clients
      BY DEF IInv, Types
    <3> QED BY <1>3, <1>8, <2>1, <2>3, <3>1
  <2>6. \A g \in Fd : table'[g] # None => table'[g] \in Running' \/ pc'[table'[g]] \in {"start", "failed"}
    BY <1>7, <1>8, <2>2, <2>5
  <2>7. \A t \in Clients : pc'[t] = "start" => l_sock_client' \in Fd /\ table'[l_sock_client'] = t
    BY <1>4, <1>5, <1>7, <1>8, <2>1
  <2> QED BY <1>5, <2>2, <2>3, <2>4, <2>6, <2>7
<1> QED BY <1>9, <1>10, <1>11, <1>12 DEF IInv

\* A thread copies what the variable holds by now.
LEMMA StartKeeps ==
  ASSUME IInv, NEW t \in Clients, Start(t)
  PROVE  IInv'
<1>1. /\ pc[t] = "start" /\ pc' = [pc EXCEPT ![t] = "poll"]
      /\ sockfd' = [sockfd EXCEPT ![t] = l_sock_client]
      /\ backlog' = backlog /\ accepted' = accepted /\ table' = table
      /\ l_sock_client' = l_sock_client /\ overtaken' = overtaken /\ main' = main
      /\ rev' = rev /\ exited' = exited
  BY DEF Start, network, descriptors
<1>2. /\ pc'[t] = "poll" /\ sockfd'[t] = l_sock_client
      /\ \A u \in Clients \ {t} : pc'[u] = pc[u] /\ sockfd'[u] = sockfd[u]
  BY <1>1 DEF IInv, Types
<1>3. Types'
  BY <1>1 DEF IInv, Types
<1>4. Queue'
  BY <1>1, <1>2 DEF IInv, Queue
<1>5. Table'
  BY <1>1 DEF IInv, Table
<1>6. HandOver'
  <2> SUFFICES ASSUME ~overtaken'
               PROVE  /\ \A u \in Running' : sockfd'[u] \in Fd /\ table'[sockfd'[u]] = u
                      /\ \A g \in Fd : table'[g] # None =>
                           table'[g] \in Running' \/ pc'[table'[g]] \in {"start", "failed"}
                      /\ \A u \in Clients : pc'[u] = "start" =>
                           l_sock_client' \in Fd /\ table'[l_sock_client'] = u
                      /\ exited' # "close failed"
    BY DEF HandOver
  <2>1. /\ \A u \in Running : sockfd[u] \in Fd /\ table[sockfd[u]] = u
        /\ \A g \in Fd : table[g] # None => table[g] \in Running \/ pc[table[g]] \in {"start", "failed"}
        /\ \A u \in Clients : pc[u] = "start" => l_sock_client \in Fd /\ table[l_sock_client] = u
        /\ exited # "close failed"
    BY <1>1 DEF IInv, HandOver
  <2>2. Running' = Running \cup {t} /\ t \notin Running
    BY <1>1, <1>2 DEF Running
  <2>3. l_sock_client \in Fd /\ table[l_sock_client] = t
    BY <1>1, <2>1
  <2>4. \A u \in Running' : sockfd'[u] \in Fd /\ table'[sockfd'[u]] = u
    <3>1. \A u \in Running : u \in Clients \ {t}
      BY <2>2 DEF Running
    <3> QED BY <1>1, <1>2, <2>1, <2>2, <2>3, <3>1
  <2>5. \A g \in Fd : table'[g] # None => table'[g] \in Running' \/ pc'[table'[g]] \in {"start", "failed"}
    <3>1. \A g \in Fd : table[g] # None => table[g] \in Clients
      BY DEF IInv, Types
    <3> QED BY <1>1, <1>2, <2>1, <2>2, <3>1
  <2>6. \A u \in Clients : pc'[u] = "start" => l_sock_client' \in Fd /\ table'[l_sock_client'] = u
    <3>1. \A u \in Clients : pc'[u] = "start" => pc[u] = "start"
      BY <1>1, <1>2
    <3> QED BY <1>1, <2>1, <3>1
  <2> QED BY <1>1, <2>1, <2>4, <2>5, <2>6
<1> QED BY <1>3, <1>4, <1>5, <1>6 DEF IInv

\* A thread goes from one statement of its loop to another.
LEMMA LoopKeeps ==
  ASSUME IInv, NEW t \in Clients, pc[t] \in RunningPc,
         NEW s \in RunningPc, pc' = [pc EXCEPT ![t] = s],
         rev' = rev \/ \E r \in SUBSET {"socket"} : rev' = [rev EXCEPT ![t] = r],
         exited' # "close failed",
         UNCHANGED <<backlog, accepted, table, l_sock_client, overtaken, main, sockfd>>
  PROVE  IInv'
<1>1. pc'[t] = s /\ \A u \in Clients \ {t} : pc'[u] = pc[u]
  BY DEF IInv, Types
<1>2. rev' \in [Clients \cup {Main} -> SUBSET {"socket"}] /\ rev'[Main] = rev[Main]
  <2>1. rev \in [Clients \cup {Main} -> SUBSET {"socket"}] /\ t # Main
    BY Names DEF IInv, Types
  <2>2. CASE rev' = rev
    BY <2>1, <2>2
  <2>3. ASSUME NEW r \in SUBSET {"socket"}, rev' = [rev EXCEPT ![t] = r]
        PROVE  rev' \in [Clients \cup {Main} -> SUBSET {"socket"}] /\ rev'[Main] = rev[Main]
    BY <2>1, <2>3
  <2> QED BY <2>2, <2>3
<1>3. Running' = Running
  BY <1>1 DEF Running, RunningPc
<1>4. \A u \in Clients : /\ pc'[u] = "off" <=> pc[u] = "off"
                         /\ pc'[u] = "start" <=> pc[u] = "start"
                         /\ pc'[u] = "failed" <=> pc[u] = "failed"
  BY <1>1 DEF RunningPc
<1>5. Types'
  BY <1>1, <1>2 DEF IInv, Types, RunningPc
<1>6. Queue'
  BY <1>2, <1>4 DEF IInv, Queue
<1>7. Table'
  BY DEF IInv, Table
<1>8. HandOver'
  <2>1. \A f \in Fd : table[f] # None => table[f] \in Clients
    BY DEF IInv, Types
  <2> QED BY <1>3, <1>4, <2>1 DEF IInv, HandOver
<1> QED BY <1>5, <1>6, <1>7, <1>8 DEF IInv

\* Its steps are of this kind but for the first and the last.
LEMMA LoopSteps ==
  ASSUME IInv, NEW t \in Clients,
         Poll(t) \/ ReadStdin(t) \/ Judge(t) \/ JudgeError(t) \/ Leave(t) \/ CheckQuit(t)
  PROVE  IInv'
<1>1. UNCHANGED <<backlog, accepted, table, l_sock_client, overtaken, main, sockfd>>
  BY DEF Poll, ReadStdin, Judge, JudgeError, Leave, CheckQuit, network, descriptors
<1>2. exited' # "close failed"
  BY DEF Poll, ReadStdin, Judge, JudgeError, Leave, CheckQuit, Write
<1>3. rev' = rev \/ \E r \in SUBSET {"socket"} : rev' = [rev EXCEPT ![t] = r]
  BY DEF Poll, ReadStdin, Judge, JudgeError, Leave, CheckQuit
<1>4. pc[t] \in RunningPc /\ \E s \in RunningPc : pc' = [pc EXCEPT ![t] = s]
  BY DEF Poll, ReadStdin, Judge, JudgeError, Leave, CheckQuit, RunningPc
<1>5. PICK s \in RunningPc : pc' = [pc EXCEPT ![t] = s]
  BY <1>4
<1> QED BY <1>1, <1>2, <1>3, <1>4, <1>5, LoopKeeps

\* A thread that closes its descriptor closes its own, as long as none was
\* overtaken.
LEMMA CloseKeeps ==
  ASSUME IInv, NEW t \in Clients, Close(t)
  PROVE  IInv'
<1>1. /\ pc[t] = "close" /\ pc' = [pc EXCEPT ![t] = "done"]
      /\ table' = [table EXCEPT ![sockfd[t]] = None]
      /\ exited' = IF table[sockfd[t]] = None THEN "close failed" ELSE "no"
      /\ backlog' = backlog /\ accepted' = accepted /\ l_sock_client' = l_sock_client
      /\ overtaken' = overtaken /\ main' = main /\ rev' = rev /\ sockfd' = sockfd
  BY DEF Close, network
<1>2. /\ pc'[t] = "done" /\ \A u \in Clients \ {t} : pc'[u] = pc[u]
      /\ \A f \in Fd : table'[f] = IF f = sockfd[t] THEN None ELSE table[f]
  BY <1>1 DEF IInv, Types
<1>3. Types'
  BY <1>1 DEF IInv, Types
<1>4. Queue'
  BY <1>1, <1>2 DEF IInv, Queue
<1>5. Table'
  <2>1. \A f \in Fd : table'[f] # None => table'[f] = table[f]
    BY <1>2
  <2>2. \A f \in Fd : table'[f] # None => table'[f] \in Range(accepted')
    BY <1>1, <2>1 DEF IInv, Table
  <2>3. \A f, g \in Fd : table'[f] = table'[g] /\ table'[f] # None => f = g
    BY <2>1 DEF IInv, Table
  <2>4. accepted' # <<>> =>
          l_sock_client' \in Fd /\ table'[l_sock_client'] \in {None, Last(accepted')}
    BY <1>1, <1>2 DEF IInv, Table
  <2> QED BY <2>2, <2>3, <2>4 DEF Table
<1>6. HandOver'
  <2> SUFFICES ASSUME ~overtaken'
               PROVE  /\ \A u \in Running' : sockfd'[u] \in Fd /\ table'[sockfd'[u]] = u
                      /\ \A g \in Fd : table'[g] # None =>
                           table'[g] \in Running' \/ pc'[table'[g]] \in {"start", "failed"}
                      /\ \A u \in Clients : pc'[u] = "start" =>
                           l_sock_client' \in Fd /\ table'[l_sock_client'] = u
                      /\ exited' # "close failed"
    BY DEF HandOver
  <2>1. /\ \A u \in Running : sockfd[u] \in Fd /\ table[sockfd[u]] = u
        /\ \A g \in Fd : table[g] # None => table[g] \in Running \/ pc[table[g]] \in {"start", "failed"}
        /\ \A u \in Clients : pc[u] = "start" => l_sock_client \in Fd /\ table[l_sock_client] = u
    BY <1>1 DEF IInv, HandOver
  <2>2. t \in Running /\ Running' = Running \ {t} /\ t # None
    BY <1>1, <1>2, Names DEF Running
  <2>3. table[sockfd[t]] = t /\ sockfd[t] \in Fd
    BY <2>1, <2>2
  <2>4. \A u \in Running' : sockfd'[u] \in Fd /\ table'[sockfd'[u]] = u
    BY <1>1, <1>2, <2>1, <2>2, <2>3
  <2>5. \A g \in Fd : table'[g] # None => table[g] # t /\ table'[g] = table[g]
    BY <1>2, <2>2, <2>3 DEF IInv, Table
  <2>6. \A g \in Fd : table'[g] # None => table'[g] \in Running' \/ pc'[table'[g]] \in {"start", "failed"}
    <3>1. \A g \in Fd : table[g] # None => table[g] \in Clients
      BY DEF IInv, Types
    <3> QED BY <1>2, <2>1, <2>2, <2>5, <3>1
  <2>7. \A u \in Clients : pc'[u] = "start" => l_sock_client' \in Fd /\ table'[l_sock_client'] = u
    <3> SUFFICES ASSUME NEW u \in Clients, pc'[u] = "start"
                 PROVE  l_sock_client \in Fd /\ table'[l_sock_client] = u
      BY <1>1
    <3>1. u # t /\ pc[u] = "start"
      BY <1>2
    <3>2. l_sock_client \in Fd /\ table[l_sock_client] = u
      BY <2>1, <3>1
    <3> QED BY <1>2, <2>3, <3>1, <3>2
  <2>8. exited' # "close failed"
    BY <1>1, <2>2, <2>3
  <2> QED BY <2>4, <2>6, <2>7, <2>8
<1> QED BY <1>3, <1>4, <1>5, <1>6 DEF IInv

\* Nobody is there yet.
LEMMA Initially ==
  ASSUME Init
  PROVE  IInv
<1>1. Types
  <2>1. <<>> \in Seq(Clients)
    OBVIOUS
  <2> QED BY <2>1 DEF Init, Types
<1>2. Queue
  BY Names DEF Init, Queue, Distinct, Range
<1>3. Table
  BY DEF Init, Table
<1>4. HandOver
  BY DEF Init, HandOver, Running
<1> QED BY <1>1, <1>2, <1>3, <1>4 DEF IInv

\* Every step keeps the invariant.
LEMMA Inductive ==
  ASSUME IInv, [Next]_vars
  PROVE  IInv'
<1>1. ASSUME NEW line \in {"quit", "text"}, Type(line) PROVE IInv'
  BY <1>1, IdleKeeps DEF Type, network, descriptors, threads
<1>2. ASSUME NEW c \in Clients, Connect(c) \/ ClientClose(c) PROVE IInv'
  BY <1>2, ConnectKeeps, IdleKeeps DEF ClientClose, network, descriptors, threads
<1>3. ASSUME NEW c \in Clients, NEW m \in {"numbers", "close"}, ClientSend(c, m) PROVE IInv'
  BY <1>3, IdleKeeps DEF ClientSend, descriptors, threads
<1>4. CASE MainPoll \/ MainReadStdin \/ Accept
  BY <1>4, MainKeeps, AcceptKeeps
<1>5. ASSUME NEW t \in Clients, Thread(t) PROVE IInv'
  BY <1>5, StartKeeps, LoopSteps, CloseKeeps DEF Thread
<1>6. CASE UNCHANGED vars
  BY <1>6, IdleKeeps DEF vars, network, descriptors, threads
<1> QED BY <1>1, <1>2, <1>3, <1>4, <1>5, <1>6 DEF Next

\* The inductive invariant holds of every behaviour.
THEOREM Invariance == Spec => []IInv
<1>1. Init => IInv
  BY Initially
<1>2. IInv /\ [Next]_vars => IInv'
  BY Inductive
<1> QED BY <1>1, <1>2, PTL DEF Spec

-----------------------------------------------------------------------------
(* What follows from it.                                                   *)

\* As long as no accept has overtaken a thread every thread serves its own
\* client alone, no close fails, and an open descriptor without a thread is that
\* of a client for whom none could be created (socket_srv_thread.cpp:219).
THEOREM OwnClient == Spec => []OneThreadPerClient
<1>1. IInv => OneThreadPerClient
  BY DEF IInv, HandOver, OneThreadPerClient
<1> QED BY <1>1, Invariance, PTL

\* The place of a client in the order of the accepts is where it stands there.
LEMMA PlaceIs ==
  ASSUME accepted \in Seq(Clients), Distinct(accepted), NEW c \in Range(accepted)
  PROVE  /\ Place(c) \in 1 .. Len(accepted) /\ accepted[Place(c)] = c
         /\ \A k \in 1 .. Len(accepted) : accepted[k] = c => Place(c) = k
<1>1. DOMAIN accepted = 1 .. Len(accepted)
  BY LenProperties
<1>2. \E k \in DOMAIN accepted : accepted[k] = c
  BY DEF Range
<1>3. Place(c) \in DOMAIN accepted /\ accepted[Place(c)] = c
  BY <1>2 DEF Place
<1> QED BY <1>1, <1>3 DEF Distinct

\* Overtaken or not, a thread never gets the descriptor of a client older than
\* its own.
THEOREM Order == Spec => ServesNoOlder
<1>1. ASSUME IInv, [Next]_vars, NEW t \in Clients,
             pc[t] = "start", pc'[t] = "poll", table[sockfd'[t]] # None
      PROVE  Place(table[sockfd'[t]]) >= Place(t)
  <2>1. t \in Range(accepted) /\ accepted \in Seq(Clients) /\ Distinct(accepted)
    BY <1>1 DEF IInv, Types, Queue
  <2>2. accepted # <<>> /\ Len(accepted) \in Nat /\ Len(accepted) \in 1 .. Len(accepted)
    <3>1. DOMAIN accepted = 1 .. Len(accepted) /\ Len(accepted) \in Nat
      BY <2>1, LenProperties
    <3> QED BY <2>1, <3>1, EmptySeq DEF Range
  <2>3. sockfd'[t] = l_sock_client
    <3>1. ASSUME NEW u \in Clients, Thread(u) PROVE sockfd'[t] = l_sock_client
      <4>1. pc'[t] # pc[t]
        BY <1>1
      <4>2. u = t
        <5>1. pc \in [Clients -> {"off", "start", "poll", "stdin", "socket", "check", "close", "done",
                                "failed"}]
          BY <1>1 DEF IInv, Types
        <5>2. \E s \in {"poll", "stdin", "socket", "check", "close", "done"} :
                pc' = [pc EXCEPT ![u] = s]
          BY <3>1 DEF Thread, Start, Poll, ReadStdin, Judge, JudgeError, Leave, CheckQuit, Close
        <5> QED BY <4>1, <5>1, <5>2
      <4>3. Start(t)
        BY <1>1, <3>1, <4>2 DEF Thread, Poll, ReadStdin, Judge, JudgeError, Leave, CheckQuit, Close
      <4> QED BY <1>1, <4>3 DEF IInv, Types, Start
    <3>2. ASSUME Accept PROVE pc'[t] # "poll"
      BY <1>1, <3>2 DEF IInv, Types, Accept, AcceptWith
    <3> QED BY <1>1, <3>1, <3>2
         DEF Next, Type, Connect, ClientClose, ClientSend, MainPoll, MainReadStdin, vars, threads
  <2>4. table[l_sock_client] = Last(accepted)
    BY <1>1, <2>2, <2>3 DEF IInv, Table
  <2>5. Last(accepted) \in Range(accepted) /\ Place(Last(accepted)) = Len(accepted)
    <3>1. Last(accepted) = accepted[Len(accepted)] /\ DOMAIN accepted = 1 .. Len(accepted)
      BY <2>1, LenProperties DEF Last
    <3>2. Last(accepted) \in Range(accepted)
      BY <2>2, <3>1 DEF Range
    <3> QED BY <2>1, <2>2, <3>1, <3>2, PlaceIs
  <2>6. Place(t) \in 1 .. Len(accepted)
    BY <2>1, PlaceIs
  <2> QED BY <2>2, <2>3, <2>4, <2>5, <2>6
<1>2. IInv /\ [Next]_vars =>
        [\A t \in Clients :
           pc[t] = "start" /\ pc'[t] = "poll" /\ table[sockfd'[t]] # None
             => Place(table[sockfd'[t]]) >= Place(t)]_vars
  BY <1>1
<1> QED BY <1>2, Invariance, PTL DEF Spec, ServesNoOlder

-----------------------------------------------------------------------------
(* The multiplexing server.                                                *)

MplexTypes ==
  /\ backlog \in Seq(Clients) /\ clients \in Seq(Clients)
  /\ met \subseteq Clients
  /\ input \in [Clients -> {"none", "numbers", "close", "prefix"}]
  /\ end \in [Clients -> Ends]
  /\ turn \in {"poll", "stdin", "listen", "scan"}

\* A user connects once, waits and is then in the vector, and the server
\* accepts only when somebody waits.
MplexQueue ==
  /\ Distinct(backlog) /\ Distinct(clients)
  /\ Range(backlog) \cap Range(clients) = {}
  /\ Range(backlog) \cup Range(clients) \subseteq met
  /\ turn \in {"stdin", "listen"} /\ "listen" \in rev => backlog # <<>>

\* A mark lasts for one turn, and tells the truth but for the newest entry.
Marks ==
  /\ turn \in {"stdin", "listen"} =>
       \A u \in Clients : u \in rev => u \in Range(clients) /\ mplex!Readable(u)
  /\ turn = "scan" =>
       \A u \in Clients : u \in rev =>
         \/ mplex!Readable(u)
         \/ "listen" \in rev /\ clients # <<>> /\ u = Last(clients)

\* The word in l_buf is that of a user whose connection has been closed for it.
WordOfOneGone == stale => \E v \in Clients : mplex!Gone(v)

MplexInv == MplexTypes /\ MplexQueue /\ Marks /\ WordOfOneGone

\* The operators of the instance are those of this module.
LEMMA SameOperators ==
  /\ \A s : mplex!Range(s) = Range(s) /\ mplex!Last(s) = Last(s)
  /\ \A S : mplex!Min(S) = Min(S)
  /\ mplex!Ends = Ends /\ mplex!Departures = Departures
BY DEF mplex!Range, Range, mplex!Last, Last, mplex!Min, Min, mplex!Ends, Ends,
       mplex!Departures, Departures

\* Who has gone does not come back.
LEMMA WordStays ==
  ASSUME MplexInv, stale' => stale, met \subseteq met',
         \A v \in met : v \in Range(clients') \cup Range(backlog') =>
                       v \in Range(clients) \cup Range(backlog)
  PROVE  WordOfOneGone'
<1> SUFFICES ASSUME stale' PROVE \E v \in Clients : mplex!Gone(v)'
  BY DEF WordOfOneGone
<1>1. PICK v \in Clients : mplex!Gone(v)
  BY DEF MplexInv, WordOfOneGone
<1> QED BY <1>1, SameOperators DEF mplex!Gone

\* What the invariant reads does not change.
LEMMA MplexIdleKeeps ==
  ASSUME MplexInv, UNCHANGED <<backlog, met, input, end, clients, rev, turn, stale>>
  PROVE  MplexInv'
<1>1. \A u : mplex!Readable(u)' <=> mplex!Readable(u)
  BY DEF mplex!Readable
<1>2. MplexTypes' /\ MplexQueue'
  BY DEF MplexInv, MplexTypes, MplexQueue
<1>3. Marks'
  BY <1>1 DEF MplexInv, Marks
<1> QED BY <1>2, <1>3, WordStays DEF MplexInv

\* A user that connects waits, and did not before.
LEMMA MplexConnectKeeps ==
  ASSUME MplexInv, NEW c \in Clients, mplex!Connect(c)
  PROVE  MplexInv'
<1>1. /\ backlog' = Append(backlog, c) /\ c \notin met /\ met' = met \cup {c}
      /\ input' = input /\ end' = end /\ clients' = clients /\ rev' = rev /\ turn' = turn
      /\ stale' = stale
  BY DEF mplex!Connect
<1>2. backlog \in Seq(Clients) /\ backlog' \in Seq(Clients) /\ backlog' # <<>>
  BY <1>1, AppendProperties DEF MplexInv, MplexTypes
<1>3. c \notin Range(backlog) /\ c \notin Range(clients)
  BY <1>1 DEF MplexInv, MplexQueue
<1>4. Range(backlog') = Range(backlog) \cup {c} /\ (Distinct(backlog) => Distinct(backlog'))
  BY <1>1, <1>2, <1>3, RangeAppend
<1>5. MplexTypes'
  BY <1>1, <1>2 DEF MplexInv, MplexTypes
<1>6. MplexQueue'
  <2>1. Distinct(clients')
    BY <1>1 DEF MplexInv, MplexQueue
  <2> QED BY <1>1, <1>2, <1>3, <1>4, <2>1 DEF MplexInv, MplexQueue
<1>7. \A u : mplex!Readable(u)' <=> mplex!Readable(u)
  BY <1>1 DEF mplex!Readable
<1>8. Marks'
  BY <1>1, <1>7 DEF MplexInv, Marks
<1>9. WordOfOneGone'
  BY <1>1, <1>3, <1>4, WordStays
<1> QED BY <1>5, <1>6, <1>8, <1>9 DEF MplexInv

\* A user that sends or leaves stays readable: nobody but the server takes
\* what it has sent.
LEMMA MplexUserKeeps ==
  ASSUME MplexInv, NEW c \in Clients,
         mplex!UserClose(c) \/ \E m \in {"numbers", "close", "prefix"} : mplex!UserSend(c, m)
  PROVE  MplexInv'
<1>1. /\ backlog' = backlog /\ met' = met /\ clients' = clients /\ rev' = rev /\ turn' = turn
      /\ stale' = stale
  BY DEF mplex!UserClose, mplex!UserSend, mplex!world
<1>2. /\ input' \in [Clients -> {"none", "numbers", "close", "prefix"}] /\ end' \in [Clients -> Ends]
      /\ \A u \in Clients : mplex!Readable(u) => mplex!Readable(u)'
  <2>1. CASE mplex!UserClose(c)
    <3>1. PICK e \in {"closed", "reset"} : end' = [end EXCEPT ![c] = e]
      BY <2>1 DEF mplex!UserClose, mplex!Departures
    <3>2. input' = input
      BY <2>1 DEF mplex!UserClose, mplex!world
    <3> QED BY <3>1, <3>2 DEF MplexInv, MplexTypes, mplex!Readable, Ends
  <2>2. ASSUME NEW m \in {"numbers", "close", "prefix"}, mplex!UserSend(c, m)
        PROVE  /\ input' \in [Clients -> {"none", "numbers", "close", "prefix"}] /\ end' \in [Clients -> Ends]
               /\ \A u \in Clients : mplex!Readable(u) => mplex!Readable(u)'
    <3>1. input' = [input EXCEPT ![c] = m] /\ end' = end
      BY <2>2 DEF mplex!UserSend
    <3> QED BY <3>1 DEF MplexInv, MplexTypes, mplex!Readable
  <2> QED BY <2>1, <2>2
<1>3. MplexTypes' /\ MplexQueue'
  BY <1>1, <1>2 DEF MplexInv, MplexTypes, MplexQueue
<1>4. Marks'
  BY <1>1, <1>2 DEF MplexInv, Marks
<1>5. WordOfOneGone'
  BY <1>1, WordStays
<1> QED BY <1>3, <1>4, <1>5 DEF MplexInv

\* poll marks what is ready and nothing else.
LEMMA MplexPollKeeps ==
  ASSUME MplexInv, mplex!Poll
  PROVE  MplexInv'
<1>1. /\ rev' = {u \in Range(clients) : mplex!Readable(u)}
                  \cup (IF stdin # <<>> THEN {"stdin"} ELSE {})
                  \cup (IF backlog # <<>> THEN {"listen"} ELSE {})
      /\ turn' = "stdin"
      /\ backlog' = backlog /\ met' = met /\ input' = input /\ end' = end /\ clients' = clients
      /\ stale' = stale
  BY SameOperators DEF mplex!Poll, mplex!world
<1>2. \A u \in Clients : u \in rev' => u \in Range(clients) /\ mplex!Readable(u)
  BY <1>1, ServersAssumption
<1>3. "listen" \in rev' => backlog # <<>>
  <2>1. Range(clients) \subseteq Clients
    BY DEF MplexInv, MplexTypes, Range
  <2> QED BY <1>1, <2>1, ServersAssumption
<1>4. \A u : mplex!Readable(u)' <=> mplex!Readable(u)
  BY <1>1 DEF mplex!Readable
<1>5. MplexTypes' /\ MplexQueue'
  BY <1>1, <1>3 DEF MplexInv, MplexTypes, MplexQueue
<1>6. Marks'
  BY <1>1, <1>2, <1>4 DEF Marks
<1>7. WordOfOneGone'
  BY <1>1, WordStays
<1> QED BY <1>5, <1>6, <1>7 DEF MplexInv

\* The console takes none of the marks back.
LEMMA MplexConsoleKeeps ==
  ASSUME MplexInv, mplex!Console
  PROVE  MplexInv'
<1>1. /\ turn = "stdin" /\ turn' = "listen"
      /\ backlog' = backlog /\ met' = met /\ input' = input /\ end' = end /\ clients' = clients
      /\ rev' = rev /\ stale' = stale
  BY DEF mplex!Console
<1>2. \A u : mplex!Readable(u)' <=> mplex!Readable(u)
  BY <1>1 DEF mplex!Readable
<1>3. MplexTypes' /\ MplexQueue'
  BY <1>1 DEF MplexInv, MplexTypes, MplexQueue
<1>4. Marks'
  BY <1>1, <1>2 DEF MplexInv, Marks
<1>5. WordOfOneGone'
  BY <1>1, WordStays
<1> QED BY <1>3, <1>4, <1>5 DEF MplexInv

\* The new entry is the last of the vector, and the only one whose mark may be
\* wrong.
LEMMA MplexAcceptKeeps ==
  ASSUME MplexInv, mplex!Accept
  PROVE  MplexInv'
<1>1. /\ turn = "listen" /\ turn' = "scan"
      /\ met' = met /\ input' = input /\ end' = end /\ stale' = stale
  BY DEF mplex!Accept
<1>2. \A u : mplex!Readable(u)' <=> mplex!Readable(u)
  BY <1>1 DEF mplex!Readable
<1>3. CASE "listen" \notin rev
  <2>1. clients' = clients /\ backlog' = backlog /\ rev' = rev
    BY <1>3 DEF mplex!Accept
  <2>2. MplexTypes' /\ MplexQueue'
    BY <1>1, <2>1 DEF MplexInv, MplexTypes, MplexQueue
  <2>3. Marks'
    BY <1>1, <1>2, <2>1 DEF MplexInv, Marks
  <2>4. WordOfOneGone'
    BY <1>1, <2>1, WordStays
  <2> QED BY <2>2, <2>3, <2>4 DEF MplexInv
<1>4. CASE "listen" \in rev
  <2> DEFINE c == Head(backlog)
  <2>1. /\ clients' = Append(clients, c) /\ backlog' = Tail(backlog)
        /\ rev' = rev \/ rev' = rev \cup {c}
    BY <1>4 DEF mplex!Accept
  <2>2. backlog \in Seq(Clients) /\ backlog # <<>> /\ clients \in Seq(Clients)
    BY <1>1, <1>4 DEF MplexInv, MplexTypes, MplexQueue
  <2>3. /\ c \in Clients /\ c \in Range(backlog) /\ backlog' \in Seq(Clients)
        /\ Distinct(backlog) => Distinct(backlog') /\ Range(backlog') = Range(backlog) \ {c}
    BY <2>1, <2>2, RangeTail
  <2>4. c \notin Range(clients)
    BY <2>3 DEF MplexInv, MplexQueue
  <2>5. /\ Range(clients') = Range(clients) \cup {c}
        /\ Distinct(clients) => Distinct(clients')
    BY <2>1, <2>2, <2>3, <2>4, RangeAppend
  <2>6. clients' \in Seq(Clients) /\ clients' # <<>> /\ Last(clients') = c
    BY <2>1, <2>2, <2>3, AppendProperties DEF Last
  <2>7. "listen" \in rev'
    BY <1>4, <2>1
  <2> HIDE DEF c
  <2>8. MplexTypes'
    BY <1>1, <2>3, <2>6 DEF MplexInv, MplexTypes
  <2>9. MplexQueue'
    BY <1>1, <2>3, <2>5 DEF MplexInv, MplexQueue
  <2>10. ASSUME NEW u \in Clients, u \in rev'
         PROVE  mplex!Readable(u) \/ u = c
    BY <1>1, <2>1, <2>10 DEF MplexInv, Marks
  <2>11. Marks'
    BY <1>1, <1>2, <2>6, <2>7, <2>10 DEF Marks
  <2>12. Range(clients') \cup Range(backlog') = Range(clients) \cup Range(backlog)
    BY <2>3, <2>5 DEF MplexInv, MplexQueue
  <2>13. WordOfOneGone'
    BY <1>1, <2>12, WordStays
  <2> QED BY <2>8, <2>9, <2>11, <2>13 DEF MplexInv
<1> QED BY <1>3, <1>4

\* The served entry is one that is marked, and what is erased is that entry.
LEMMA ServedIsMarked ==
  ASSUME MplexInv, NEW u \in Clients, mplex!Serve(u)
  PROVE  /\ u \in Range(clients) /\ u \in rev /\ turn = "scan" /\ turn' = "poll"
         /\ backlog' = backlog /\ met' = met
         /\ mplex!Erased \in Seq(Clients)
         /\ Range(clients) \ {u} \subseteq Range(mplex!Erased)
         /\ Range(mplex!Erased) \subseteq Range(clients) \ {u}
         /\ Distinct(mplex!Erased)
<1> DEFINE n == Min(mplex!Marked)
<1>1. /\ mplex!Marked # {} /\ u = clients[n] /\ turn = "scan" /\ turn' = "poll"
      /\ backlog' = backlog /\ met' = met
  BY SameOperators DEF mplex!Serve
<1>2. clients \in Seq(Clients) /\ DOMAIN clients = 1 .. Len(clients) /\ Distinct(clients)
  BY LenProperties DEF MplexInv, MplexTypes, MplexQueue
<1>3. mplex!Marked \in SUBSET Nat /\ mplex!Marked \subseteq 1 .. Len(clients)
  BY <1>2 DEF mplex!Marked
<1>4. n \in mplex!Marked
  BY <1>1, <1>3, LeastIsIn
<1>5. n \in 1 .. Len(clients) /\ clients[n] \in rev
  BY <1>3, <1>4 DEF mplex!Marked
<1>6. mplex!Erased = SubSeq(clients, 1, n - 1) \o SubSeq(clients, n + 1, Len(clients))
  BY SameOperators DEF mplex!Erased, mplex!RemoveAt
<1> HIDE DEF n
<1>7. /\ mplex!Erased \in Seq(Clients) /\ Len(mplex!Erased) = Len(clients) - 1
      /\ \A k \in 1 .. Len(mplex!Erased) :
           mplex!Erased[k] = IF k < n THEN clients[k] ELSE clients[k + 1]
  BY ONLY <1>2, <1>5, <1>6, CutIs
<1>8. /\ Range(clients) \ {clients[n]} \subseteq Range(mplex!Erased)
      /\ Range(mplex!Erased) = Range(clients) \ {clients[n]}
      /\ Distinct(mplex!Erased)
  BY ONLY <1>2, <1>5, <1>7, RangeCut
<1>9. u \in Range(clients)
  BY <1>1, <1>2, <1>5 DEF Range
<1> QED BY <1>1, <1>5, <1>7, <1>8, <1>9

\* What a step that serves u may do to the vector and to u's connection.
LEMMA ServeEffect ==
  ASSUME MplexInv, NEW u \in Clients,
         mplex!Judge(u) \/ mplex!CloseRequest(u) \/ mplex!EndOfInput(u) \/ mplex!ReadFails(u)
  PROVE  /\ mplex!Serve(u)
         /\ \/ clients' = clients /\ (stale' => stale)
            \/ /\ clients' = mplex!Erased
               /\ \/ input[u] = "close" \/ end[u] # "open"
                  \/ input[u] = "prefix" /\ stale
         /\ input' \in [Clients -> {"none", "numbers", "close", "prefix"}] /\ end' \in [Clients -> Ends]
<1>0. input \in [Clients -> {"none", "numbers", "close", "prefix"}] /\ end \in [Clients -> Ends]
  BY DEF MplexInv, MplexTypes
<1>1. CASE mplex!Judge(u)
  <2>1. /\ mplex!Serve(u) /\ clients' = clients /\ input' = [input EXCEPT ![u] = "none"]
        /\ ~ stale'
        /\ \E e \in mplex!Written(end[u]) : end' = [end EXCEPT ![u] = e]
    BY <1>1 DEF mplex!Judge
  <2>2. end[u] \in {"open", "closed", "reset", "broken"}
    BY <1>0 DEF Ends
  <2>3. mplex!Written(end[u]) \subseteq Ends
    BY <2>2 DEF mplex!Written, Ends
  <2> QED BY <1>0, <2>1, <2>3
<1>2. CASE mplex!CloseRequest(u)
  BY <1>0, <1>2 DEF mplex!CloseRequest, mplex!ReadsClose
<1>3. CASE mplex!EndOfInput(u)
  <2>1. end[u] # "open" /\ mplex!Serve(u) /\ clients' = mplex!Erased /\ input' = input /\ end' = end
    BY <1>3 DEF mplex!EndOfInput, mplex!EndOfInputAt
  <2> QED BY <1>0, <2>1
<1>4. CASE mplex!ReadFails(u)
  <2>1. /\ end[u] # "open" /\ mplex!Serve(u) /\ input' = input /\ end' = [end EXCEPT ![u] = "broken"]
        /\ stale' = stale
        /\ clients' = mplex!Erased \/ clients' = clients
    BY <1>4 DEF mplex!ReadFails
  <2> QED BY <1>0, <2>1 DEF Ends
<1> QED BY <1>1, <1>2, <1>3, <1>4

\* After a client has been served the next poll makes all marks anew.
LEMMA MplexServeKeeps ==
  ASSUME MplexInv, NEW u \in Clients,
         mplex!Judge(u) \/ mplex!CloseRequest(u) \/ mplex!EndOfInput(u) \/ mplex!ReadFails(u)
  PROVE  MplexInv'
<1>1. /\ mplex!Serve(u) /\ ((clients' = clients /\ (stale' => stale)) \/ clients' = mplex!Erased)
      /\ input' \in [Clients -> {"none", "numbers", "close", "prefix"}] /\ end' \in [Clients -> Ends]
  BY ServeEffect
<1>2. /\ turn' = "poll" /\ backlog' = backlog /\ met' = met /\ u \in Range(clients)
      /\ mplex!Erased \in Seq(Clients) /\ Range(mplex!Erased) \subseteq Range(clients) \ {u}
      /\ Distinct(mplex!Erased)
  BY <1>1, ServedIsMarked
<1>3. clients' \in Seq(Clients) /\ Range(clients') \subseteq Range(clients) /\ Distinct(clients')
  BY <1>1, <1>2 DEF MplexInv, MplexTypes, MplexQueue
<1>4. MplexTypes'
  BY <1>1, <1>2, <1>3 DEF MplexInv, MplexTypes
<1>5. MplexQueue'
  BY <1>2, <1>3 DEF MplexInv, MplexQueue
<1>6. Marks'
  BY <1>2 DEF Marks
<1>7. WordOfOneGone'
  <2>1. CASE stale' => stale
    BY <1>2, <1>3, <2>1, WordStays
  <2>2. CASE clients' = mplex!Erased
    <3>1. u \in met' /\ u \notin Range(clients') \cup Range(backlog')
      BY <1>2, <2>2 DEF MplexInv, MplexQueue
    <3> QED BY <3>1, SameOperators DEF WordOfOneGone, mplex!Gone
  <2> QED BY <1>1, <2>1, <2>2
<1> QED BY <1>4, <1>5, <1>6, <1>7 DEF MplexInv

\* Every step keeps the invariant of the multiplexing server.
LEMMA MplexPreserved ==
  ASSUME MplexInv, [mplex!Next]_(mplex!vars)
  PROVE  MplexInv'
<1>1. ASSUME NEW line, mplex!Type(line) PROVE MplexInv'
  <2>1. UNCHANGED <<backlog, met, input, end, clients, rev, turn, stale>>
    BY <1>1 DEF mplex!Type
  <2> QED BY <2>1, MplexIdleKeeps
<1>2. ASSUME NEW c \in Clients, mplex!Connect(c) PROVE MplexInv'
  BY <1>2, MplexConnectKeeps
<1>3. ASSUME NEW c \in Clients,
             mplex!UserClose(c) \/ \E m \in {"numbers", "close", "prefix"} : mplex!UserSend(c, m)
      PROVE  MplexInv'
  BY <1>3, MplexUserKeeps
<1>4. CASE mplex!Poll
  BY <1>4, MplexPollKeeps
<1>5. CASE mplex!Console
  BY <1>5, MplexConsoleKeeps
<1>6. CASE mplex!Accept
  BY <1>6, MplexAcceptKeeps
<1>7. CASE mplex!ScanNothing
  <2>1. /\ turn' = "poll" /\ backlog' = backlog /\ met' = met /\ input' = input /\ end' = end
        /\ clients' = clients /\ stale' = stale
    BY <1>7 DEF mplex!ScanNothing, mplex!world
  <2>2. MplexTypes' /\ MplexQueue' /\ Marks'
    BY <2>1 DEF MplexInv, MplexTypes, MplexQueue, Marks
  <2>3. WordOfOneGone'
    BY <2>1, WordStays
  <2> QED BY <2>2, <2>3 DEF MplexInv
<1>8. ASSUME NEW u \in Clients,
             mplex!Judge(u) \/ mplex!CloseRequest(u) \/ mplex!EndOfInput(u) \/ mplex!ReadFails(u)
      PROVE  MplexInv'
  BY <1>8, MplexServeKeeps
<1>9. CASE UNCHANGED mplex!vars
  <2>1. UNCHANGED <<backlog, met, input, end, clients, rev, turn, stale>>
    BY <1>9 DEF mplex!vars, mplex!world
  <2> QED BY <2>1, MplexIdleKeeps
<1> QED BY <1>1, <1>2, <1>3, <1>4, <1>5, <1>6, <1>7, <1>8, <1>9 DEF mplex!Next, mplex!Server

\* Nobody has connected.
LEMMA MplexInitial ==
  ASSUME mplex!Init
  PROVE  MplexInv
<1>1. /\ backlog = <<>> /\ clients = <<>> /\ met = {} /\ rev = {} /\ turn = "poll"
      /\ input = [u \in Clients |-> "none"] /\ end = [u \in Clients |-> "open"]
      /\ stale = FALSE
  BY DEF mplex!Init
<1>2. MplexTypes
  BY <1>1, EmptySeq DEF MplexTypes, Ends
<1>3. MplexQueue
  BY <1>1 DEF MplexQueue, Distinct, Range
<1> QED BY <1>1, <1>2, <1>3 DEF MplexInv, Marks, WordOfOneGone

-----------------------------------------------------------------------------
(* The forking server.                                                     *)

ForkTypes ==
  /\ backlog \in Seq(Clients) /\ accepted \in Seq(Clients)
  /\ holders \in [Clients -> SUBSET fork!Processes]
  /\ rev \in [fork!Processes -> BOOLEAN]
  /\ DOMAIN pc = fork!Processes /\ pc = [p \in fork!Processes |-> pc[p]]

\* The parent accepts only when somebody waits, and forks for the one that it
\* has accepted last.
ForkQueue ==
  /\ pc[fork!Parent] = "accept" => backlog # <<>>
  /\ rev[fork!Parent] => pc[fork!Parent] = "stdin" /\ backlog # <<>>
  /\ pc[fork!Parent] \in {"fork", "close"} => accepted # <<>>

\* The parent has one connection at most, and none while it accepts.
Held ==
  \A c \in Clients :
    /\ holders[c] \subseteq {c, fork!Parent}
    /\ fork!Parent \in holders[c] => pc[fork!Parent] \in {"fork", "close"} /\ c = Last(accepted)

ForkInv == ForkTypes /\ ForkQueue /\ Held

\* The operators of the instance are those of this module.
LEMMA ForkOperators ==
  /\ \A s : fork!Last(s) = Last(s)
  /\ fork!Processes = Clients \cup {fork!Parent} /\ fork!Parent = "parent"
BY DEF fork!Last, Last, fork!Processes, fork!Parent

\* A step that leaves the parent where it is, accepts nobody and opens nothing.
LEMMA ForkClosingKeeps ==
  ASSUME ForkInv,
         pc'[fork!Parent] = pc[fork!Parent], rev'[fork!Parent] = rev[fork!Parent],
         accepted' = accepted, ForkTypes',
         backlog # <<>> => backlog' # <<>>,
         \A c \in Clients : holders'[c] \subseteq holders[c]
  PROVE  ForkInv'
<1>1. ForkQueue'
  BY DEF ForkInv, ForkQueue
<1>2. Held'
  BY DEF ForkInv, Held
<1> QED BY <1>1, <1>2 DEF ForkInv

\* Clients connect, send and leave.
LEMMA ForkWorldKeeps ==
  ASSUME ForkInv, NEW c \in Clients,
         \/ fork!Connect(c) \/ fork!ClientClose(c)
         \/ \E m \in {"numbers", "close"} : fork!ClientSend(c, m)
  PROVE  ForkInv'
<1>1. /\ pc' = pc /\ rev' = rev /\ accepted' = accepted /\ holders' = holders
      /\ backlog' = backlog \/ backlog' = Append(backlog, c)
  BY DEF fork!Connect, fork!ClientClose, fork!ClientSend, fork!sockets
<1>2. backlog' \in Seq(Clients) /\ (backlog # <<>> => backlog' # <<>>)
  <2>1. backlog \in Seq(Clients)
    BY DEF ForkInv, ForkTypes
  <2>2. Append(backlog, c) \in Seq(Clients) /\ Append(backlog, c) # <<>>
    BY <2>1, AppendProperties
  <2> QED BY <1>1, <2>1, <2>2
<1>3. ForkTypes'
  BY <1>1, <1>2 DEF ForkInv, ForkTypes
<1> QED BY <1>1, <1>2, <1>3, ForkClosingKeeps

\* What a child does after its fork: it may close, and never opens.
LEMMA ForkChildKeeps ==
  ASSUME ForkInv, NEW c \in Clients, fork!Child(c)
  PROVE  ForkInv'
<1>1. /\ accepted' = accepted /\ backlog' = backlog
      /\ \E b \in BOOLEAN : rev' = [rev EXCEPT ![c] = b] \/ rev' = rev
      /\ \E s : pc' = [pc EXCEPT ![c] = s]
      /\ \/ holders' = holders
         \/ holders' = [d \in Clients |-> holders[d] \ {c}]
         \/ holders' = [holders EXCEPT ![c] = @ \ {c}]
  <2>1. CASE fork!OuterPoll(c)
    BY <2>1 DEF fork!OuterPoll, fork!sockets
  <2>2. CASE fork!OuterStdin(c)
    BY <2>2 DEF fork!OuterStdin, fork!ExitCloses
  <2>3. CASE fork!CloseListen(c)
    BY <2>3 DEF fork!CloseListen
  <2>4. CASE fork!ServePoll(c)
    BY <2>4 DEF fork!ServePoll, fork!sockets
  <2>5. CASE fork!ServeStdin(c)
    BY <2>5 DEF fork!ServeStdin, fork!WriteThen, fork!ExitCloses
  <2>6. CASE fork!Judge(c)
    BY <2>6 DEF fork!Judge, fork!WriteThen, fork!ExitCloses
  <2>7. CASE fork!JudgeError(c)
    BY <2>7 DEF fork!JudgeError, fork!ExitCloses
  <2>8. CASE fork!Leave(c)
    BY <2>8 DEF fork!Leave
  <2>9. CASE fork!CheckQuit(c)
    BY <2>9 DEF fork!CheckQuit, fork!ExitCloses
  <2> QED BY <2>1, <2>2, <2>3, <2>4, <2>5, <2>6, <2>7, <2>8, <2>9 DEF fork!Child, fork!Outer
<1>2. c # fork!Parent /\ c \in fork!Processes /\ fork!Parent \in fork!Processes
  BY ForkOperators, ServersAssumption
<1>3. pc'[fork!Parent] = pc[fork!Parent] /\ rev'[fork!Parent] = rev[fork!Parent]
  BY <1>1, <1>2 DEF ForkInv, ForkTypes
<1>4. \A d \in Clients : holders'[d] \subseteq holders[d]
  BY <1>1 DEF ForkInv, ForkTypes
<1>5. ForkTypes'
  <2>1. holders' \in [Clients -> SUBSET fork!Processes]
    BY <1>1 DEF ForkInv, ForkTypes
  <2>2. rev' \in [fork!Processes -> BOOLEAN]
    BY <1>1 DEF ForkInv, ForkTypes
  <2>3. DOMAIN pc' = fork!Processes /\ pc' = [p \in fork!Processes |-> pc'[p]]
    BY <1>1 DEF ForkInv, ForkTypes
  <2> QED BY <1>1, <2>1, <2>2, <2>3 DEF ForkInv, ForkTypes
<1> QED BY <1>1, <1>3, <1>4, <1>5, ForkClosingKeeps

\* The outer loop of the parent, in which it holds no connection.
LEMMA ForkOuterKeeps ==
  ASSUME ForkInv, fork!Outer(fork!Parent)
  PROVE  ForkInv'
<1> DEFINE P == fork!Parent
<1>0. P \in fork!Processes
  BY ForkOperators
<1>1. /\ accepted' = accepted /\ backlog' = backlog
      /\ pc[P] \in {"poll", "stdin"} /\ pc'[P] \notin {"fork", "close"}
      /\ pc'[P] = "accept" => backlog # <<>>
      /\ rev'[P] => pc'[P] = "stdin" /\ backlog # <<>>
      /\ rev' \in [fork!Processes -> BOOLEAN]
      /\ DOMAIN pc' = fork!Processes /\ pc' = [p \in fork!Processes |-> pc'[p]]
      /\ holders' = holders \/ holders' = [d \in Clients |-> holders[d] \ {P}]
  <2>1. CASE fork!OuterPoll(P)
    BY <1>0, <2>1 DEF fork!OuterPoll, fork!sockets, fork!At, ForkInv, ForkTypes
  <2>2. CASE fork!OuterStdin(P)
    BY <1>0, <2>2 DEF fork!OuterStdin, fork!ExitCloses, fork!At, ForkInv, ForkTypes, ForkQueue
  <2> QED BY <2>1, <2>2 DEF fork!Outer
<1> HIDE DEF P
<1>2. \A d \in Clients : holders'[d] = holders[d] \/ holders'[d] = holders[d] \ {P}
  BY <1>1 DEF ForkInv, ForkTypes
<1>3. holders' \in [Clients -> SUBSET fork!Processes]
  BY <1>1 DEF ForkInv, ForkTypes
<1>4. ForkTypes'
  BY <1>1, <1>3 DEF ForkInv, ForkTypes
<1>5. ForkQueue'
  BY <1>1 DEF ForkQueue, P
<1>6. Held'
  BY <1>1, <1>2 DEF ForkInv, Held, P
<1> QED BY <1>4, <1>5, <1>6 DEF ForkInv

\* An accept gives the parent its one connection.
LEMMA ForkAcceptKeeps ==
  ASSUME ForkInv, fork!Accept
  PROVE  ForkInv'
<1> DEFINE P == fork!Parent
           c == Head(backlog)
<1>1. /\ pc[P] = "accept" /\ pc' = [pc EXCEPT ![P] = "fork"]
      /\ accepted' = Append(accepted, c) /\ backlog' = Tail(backlog)
      /\ holders' = [holders EXCEPT ![c] = {P}] /\ rev' = rev
  BY DEF fork!Accept, fork!At
<1>2. backlog \in Seq(Clients) /\ backlog # <<>> /\ accepted \in Seq(Clients)
  BY <1>1 DEF ForkInv, ForkTypes, ForkQueue
<1>3. c \in Clients /\ backlog' \in Seq(Clients)
  BY <1>1, <1>2, RangeTail
<1>4. accepted' \in Seq(Clients) /\ accepted' # <<>> /\ Last(accepted') = c
  BY <1>1, <1>2, <1>3, AppendProperties DEF Last
<1>5. P \in fork!Processes
  BY ForkOperators
<1> HIDE DEF P, c
<1>6. /\ holders' \in [Clients -> SUBSET fork!Processes]
      /\ \A d \in Clients : holders'[d] = IF d = c THEN {P} ELSE holders[d]
  BY <1>1, <1>3, <1>5 DEF ForkInv, ForkTypes
<1>7. /\ DOMAIN pc' = fork!Processes /\ pc' = [p \in fork!Processes |-> pc'[p]]
      /\ pc'[P] = "fork"
  BY <1>1, <1>5 DEF ForkInv, ForkTypes
<1>8. ForkTypes'
  BY <1>1, <1>3, <1>4, <1>6, <1>7 DEF ForkInv, ForkTypes
<1>9. ForkQueue'
  BY <1>1, <1>4, <1>7 DEF ForkInv, ForkQueue, P
<1>10. Held'
  <2> SUFFICES ASSUME NEW d \in Clients
               PROVE  /\ holders'[d] \subseteq {d, P}
                      /\ P \in holders'[d] => pc'[P] \in {"fork", "close"} /\ d = Last(accepted')
    BY DEF Held, P
  <2>1. CASE d = c
    BY <1>4, <1>6, <1>7, <2>1
  <2>2. CASE d # c
    BY <1>1, <1>6, <2>2 DEF ForkInv, Held, P
  <2> QED BY <2>1, <2>2
<1> QED BY <1>8, <1>9, <1>10 DEF ForkInv

\* The child gets what is open in the parent, which is its own connection.
LEMMA ForkForkKeeps ==
  ASSUME ForkInv, fork!Fork
  PROVE  ForkInv'
<1> DEFINE P == fork!Parent
           c == Last(accepted)
<1>1. /\ pc[P] = "fork" /\ pc' = [pc EXCEPT ![P] = "close", ![c] = "close listen"]
      /\ holders' = [d \in Clients |-> IF P \in holders[d] THEN holders[d] \cup {c} ELSE holders[d]]
      /\ backlog' = backlog /\ accepted' = accepted /\ rev' = rev
  BY ForkOperators DEF fork!Fork, fork!At
<1>2. c \in Clients /\ accepted # <<>>
  <2>1. accepted \in Seq(Clients) /\ accepted # <<>>
    BY <1>1 DEF ForkInv, ForkTypes, ForkQueue
  <2> QED BY <2>1, LenProperties, EmptySeq DEF Last
<1>3. P \in fork!Processes /\ c \in fork!Processes /\ c # P
  BY <1>2, ForkOperators, ServersAssumption
<1>4. \A d \in Clients : P \in holders[d] => d = c
  BY <1>1 DEF ForkInv, Held
<1> HIDE DEF P, c
<1>5. /\ DOMAIN pc' = fork!Processes /\ pc' = [p \in fork!Processes |-> pc'[p]]
      /\ pc'[P] = "close"
  BY <1>1, <1>3 DEF ForkInv, ForkTypes
<1>6. holders' \in [Clients -> SUBSET fork!Processes]
  BY <1>1, <1>3 DEF ForkInv, ForkTypes
<1>7. ForkTypes'
  BY <1>1, <1>5, <1>6 DEF ForkInv, ForkTypes
<1>8. ForkQueue'
  BY <1>1, <1>2, <1>5 DEF ForkInv, ForkQueue, P
<1>9. Held'
  <2> SUFFICES ASSUME NEW d \in Clients
               PROVE  /\ holders'[d] \subseteq {d, P}
                      /\ P \in holders'[d] => pc'[P] \in {"fork", "close"} /\ d = Last(accepted')
    BY DEF Held, P
  <2>1. holders[d] \subseteq {d, P} /\ (P \in holders[d] => d = c)
    BY <1>4 DEF ForkInv, Held, P
  <2>2. holders'[d] = IF P \in holders[d] THEN holders[d] \cup {c} ELSE holders[d]
    BY <1>1
  <2>3. P \in holders'[d] => P \in holders[d]
    BY <1>3, <2>2
  <2>4. Last(accepted') = c
    BY <1>1 DEF c
  <2> QED BY <1>5, <2>1, <2>2, <2>3, <2>4
<1> QED BY <1>7, <1>8, <1>9 DEF ForkInv

\* The parent closes what it has before it polls again, also when the fork has
\* failed.
LEMMA ForkCloseKeeps ==
  ASSUME ForkInv, fork!ForkFails \/ fork!ParentClose
  PROVE  ForkInv'
<1> DEFINE P == fork!Parent
<1>0. P \in fork!Processes
  BY ForkOperators
<1>1. CASE fork!ForkFails
  <2>1. /\ pc[P] = "fork" /\ pc' = [pc EXCEPT ![P] = "close"] /\ UNCHANGED <<backlog, accepted, holders, rev>>
    BY <1>1 DEF fork!ForkFails, fork!At, fork!sockets
  <2> HIDE DEF P
  <2>2. /\ DOMAIN pc' = fork!Processes /\ pc' = [p \in fork!Processes |-> pc'[p]]
        /\ pc'[P] = "close"
    BY <1>0, <2>1 DEF ForkInv, ForkTypes
  <2>3. ForkTypes'
    BY <2>1, <2>2 DEF ForkInv, ForkTypes
  <2>4. ForkQueue'
    BY <2>1, <2>2 DEF ForkInv, ForkQueue, P
  <2>5. Held'
    BY <2>1, <2>2 DEF ForkInv, Held, P
  <2> QED BY <2>3, <2>4, <2>5 DEF ForkInv
<1>2. CASE fork!ParentClose
  <2>1. /\ pc[P] = "close" /\ pc' = [pc EXCEPT ![P] = "poll"]
        /\ holders' = [holders EXCEPT ![Last(accepted)] = @ \ {P}]
        /\ UNCHANGED <<backlog, accepted, rev>>
    BY <1>2, ForkOperators DEF fork!ParentClose, fork!At
  <2> HIDE DEF P
  <2>2. /\ DOMAIN pc' = fork!Processes /\ pc' = [p \in fork!Processes |-> pc'[p]]
        /\ pc'[P] = "poll"
    BY <1>0, <2>1 DEF ForkInv, ForkTypes
  <2>3. /\ holders' \in [Clients -> SUBSET fork!Processes]
        /\ \A d \in Clients : holders'[d] = IF d = Last(accepted) THEN holders[d] \ {P} ELSE holders[d]
    BY <2>1 DEF ForkInv, ForkTypes
  <2>4. ForkTypes'
    BY <2>1, <2>2, <2>3 DEF ForkInv, ForkTypes
  <2>5. ForkQueue'
    BY <2>1, <2>2 DEF ForkInv, ForkQueue, P
  <2>6. \A d \in Clients : P \notin holders'[d]
    BY <2>3 DEF ForkInv, Held, P
  <2>7. \A d \in Clients : holders'[d] \subseteq {d, P}
    BY <2>3 DEF ForkInv, Held, P
  <2>8. Held'
    BY <2>6, <2>7 DEF Held, P
  <2> QED BY <2>4, <2>5, <2>8 DEF ForkInv
<1> QED BY <1>1, <1>2

\* Every step keeps the invariant of the forking server.
LEMMA ForkPreserved ==
  ASSUME ForkInv, [fork!Next]_(fork!vars)
  PROVE  ForkInv'
<1>1. ASSUME NEW line \in {"quit", "text"}, fork!Type(line) PROVE ForkInv'
  <2>1. UNCHANGED <<backlog, accepted, holders, rev, pc>>
    BY <1>1 DEF fork!Type, fork!sockets
  <2>2. ForkTypes' /\ ForkQueue' /\ Held'
    BY <2>1 DEF ForkInv, ForkTypes, ForkQueue, Held
  <2> QED BY <2>2 DEF ForkInv
<1>2. ASSUME NEW c \in Clients,
             \/ fork!Connect(c) \/ fork!ClientClose(c)
             \/ \E m \in {"numbers", "close"} : fork!ClientSend(c, m)
      PROVE  ForkInv'
  BY <1>2, ForkWorldKeeps
<1>3. CASE fork!Outer(fork!Parent)
  BY <1>3, ForkOuterKeeps
<1>4. CASE fork!Accept
  BY <1>4, ForkAcceptKeeps
<1>5. CASE fork!Fork
  BY <1>5, ForkForkKeeps
<1>6. CASE fork!ForkFails \/ fork!ParentClose
  BY <1>6, ForkCloseKeeps
<1>7. ASSUME NEW c \in Clients, fork!Child(c) PROVE ForkInv'
  BY <1>7, ForkChildKeeps
<1>8. CASE UNCHANGED fork!vars
  <2>1. UNCHANGED <<backlog, accepted, holders, rev, pc>>
    BY <1>8 DEF fork!vars, fork!sockets
  <2>2. ForkTypes' /\ ForkQueue' /\ Held'
    BY <2>1 DEF ForkInv, ForkTypes, ForkQueue, Held
  <2> QED BY <2>2 DEF ForkInv
<1> QED
  BY <1>1, <1>2, <1>3, <1>4, <1>5, <1>6, <1>7, <1>8 DEF fork!Next, fork!ParentStep

-----------------------------------------------------------------------------
(* The two together.                                                       *)

EitherInv ==
  /\ program = "mplex" => MplexInv
  /\ program = "fork" => ForkInv

\* Nobody has connected to the forking server.
LEMMA ForkInitial ==
  ASSUME fork!Init
  PROVE  ForkInv
<1>1. /\ backlog = <<>> /\ accepted = <<>> /\ holders = [c \in Clients |-> {}]
      /\ rev = [p \in fork!Processes |-> FALSE]
      /\ pc = [p \in fork!Processes |-> IF p = fork!Parent THEN "poll" ELSE "off"]
  BY DEF fork!Init
<1>2. ForkTypes
  BY <1>1, EmptySeq DEF ForkTypes
<1>3. ForkQueue
  BY <1>1, ForkOperators DEF ForkQueue
<1> QED BY <1>1, <1>2, <1>3 DEF ForkInv, Held

\* Whichever server runs, a step keeps what is true of it.
LEMMA EitherPreserved ==
  ASSUME EitherInv, [NextEither]_allvars
  PROVE  EitherInv'
<1>1. CASE ForkStep
  BY <1>1, ForkPreserved DEF ForkStep, EitherInv
<1>2. CASE MplexStep
  BY <1>2, MplexPreserved DEF MplexStep, EitherInv
<1>3. CASE UNCHANGED allvars
  <2>1. program' = program /\ UNCHANGED mplex!vars /\ UNCHANGED fork!vars
    BY <1>3 DEF allvars, vars, console, network, descriptors, threads, forkvars, mplexvars,
                mplex!vars, mplex!world, fork!vars, fork!console, fork!clientside, fork!sockets
  <2> QED BY <2>1, MplexPreserved, ForkPreserved DEF EitherInv
<1> QED BY <1>1, <1>2, <1>3 DEF NextEither

\* The inductive invariant of both holds in every reachable state.
THEOREM EitherInvariance == SpecEither => []EitherInv
<1>1. InitEither => EitherInv
  BY MplexInitial, ForkInitial DEF InitEither, EitherInv
<1> QED BY <1>1, EitherPreserved, PTL DEF SpecEither

\* The one thread of socket_srv_mplex.cpp waits in read only for the client it
\* has accepted in the same turn, whose revents (n_client, line 218) was never
\* set: what poll has found is still there when it is used, for any number of
\* clients and lines.
THEOREM MplexBlockedOnNewOnly == SpecEither => []BlockedOnNewOnly
<1>1. ASSUME MplexInv PROVE mplex!BlockedOnNewOnly
  <2> SUFFICES ASSUME NEW u \in Clients, mplex!Blocked(u)
               PROVE  u = mplex!Last(clients) /\ "listen" \in rev
    BY DEF mplex!BlockedOnNewOnly
  <2> DEFINE n == Min(mplex!Marked)
  <2>1. turn = "scan" /\ mplex!Marked # {} /\ u = clients[n] /\ ~ mplex!Readable(u)
    BY SameOperators DEF mplex!Blocked
  <2>2. mplex!Marked \in SUBSET Nat
    BY <1>1, LenProperties DEF mplex!Marked, MplexInv, MplexTypes
  <2>3. n \in mplex!Marked
    BY <2>1, <2>2, LeastIsIn
  <2>4. u \in rev
    BY <2>1, <2>3 DEF mplex!Marked
  <2> QED BY <1>1, <2>1, <2>4, SameOperators DEF MplexInv, Marks
<1>2. EitherInv => BlockedOnNewOnly
  BY <1>1 DEF EitherInv, BlockedOnNewOnly
<1> QED BY <1>2, EitherInvariance, PTL

\* Although l_buf is static and keeps what an earlier client has sent, a
\* connection is dropped only when its own client has asked for it or has left,
\* or when it sends no more than first letters of "close" while the word of
\* another client, one that is gone, is still there (read_data_from_client,
\* socket_srv_mplex.cpp:243 and 256).
THEOREM MplexDroppedOnRequestOnly == SpecEither => DroppedOnRequestOnly
<1>1. ASSUME MplexInv, mplex!Next PROVE mplex!OnRequestOnly
  <2>1. ASSUME NEW u \in Clients,
               mplex!Judge(u) \/ mplex!CloseRequest(u) \/ mplex!EndOfInput(u) \/ mplex!ReadFails(u)
        PROVE  mplex!OnRequestOnly
    <3>1. /\ mplex!Serve(u)
          /\ \/ clients' = clients
             \/ /\ clients' = mplex!Erased
                /\ \/ input[u] = "close" \/ end[u] # "open"
                   \/ input[u] = "prefix" /\ stale
      BY <1>1, <2>1, ServeEffect
    <3>2. u \in Range(clients) /\ Range(clients) \ {u} \subseteq Range(mplex!Erased)
      BY <1>1, <3>1, ServedIsMarked
    <3>3. stale => \E v \in Clients \ {u} : mplex!Gone(v)
      BY <1>1, <3>2, SameOperators DEF MplexInv, WordOfOneGone, mplex!Gone
    <3> QED BY <3>1, <3>2, <3>3, SameOperators DEF mplex!OnRequestOnly
  <2>2. CASE mplex!Accept
    <3>1. CASE clients' = clients
      BY <3>1 DEF mplex!OnRequestOnly
    <3>2. CASE "listen" \in rev
      <4>1. clients' = Append(clients, Head(backlog)) /\ clients \in Seq(Clients)
            /\ Head(backlog) \in Clients
        <5>1. backlog \in Seq(Clients) /\ backlog # <<>>
          BY <1>1, <2>2, <3>2 DEF mplex!Accept, MplexInv, MplexTypes, MplexQueue
        <5> QED BY <1>1, <2>2, <3>2, <5>1, RangeTail DEF mplex!Accept, MplexInv, MplexTypes
      <4>2. Range(clients') = Range(clients) \cup {Head(backlog)}
        BY <4>1, RangeAppend
      <4> QED BY <4>2, SameOperators DEF mplex!OnRequestOnly
    <3> QED BY <2>2, <3>1, <3>2 DEF mplex!Accept
  <2>3. CASE clients' = clients
    BY <2>3 DEF mplex!OnRequestOnly
  <2>4. ASSUME NEW line, mplex!Type(line) PROVE clients' = clients
    BY <2>4 DEF mplex!Type
  <2>5. ASSUME NEW c \in Clients,
               \/ mplex!Connect(c) \/ mplex!UserClose(c)
               \/ \E m \in {"numbers", "close", "prefix"} : mplex!UserSend(c, m)
        PROVE  clients' = clients
    BY <2>5 DEF mplex!Connect, mplex!UserClose, mplex!UserSend
  <2>6. CASE mplex!Poll \/ mplex!Console \/ mplex!ScanNothing
    BY <2>3, <2>6 DEF mplex!Poll, mplex!Console, mplex!ScanNothing
  <2> QED BY <1>1, <2>1, <2>2, <2>3, <2>4, <2>5, <2>6 DEF mplex!Next, mplex!Server
<1>2. EitherInv /\ [NextEither]_allvars => [program = "mplex" => mplex!OnRequestOnly]_allvars
  BY <1>1 DEF EitherInv, NextEither, ForkStep, MplexStep
<1> QED BY <1>2, EitherInvariance, PTL DEF SpecEither, DroppedOnRequestOnly

\* The children that socket_srv.cpp forks start with all that is open in their
\* parent, and yet a connection is never open in a process other than its own
\* child and the parent, for any number of clients: the parent closes one
\* (socket_srv.cpp:224) before it can accept and fork for the next.
THEOREM ForkNoForeignConnection == SpecEither => []NoForeignConnection
<1>1. EitherInv => NoForeignConnection
  BY DEF EitherInv, ForkInv, Held, NoForeignConnection, fork!NoForeignConnection
<1> QED BY <1>1, EitherInvariance, PTL
=============================================================================
