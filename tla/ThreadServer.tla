---------------------------- MODULE ThreadServer ----------------------------
(***************************************************************************)
(* socksrv/socket_srv_thread.cpp: the main thread accepts clients and      *)
(* starts a detached thread for each, without noticing when it cannot; the *)
(* threads read numbers from their clients, answer with a verdict, and     *)
(* copy to their clients what is typed at the server.                      *)
(*                                                                         *)
(* Two things are shared without a lock.  The main thread hands a new      *)
(* thread the address of its one variable l_sock_client, which the next    *)
(* accept overwrites.  And all threads poll and read the same standard     *)
(* input: a line wakes them all, one of them gets it, and the others stay  *)
(* in read until the next line.                                            *)
(*                                                                         *)
(* A descriptor is the lowest number that is free, so a number that was    *)
(* closed comes back with the next client.                                 *)
(***************************************************************************)
EXTENDS Naturals, Sequences, FiniteSets, FiniteSetsExt, SequencesExt, Sockets

CONSTANTS
  Clients,     \* the clients; the thread started for a client has its name
  MaxLines,    \* bound: lines typed at the server
  MaxSends,    \* bound: messages of one client
  None

Main == "main"

\* Clients have names of their own.
ASSUME ThreadServerAssumption ==
  IsFiniteSet(Clients) /\ None \notin Clients /\ Main \notin Clients

VARIABLES
  stdin,       \* lines typed and not read yet
  typed,       \* how many were typed
  backlog,     \* clients that connected and are not accepted yet
  accepted,    \* clients in the order of their accept
  table,       \* the client behind each open descriptor
  input,       \* bytes on their way from each client, by message
  sent,        \* messages each client has sent
  end,         \* the server's end of each client's connection
  l_sock_client,
  overtaken,   \* whether an accept has ever come before a thread had copied its
               \* descriptor; the programs have no such variable
  main,        \* the next statement of the main thread
  sockfd,      \* the descriptor each thread has copied
  rev,         \* whether the poll of each thread that reads the console first
               \* found its socket ready too
  buf,         \* whether the l_buf of each thread starts with "quit"
  pc,          \* the next statement of each thread, or "failed" if there is none
  exited       \* "no", or why the server has ended

console == <<stdin, typed>>
network == <<backlog, input, sent>>
descriptors == <<accepted, table, l_sock_client, overtaken>>
threads == <<sockfd, buf, pc>>
vars == <<console, network, descriptors, end, threads, main, rev, exited>>

Fd == 1 .. Cardinality(Clients)

Init ==
  /\ stdin = <<>> /\ typed = 0
  /\ backlog = <<>> /\ accepted = <<>>
  /\ table = [f \in Fd |-> None]
  /\ input = [c \in Clients |-> <<>>]
  /\ sent = [c \in Clients |-> 0]
  /\ end = [c \in Clients |-> "open"]
  /\ l_sock_client = None
  /\ overtaken = FALSE
  /\ main = "poll"
  /\ sockfd = [t \in Clients |-> None]
  /\ rev = [t \in Clients \cup {Main} |-> {}]
  /\ buf = [t \in Clients |-> "other"]
  /\ pc = [t \in Clients |-> "off"]
  /\ exited = "no"

-----------------------------------------------------------------------------
(* The world: the console and the clients.                                 *)

Type(line) ==
  /\ exited = "no" /\ typed < MaxLines
  /\ typed' = typed + 1
  /\ stdin' = Append(stdin, line)
  /\ UNCHANGED <<network, descriptors, end, threads, main, rev, exited>>

Connect(c) ==
  /\ exited = "no"
  /\ c \notin Range(backlog) \cup Range(accepted)
  /\ backlog' = Append(backlog, c)
  /\ UNCHANGED <<console, input, sent, descriptors, end, threads, main, rev, exited>>

ClientSend(c, m) ==
  /\ exited = "no"
  /\ c \in Range(accepted)
  /\ end[c] = "open"
  /\ sent[c] < MaxSends
  /\ sent' = [sent EXCEPT ![c] = @ + 1]
  /\ input' = [input EXCEPT ![c] = Append(@, m)]
  /\ UNCHANGED <<console, backlog, descriptors, end, threads, main, rev, exited>>

ClientClose(c) ==
  /\ exited = "no"
  /\ c \in Range(accepted)
  /\ end[c] = "open"
  /\ \E e \in Departures : end' = [end EXCEPT ![c] = e]
  /\ UNCHANGED <<console, network, descriptors, threads, main, rev, exited>>

-----------------------------------------------------------------------------
(* The main thread.                                                        *)

MainPoll ==
  /\ exited = "no" /\ main = "poll"
  /\ stdin # <<>> \/ backlog # <<>>
  /\ rev' = [rev EXCEPT ![Main] = IF stdin # <<>> /\ backlog # <<>> THEN {"socket"} ELSE {}]
  /\ main' = IF stdin # <<>> THEN "stdin" ELSE "accept"
  /\ UNCHANGED <<console, network, descriptors, end, threads, exited>>

\* The read waits for a line when another thread has taken the one polled.
MainReadStdin ==
  /\ exited = "no" /\ main = "stdin"
  /\ stdin # <<>>
  /\ stdin' = Tail(stdin)
  /\ exited' = IF Head(stdin) = "quit" THEN "quit" ELSE "no"
  /\ main' = IF "socket" \in rev[Main] THEN "accept" ELSE "poll"
  /\ rev' = [rev EXCEPT ![Main] = {}]
  /\ UNCHANGED <<typed, network, descriptors, end, threads>>

\* The lowest number that is free (of the kernel).
Free == Min({f \in Fd : table[f] = None})

\* accept, and a thread that is given the address l of a descriptor.  Nobody looks
\* at what pthread_create returns: when it fails the client has a descriptor and
\* no thread, and pthread_detach gets a handle that nobody has set, which does
\* nothing or ends the server.
AcceptWith(l) ==
  /\ exited = "no" /\ main = "accept"
  /\ LET c == Head(backlog) IN
       /\ table' = [table EXCEPT ![Free] = c]
       /\ accepted' = Append(accepted, c)
       /\ \/ pc' = [pc EXCEPT ![c] = "start"] /\ exited' = "no"
          \/ pc' = [pc EXCEPT ![c] = "failed"] /\ exited' \in {"no", "crashed"}
  /\ l_sock_client' = l
  /\ backlog' = Tail(backlog)
  /\ overtaken' = (overtaken \/ \E t \in Clients : pc[t] = "start")
  /\ main' = "poll"
  /\ UNCHANGED <<console, input, sent, end, sockfd, buf, rev>>

\* As if the variable were set once only.
AcceptKeepsFirst == AcceptWith(IF l_sock_client = None THEN Free ELSE l_sock_client)

Accept == AcceptWith(Free)

-----------------------------------------------------------------------------
(* The thread of a client: client_comm.                                    *)

\* sockfd = *(int *)client_sock, whatever the main thread has there by now.
Start(t) ==
  /\ exited = "no" /\ pc[t] = "start"
  /\ sockfd' = [sockfd EXCEPT ![t] = l_sock_client]
  /\ pc' = [pc EXCEPT ![t] = "poll"]
  /\ UNCHANGED <<console, network, descriptors, end, buf, main, rev, exited>>

Readable(f) == table[f] # None /\ (input[table[f]] # <<>> \/ end[table[f]] # "open")

\* As if only the console were looked at.
PollConsole(t) ==
  /\ exited = "no" /\ pc[t] = "poll"
  /\ stdin # <<>> \/ Readable(sockfd[t])
  /\ rev' = [rev EXCEPT ![t] = {}]
  /\ pc' = [pc EXCEPT ![t] = IF stdin # <<>> THEN "stdin" ELSE "check"]
  /\ UNCHANGED <<console, network, descriptors, end, sockfd, buf, main, exited>>

\* A poll that finds the descriptor closed returns at once with nothing to
\* read, and the loop turns without changing anything.
Poll(t) ==
  /\ exited = "no" /\ pc[t] = "poll"
  /\ stdin # <<>> \/ Readable(sockfd[t])
  /\ rev' = [rev EXCEPT ![t] = IF stdin # <<>> /\ Readable(sockfd[t]) THEN {"socket"} ELSE {}]
  /\ pc' = [pc EXCEPT ![t] = IF stdin # <<>> THEN "stdin" ELSE "socket"]
  /\ UNCHANGED <<console, network, descriptors, end, sockfd, buf, main, exited>>

\* A write; one to a descriptor that is not open fails and is only logged.
Write(c) ==
  IF c = None
    THEN UNCHANGED <<end, exited>>
    ELSE /\ \E e \in Written(end[c]) : end' = [end EXCEPT ![c] = e]
         /\ exited' = IF end[c] = "broken" THEN "sigpipe" ELSE "no"

\* The line goes to the client; it waits for a line like the main thread does.
ReadStdin(t) ==
  /\ exited = "no" /\ pc[t] = "stdin"
  /\ stdin # <<>>
  /\ stdin' = Tail(stdin)
  /\ buf' = [buf EXCEPT ![t] = IF Head(stdin) = "quit" THEN "quit" ELSE "other"]
  /\ pc' = [pc EXCEPT ![t] = IF "socket" \in rev[t] THEN "socket" ELSE "check"]
  /\ rev' = [rev EXCEPT ![t] = {}]
  /\ Write(table[sockfd[t]])
  /\ UNCHANGED <<typed, network, descriptors, sockfd, main>>

\* All that has arrived is read at once and judged as one message; the verdict
\* is written over l_buf, which is then cleared.
Judge(t) ==
  /\ exited = "no" /\ pc[t] = "socket"
  /\ LET c == table[sockfd[t]] IN
       /\ c # None
       /\ input[c] # <<>>
       /\ Head(input[c]) # "close"
       /\ input' = [input EXCEPT ![c] = <<>>]
       /\ Write(c)
  /\ buf' = [buf EXCEPT ![t] = "other"]
  /\ pc' = [pc EXCEPT ![t] = "check"]
  /\ UNCHANGED <<console, backlog, sent, descriptors, sockfd, main, rev>>

\* A read that fails is judged like a message: when another thread has closed
\* the descriptor since the poll, and when the connection was reset, where the
\* verdict is the write that ends the server.
JudgeError(t) ==
  /\ exited = "no" /\ pc[t] = "socket"
  /\ LET c == table[sockfd[t]] IN
       \/ c = None /\ UNCHANGED <<end, exited>>
       \/ /\ c # None /\ input[c] = <<>> /\ end[c] = "reset"
          /\ end' = [end EXCEPT ![c] = "broken"]
          /\ exited' = "sigpipe"
  /\ buf' = [buf EXCEPT ![t] = "other"]
  /\ pc' = [pc EXCEPT ![t] = "check"]
  /\ UNCHANGED <<console, network, descriptors, sockfd, main, rev>>

\* "close" or the end of the connection leaves the loop; a "quit" that this
\* turn has read from the console is forgotten.
Leave(t) ==
  /\ exited = "no" /\ pc[t] = "socket"
  /\ LET c == table[sockfd[t]] IN
       /\ c # None
       /\ \/ input[c] # <<>> /\ Head(input[c]) = "close"
          \/ input[c] = <<>> /\ end[c] \in EndOfInputAt
       /\ input' = [input EXCEPT ![c] = <<>>]
  /\ pc' = [pc EXCEPT ![t] = "close"]
  /\ UNCHANGED <<console, backlog, sent, descriptors, end, sockfd, buf, main, rev, exited>>

\* As if "quit" were only a line for the client.
CheckNothing(t) ==
  /\ exited = "no" /\ pc[t] = "check"
  /\ pc' = [pc EXCEPT ![t] = "poll"]
  /\ UNCHANGED <<console, network, descriptors, end, sockfd, buf, main, rev, exited>>

CheckQuit(t) ==
  /\ exited = "no" /\ pc[t] = "check"
  /\ exited' = IF buf[t] = "quit" THEN "quit" ELSE "no"
  /\ pc' = [pc EXCEPT ![t] = "poll"]
  /\ UNCHANGED <<console, network, descriptors, end, sockfd, buf, main, rev>>

\* As if the thread ended without its close.
CloseForgotten(t) ==
  /\ exited = "no" /\ pc[t] = "close"
  /\ pc' = [pc EXCEPT ![t] = "done"]
  /\ UNCHANGED <<console, network, descriptors, end, sockfd, buf, main, rev, exited>>

\* A close of a descriptor that is not open ends the whole server.
Close(t) ==
  /\ exited = "no" /\ pc[t] = "close"
  /\ table' = [table EXCEPT ![sockfd[t]] = None]
  /\ exited' = IF table[sockfd[t]] = None THEN "close failed" ELSE "no"
  /\ pc' = [pc EXCEPT ![t] = "done"]
  /\ UNCHANGED <<console, network, accepted, l_sock_client, overtaken, end, sockfd, buf, main, rev>>

Thread(t) ==
  \/ Start(t)
  \/ Poll(t)
  \/ ReadStdin(t)
  \/ Judge(t)
  \/ JudgeError(t)
  \/ Leave(t)
  \/ CheckQuit(t)
  \/ Close(t)

Next ==
  \/ \E line \in {"quit", "text"} : Type(line)
  \/ \E c \in Clients : Connect(c) \/ ClientClose(c)
  \/ \E c \in Clients, m \in {"numbers", "close"} : ClientSend(c, m)
  \/ MainPoll
  \/ MainReadStdin
  \/ Accept
  \/ \E t \in Clients : Thread(t)

Spec == Init /\ [][Next]_vars

\* The scheduler runs every thread that can go on; nothing is typed, and no
\* client does anything, unless it wants to.
FairSpec ==
  /\ Spec
  /\ WF_vars(MainPoll \/ MainReadStdin \/ Accept)
  /\ \A t \in Clients : WF_vars(Thread(t))

-----------------------------------------------------------------------------
(* Properties.                                                             *)

Running == {t \in Clients : pc[t] \in {"poll", "stdin", "socket", "check", "close"}}

\* A thread that starts late copies the descriptor of a client accepted after
\* its own, or of nobody when that one has been closed again; never that of an
\* older client (the descriptor is read through the address of l_sock_client,
\* socket_srv_thread.cpp:219 and 231).
Place(c) == CHOOSE k \in DOMAIN accepted : accepted[k] = c
ServesNoOlder ==
  [][\A t \in Clients :
       pc[t] = "start" /\ pc'[t] = "poll" /\ table[sockfd'[t]] # None
         => Place(table[sockfd'[t]]) >= Place(t)]_vars

\* As long as no accept has overtaken a thread every thread serves its own
\* client alone and no close fails; and every open descriptor has its thread but
\* those of clients for whom none could be created, which stay open without
\* anybody reading them (nobody looks at the result, socket_srv_thread.cpp:219).
\* So the unlocked hand-over is the only way to share a client or to close a
\* foreign connection, and with a failed pthread_create the only one to lose one.
OneThreadPerClient ==
  ~overtaken =>
  /\ \A t \in Running : table[sockfd[t]] = t
  /\ \A f \in Fd : table[f] # None => table[f] \in Running \/ pc[table[f]] \in {"start", "failed"}
  /\ exited # "close failed"

\* Then what a client has sent is read, unless it has no thread because none
\* could be created, its thread waits for a line that another thread has taken,
\* or the server ends.
InputIsRead ==
  \A c \in Clients :
    input[c] # <<>> ~> (input[c] = <<>> \/ pc[c] \in {"failed", "stdin"} \/ exited # "no" \/ overtaken)

\* "quit" ends the server whichever thread gets the line, except when the
\* client of that thread has sent something or left in the same turn: l_buf is
\* then used for the client before it is compared with "quit".
QuitHonoured ==
  "quit" \in Range(stdin)
    ~> (exited # "no" \/ \E t \in Running : pc[t] = "socket" /\ buf[t] = "quit")
=============================================================================
