----------------------------- MODULE ForkServer -----------------------------
(***************************************************************************)
(* socksrv/socket_srv.cpp: the server forks a child for every client it    *)
(* accepts.  The parent closes the client's descriptor and goes on         *)
(* accepting; the child closes the listening one and serves its client,    *)
(* and when that is over it goes back to the loop its parent runs, which   *)
(* polls the console and a listening descriptor this process has closed.   *)
(*                                                                         *)
(* The processes share the console and, through fork, the open sockets: a  *)
(* connection or the port is free when the last process has closed it.     *)
(***************************************************************************)
EXTENDS Naturals, Sequences, FiniteSets, SequencesExt, Sockets

CONSTANTS
  Clients,    \* the clients; the child forked for a client has its name
  MaxLines,   \* bound: lines typed at the server
  MaxSends    \* bound: messages of one client

Parent == "parent"
Processes == Clients \cup {Parent}

\* The clients are not named like the parent.
ASSUME ForkServerAssumption == Parent \notin Clients

VARIABLES
  stdin,      \* lines typed and not read yet
  typed,      \* how many were typed
  backlog,    \* clients that connected and are not accepted yet
  accepted,   \* clients in the order of their accept
  end,        \* the server's end of each connection
  input,      \* messages on their way from each client
  sent,       \* how many each client has sent
  holders,    \* the processes in which each connection is open
  listeners,  \* the processes in which the listening socket is open
  rev,        \* the sockets a process has found ready and not looked at yet
  buf,        \* what l_buf of each child starts with
  pc          \* the next statement of each process

console == <<stdin, typed>>
clientside == <<input, sent>>
sockets == <<accepted, holders, listeners>>
vars == <<console, backlog, end, clientside, sockets, rev, buf, pc>>

Init ==
  /\ stdin = <<>> /\ typed = 0
  /\ backlog = <<>> /\ accepted = <<>>
  /\ end = [c \in Clients |-> "open"]
  /\ input = [c \in Clients |-> <<>>]
  /\ sent = [c \in Clients |-> 0]
  /\ holders = [c \in Clients |-> {}]
  /\ listeners = {Parent}
  /\ rev = [p \in Processes |-> FALSE]
  /\ buf = [c \in Clients |-> "other"]
  /\ pc = [p \in Processes |-> IF p = Parent THEN "poll" ELSE "off"]

-----------------------------------------------------------------------------
(* The world: the console and the clients.                                 *)

Type(line) ==
  /\ typed < MaxLines
  /\ typed' = typed + 1
  /\ stdin' = Append(stdin, line)
  /\ UNCHANGED <<backlog, end, clientside, sockets, rev, buf, pc>>

Connect(c) ==
  /\ listeners # {}
  /\ c \notin Range(backlog) \cup Range(accepted)
  /\ backlog' = Append(backlog, c)
  /\ UNCHANGED <<console, end, clientside, sockets, rev, buf, pc>>

ClientSend(c, m) ==
  /\ holders[c] # {} /\ end[c] = "open"
  /\ sent[c] < MaxSends
  /\ sent' = [sent EXCEPT ![c] = @ + 1]
  /\ input' = [input EXCEPT ![c] = Append(@, m)]
  /\ UNCHANGED <<console, backlog, end, sockets, rev, buf, pc>>

ClientClose(c) ==
  /\ holders[c] # {} /\ end[c] = "open"
  /\ \E e \in Departures : end' = [end EXCEPT ![c] = e]
  /\ UNCHANGED <<console, backlog, clientside, sockets, rev, buf, pc>>

-----------------------------------------------------------------------------
(* The outer loop.                                                         *)

At(p, statement) == pc[p] = statement

\* What is open in no process but those that are left when p exits.
ExitCloses(p) ==
  /\ holders' = [c \in Clients |-> holders[c] \ {p}]
  /\ listeners' = listeners \ {p}

\* poll on the console and the listening socket.  In a child that descriptor
\* is closed: poll returns at once, and the loop turns without a change until
\* there is a line.
OuterPoll(p) ==
  /\ At(p, "poll")
  /\ LET new == p \in listeners /\ backlog # <<>> IN
       /\ stdin # <<>> \/ new
       /\ rev' = [rev EXCEPT ![p] = stdin # <<>> /\ new]
       /\ pc' = [pc EXCEPT ![p] = IF stdin # <<>> THEN "stdin" ELSE "accept"]
  /\ UNCHANGED <<console, backlog, end, clientside, sockets, buf>>

\* read waits for a line when another process has taken the one polled.
OuterStdin(p) ==
  /\ At(p, "stdin")
  /\ stdin # <<>>
  /\ stdin' = Tail(stdin)
  /\ IF Head(stdin) = "quit"
       THEN /\ ExitCloses(p)
            /\ pc' = [pc EXCEPT ![p] = "ended"]
       ELSE /\ pc' = [pc EXCEPT ![p] = IF rev[p] THEN "accept" ELSE "poll"]
            /\ UNCHANGED <<holders, listeners>>
  /\ rev' = [rev EXCEPT ![p] = FALSE]
  /\ UNCHANGED <<typed, backlog, end, clientside, accepted, buf>>

Accept ==
  /\ At(Parent, "accept")
  /\ LET c == Head(backlog) IN
       /\ accepted' = Append(accepted, c)
       /\ holders' = [holders EXCEPT ![c] = {Parent}]
  /\ backlog' = Tail(backlog)
  /\ pc' = [pc EXCEPT ![Parent] = "fork"]
  /\ UNCHANGED <<console, end, clientside, listeners, rev, buf>>

\* The child has all that is open in its parent.
Fork ==
  /\ At(Parent, "fork")
  /\ LET c == Last(accepted) IN
       /\ holders' = [d \in Clients |-> IF Parent \in holders[d] THEN holders[d] \cup {c}
                                        ELSE holders[d]]
       /\ listeners' = listeners \cup {c}
       /\ pc' = [pc EXCEPT ![Parent] = "close", ![c] = "close listen"]
  /\ UNCHANGED <<console, backlog, end, clientside, accepted, rev, buf>>

\* A fork that fails is taken for the parent's.
ForkFails ==
  /\ At(Parent, "fork")
  /\ pc' = [pc EXCEPT ![Parent] = "close"]
  /\ UNCHANGED <<console, backlog, end, clientside, sockets, rev, buf>>

\* As if the parent left its descriptor open, or waited for the child before
\* it goes on.
ParentKeeps ==
  /\ At(Parent, "close")
  /\ pc' = [pc EXCEPT ![Parent] = "poll"]
  /\ UNCHANGED <<console, backlog, end, clientside, sockets, rev, buf>>

ParentWaits ==
  /\ At(Parent, "close")
  /\ At(Last(accepted), "ended")
  /\ holders' = [holders EXCEPT ![Last(accepted)] = @ \ {Parent}]
  /\ pc' = [pc EXCEPT ![Parent] = "poll"]
  /\ UNCHANGED <<console, backlog, end, clientside, accepted, listeners, rev, buf>>

ParentClose ==
  /\ At(Parent, "close")
  /\ holders' = [holders EXCEPT ![Last(accepted)] = @ \ {Parent}]
  /\ pc' = [pc EXCEPT ![Parent] = "poll"]
  /\ UNCHANGED <<console, backlog, end, clientside, accepted, listeners, rev, buf>>

-----------------------------------------------------------------------------
(* The child of client c, until its connection is over.                    *)

CloseListen(c) ==
  /\ At(c, "close listen")
  /\ listeners' = listeners \ {c}
  /\ pc' = [pc EXCEPT ![c] = "serve"]
  /\ UNCHANGED <<console, backlog, end, clientside, accepted, holders, rev, buf>>

Readable(c) == input[c] # <<>> \/ end[c] # "open"

\* As if the client were looked at only when there is a line too.
ServePollElse(c) ==
  /\ At(c, "serve")
  /\ stdin # <<>> \/ Readable(c)
  /\ rev' = [rev EXCEPT ![c] = stdin # <<>>]
  /\ pc' = [pc EXCEPT ![c] = IF stdin # <<>> THEN "line" ELSE "check"]
  /\ UNCHANGED <<console, backlog, end, clientside, sockets, buf>>

ServePoll(c) ==
  /\ At(c, "serve")
  /\ stdin # <<>> \/ Readable(c)
  /\ rev' = [rev EXCEPT ![c] = stdin # <<>> /\ Readable(c)]
  /\ pc' = [pc EXCEPT ![c] = IF stdin # <<>> THEN "line" ELSE "socket"]
  /\ UNCHANGED <<console, backlog, end, clientside, sockets, buf>>

\* A write to the client, and then the next statement, unless SIGPIPE ends the
\* child.
WriteThen(c, next) ==
  /\ \E e \in Written(end[c]) : end' = [end EXCEPT ![c] = e]
  /\ IF end[c] = "broken"
       THEN /\ ExitCloses(c)
            /\ pc' = [pc EXCEPT ![c] = "ended"]
       ELSE /\ pc' = [pc EXCEPT ![c] = next]
            /\ UNCHANGED <<holders, listeners>>

\* The line is sent to the client; l_buf keeps it.
ServeStdin(c) ==
  /\ At(c, "line")
  /\ stdin # <<>>
  /\ stdin' = Tail(stdin)
  /\ buf' = [buf EXCEPT ![c] = IF Head(stdin) = "quit" THEN "quit" ELSE "other"]
  /\ WriteThen(c, IF rev[c] THEN "socket" ELSE "check")
  /\ rev' = [rev EXCEPT ![c] = FALSE]
  /\ UNCHANGED <<typed, backlog, clientside, accepted>>

\* All that has arrived is judged as one message, the verdict written over
\* l_buf and sent, and l_buf cleared.
Judge(c) ==
  /\ At(c, "socket")
  /\ input[c] # <<>> /\ Head(input[c]) = "numbers"
  /\ input' = [input EXCEPT ![c] = <<>>]
  /\ buf' = [buf EXCEPT ![c] = "other"]
  /\ WriteThen(c, "check")
  /\ UNCHANGED <<console, backlog, sent, accepted, rev>>

\* A read that fails is judged too, and the verdict ends the child.
JudgeError(c) ==
  /\ At(c, "socket")
  /\ input[c] = <<>> /\ end[c] = "reset"
  /\ end' = [end EXCEPT ![c] = "broken"]
  /\ ExitCloses(c)
  /\ pc' = [pc EXCEPT ![c] = "ended"]
  /\ UNCHANGED <<console, backlog, clientside, accepted, rev, buf>>

\* As if the descriptor stayed open.
LeaveOpen(c) ==
  /\ At(c, "socket")
  /\ \/ input[c] # <<>> /\ Head(input[c]) = "close"
     \/ input[c] = <<>> /\ end[c] \in EndOfInputAt
  /\ input' = [input EXCEPT ![c] = <<>>]
  /\ pc' = [pc EXCEPT ![c] = "poll"]
  /\ UNCHANGED <<console, backlog, end, sent, sockets, rev, buf>>

\* "close" or the end of the input: back to the outer loop.
Leave(c) ==
  /\ At(c, "socket")
  /\ \/ input[c] # <<>> /\ Head(input[c]) = "close"
     \/ input[c] = <<>> /\ end[c] \in EndOfInputAt
  /\ input' = [input EXCEPT ![c] = <<>>]
  /\ holders' = [holders EXCEPT ![c] = @ \ {c}]
  /\ pc' = [pc EXCEPT ![c] = "poll"]
  /\ UNCHANGED <<console, backlog, end, sent, accepted, listeners, rev, buf>>

CheckQuit(c) ==
  /\ At(c, "check")
  /\ IF buf[c] = "quit"
       THEN /\ ExitCloses(c)
            /\ pc' = [pc EXCEPT ![c] = "ended"]
       ELSE /\ pc' = [pc EXCEPT ![c] = "serve"]
            /\ UNCHANGED <<holders, listeners>>
  /\ UNCHANGED <<console, backlog, end, clientside, accepted, rev, buf>>

Outer(p) == OuterPoll(p) \/ OuterStdin(p)

ParentStep ==
  \/ Outer(Parent)
  \/ Accept
  \/ Fork
  \/ ForkFails
  \/ ParentClose

Child(c) ==
  \/ Outer(c)
  \/ CloseListen(c)
  \/ ServePoll(c)
  \/ ServeStdin(c)
  \/ Judge(c)
  \/ JudgeError(c)
  \/ Leave(c)
  \/ CheckQuit(c)

Next ==
  \/ \E line \in {"quit", "text"} : Type(line)
  \/ \E c \in Clients : Connect(c) \/ ClientClose(c)
  \/ \E c \in Clients, m \in {"numbers", "close"} : ClientSend(c, m)
  \/ ParentStep
  \/ \E c \in Clients : Child(c)

Spec == Init /\ [][Next]_vars

\* The kernel runs every process that can go on; nothing is typed, and no
\* client does anything, unless it wants to.
FairSpec ==
  /\ Spec
  /\ WF_vars(ParentStep)
  /\ \A c \in Clients : WF_vars(Child(c))

-----------------------------------------------------------------------------
(* Properties.                                                             *)

\* No child has another client's connection, although every child starts with
\* all that is open in its parent: the parent has always closed one client's
\* descriptor before it forks for the next.
NoForeignConnection == \A c \in Clients : holders[c] \subseteq {c, Parent}

Over(c) == pc[c] \in {"poll", "stdin", "ended"}

\* A client whose child has left it sees its connection closed, and when the
\* parent has ended the port is free, whatever its children do.
DescriptorsReleased ==
  /\ \A c \in Clients : Over(c) ~> holders[c] = {}
  /\ At(Parent, "ended") ~> listeners = {}

\* A client that has connected is accepted, unless the parent has ended or
\* waits for a line that a child has taken.
Accepted ==
  \A c \in Clients :
    c \in Range(backlog)
      ~> (c \notin Range(backlog) \/ At(Parent, "ended") \/ At(Parent, "stdin"))

\* What a client has sent is read, also when the parent has ended, unless its
\* child waits for a line that another process has taken, or has ended, or was
\* never forked.
InputIsRead ==
  \A c \in Clients :
    input[c] # <<>> ~> (input[c] = <<>> \/ pc[c] \in {"off", "line", "ended"})
=============================================================================
