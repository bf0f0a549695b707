---------------------------- MODULE MplexServer ----------------------------
(***************************************************************************)
(* socksrv/socket_srv_mplex.cpp: one thread serves the console, the        *)
(* listening socket and all clients with one poll over a vector.  A turn   *)
(* of its loop reads the console if it was ready, accepts one client if    *)
(* one was waiting, and serves the first client of the vector that is      *)
(* marked ready; then it polls again.                                      *)
(*                                                                         *)
(* The entry of a client that has just been accepted is pushed to the      *)
(* vector with revents never set, and looked at in the same turn: it may   *)
(* count as ready, and the read then waits for that client.                *)
(*                                                                         *)
(* A client's input is what a read of it would start with: whatever has    *)
(* arrived is read at once and judged as one message.  read puts it over   *)
(* the beginning of the static l_buf and does not terminate it.            *)
(***************************************************************************)
EXTENDS Naturals, Sequences, FiniteSets, FiniteSetsExt, SequencesExt, Sockets

CONSTANTS
  Users,      \* those who connect
  MaxLines    \* bound: lines typed at the server

\* rev holds users and two descriptors of the server's own.
ASSUME MplexServerAssumption == "stdin" \notin Users /\ "listen" \notin Users

VARIABLES
  stdin,      \* lines typed and not read yet
  typed,
  backlog,    \* users that connected and are not accepted yet
  met,        \* users that have ever connected
  input,      \* what each user has sent: "none", "numbers", "close", or "prefix",
              \* one to four letters that "close" begins with and nothing else
  end,        \* the server's end of each user's connection
  clients,    \* the vector, from its third entry on
  rev,        \* the entries marked ready
  turn,       \* the part of the loop that is next
  stale,      \* whether l_buf still starts with an earlier "close"
  exited

world == <<stdin, typed, backlog, met, input>>
vars == <<world, end, clients, rev, turn, stale, exited>>

Init ==
  /\ stdin = <<>> /\ typed = 0
  /\ backlog = <<>> /\ met = {}
  /\ input = [u \in Users |-> "none"]
  /\ end = [u \in Users |-> "open"]
  /\ clients = <<>>
  /\ rev = {}
  /\ turn = "poll"
  /\ stale = FALSE
  /\ exited = "no"

-----------------------------------------------------------------------------
(* The world.                                                              *)

Type(line) ==
  /\ exited = "no" /\ typed < MaxLines
  /\ typed' = typed + 1
  /\ stdin' = Append(stdin, line)
  /\ UNCHANGED <<backlog, met, input, end, clients, rev, turn, stale, exited>>

Connect(u) ==
  /\ exited = "no" /\ u \notin met
  /\ met' = met \cup {u}
  /\ backlog' = Append(backlog, u)
  /\ UNCHANGED <<stdin, typed, input, end, clients, rev, turn, stale, exited>>

UserSend(u, m) ==
  /\ exited = "no" /\ u \in met
  /\ end[u] = "open" /\ input[u] = "none"
  /\ input' = [input EXCEPT ![u] = m]
  /\ UNCHANGED <<stdin, typed, backlog, met, end, clients, rev, turn, stale, exited>>

UserClose(u) ==
  /\ exited = "no" /\ u \in met
  /\ end[u] = "open"
  /\ \E e \in Departures : end' = [end EXCEPT ![u] = e]
  /\ UNCHANGED <<world, clients, rev, turn, stale, exited>>

-----------------------------------------------------------------------------
(* The server.                                                             *)

Readable(u) == input[u] # "none" \/ end[u] # "open"

\* As if the clients marked before stayed marked.
PollAdds ==
  /\ exited = "no" /\ turn = "poll"
  /\ rev' = (rev \cap Users) \cup {u \in Range(clients) : Readable(u)}
              \cup (IF stdin # <<>> THEN {"stdin"} ELSE {})
              \cup (IF backlog # <<>> THEN {"listen"} ELSE {})
  /\ rev' # {}
  /\ turn' = "stdin"
  /\ UNCHANGED <<world, end, clients, stale, exited>>

\* poll waits for any of the descriptors and marks the entries of all that
\* are ready.
Poll ==
  /\ exited = "no" /\ turn = "poll"
  /\ rev' = {u \in Range(clients) : Readable(u)}
              \cup (IF stdin # <<>> THEN {"stdin"} ELSE {})
              \cup (IF backlog # <<>> THEN {"listen"} ELSE {})
  /\ rev' # {}
  /\ turn' = "stdin"
  /\ UNCHANGED <<world, end, clients, stale, exited>>

\* As if "quit" were any line.
ConsoleIgnored ==
  /\ exited = "no" /\ turn = "stdin"
  /\ stdin' = IF "stdin" \in rev THEN Tail(stdin) ELSE stdin
  /\ turn' = "listen"
  /\ UNCHANGED <<typed, backlog, met, input, end, clients, rev, stale, exited>>

Console ==
  /\ exited = "no" /\ turn = "stdin"
  /\ stdin' = IF "stdin" \in rev THEN Tail(stdin) ELSE stdin
  /\ exited' = IF "stdin" \in rev /\ Head(stdin) = "quit" THEN "quit" ELSE "no"
  /\ turn' = "listen"
  /\ UNCHANGED <<typed, backlog, met, input, end, clients, rev, stale>>

\* revents of the new entry is whatever the stack held.
Accept ==
  /\ exited = "no" /\ turn = "listen"
  /\ IF "listen" \in rev
       THEN /\ clients' = Append(clients, Head(backlog))
            /\ backlog' = Tail(backlog)
            /\ rev' \in {rev, rev \cup {Head(backlog)}}
       ELSE UNCHANGED <<clients, backlog, rev>>
  /\ turn' = "scan"
  /\ UNCHANGED <<stdin, typed, met, input, end, stale, exited>>

Marked == {k \in DOMAIN clients : clients[k] \in rev}

\* clients.erase(clients.begin() + i), at the entry that has been served.
Erased == RemoveAt(clients, Min(Marked))

\* No entry is marked: the next poll.
ScanNothing ==
  /\ exited = "no" /\ turn = "scan"
  /\ Marked = {}
  /\ turn' = "poll"
  /\ UNCHANGED <<world, end, clients, rev, stale, exited>>

\* As if the last marked entry were served.
ServeLast(u) ==
  /\ exited = "no" /\ turn = "scan"
  /\ Marked # {}
  /\ u = clients[Max(Marked)]
  /\ turn' = "poll"
  /\ UNCHANGED <<stdin, typed, backlog, met, rev>>

\* The first marked entry is served, and then the next poll.
Serve(u) ==
  /\ exited = "no" /\ turn = "scan"
  /\ Marked # {}
  /\ u = clients[Min(Marked)]
  /\ turn' = "poll"
  /\ UNCHANGED <<stdin, typed, backlog, met, rev>>

\* Whether l_buf starts with "close" when u's message has been read: letters the
\* word begins with leave one that was there as it is.
ReadsClose(u) == input[u] = "close" \/ (input[u] = "prefix" /\ stale)

\* As if the word in l_buf were taken for this user's whenever it is there.
JudgeStale(u) ==
  /\ Serve(u)
  /\ input[u] # "none" /\ ~ReadsClose(u)
  /\ input' = [input EXCEPT ![u] = "none"]
  /\ \E e \in Written(end[u]) : end' = [end EXCEPT ![u] = e]
  /\ clients' = IF stale THEN Erased ELSE clients
  /\ UNCHANGED <<stale, exited>>

\* The verdict is written and l_buf cleared.
Judge(u) ==
  /\ Serve(u)
  /\ input[u] # "none" /\ ~ReadsClose(u)
  /\ input' = [input EXCEPT ![u] = "none"]
  /\ \E e \in Written(end[u]) : end' = [end EXCEPT ![u] = e]
  /\ stale' = FALSE
  /\ UNCHANGED <<clients, exited>>

\* "close": the connection is closed and erased; l_buf keeps the word.
CloseRequest(u) ==
  /\ Serve(u)
  /\ ReadsClose(u)
  /\ input' = [input EXCEPT ![u] = "none"]
  /\ clients' = Erased
  /\ stale' = TRUE
  /\ UNCHANGED <<end, exited>>

\* The end of the input: the connection is closed and erased.
EndOfInput(u) ==
  /\ Serve(u)
  /\ input[u] = "none" /\ end[u] \in EndOfInputAt
  /\ clients' = Erased
  /\ UNCHANGED <<input, end, stale, exited>>

\* The read fails because of a reset, and l_buf is judged as it is:
\* an earlier "close" closes the connection, anything else is answered, and
\* that write ends the server by SIGPIPE.
ReadFails(u) ==
  /\ Serve(u)
  /\ input[u] = "none" /\ end[u] = "reset"
  /\ end' = [end EXCEPT ![u] = "broken"]
  /\ clients' = IF stale THEN Erased ELSE clients
  /\ exited' = IF stale THEN "no" ELSE "sigpipe"
  /\ UNCHANGED <<input, stale>>

Server ==
  \/ Poll
  \/ Console
  \/ Accept
  \/ ScanNothing
  \/ \E u \in Users : Judge(u) \/ CloseRequest(u) \/ EndOfInput(u) \/ ReadFails(u)

Next ==
  \/ \E line \in {"quit", "text"} : Type(line)
  \/ \E u \in Users : Connect(u) \/ UserClose(u)
  \/ \E u \in Users, m \in {"numbers", "close", "prefix"} : UserSend(u, m)
  \/ Server

Spec == Init /\ [][Next]_vars

\* The one thread runs whenever it can; nobody has to type or send.
FairSpec == Spec /\ WF_vars(Server)

-----------------------------------------------------------------------------
(* Properties.                                                             *)

\* The server waits in read for this user, and serves nobody else meanwhile.
Blocked(u) ==
  turn = "scan" /\ Marked # {} /\ u = clients[Min(Marked)] /\ ~Readable(u)

\* It waits only for the user it has accepted in the same turn: what poll has
\* found is never stale, since nobody else reads the descriptors.
BlockedOnNewOnly ==
  \A u \in Users : Blocked(u) => u = Last(clients) /\ "listen" \in rev

Gone(v) == v \in met /\ v \notin Range(clients) \cup Range(backlog)

\* A step drops a connection only when its own user asked for it or left, though
\* l_buf is static and still holds what another user sent, with one exception: a
\* user that sends no more than first letters of "close" while the word of one
\* that has gone is there, which nobody has overwritten with a verdict since.
OnRequestOnly ==
  \A u \in Users :
    u \in Range(clients) \ Range(clients') =>
      \/ input[u] = "close" \/ end[u] # "open"
      \/ input[u] = "prefix" /\ stale /\ \E v \in Users \ {u} : Gone(v)

\* A user that has sent something or left waits for ever only behind users
\* that come before it in the vector and have sent something too, or behind a
\* read that waits for a new user.
Before(v, u) == \E j, k \in DOMAIN clients : j < k /\ clients[j] = v /\ clients[k] = u
ServedInTurn ==
  \A u \in Users :
    []<>(\/ u \notin Range(clients) \/ ~Readable(u)
         \/ \E v \in Users : Before(v, u) /\ Readable(v)
         \/ \E v \in Users : Blocked(v)
         \/ exited # "no")

\* "quit" ends the server, unless it waits for a new user to send something.
QuitHonoured ==
  "quit" \in Range(stdin) ~> (exited # "no" \/ \E u \in Users : Blocked(u))
=============================================================================
