------------------------------- MODULE Servers -------------------------------
(***************************************************************************)
(* The forking and the multiplexing server beside the threaded one         *)
(* (ThreadServer), for what can be asked of them without fairness.  Each   *)
(* keeps the same things under the same names, the console, those who      *)
(* wait and the ends of the connections, and something only it has;        *)
(* program says which of the two runs, and what it does not have stays as  *)
(* it is.                                                                  *)
(***************************************************************************)
EXTENDS ThreadServer

VARIABLES
  program,                      \* "fork" or "mplex", never changed
  holders, listeners,           \* ForkServer
  met, clients, turn, stale     \* MplexServer

fork == INSTANCE ForkServer
mplex == INSTANCE MplexServer WITH Users <- Clients

\* The clients have names of their own in each server.
ASSUME ServersAssumption ==
  /\ fork!Parent \notin Clients
  /\ "stdin" \notin Clients /\ "listen" \notin Clients

forkvars == <<holders, listeners>>
mplexvars == <<met, clients, turn, stale>>
threadvars == <<table, l_sock_client, overtaken, main, sockfd>>
allvars == <<program, vars, forkvars, mplexvars>>

ThreadUnused ==
  table = <<>> /\ l_sock_client = None /\ overtaken = FALSE /\ main = "poll" /\ sockfd = <<>>

InitEither ==
  /\ ThreadUnused
  /\ \/ /\ program = "fork"
        /\ fork!Init
        /\ exited = "no" /\ met = {} /\ clients = <<>> /\ turn = "poll" /\ stale = FALSE
     \/ /\ program = "mplex"
        /\ mplex!Init
        /\ accepted = <<>> /\ sent = <<>> /\ buf = <<>> /\ pc = <<>>
        /\ holders = <<>> /\ listeners = {}

ForkStep ==
  /\ program = "fork" /\ fork!Next
  /\ UNCHANGED <<program, threadvars, exited, mplexvars>>

MplexStep ==
  /\ program = "mplex" /\ mplex!Next
  /\ UNCHANGED <<program, threadvars, accepted, sent, buf, pc, forkvars>>

NextEither == ForkStep \/ MplexStep

SpecEither == InitEither /\ [][NextEither]_allvars

-----------------------------------------------------------------------------
(* Properties.                                                             *)

\* No child of the forking server has another client's connection, although
\* every child starts with all that is open in its parent: the parent has
\* always closed one client's descriptor (socket_srv.cpp:224) before it forks
\* for the next.
NoForeignConnection == program = "fork" => fork!NoForeignConnection

\* The one thread of the multiplexing server waits in read only for the client
\* it has accepted in the same turn: what poll has found is never stale, since
\* nobody else reads the descriptors.
BlockedOnNewOnly == program = "mplex" => mplex!BlockedOnNewOnly

\* It drops a connection only when its own client asked for it or left, though
\* l_buf is static and still holds what another client sent.  The exception is a
\* client that sends no more than first letters of "close" while l_buf has the
\* word of one that is gone: read does not terminate it (socket_srv_mplex.cpp:243,
\* 256).  The first verdict after the word puts an end to that.
DroppedOnRequestOnly == [][program = "mplex" => mplex!OnRequestOnly]_allvars
=============================================================================
