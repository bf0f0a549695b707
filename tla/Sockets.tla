------------------------------ MODULE Sockets ------------------------------
(***************************************************************************)
(* What the server's end of a connection does, as far as the three servers *)
(* of socksrv can tell (TCP of the kernel, not a part of the programs).    *)
(*                                                                         *)
(*   "open"     the client is there                                        *)
(*   "closed"   the client has closed its end                              *)
(*   "reset"    it has done so with answers unread: the next read or write *)
(*              fails                                                      *)
(*   "broken"   an error has been reported, or a write has been answered   *)
(*              with a reset: the next write raises SIGPIPE                *)
(*                                                                         *)
(* What the client has sent before can still be read in each of them; then *)
(* a read waits, ends the input, fails, ends the input.                    *)
(***************************************************************************)

Ends == {"open", "closed", "reset", "broken"}

Departures == {"closed", "reset"}

EndOfInputAt == {"closed", "broken"}

\* What an end may be after a write to it.
Written(end) ==
  CASE end = "open"   -> {"open"}
    [] end = "closed" -> {"closed", "broken"}
    [] OTHER          -> {"broken"}
=============================================================================
