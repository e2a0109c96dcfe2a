----------------------------- MODULE MC_Server ------------------------------
EXTENDS Server

CONSTANTS c1, c2

MCClients == {c1, c2}

(* Clients that end cleanly: every way of ending but a truncated message. *)
CleanKinds == {"lib", "terminate_on_last", "eof", "terminate_worker", "terminate_server"}

(* Clients that may also close the socket in the middle of a message, or *)
(* reset the connection, before or after a request.                      *)
AllKinds == CleanKinds \cup {"partial", "reset", "lib_reset"}

=============================================================================
