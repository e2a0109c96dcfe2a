------------------------------- MODULE Server -------------------------------
(***************************************************************************)
(* network::Server (src/network/server.cpp): the accept loop of main_loop, *)
(* one detached ConnectionHandler thread per accepted connection, the      *)
(* TERMINATE_* requests, the SIGTERM/SIGINT handler and the destructor.    *)
(*                                                                         *)
(* A request is abstracted by its kind.  Every request that reaches the   *)
(* library (LIBRARY_NAME, ON_*, NUM_*, HAS_*, ADD_*, REMOVE_*, LOAD,       *)
(* DUMP_CLIENT, the Graphalytics kernels, and the invalid ones) is "lib": *)
(* handle_request answers it with exactly one OK, NOT_SUPPORTED or ERROR   *)
(* response and changes no state of the server.  A client speaks the      *)
(* synchronous protocol of network::Client: it sends a request and waits  *)
(* for the answer; it ends by a TERMINATE_WORKER or TERMINATE_SERVER, by  *)
(* closing the socket ("eof"), by closing it in the middle of a message  *)
(* ("partial"), by resetting it ("reset": recv() returns -1), or by       *)
(* resetting it after a request, before the answer ("lib_reset").  The    *)
(* network may split the 4-byte size header of any request.  The owner of *)
(* the Server (not part of src/) may destroy it once main_loop returned.  *)
(***************************************************************************)
EXTENDS Integers, FiniteSets

CONSTANTS
  Clients,       \* the remote clients, model values
  ClientKinds,   \* the requests clients may send
  MaxRequests    \* bound on the "lib"/"terminate_on_last" requests of a client

LastKinds == {"eof", "partial", "reset", "lib_reset", "terminate_worker", "terminate_server"}
MidKinds == {"lib", "terminate_on_last"}
ASSUME ClientKinds \subseteq LastKinds \cup MidKinds
ASSUME MaxRequests \in Nat

VARIABLES
  srv,          \* the Server object: "created", "running" (in main_loop),
                \* "returned", "destroying", "destroyed"; "aborted" when
                \* the process was ended by std::terminate
  mlpc,         \* main_loop: "top" (while test) or "select"
  stop,         \* m_server_stop
  termOnLast,   \* m_terminate_on_last_connection
  active,       \* m_num_active_connections
  backlog,      \* connections pending on the listening socket
  cst,          \* per client: its ConnectionHandler, seen from the server
  msg,          \* per client: the request it has sent, not yet read
  nreq,         \* per client: requests sent so far
  cdone,        \* per client: it has finished with the connection
  gInstance,    \* g_server_instance: "null" or "this"
  sigInstalled, \* the handler for SIGTERM/SIGINT is installed
  exitReason    \* why main_loop left its loop: "none", "stop", "last"

vars == <<srv, mlpc, stop, termOnLast, active, backlog, cst, msg, nreq, cdone,
          gInstance, sigInstalled, exitReason>>

(* Handler states: "none" before connecting, "backlog" until accepted,    *)
(* "spawned" between thread(...) and the first line of execute(),         *)
(* "reading" in its loop, "spinning" in the read loop of a message that   *)
(* never completes, "closed" after execute() returned, "dropped" when the *)
(* listening socket closed before it was accepted.                        *)
HandlerStates == {"none", "backlog", "spawned", "reading", "spinning", "closed", "dropped"}

(* Connections whose handler still uses m_instance.                        *)
Served == {c \in Clients : cst[c] \in {"spawned", "reading", "spinning"}}

(* m_server_stop = true, remembering what first asked for it.             *)
RequestStop(why) ==
  /\ stop' = TRUE
  /\ exitReason' = IF exitReason = "none" THEN why ELSE exitReason

-----------------------------------------------------------------------------
(* Server::Server: the listening socket is bound; no handler installed.   *)
Init ==
  /\ srv = "created"
  /\ mlpc = "top"
  /\ stop = FALSE
  /\ termOnLast = FALSE
  /\ active = 0
  /\ backlog = {}
  /\ cst = [c \in Clients |-> "none"]
  /\ msg = [c \in Clients |-> "none"]
  /\ nreq = [c \in Clients |-> 0]
  /\ cdone = [c \in Clients |-> FALSE]
  /\ gInstance = "null"
  /\ sigInstalled = FALSE
  /\ exitReason = "none"

(* signal_handler_install / signal_handler_uninstall: sigaction for       *)
(* SIGTERM and SIGINT (a failing sigaction only throws or prints).         *)
InstallSignalHandlers == sigInstalled' = TRUE
UninstallSignalHandlers == sigInstalled' = FALSE

(* handle_signals: register this instance, then install the handler.      *)
HandleSignals ==
  /\ srv = "created" /\ gInstance = "null"
  /\ gInstance' = "this"
  /\ InstallSignalHandlers
  /\ UNCHANGED <<srv, mlpc, stop, termOnLast, active, backlog, cst, msg, nreq, cdone, exitReason>>

(* A SIGTERM/SIGINT: signal_handler_execute calls stop() on the instance. *)
Signal ==
  /\ sigInstalled /\ gInstance = "this"
  /\ RequestStop("stop")
  /\ UNCHANGED <<srv, mlpc, termOnLast, active, backlog, cst, msg, nreq, cdone,
                 gInstance, sigInstalled>>

StartMainLoop ==
  /\ srv = "created"
  /\ srv' = "running"
  /\ UNCHANGED <<mlpc, stop, termOnLast, active, backlog, cst, msg, nreq, cdone,
                 gInstance, sigInstalled, exitReason>>

(* while(!m_server_stop): leave the loop, or go on to select().            *)
LoopTest ==
  /\ srv = "running" /\ mlpc = "top"
  /\ IF stop THEN UNCHANGED mlpc /\ srv' = "returned"
             ELSE UNCHANGED srv /\ mlpc' = "select"
  /\ UNCHANGED <<stop, termOnLast, active, backlog, cst, msg, nreq, cdone,
                 gInstance, sigInstalled, exitReason>>

(* select() reports the listening socket ready: accept() and start a      *)
(* detached ConnectionHandler thread.                                      *)
Accept ==
  /\ srv = "running" /\ mlpc = "select"
  /\ \E c \in backlog :
       /\ backlog' = backlog \ {c}
       /\ cst' = [cst EXCEPT ![c] = "spawned"]
  /\ mlpc' = "top"
  /\ UNCHANGED <<srv, stop, termOnLast, active, msg, nreq, cdone, gInstance, sigInstalled, exitReason>>

(* select() times out (or is interrupted): with TERMINATE_ON_LAST_CONNECTION*)
(* requested and no connection counted active, stop.                      *)
SelectTimeout ==
  /\ srv = "running" /\ mlpc = "select"
  /\ backlog = {}
  /\ IF termOnLast /\ active = 0
     THEN RequestStop("last")
     ELSE UNCHANGED <<stop, exitReason>>
  /\ mlpc' = "top"
  /\ UNCHANGED <<srv, termOnLast, active, backlog, cst, msg, nreq, cdone, gInstance, sigInstalled>>

MainLoop == LoopTest \/ Accept \/ SelectTimeout

-----------------------------------------------------------------------------
(***************************************************************************)
(* ConnectionHandler::execute, one thread per accepted connection.        *)
(***************************************************************************)

(* First line of execute(): ++m_instance->m_num_active_connections.       *)
HandlerStart(c) ==
  /\ cst[c] = "spawned"
  /\ active' = active + 1
  /\ cst' = [cst EXCEPT ![c] = "reading"]
  /\ UNCHANGED <<srv, mlpc, stop, termOnLast, backlog, msg, nreq, cdone,
                 gInstance, sigInstalled, exitReason>>

(* Leaving the while loop: --m_num_active_connections, execute() returns. *)
Leave(c) ==
  /\ active' = active - 1
  /\ cst' = [cst EXCEPT ![c] = "closed"]

Consume(c) == msg' = [msg EXCEPT ![c] = "none"]

(* A handler that returns on end-of-file instead of breaking out of the    *)
(* loop, and so skips the decrement.                                       *)
HandlerEofReturn(c) ==
  /\ cst[c] = "reading" /\ msg[c] = "eof"
  /\ cst' = [cst EXCEPT ![c] = "closed"] /\ Consume(c)
  /\ UNCHANGED <<srv, mlpc, stop, termOnLast, active, backlog, nreq, cdone,
                 gInstance, sigInstalled, exitReason>>

(* recv() returns 0: the client closed without TERMINATE_WORKER.          *)
HandlerEof(c) ==
  /\ cst[c] = "reading" /\ msg[c] = "eof"
  /\ Leave(c) /\ Consume(c)
  /\ UNCHANGED <<srv, mlpc, stop, termOnLast, backlog, nreq, cdone,
                 gInstance, sigInstalled, exitReason>>

(* recv() returns -1 (the peer reset the connection): ERROR_ERRNO throws  *)
(* outside the try of handle_request, out of execute() and of a detached  *)
(* thread, so std::terminate ends the whole process.                       *)
HandlerReset(c) ==
  /\ cst[c] = "reading" /\ msg[c] = "reset"
  /\ srv' = "aborted"
  /\ Consume(c)
  /\ UNCHANGED <<mlpc, stop, termOnLast, active, backlog, cst, nreq, cdone,
                 gInstance, sigInstalled, exitReason>>

(* recv() returns 1 to 3 bytes of the size header.  With asserts on, the  *)
(* assert of line 231 aborts.  Without, message_sz mixes the new bytes    *)
(* with the previous message's, and the read loop of lines 236-240 waits  *)
(* for bytes the client, which waits for its answer, never sends (a size  *)
(* that happens to fit leaves the rest of the header to be read as the    *)
(* next message, which desynchronises the stream the same way).           *)
HandlerShortHeader(c) ==
  /\ cst[c] = "reading" /\ msg[c] \in MidKinds \cup {"terminate_worker", "terminate_server"}
  /\ \/ srv' = "aborted" /\ UNCHANGED cst
     \/ cst' = [cst EXCEPT ![c] = "spinning"] /\ UNCHANGED srv
  /\ Consume(c)
  /\ UNCHANGED <<mlpc, stop, termOnLast, active, backlog, nreq, cdone,
                 gInstance, sigInstalled, exitReason>>

(* The size header arrived but the client closed before the rest: read()  *)
(* returns 0 and num_bytes_read never reaches message_sz.                  *)
HandlerPartial(c) ==
  /\ cst[c] = "reading" /\ msg[c] = "partial"
  /\ cst' = [cst EXCEPT ![c] = "spinning"]
  /\ Consume(c)
  /\ UNCHANGED <<srv, mlpc, stop, termOnLast, active, backlog, nreq, cdone,
                 gInstance, sigInstalled, exitReason>>

(* handle_request on a request served by the library: one response.       *)
HandleLibRequest(c) ==
  /\ cst[c] = "reading" /\ msg[c] = "lib"
  /\ Consume(c)
  /\ UNCHANGED <<srv, mlpc, stop, termOnLast, active, backlog, cst, nreq, cdone,
                 gInstance, sigInstalled, exitReason>>

(* The client reset the connection after its request: send() of the       *)
(* answer raises SIGPIPE (no MSG_NOSIGNAL, SIGPIPE not ignored), which     *)
(* ends the process; were SIGPIPE ignored, send() would return -1 and     *)
(* ERROR_ERRNO would throw from the catch block of handle_request, so     *)
(* std::terminate.                                                         *)
HandleLibRequestPeerGone(c) ==
  /\ cst[c] = "reading" /\ msg[c] = "lib_reset"
  /\ srv' = "aborted"
  /\ Consume(c)
  /\ UNCHANGED <<mlpc, stop, termOnLast, active, backlog, cst, nreq, cdone,
                 gInstance, sigInstalled, exitReason>>

(* TERMINATE_WORKER answered without setting m_terminate.                  *)
HandleTerminateWorkerNoTerminate(c) ==
  /\ cst[c] = "reading" /\ msg[c] = "terminate_worker"
  /\ Consume(c)
  /\ UNCHANGED <<srv, mlpc, stop, termOnLast, active, backlog, cst, nreq, cdone,
                 gInstance, sigInstalled, exitReason>>

(* TERMINATE_WORKER: answer OK, set m_terminate, leave the loop.           *)
HandleTerminateWorker(c) ==
  /\ cst[c] = "reading" /\ msg[c] = "terminate_worker"
  /\ Leave(c) /\ Consume(c)
  /\ UNCHANGED <<srv, mlpc, stop, termOnLast, backlog, nreq, cdone,
                 gInstance, sigInstalled, exitReason>>

(* TERMINATE_SERVER that also decrements m_num_active_connections itself, *)
(* on top of the decrement at the end of execute().                        *)
HandleTerminateServerDecrement(c) ==
  /\ cst[c] = "reading" /\ msg[c] = "terminate_server"
  /\ RequestStop("stop")
  /\ active' = active - 2
  /\ cst' = [cst EXCEPT ![c] = "closed"] /\ Consume(c)
  /\ UNCHANGED <<srv, mlpc, termOnLast, backlog, nreq, cdone, gInstance, sigInstalled>>

(* TERMINATE_SERVER: as TERMINATE_WORKER, and m_server_stop = true.       *)
HandleTerminateServer(c) ==
  /\ cst[c] = "reading" /\ msg[c] = "terminate_server"
  /\ RequestStop("stop")
  /\ Leave(c) /\ Consume(c)
  /\ UNCHANGED <<srv, mlpc, termOnLast, backlog, nreq, cdone, gInstance, sigInstalled>>

(* TERMINATE_ON_LAST_CONNECTION: set the flag, keep serving.              *)
HandleTerminateOnLast(c) ==
  /\ cst[c] = "reading" /\ msg[c] = "terminate_on_last"
  /\ termOnLast' = TRUE
  /\ Consume(c)
  /\ UNCHANGED <<srv, mlpc, stop, active, backlog, cst, nreq, cdone,
                 gInstance, sigInstalled, exitReason>>

Handler(c) ==
  \/ HandlerStart(c) \/ HandlerEof(c) \/ HandlerReset(c) \/ HandlerShortHeader(c)
  \/ HandlerPartial(c) \/ HandleLibRequest(c) \/ HandleLibRequestPeerGone(c)
  \/ HandleTerminateWorker(c)
  \/ HandleTerminateServer(c) \/ HandleTerminateOnLast(c)

-----------------------------------------------------------------------------
(***************************************************************************)
(* Clients.                                                                *)
(***************************************************************************)

(* connect(): queued on the listening socket while it is open.            *)
Connect(c) ==
  /\ cst[c] = "none"
  /\ srv \in {"created", "running", "returned"}
  /\ backlog' = backlog \cup {c}
  /\ cst' = [cst EXCEPT ![c] = "backlog"]
  /\ UNCHANGED <<srv, mlpc, stop, termOnLast, active, msg, nreq, cdone,
                 gInstance, sigInstalled, exitReason>>

(* Send the next request once the previous one is answered.               *)
Send(c) ==
  /\ cst[c] \in {"backlog", "spawned", "reading"}
  /\ ~cdone[c] /\ msg[c] = "none"
  /\ \E k \in ClientKinds :
       /\ k \in MidKinds => nreq[c] < MaxRequests
       /\ msg' = [msg EXCEPT ![c] = k]
       /\ nreq' = [nreq EXCEPT ![c] = @ + 1]
       /\ cdone' = [cdone EXCEPT ![c] = k \in LastKinds]
  /\ UNCHANGED <<srv, mlpc, stop, termOnLast, active, backlog, cst,
                 gInstance, sigInstalled, exitReason>>

Client(c) == Connect(c) \/ Send(c)

-----------------------------------------------------------------------------
(***************************************************************************)
(* Server::~Server, once main_loop has returned: close the listening       *)
(* socket (pending connections are dropped), clear g_server_instance ...   *)
(***************************************************************************)
DestroyBegin ==
  /\ srv = "returned"
  /\ srv' = IF gInstance = "this" THEN "destroying" ELSE "destroyed"
  /\ cst' = [c \in Clients |-> IF cst[c] = "backlog" THEN "dropped" ELSE cst[c]]
  /\ backlog' = {}
  /\ gInstance' = "null"
  /\ UNCHANGED <<mlpc, stop, termOnLast, active, msg, nreq, cdone, sigInstalled, exitReason>>

(* ... then restore the previous signal handlers.                          *)
DestroyEnd ==
  /\ srv = "destroying"
  /\ srv' = "destroyed"
  /\ UninstallSignalHandlers
  /\ UNCHANGED <<mlpc, stop, termOnLast, active, backlog, cst, msg, nreq, cdone,
                 gInstance, exitReason>>

Destroy == DestroyBegin \/ DestroyEnd

(* The Server is gone, and the process may exit, which ends the detached  *)
(* handler threads wherever they are; or the process was aborted.         *)
Terminated ==
  /\ srv \in {"destroyed", "aborted"}
  /\ UNCHANGED vars

(* After std::terminate no thread takes a step.                            *)
Next ==
  \/ /\ srv /= "aborted"
     /\ \/ HandleSignals \/ Signal \/ StartMainLoop
        \/ MainLoop
        \/ \E c \in Clients : Handler(c) \/ Client(c)
        \/ Destroy
  \/ Terminated

(* The accept loop and every handler thread are scheduled by the OS;      *)
(* clients and the owner of the Server are not bound to act.              *)
Fairness ==
  /\ WF_vars(StartMainLoop)
  /\ WF_vars(MainLoop)
  /\ \A c \in Clients : WF_vars(Handler(c))

Spec == Init /\ [][Next]_vars /\ Fairness

-----------------------------------------------------------------------------
(***************************************************************************)
(* Properties                                                              *)
(***************************************************************************)
TypeOK ==
  /\ srv \in {"created", "running", "returned", "destroying", "destroyed", "aborted"}
  /\ mlpc \in {"top", "select"}
  /\ stop \in BOOLEAN /\ termOnLast \in BOOLEAN /\ sigInstalled \in BOOLEAN
  /\ active \in 0..Cardinality(Clients)
  /\ backlog \subseteq Clients
  /\ cst \in [Clients -> HandlerStates]
  /\ msg \in [Clients -> ClientKinds \cup {"none"}]
  /\ nreq \in [Clients -> 0..MaxRequests + 1]
  /\ cdone \in [Clients -> BOOLEAN]
  /\ gInstance \in {"null", "this"}
  /\ exitReason \in {"none", "stop", "last"}

(* m_num_active_connections counts exactly the handlers that have run the *)
(* increment of execute() and not yet its decrement, whatever way each of *)
(* them leaves its loop (end of file, TERMINATE_WORKER, TERMINATE_SERVER). *)
ActiveCountsHandlers ==
  active = Cardinality({c \in Clients : cst[c] \in {"reading", "spinning"}})

(* TERMINATE_ON_LAST_CONNECTION: once it was requested and every client   *)
(* that connected has sent its last message (and no other one connects),  *)
(* main_loop eventually leaves its loop, as long as no handler is stuck    *)
(* in the read loop of a truncated message (see HandlersLeave).            *)
TerminatesOnLastConnection ==
  <>[](/\ termOnLast
       /\ \A c \in Clients : (cdone[c] \/ cst[c] = "none") /\ cst[c] /= "spinning")
    => <>(srv \notin {"created", "running"})

(* A handler whose client has sent its last message eventually leaves     *)
(* the loop of execute() (or the process is gone): the read loop of a      *)
(* message does not wait forever on a peer that has closed.               *)
HandlersLeave ==
  \A c \in Clients :
    (cdone[c] /\ cst[c] \in {"reading", "spinning"}) ~> (cst[c] = "closed" \/ srv = "aborted")

(* When main_loop stops because the last connection went away, no         *)
(* accepted connection is left unserved: every connection it accepted has *)
(* finished its handler.                                                   *)
NoConnectionLeftBehind ==
  (srv # "running" /\ exitReason = "last") => Served = {}

(* No ConnectionHandler still uses m_instance (the counter, the stop flag, *)
(* the library interface) once the Server was destroyed.                  *)
HandlersDontOutliveServer ==
  srv = "destroyed" => Served = {}

(* Whenever the SIGTERM/SIGINT handler is installed, g_server_instance     *)
(* points to the Server, as signal_handler_execute asserts.               *)
SignalHandlerHasInstance ==
  sigInstalled => gInstance = "this"

(* A connection error on one connection ends that connection only: the    *)
(* try/catch of handle_request turns a common::Error into an ERROR        *)
(* response, so one peer resetting its socket must not take the server,   *)
(* and every other client's connection, down with it.                     *)
ServerSurvivesConnectionErrors == srv /= "aborted"

=============================================================================
