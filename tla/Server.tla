------------------------------- MODULE Server --------------------------------
(***************************************************************************)
(* The running server: Server::run (server/runtime.rs), its UDP listeners  *)
(* with their packet tasks (server/udp.rs), its RadSec listeners with      *)
(* their connection tasks and the registry of connections                  *)
(* (server/radsec.rs), shutdown and the revocation of a client.            *)
(*                                                                         *)
(* What happens to a packet inside a task is left to PacketPath and Dedup; *)
(* here a packet task or a frame is in progress or is not.                 *)
(***************************************************************************)
EXTENDS Naturals, Sequences, FiniteSets

CONSTANTS
    BindOrder, \* the configured listeners: the UDP ones, then the RadSec ones
    Udp,       \* those that are UDP
    Jobs,      \* slots for UDP packet tasks
    Conns,     \* slots for RadSec connections
    ClientIds, \* clients the store may know
    None

Listeners == {BindOrder[i] : i \in DOMAIN BindOrder}

ASSUME ServerAssumption ==
    /\ BindOrder # <<>>
    /\ Udp \subseteq Listeners
    /\ BindOrder \in Seq(Listeners)
    /\ {None, "bind", "dropped"} \cap Listeners = {}
    /\ None \notin ClientIds \cup {"bind", "dropped"}

VARIABLES
    run,       \* where Server::run is
    bound,     \* how many listeners are bound
    first_err, \* the first error run has seen
    shutdown,  \* the shutdown watch
    listener,  \* where each listener task is
    failed,    \* listeners whose task ends with an error or a panic
    panicked,  \* those that ended with a panic
    job,       \* per packet task, the listener it belongs to
    conn,      \* where each connection task is
    client,    \* the client a connection was authorized for
    registry,  \* connections with an entry in the ConnectionRegistry
    signalled, \* connections whose close_rx is ready
    late,      \* frames a connection finished after it was signalled
    store,     \* clients the ClientStore knows
    revoked    \* clients removed from the store and then closed

runVars == <<run, bound, first_err, shutdown>>
listenerVars == <<listener, failed, panicked, job>>
connVars == <<conn, client, registry, signalled, late>>
storeVars == <<store, revoked>>
vars == <<runVars, listenerVars, connVars, storeVars>>

\* In the frame loop, and in progress with a frame.
InLoop(c) == conn[c] \in {"select", "processing", "writing"}
Busy(c) == conn[c] \in {"processing", "writing"}
JobsOf(l) == {j \in Jobs : job[j] = l}

\* Types, and which connections have a client.
TypeOK ==
    /\ run \in {"binding", "joining", "returned"}
    /\ bound \in 0 .. Len(BindOrder)
    /\ first_err \in Listeners \cup {None, "bind", "dropped"}
    /\ shutdown \in BOOLEAN
    /\ listener \in [Listeners -> {"unbound", "serving", "admitting", "draining",
                                   "exited", "joined", "aborted"}]
    /\ failed \subseteq Listeners /\ panicked \subseteq failed
    /\ job \in [Jobs -> Udp \cup {None}]
    /\ conn \in [Conns -> {"none", "handshake", "authorizing", "authorized",
                           "select", "processing", "writing", "closing"}]
    /\ client \in [Conns -> ClientIds \cup {None}]
    /\ registry \subseteq Conns /\ signalled \subseteq Conns
    /\ late \in [Conns -> Nat]
    /\ store \subseteq ClientIds /\ revoked \subseteq ClientIds
    /\ \A c \in Conns : /\ InLoop(c) \/ conn[c] = "authorized" => client[c] # None
                        /\ conn[c] \in {"none", "handshake", "authorizing"} => client[c] = None

Init ==
    /\ run = "binding" /\ bound = 0 /\ first_err = None /\ shutdown = FALSE
    /\ listener = [l \in Listeners |-> "unbound"]
    /\ failed = {} /\ panicked = {}
    /\ job = [j \in Jobs |-> None]
    /\ conn = [c \in Conns |-> "none"]
    /\ client = [c \in Conns |-> None]
    /\ registry = {} /\ signalled = {}
    /\ late = [c \in Conns |-> 0]
    /\ store = ClientIds /\ revoked = {}

-----------------------------------------------------------------------------
(* Server::run.                                                            *)

\* Bind the next address and spawn its listener.
Bind ==
    /\ run = "binding"
    /\ listener' = [listener EXCEPT ![BindOrder[bound + 1]] = "serving"]
    /\ bound' = bound + 1
    /\ run' = IF bound' = Len(BindOrder) THEN "joining" ELSE "binding"
    /\ UNCHANGED <<first_err, shutdown, failed, panicked, job, connVars, storeVars>>

\* run ends without joining: a bind failed, or its future was dropped.
CutShort == run = "returned" /\ first_err \in {"bind", "dropped"}

Abort(why) ==
    /\ run' = "returned"
    /\ first_err' = why
    /\ UNCHANGED <<bound, shutdown, listenerVars, connVars, storeVars>>

BindFails == run = "binding" /\ Abort("bind")

RunDropped == run # "returned" /\ Abort("dropped")

\* The JoinSet that went with it aborts the listeners, each of which goes on
\* until its next await.  Its own JoinSet then aborts its packet tasks.
Aborted(l) ==
    /\ CutShort /\ listener[l] \in {"serving", "admitting", "draining"}
    /\ listener' = [listener EXCEPT ![l] = "aborted"]
    /\ UNCHANGED <<failed, panicked, job, runVars, connVars, storeVars>>

\* join_next: the first error wins, and stops the other listeners.
JoinWithoutShutdown(l) ==
    /\ run = "joining" /\ listener[l] = "exited"
    /\ listener' = [listener EXCEPT ![l] = "joined"]
    /\ first_err' = IF l \in failed /\ first_err = None THEN l ELSE first_err
    /\ UNCHANGED <<run, bound, shutdown, failed, panicked, job, connVars, storeVars>>

Join(l) ==
    /\ run = "joining" /\ listener[l] = "exited"
    /\ listener' = [listener EXCEPT ![l] = "joined"]
    /\ first_err' = IF l \in failed /\ first_err = None THEN l ELSE first_err
    /\ shutdown' = (shutdown \/ l \in failed)
    /\ UNCHANGED <<run, bound, failed, panicked, job, connVars, storeVars>>

ReturnEarly ==
    /\ run = "joining"
    /\ shutdown
    /\ run' = "returned"
    /\ UNCHANGED <<bound, first_err, shutdown, listenerVars, connVars, storeVars>>

Return ==
    /\ run = "joining"
    /\ \A l \in Listeners : listener[l] = "joined"
    /\ run' = "returned"
    /\ UNCHANGED <<bound, first_err, shutdown, listenerVars, connVars, storeVars>>

\* ShutdownHandle::shutdown.
Shutdown ==
    /\ ~shutdown
    /\ shutdown' = TRUE
    /\ UNCHANGED <<run, bound, first_err, listenerVars, connVars, storeVars>>

-----------------------------------------------------------------------------
(* serve_udp and serve_radsec.  The select is biased: a shutdown that has  *)
(* been signalled is seen before another packet or connection is taken.    *)

ObserveShutdown(l) ==
    /\ listener[l] = "serving" /\ shutdown
    /\ listener' = [listener EXCEPT ![l] = IF l \in Udp THEN "draining" ELSE "exited"]
    /\ UNCHANGED <<failed, panicked, job, runVars, connVars, storeVars>>

\* A datagram or a connection is taken; the store is asked about its source.
Take(l) ==
    /\ listener[l] = "serving" /\ ~shutdown
    /\ listener' = [listener EXCEPT ![l] = "admitting"]
    /\ UNCHANGED <<failed, panicked, job, runVars, connVars, storeVars>>

\* recv_from or accept fails.
TakeFails(l) ==
    /\ listener[l] = "serving" /\ ~shutdown
    /\ failed' = failed \cup {l}
    /\ listener' = [listener EXCEPT ![l] = IF l \in Udp THEN "draining" ELSE "exited"]
    /\ UNCHANGED <<panicked, job, runVars, connVars, storeVars>>

Reject(l) ==
    /\ listener[l] = "admitting"
    /\ listener' = [listener EXCEPT ![l] = "serving"]
    /\ UNCHANGED <<failed, panicked, job, runVars, connVars, storeVars>>

AdmitPacket(l, j) ==
    /\ l \in Udp /\ listener[l] = "admitting" /\ job[j] = None
    /\ job' = [job EXCEPT ![j] = l]
    /\ listener' = [listener EXCEPT ![l] = "serving"]
    /\ UNCHANGED <<failed, panicked, runVars, connVars, storeVars>>

\* The connection's task is detached: nobody joins it.
AdmitConnection(l, c) ==
    /\ l \notin Udp /\ listener[l] = "admitting" /\ conn[c] = "none"
    /\ conn' = [conn EXCEPT ![c] = "handshake"]
    /\ listener' = [listener EXCEPT ![l] = "serving"]
    /\ UNCHANGED <<failed, panicked, job, client, registry, signalled, late, runVars, storeVars>>

\* The store panics: the task unwinds, and its JoinSet aborts its packets,
\* which end at their next await.
ListenerPanics(l) ==
    /\ listener[l] = "admitting"
    /\ failed' = failed \cup {l}
    /\ panicked' = panicked \cup {l}
    /\ listener' = [listener EXCEPT ![l] = "exited"]
    /\ UNCHANGED <<job, runVars, connVars, storeVars>>

\* The packet tasks have all been joined.
DrainedAtOnce(l) ==
    /\ listener[l] = "draining"
    /\ listener' = [listener EXCEPT ![l] = "exited"]
    /\ UNCHANGED <<failed, panicked, job, runVars, connVars, storeVars>>

Drained(l) ==
    /\ listener[l] = "draining" /\ JobsOf(l) = {}
    /\ listener' = [listener EXCEPT ![l] = "exited"]
    /\ UNCHANGED <<failed, panicked, job, runVars, connVars, storeVars>>

\* process_packet ends, in a reply, a drop, a panic or an abort.
JobEnds(j) ==
    /\ job[j] # None
    /\ job' = [job EXCEPT ![j] = None]
    /\ UNCHANGED <<listener, failed, panicked, runVars, connVars, storeVars>>

-----------------------------------------------------------------------------
(* handle_connection and run_frame_loop.                                   *)

Moves(c, to) ==
    /\ conn' = [conn EXCEPT ![c] = to]
    /\ UNCHANGED <<client, registry, signalled, late, runVars, listenerVars, storeVars>>

\* The task ends, and its ConnGuard removes the entry, if it is still there.
EndsKeepingEntry(c) ==
    /\ conn' = [conn EXCEPT ![c] = "none"]
    /\ client' = [client EXCEPT ![c] = None]
    /\ signalled' = signalled \ {c}
    /\ late' = [late EXCEPT ![c] = 0]
    /\ UNCHANGED <<registry, runVars, listenerVars, storeVars>>

Ends(c) ==
    /\ conn' = [conn EXCEPT ![c] = "none"]
    /\ client' = [client EXCEPT ![c] = None]
    /\ registry' = registry \ {c}
    /\ signalled' = signalled \ {c}
    /\ late' = [late EXCEPT ![c] = 0]
    /\ UNCHANGED <<runVars, listenerVars, storeVars>>

\* The handshake has a time limit; the peer may also show no certificate.
Handshake(c) ==
    /\ conn[c] = "handshake"
    /\ Moves(c, "authorizing") \/ Moves(c, "closing") \/ Ends(c)

\* lookup_radsec_by_cert, for a certificate of client id.
Authorize(c, id) ==
    /\ conn[c] = "authorizing"
    /\ IF id \in store
       THEN /\ conn' = [conn EXCEPT ![c] = "authorized"]
            /\ client' = [client EXCEPT ![c] = id]
            /\ UNCHANGED <<registry, signalled, late, runVars, listenerVars, storeVars>>
       ELSE Moves(c, "closing")

Register(c) ==
    /\ conn[c] = "authorized"
    /\ conn' = [conn EXCEPT ![c] = "select"]
    /\ registry' = registry \cup {c}
    /\ UNCHANGED <<client, signalled, late, runVars, listenerVars, storeVars>>

\* The select polls close_rx before the connection.
ObserveClose(c) == conn[c] = "select" /\ c \in signalled /\ Moves(c, "closing")

ReadFrameUnbiased(c) == conn[c] = "select" /\ Moves(c, "processing")

ReadFrame(c) == conn[c] = "select" /\ c \notin signalled /\ Moves(c, "processing")

\* End of stream, read error, idle time-out.
ReadEnds(c) == conn[c] = "select" /\ c \notin signalled /\ Moves(c, "closing")

\* A frame that does not validate, or has the wrong code, ends the session.
RefuseFrame(c) == conn[c] = "processing" /\ Moves(c, "closing")

Finishes(c, to) ==
    /\ conn' = [conn EXCEPT ![c] = to]
    /\ late' = [late EXCEPT ![c] = IF c \in signalled THEN @ + 1 ELSE @]
    /\ UNCHANGED <<client, registry, signalled, runVars, listenerVars, storeVars>>

\* dispatch_validated returns, with a reply or without.
Handled(c) == conn[c] = "processing" /\ (Moves(c, "writing") \/ Finishes(c, "select"))

\* write_all has no time limit of its own: it ends when the peer has read
\* enough, or when the connection breaks.
Written(c) == conn[c] = "writing" /\ (Finishes(c, "select") \/ Moves(c, "closing"))

HandlerPanics(c) == conn[c] = "processing" /\ Ends(c)

\* close_notify, bounded by a second.
Close(c) == conn[c] = "closing" /\ Ends(c)

-----------------------------------------------------------------------------
(* Revocation.                                                             *)

\* The operator removes a client from the store.
RemoveClient(id) ==
    /\ id \in store
    /\ store' = store \ {id}
    /\ UNCHANGED <<revoked, runVars, listenerVars, connVars>>

\* close_for takes the client's entries out of the registry under the lock and
\* then signals them.  A connection looks only at its own receiver, and its
\* guard finds no entry either way, so that one step stands for both.
CloseFor(id) ==
    /\ LET mine == {c \in registry : client[c] = id}
       IN /\ registry' = registry \ mine
          /\ signalled' = signalled \cup mine
    /\ revoked' = IF id \in store THEN revoked ELSE revoked \cup {id}
    /\ UNCHANGED <<store, conn, client, late, runVars, listenerVars>>

ListenerStep(l) ==
    \/ ObserveShutdown(l) \/ Reject(l) \/ ListenerPanics(l) \/ Drained(l)
    \/ \E j \in Jobs : AdmitPacket(l, j)
    \/ \E c \in Conns : AdmitConnection(l, c)

\* What a connection task does by itself or by a timer.
ConnStep(c) ==
    \/ Handshake(c) \/ (\E id \in ClientIds : Authorize(c, id)) \/ Register(c)
    \/ ObserveClose(c) \/ RefuseFrame(c) \/ Handled(c) \/ HandlerPanics(c) \/ Close(c)

Next ==
    \/ Bind \/ BindFails \/ RunDropped \/ Return \/ Shutdown
    \/ \E l \in Listeners : Join(l) \/ Aborted(l) \/ ListenerStep(l) \/ Take(l) \/ TakeFails(l)
    \/ \E j \in Jobs : JobEnds(j)
    \/ \E c \in Conns : ConnStep(c) \/ ReadFrame(c) \/ ReadEnds(c) \/ Written(c)
    \/ \E id \in ClientIds : RemoveClient(id) \/ CloseFor(id)

Spec == Init /\ [][Next]_vars

(* The tasks are polled, the store and the handlers return.  Of the peers  *)
(* nothing is assumed, not even that they read what they are sent.         *)
FairSpec ==
    /\ Spec
    /\ WF_vars(Bind \/ BindFails) /\ WF_vars(Return)
    /\ \A l \in Listeners : WF_vars(Join(l)) /\ WF_vars(Aborted(l)) /\ WF_vars(ListenerStep(l))
    /\ \A j \in Jobs : WF_vars(JobEnds(j))
    /\ \A c \in Conns : WF_vars(ConnStep(c))

-----------------------------------------------------------------------------
(* Properties.                                                             *)

\* The registry holds exactly the connections that were registered, have not
\* ended and were not signalled: close_for and the guards' drops, in any
\* order, leave no entry behind and remove none too many.
RegistryExact ==
    registry = {c \in Conns : client[c] # None /\ conn[c] # "authorized"} \ signalled

\* A connection that close_for found finishes at most the frame it was
\* working on: the biased select never starts another one.
AtMostOneLateFrame == \A c \in Conns : late[c] <= 1

\* A UDP listener that ends on a shutdown or a socket error leaves no packet
\* it admitted unfinished, and neither does a run that ends by joining its
\* listeners.  (A panic of the store aborts the listener's packets instead.)
UdpDrained ==
    /\ \A l \in Udp \ panicked : listener[l] \in {"exited", "joined"} => JobsOf(l) = {}
    /\ (run = "returned" /\ ~CutShort) => \A j \in Jobs : job[j] \in panicked \cup {None}

\* run returns Ok only when no listener failed, and an error only for a
\* listener that did.
ErrorReported ==
    /\ (run = "returned" /\ first_err = None) => failed = {}
    /\ first_err \in Listeners => first_err \in failed

\* Being told to stop is for good (shutdown and failed never shrink), and so is
\* having returned: that something which holds from then on is followed by
\* another is said by "again and again, it is so or the other is".

\* A shutdown ends run, however much traffic arrives meanwhile, and so does
\* the failure of any one listener: the server is not left half alive.
RunReturns == []<>(shutdown \/ failed # {} => run = "returned")

\* Once run has returned, by whichever way, its listeners and their packet
\* tasks come to an end: none goes on serving in the background.
ListenersEnd ==
    []<>(run = "returned" =>
            /\ \A l \in Listeners : listener[l] \notin {"serving", "admitting", "draining"}
            /\ \A j \in Jobs : job[j] = None)

\* A connection that was signalled ends, unless its peer neither reads nor goes
\* away: write_all has no time limit, and the close signal is seen only by the
\* select after it.  Nothing but that write can hold the connection up.
SignalledEnds ==
    \A c \in Conns : \/ []<>(c \notin signalled)
                     \/ <>[](c \in signalled /\ conn[c] = "writing")

\* Everything that was told to stop does stop, whatever the peers do: run, what
\* run leaves behind, and each revoked connection save one whose own peer does
\* not take the reply that is being written to it.
ServerEnds == RunReturns /\ ListenersEnd /\ SignalledEnds

\* As documented for close_connections_for (server/runtime.rs): once a client
\* was removed from the store and its connections were closed, no session goes
\* on authenticating as it, save one that has been told to end.
RevokedSignalled ==
    \A c \in Conns : InLoop(c) /\ client[c] \in revoked => c \in signalled

=============================================================================
