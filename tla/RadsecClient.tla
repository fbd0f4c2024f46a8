---------------------------- MODULE RadsecClient -----------------------------
(***************************************************************************)
(* The RADIUS/TLS client (client/radsec.rs): send calls that queue their   *)
(* packets for one connection driver, the driver that writes them and      *)
(* reads frames, close, and the drop of the client.  Correlation is the    *)
(* registry of Exchange, with one peer.                                    *)
(*                                                                         *)
(* A call is one send future, used once.  Its lease is shared by the       *)
(* future and by its command, wherever that is, and the identifier is free *)
(* again when the last of them has gone.                                   *)
(***************************************************************************)
EXTENDS Exchange, Sequences, Functions

CONSTANTS
    Server,     \* the peer of this connection
    Code,       \* the request code the callers use
    ReplyCodes, \* codes of the responses that servers send
    Closers     \* close futures, each used once

ASSUME RadsecClientAssumption ==
    /\ Peers = {Server}
    /\ Code \in RequestCodes
    /\ Calls \cap Closers = {}

VARIABLES
    pc,      \* where each call is
    packet,  \* the packet of its registration
    expired, \* its deadline has passed
    mailbox, \* what its oneshot receiver holds
    closer,  \* where each close call is
    queue,   \* the command channel
    driver,  \* where the connection driver is
    current, \* the command the driver has in hand
    written, \* calls whose packet was written to the connection
    reg,     \* the registry
    dropped  \* the RadsecClient has been dropped

callVars == <<pc, packet, expired, mailbox>>
driverVars == <<queue, driver, current, written>>
vars == <<callVars, closer, driverVars, reg, dropped>>

\* Capacity of the command channel.
Capacity == IF Limit = 0 THEN 1 ELSE IF Limit > IdCount THEN IdCount ELSE Limit

Send(c) == [kind |-> "send", by |-> c]
Close(k) == [kind |-> "close", by |-> k]
Commands == {Send(c) : c \in Calls} \cup {Close(k) : k \in Closers}

Packets == [id : Ids, code : {Code}, auth : Calls \cup {None}]
Responses == [id : Ids, code : ReplyCodes, auth : Calls \cup {None}, ma : {"valid", "absent"}]
Closed == [tag |-> "closed"]
Ok(r) == [tag |-> "ok", response |-> r]
Mail == {Closed} \cup [tag : {"ok"}, response : Responses]

ASSUME RadsecOptionAssumption ==
    None \notin Commands \cup Packets \cup Mail \cup Entries(Packets)

Waits(c) == pc[c] \in {"queueing", "waiting"}
ReceiverGone == driver \in {"stopped", "ended"}

\* Types, and what the driver has in hand in each of its states.
TypeOK ==
    /\ pc \in [Calls -> {"idle", "queueing", "waiting", "done"}]
    /\ packet \in [Calls -> Packets \cup {None}]
    /\ expired \in [Calls -> BOOLEAN]
    /\ mailbox \in [Calls -> Mail \cup {None}]
    /\ closer \in [Closers -> {"idle", "queueing", "waiting", "done"}]
    /\ queue \in Seq(Commands) /\ Len(queue) <= Capacity
    /\ driver \in {"select", "writing", "nak", "closing", "stopped", "ended"}
    /\ current \in Commands \cup {None}
    /\ (current # None) <=> (driver \in {"writing", "closing"})
    /\ ReceiverGone => queue = <<>>
    /\ written \subseteq Calls
    /\ reg \in Registries(Packets)
    /\ dropped \in BOOLEAN

Init ==
    /\ pc = [c \in Calls |-> "idle"]
    /\ packet = [c \in Calls |-> None]
    /\ expired = [c \in Calls |-> FALSE]
    /\ mailbox = [c \in Calls |-> None]
    /\ closer = [k \in Closers |-> "idle"]
    /\ queue = <<>>
    /\ driver = "select"
    /\ current = None
    /\ written = {}
    /\ reg = EmptyRegistry
    /\ dropped = FALSE

\* Someone holds a reference to the lease of c: the future or the command.
Held(c) == Waits(c) \/ Send(c) \in Range(queue) \/ current = Send(c)

\* The registry r after the leases nobody holds any more were dropped.
DropsWithCaller(r) ==
    reg' = Released(r, Server, {packet[c].id : c \in {d \in Calls : Waits(d) /\ ~Waits(d)'}})

Drops(r) ==
    reg' = Released(r, Server, {packet[c].id : c \in {d \in Calls : Held(d) /\ ~Held(d)'}})

\* Registry::close.
ShutDown == /\ mailbox' = [c \in Calls |-> IF c \in Waiting(reg) THEN Closed ELSE mailbox[c]]
            /\ reg' = Shut(reg)

-----------------------------------------------------------------------------
(* send.                                                                   *)

\* Request::seal
Seal(c, id) ==
    [id |-> id, code |-> Code, auth |-> IF Code \in RandomAuthenticator THEN c ELSE None]

Register(c) ==
    /\ pc[c] = "idle" /\ ~dropped
    /\ Refusal(reg, Server) = None
    /\ LET m == Seal(c, FreeId(reg, Server))
       IN /\ packet' = [packet EXCEPT ![c] = m]
          /\ reg' = Registered(reg, Server, c, m)
    /\ pc' = [pc EXCEPT ![c] = "queueing"]
    /\ UNCHANGED <<expired, mailbox, closer, driverVars, dropped>>

\* The registry refuses, or the packet cannot be built.
Refuse(c) ==
    /\ pc[c] = "idle" /\ ~dropped
    /\ pc' = [pc EXCEPT ![c] = "done"]
    /\ UNCHANGED <<packet, expired, mailbox, closer, driverVars, reg, dropped>>

Enqueue(c) ==
    /\ pc[c] = "queueing"
    /\ ~ReceiverGone /\ Len(queue) < Capacity
    /\ queue' = Append(queue, Send(c))
    /\ pc' = [pc EXCEPT ![c] = "waiting"]
    /\ UNCHANGED <<packet, expired, mailbox, closer, driver, current, written, reg, dropped>>

\* The future ends: its reference to the lease goes.
Finish(c) ==
    /\ pc' = [pc EXCEPT ![c] = "done"]
    /\ UNCHANGED <<packet, expired, mailbox, closer, driverVars, dropped>>
    /\ Drops(reg)

\* commands.send fails, with Closed.
EnqueueFails(c) == pc[c] = "queueing" /\ ReceiverGone /\ Finish(c)

Receive(c) == pc[c] = "waiting" /\ mailbox[c] # None /\ Finish(c)

\* The inner future is polled before the deadline.
TimeOut(c) ==
    /\ expired[c]
    /\ \/ pc[c] = "queueing" /\ ~ReceiverGone /\ Len(queue) = Capacity
       \/ pc[c] = "waiting" /\ mailbox[c] = None
    /\ Finish(c)

Cancel(c) == Waits(c) /\ Finish(c)

Expire(c) ==
    /\ Waits(c) /\ ~expired[c]
    /\ expired' = [expired EXCEPT ![c] = TRUE]
    /\ UNCHANGED <<pc, packet, mailbox, closer, driverVars, reg, dropped>>

-----------------------------------------------------------------------------
(* run_connection, and the task around it.                                 *)

\* Lease::is_active: not answered, and the caller still waits.
Active(c) ==
    LET e == reg.pending[Server][packet[c].id]
    IN e # None /\ e.sender /\ Waits(c)

\* A queued packet is written only while its caller waits and has time left.
TakeSendActiveOnly(c) ==
    /\ driver = "select" /\ queue # <<>> /\ Head(queue) = Send(c)
    /\ Active(c) /\ ~expired[c]
    /\ queue' = Tail(queue)
    /\ driver' = "writing" /\ current' = Send(c)
    /\ UNCHANGED <<callVars, closer, written, reg, dropped>>

TakeSend(c) ==
    /\ driver = "select" /\ queue # <<>> /\ Head(queue) = Send(c)
    /\ queue' = Tail(queue)
    /\ IF Active(c) /\ ~expired[c]
       THEN driver' = "writing" /\ current' = Send(c)
       ELSE UNCHANGED <<driver, current>>
    /\ UNCHANGED <<callVars, closer, written, dropped>>
    /\ Drops(reg)

WriteDone(c) ==
    /\ driver = "writing" /\ current = Send(c)
    /\ written' = written \cup {c}
    /\ driver' = "select"
    /\ current' = None
    /\ UNCHANGED <<callVars, closer, queue, dropped>>
    /\ Drops(reg)

TakeClose(k) ==
    /\ driver = "select" /\ queue # <<>> /\ Head(queue) = Close(k)
    /\ queue' = Tail(queue)
    /\ driver' = "closing"
    /\ current' = Close(k)
    /\ UNCHANGED <<callVars, closer, written, reg, dropped>>

\* A response to a written packet arrives; deliver completes its exchange or
\* ignores it.
Deliver(c, code, ma) ==
    /\ driver = "select" /\ c \in written
    /\ LET r == [id |-> packet[c].id, code |-> code, auth |-> packet[c].auth, ma |-> ma]
           d == Completes(reg, Server, r)
       IN /\ d # None
          /\ reg' = Taken(reg, Server, r.id)
          /\ mailbox' = IF Waits(d) THEN [mailbox EXCEPT ![d] = Ok(r)] ELSE mailbox
    /\ UNCHANGED <<pc, packet, expired, closer, driverVars, dropped>>

\* A CoA or Disconnect request arrives, and is answered with a NAK.
DynamicRequest ==
    /\ driver = "select"
    /\ driver' = "nak"
    /\ UNCHANGED <<callVars, closer, queue, current, written, reg, dropped>>

NakDone ==
    /\ driver = "nak"
    /\ driver' = "select"
    /\ UNCHANGED <<callVars, closer, queue, current, written, reg, dropped>>

\* run_connection returns: the close_notify went out or failed, a write failed
\* or ran into its deadline, the peer closed, or a frame was malformed.  The
\* channel goes, with every command in it.
Stop ==
    /\ ~ReceiverGone
    /\ driver' = "stopped"
    /\ queue' = <<>>
    /\ current' = None
    /\ UNCHANGED <<callVars, closer, written, dropped>>
    /\ Drops(reg)

\* The task closes the registry, and ends.
EndUnheard ==
    /\ driver = "stopped"
    /\ driver' = "ended"
    /\ reg' = Shut(reg)
    /\ UNCHANGED <<callVars, closer, queue, current, written, dropped>>

End ==
    /\ driver = "stopped"
    /\ driver' = "ended"
    /\ ShutDown
    /\ UNCHANGED <<pc, packet, expired, closer, queue, current, written, dropped>>

-----------------------------------------------------------------------------
(* close, and the drop of the client.                                      *)

CloseBegin(k) ==
    /\ closer[k] = "idle" /\ ~dropped
    /\ ShutDown
    /\ closer' = [closer EXCEPT ![k] = IF driver = "ended" THEN "done" ELSE "queueing"]
    /\ UNCHANGED <<pc, packet, expired, driverVars, dropped>>

CloseEnqueue(k) ==
    /\ closer[k] = "queueing"
    /\ ~ReceiverGone /\ Len(queue) < Capacity
    /\ queue' = Append(queue, Close(k))
    /\ closer' = [closer EXCEPT ![k] = "waiting"]
    /\ UNCHANGED <<callVars, driver, current, written, reg, dropped>>

\* The channel has gone, or the command's sender was used or dropped.
CloseReturns(k) ==
    /\ \/ closer[k] = "queueing" /\ ReceiverGone
       \/ closer[k] = "waiting" /\ Close(k) \notin Range(queue) /\ current # Close(k)
    /\ closer' = [closer EXCEPT ![k] = "done"]
    /\ UNCHANGED <<callVars, driverVars, reg, dropped>>

\* connect_timeout elapses, or the close future is dropped.
CloseGivesUp(k) ==
    /\ closer[k] \in {"queueing", "waiting"}
    /\ closer' = [closer EXCEPT ![k] = "done"]
    /\ UNCHANGED <<callVars, driverVars, reg, dropped>>

\* Futures borrow the client, so none is left when it is dropped; commands of
\* cancelled calls may be.
DropClient ==
    /\ ~dropped
    /\ \A c \in Calls : ~Waits(c)
    /\ \A k \in Closers : closer[k] \in {"idle", "done"}
    /\ dropped' = TRUE
    /\ ShutDown
    /\ UNCHANGED <<pc, packet, expired, closer, driverVars>>

\* The runtime drops the aborted driver at an await.
Aborted ==
    /\ dropped /\ driver # "ended"
    /\ driver' = "ended"
    /\ queue' = <<>>
    /\ current' = None
    /\ UNCHANGED <<callVars, closer, written, dropped>>
    /\ Drops(reg)

CallStep(c) == Enqueue(c) \/ EnqueueFails(c) \/ Receive(c) \/ TimeOut(c) \/ Expire(c)
TakeCommand == (\E c \in Calls : TakeSend(c)) \/ \E k \in Closers : TakeClose(k)
\* What ends by itself or by a timer once it was begun.
DriverStep ==
    \/ \E c \in Calls : WriteDone(c)
    \/ NakDone
    \/ driver \in {"writing", "nak", "closing"} /\ Stop
    \/ End
    \/ Aborted
CloserStep(k) == CloseEnqueue(k) \/ CloseReturns(k)

Next ==
    \/ \E c \in Calls : Register(c) \/ Refuse(c) \/ CallStep(c) \/ Cancel(c)
    \/ \E c \in Calls, code \in ReplyCodes, ma \in {"valid", "absent"} : Deliver(c, code, ma)
    \/ TakeCommand \/ DriverStep \/ Stop \/ DynamicRequest
    \/ \E k \in Closers : CloseBegin(k) \/ CloserStep(k) \/ CloseGivesUp(k)
    \/ DropClient

Spec == Init /\ [][Next]_vars

(* The futures are polled and their timers fire, a write or a shutdown     *)
(* ends by itself or by its timer, and tokio::select! draws among the      *)
(* branches that are ready, so that a queued command is taken in the end.  *)
FairSpec ==
    /\ Spec
    /\ \A c \in Calls : WF_vars(CallStep(c))
    /\ \A k \in Closers : WF_vars(CloserStep(k))
    /\ SF_vars(TakeCommand)
    /\ WF_vars(DriverStep)

-----------------------------------------------------------------------------
(* Properties.                                                             *)

\* The identifiers in use are exactly those of leases that someone holds, and
\* no two held leases share one: an identifier is not given out again while a
\* packet that carries it may still be waited for, be queued or be in the
\* middle of a write, even when its caller gave up long ago, and none is lost
\* when futures and commands are dropped in any order.
LeasesExact ==
    /\ \A c, d \in Calls : (Held(c) /\ Held(d) /\ c # d) => packet[c].id # packet[d].id
    /\ \A i \in Ids :
        (reg.pending[Server][i] # None) <=> (\E c \in Calls : Held(c) /\ packet[c].id = i)

\* The channel has room for every call: no command is in it twice, and nobody
\* queues behind the commands of others unless close commands fill it.
RoomForEveryCall ==
    /\ \A i, j \in DOMAIN queue : queue[i] = queue[j] => i = j
    /\ Cardinality({c \in Calls : Send(c) \in Range(queue)})
            + Cardinality({c \in Calls : pc[c] = "queueing"}) <= Capacity

\* The identifiers in use are exactly those of leases that someone holds, and
\* the channel has room for every call that holds one.
LeasesSound == TypeOK /\ LeasesExact /\ RoomForEveryCall

\* Once the driver has ended, however it ended, every call has been told or
\* finds the channel closed.
EndedTellsAll ==
    driver = "ended" => \A c \in Calls : pc[c] = "waiting" => mailbox[c] # None

\* The identifier of a call comes back, also when the call gave up while its
\* packet was queued.
LeaseReturns(c) == Held(c) ~> ~Held(c)

\* close returns without the help of its time-out, whatever is queued before
\* its command and whatever the server sends meanwhile.
CloseReturnsInTime(k) == closer[k] = "queueing" ~> closer[k] = "done"
=============================================================================
