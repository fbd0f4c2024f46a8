------------------------------ MODULE UdpClient ------------------------------
(***************************************************************************)
(* The multiplexed RADIUS/UDP client (transport/udp.rs), which the CoA     *)
(* originator (coa.rs) wraps as well: concurrent send_with calls that      *)
(* retransmit identical bytes, one reader task, and the registry of        *)
(* Exchange between them.                                                  *)
(*                                                                         *)
(* The network loses, delays, duplicates and reorders: once a request has  *)
(* been sent, a response to it may reach the reader at any time, any       *)
(* number of times, or never.                                              *)
(***************************************************************************)
EXTENDS Exchange

CONSTANTS
    Codes,      \* request codes the callers use
    ReplyCodes, \* codes of the responses that servers send
    MaxRetries, \* retransmissions after the first send
    MaxSends    \* bound: exchanges started, which bounds authenticators

ASSUME UdpClientAssumption ==
    /\ Codes \subseteq RequestCodes
    /\ MaxRetries \in Nat /\ MaxSends \in Nat

VARIABLES
    pc,      \* where each call is
    peer,    \* its target
    packet,  \* the packet of its registration
    attempt, \* the number of this attempt
    mailbox, \* what its oneshot receiver holds
    result,  \* what it returned
    reg,     \* the registry
    sent,    \* <<peer, packet>> that have left the socket
    started  \* exchanges started so far

callVars == <<pc, peer, packet, attempt, mailbox, result>>
vars == <<callVars, reg, sent, started>>

\* An authenticator is told by the code it was made for and, when it is
\* random, by the exchange.
Authenticators == Codes \X (0 .. MaxSends)
Packets == [id : Ids, code : Codes, auth : Authenticators]
Responses == [id : Ids, code : ReplyCodes, auth : Authenticators, ma : {"valid", "absent"}]
Failures == {"closed", "limit", "exhausted", "codec", "io", "timeout"}

\* Result<Response, ClientError>
Ok(r) == [tag |-> "ok", response |-> r]
Err(e) == [tag |-> "err", error |-> e]
Results == [tag : {"ok"}, response : Responses] \cup [tag : {"err"}, error : Failures]

ASSUME UdpOptionAssumption ==
    None \notin Peers \cup Packets \cup Results \cup Entries(Packets)

\* Types; a call has a packet exactly while it is registered.
TypeOK ==
    /\ pc \in [Calls -> {"idle", "sending", "waiting", "done"}]
    /\ peer \in [Calls -> Peers \cup {None}]
    /\ packet \in [Calls -> Packets \cup {None}]
    /\ attempt \in [Calls -> 0 .. MaxRetries]
    /\ mailbox \in [Calls -> Results \cup {None}]
    /\ result \in [Calls -> Results \cup {None}]
    /\ reg \in Registries(Packets)
    /\ sent \subseteq Peers \X Packets
    /\ started \in 0 .. MaxSends
    /\ \A c \in Calls : /\ (packet[c] # None) <=> (pc[c] \in {"sending", "waiting"})
                        /\ (result[c] # None) <=> (pc[c] = "done")

Init ==
    /\ pc = [c \in Calls |-> "idle"]
    /\ peer = [c \in Calls |-> None]
    /\ packet = [c \in Calls |-> None]
    /\ attempt = [c \in Calls |-> 0]
    /\ mailbox = [c \in Calls |-> None]
    /\ result = [c \in Calls |-> None]
    /\ reg = EmptyRegistry
    /\ sent = {}
    /\ started = 0

\* Request::seal: the authenticator is random, or a digest of the packet.
Seal(code, id) ==
    [id |-> id, code |-> code,
     auth |-> <<code, IF code \in RandomAuthenticator THEN started + 1 ELSE 0>>]

-----------------------------------------------------------------------------
(* send_with.                                                              *)

\* register succeeds: the call owns an identifier.
Start(c, p, code) ==
    /\ pc[c] = "idle" /\ started < MaxSends
    /\ Refusal(reg, p) = None
    /\ LET m == Seal(code, FreeId(reg, p))
       IN /\ packet' = [packet EXCEPT ![c] = m]
          /\ reg' = Registered(reg, p, c, m)
    /\ pc' = [pc EXCEPT ![c] = "sending"]
    /\ peer' = [peer EXCEPT ![c] = p]
    /\ started' = started + 1
    /\ UNCHANGED <<attempt, mailbox, result, sent>>

\* register refuses, or the packet cannot be built.
Refuse(c, p) ==
    /\ pc[c] = "idle"
    /\ result' = [result EXCEPT
                    ![c] = Err(IF Refusal(reg, p) = None THEN "codec" ELSE Refusal(reg, p))]
    /\ pc' = [pc EXCEPT ![c] = "done"]
    /\ UNCHANGED <<peer, packet, attempt, mailbox, reg, sent, started>>

\* The future ends with outcome r: the registration is dropped, and with it
\* the lease.
Finish(c, r) ==
    /\ result' = [result EXCEPT ![c] = r]
    /\ pc' = [pc EXCEPT ![c] = IF r = None THEN "idle" ELSE "done"]
    /\ reg' = Released(reg, peer[c], {packet[c].id})
    /\ peer' = [peer EXCEPT ![c] = None]
    /\ packet' = [packet EXCEPT ![c] = None]
    /\ attempt' = [attempt EXCEPT ![c] = 0]
    /\ mailbox' = [mailbox EXCEPT ![c] = None]
    /\ UNCHANGED <<sent, started>>

SendTo(c) ==
    /\ pc[c] = "sending"
    /\ sent' = sent \cup {<<peer[c], packet[c]>>}
    /\ pc' = [pc EXCEPT ![c] = "waiting"]
    /\ UNCHANGED <<peer, packet, attempt, mailbox, result, reg, started>>

SendError(c) == pc[c] = "sending" /\ Finish(c, Err("io"))

\* The receiver is polled before the timer, so an answer that is there wins.
Receive(c) == pc[c] = "waiting" /\ mailbox[c] # None /\ Finish(c, mailbox[c])

Retransmit(c) ==
    /\ pc[c] = "waiting" /\ mailbox[c] = None
    /\ attempt[c] < MaxRetries
    /\ attempt' = [attempt EXCEPT ![c] = @ + 1]
    /\ pc' = [pc EXCEPT ![c] = "sending"]
    /\ UNCHANGED <<peer, packet, mailbox, result, reg, sent, started>>

GiveUp(c) ==
    /\ pc[c] = "waiting" /\ mailbox[c] = None
    /\ attempt[c] = MaxRetries
    /\ Finish(c, Err("timeout"))

\* The caller drops the future at an await.
Cancel(c) == pc[c] \in {"sending", "waiting"} /\ Finish(c, None)

\* The caller takes the result.
Return(c) ==
    /\ pc[c] = "done"
    /\ pc' = [pc EXCEPT ![c] = "idle"]
    /\ result' = [result EXCEPT ![c] = None]
    /\ UNCHANGED <<peer, packet, attempt, mailbox, reg, sent, started>>

-----------------------------------------------------------------------------
(* read_replies.                                                           *)

\* A response to a request that was once sent arrives; deliver completes the
\* exchange it verifies for, or ignores it.
Deliver(p, r) ==
    /\ ~reg.closed
    /\ \E m \in Packets : /\ <<p, m>> \in sent
                          /\ r.id = m.id /\ r.auth = m.auth
    /\ LET c == Completes(reg, p, r)
       IN IF c = None THEN UNCHANGED <<mailbox, reg>>
          ELSE /\ mailbox' = [mailbox EXCEPT ![c] = Ok(r)]
               /\ reg' = Taken(reg, p, r.id)
    /\ UNCHANGED <<pc, peer, packet, attempt, result, sent, started>>

\* recv_from fails: the reader closes the registry and ends.
ReaderFails ==
    /\ ~reg.closed
    /\ mailbox' = [c \in Calls |-> IF c \in Waiting(reg) THEN Err("closed") ELSE mailbox[c]]
    /\ reg' = Shut(reg)
    /\ UNCHANGED <<pc, peer, packet, attempt, result, sent, started>>

CallStep(c) ==
    SendTo(c) \/ SendError(c) \/ Receive(c) \/ Retransmit(c) \/ GiveUp(c) \/ Return(c)

Next ==
    \/ \E c \in Calls, p \in Peers :
        Refuse(c, p) \/ \E code \in Codes : Start(c, p, code)
    \/ \E c \in Calls : CallStep(c) \/ Cancel(c)
    \/ \E p \in Peers, r \in Responses : Deliver(p, r)
    \/ ReaderFails

Spec == Init /\ [][Next]_vars

(* The futures are polled and their timers fire.                           *)
FairSpec == Spec /\ \A c \in Calls : WF_vars(CallStep(c))

-----------------------------------------------------------------------------
(* Properties.                                                             *)

Active(c) == packet[c] # None

IdsExclusive ==
    \A c \in Calls : Active(c) =>
        /\ reg.pending[peer[c]][packet[c].id] # None
        /\ reg.pending[peer[c]][packet[c].id].call = c

NoIdLeak ==
    \A p \in Peers : \A i \in InUse(reg, p) :
        LET c == reg.pending[p][i].call
        IN Active(c) /\ peer[c] = p /\ packet[c].id = i

WithinLimit == \A p \in Peers : Cardinality(InUse(reg, p)) <= Limit

\* The registry lists exactly the calls in flight, and of one peer never more
\* than the limit.  Requests in flight to one peer never share an identifier
\* and no lease frees or takes over that of another call; and time-outs, send
\* errors, answers and cancellations all give the identifier back.
IdsExact == IdsExclusive /\ NoIdLeak /\ WithinLimit

\* What a call receives answers its own packet, which has been sent: a late or
\* duplicated response to an earlier exchange under the same identifier is not
\* taken for it.  Where the authenticator is random, the call itself has sent
\* the packet.
AnswersOwnRequest ==
    \A c \in Calls : (Active(c) /\ mailbox[c] # None /\ mailbox[c].tag = "ok") =>
        /\ mailbox[c].response.id = packet[c].id
        /\ mailbox[c].response.auth = packet[c].auth
        /\ <<peer[c], packet[c]>> \in sent
        /\ packet[c].code \in RandomAuthenticator => pc[c] = "waiting" \/ attempt[c] > 0

\* After the reader has gone, every call has been told: nobody sits out its
\* time-outs on a socket that will never be read again.
ClosedTellsAll ==
    reg.closed => \A c \in Calls : Active(c) => mailbox[c] # None

\* A call is told the truth: what it receives answers the packet that it sent,
\* not an earlier exchange under the same identifier, and once the reader has
\* gone nobody sits out its time-outs.
CallsToldRight == TypeOK /\ AnswersOwnRequest /\ ClosedTellsAll

\* A call ends, with an answer or an error.
CallEnds(c) == pc[c] = "sending" ~> pc[c] = "idle"
=============================================================================
