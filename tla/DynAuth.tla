------------------------------- MODULE DynAuth -------------------------------
(***************************************************************************)
(* Dynamic authorization end to end: the CoaOriginator (server/coa.rs), the *)
(* network, and the server of the NAS with its reply cache, whose handler   *)
(* answers with the CoA helpers of Request (server/handler.rs).             *)
(*                                                                          *)
(* The network loses, delays, duplicates and reorders.  The authenticator   *)
(* of a request is a digest of its octets: an identical request under the   *)
(* same identifier is the same packet.                                      *)
(***************************************************************************)
EXTENDS Exchange, Sequences

CONSTANTS Bodies,      \* what the build closures append
          CauseValues, \* values of Error-Cause
          MaxRetries, MaxSends, MaxForgotten  \* bounds of the instance

DynCodes == {"COA_REQUEST", "DISCONNECT_REQUEST"}

VARIABLES pc, peer, packet, attempt, mailbox,
          result,      \* Result<CoaOutcome, CoaError>
          reg, sent, replies, started,
          cache,       \* of the NAS: <<peer, packet>> to reply
          decided,     \* ghost: <<peer, packet, verdict>>
          runs, forgotten  \* ghosts: handler runs, and runs that left no reply

callVars == <<pc, peer, packet, attempt, mailbox, result>>
nasVars == <<cache, decided, runs, forgotten>>
vars == <<callVars, reg, sent, replies, started, nasVars>>

Init == /\ pc = [c \in Calls |-> "idle"] /\ peer = [c \in Calls |-> None]
        /\ packet = [c \in Calls |-> None] /\ attempt = [c \in Calls |-> 0]
        /\ mailbox = [c \in Calls |-> None] /\ result = [c \in Calls |-> None]
        /\ reg = EmptyRegistry /\ sent = {} /\ replies = {} /\ started = 0
        /\ cache = {} /\ decided = {} /\ runs = <<>> /\ forgotten = 0
-----------------------------------------------------------------------------
(* CoaAction and ErrorCause *)

AckCode(code) == IF code = "COA_REQUEST" THEN "COA_ACK" ELSE "DISCONNECT_ACK"

NakCode(code) == IF code = "COA_REQUEST" THEN "COA_NAK" ELSE "DISCONNECT_NAK"

NamedCauses == {201, 202} \cup 401 .. 407 \cup 501 .. 508
CauseFrom(v) == [kind |-> IF v \in NamedCauses THEN "named" ELSE "Other", value |-> v]
CauseTo(cause) == cause.value

\* What a handler may do: acknowledge, refuse with a cause, reply with another
\* code, or drop.
Verdicts == [do : {"ack", "odd", "drop"}]
            \cup [do : {"nak"}, cause : {CauseFrom(v) : v \in CauseValues}]

\* coa_ack, coa_nak and reply; Error-Cause is an attribute of the reply.
ReplyTo(m, verdict) ==
    [id |-> m.id, auth |-> m.auth, ma |-> "valid",
     code |-> IF verdict.do = "ack" THEN AckCode(m.code)
              ELSE IF verdict.do = "nak" THEN NakCode(m.code) ELSE "ACCESS_ACCEPT",
     cause |-> IF verdict.do = "nak" THEN CauseTo(verdict.cause) ELSE None]
-----------------------------------------------------------------------------
(* CoaOriginator::send_request *)

\* Request::seal over the buffer of the closure.
Seal(id, code, body) == [id |-> id, code |-> code, auth |-> <<id, code, body>>]

Start(c, p, code, body) ==
    /\ pc[c] = "idle" /\ started < MaxSends
    /\ Refusal(reg, p) = None
    /\ LET m == Seal(FreeId(reg, p), code, body)
       IN /\ packet' = [packet EXCEPT ![c] = m]
          /\ reg' = Registered(reg, p, c, m)
    /\ pc' = [pc EXCEPT ![c] = "sending"]
    /\ peer' = [peer EXCEPT ![c] = p]
    /\ started' = started + 1
    /\ UNCHANGED <<attempt, mailbox, result, sent, replies, nasVars>>

\* ClientError to CoaError.
CoaError(e) == CASE e = "limit" -> "InFlightLimit" [] e = "exhausted" -> "IdentifierExhausted"
                 [] e = "closed" -> "Cancelled" [] e = "timeout" -> "Timeout" [] e = "io" -> "Io"
                 [] OTHER -> "Codec"
Err(e) == [tag |-> "err", error |-> CoaError(e)]

\* The closure fails, or register refuses: nothing is sent.
Refuse(c, p) ==
    /\ pc[c] = "idle"
    /\ result' = [result EXCEPT ![c] = Err(IF Refusal(reg, p) = None THEN "codec" ELSE Refusal(reg, p))]
    /\ pc' = [pc EXCEPT ![c] = "done"]
    /\ UNCHANGED <<peer, packet, attempt, mailbox, reg, sent, replies, started, nasVars>>

\* The future ends and its lease with it; a cancelled one has no result.
Finish(c, r) ==
    /\ result' = [result EXCEPT ![c] = r]
    /\ pc' = [pc EXCEPT ![c] = "done"]
    /\ reg' = Released(reg, peer[c], {packet[c].id})
    /\ mailbox' = [mailbox EXCEPT ![c] = None]
    /\ UNCHANGED <<peer, packet, attempt, sent, replies, started, nasVars>>

SendTo(c) ==
    /\ pc[c] = "sending"
    /\ sent' = sent \cup {<<peer[c], packet[c]>>}
    /\ pc' = [pc EXCEPT ![c] = "waiting"]
    /\ UNCHANGED <<peer, packet, attempt, mailbox, result, reg, replies, started, nasVars>>

\* The code of the reply, and its attributes as they are.
Outcome(r) ==
    [tag |-> IF r.code \in {"COA_ACK", "DISCONNECT_ACK"} THEN "Ack" ELSE "Nak", cause |-> r.cause]

Receive(c) ==
    /\ pc[c] = "waiting" /\ mailbox[c] # None
    /\ Finish(c, IF mailbox[c].tag = "ok" THEN Outcome(mailbox[c].reply) ELSE mailbox[c])

\* The same octets are sent again.
Retransmit(c) ==
    /\ pc[c] = "waiting" /\ mailbox[c] = None /\ attempt[c] < MaxRetries
    /\ attempt' = [attempt EXCEPT ![c] = @ + 1]
    /\ pc' = [pc EXCEPT ![c] = "sending"]
    /\ UNCHANGED <<peer, packet, mailbox, result, reg, sent, replies, started, nasVars>>

GiveUp(c) ==
    /\ pc[c] = "waiting" /\ mailbox[c] = None /\ attempt[c] = MaxRetries
    /\ Finish(c, Err("timeout"))
Cancel(c) == pc[c] \in {"sending", "waiting"} /\ Finish(c, None)
SendError(c) == pc[c] = "sending" /\ Finish(c, Err("io"))

\* The caller takes the result.
Return(c) ==
    /\ pc[c] = "done"
    /\ pc' = [pc EXCEPT ![c] = "idle"] /\ peer' = [peer EXCEPT ![c] = None]
    /\ packet' = [packet EXCEPT ![c] = None] /\ attempt' = [attempt EXCEPT ![c] = 0]
    /\ result' = [result EXCEPT ![c] = None]
    /\ UNCHANGED <<mailbox, reg, sent, replies, started, nasVars>>

Deliver(p, r) ==
    /\ ~reg.closed
    /\ LET c == Completes(reg, p, r)
       IN IF c = None THEN UNCHANGED <<mailbox, reg>>
          ELSE /\ mailbox' = [mailbox EXCEPT ![c] = [tag |-> "ok", reply |-> r]]
               /\ reg' = Taken(reg, p, r.id)
    /\ UNCHANGED <<pc, peer, packet, attempt, result, sent, replies, started, nasVars>>

\* The reader ends and closes the registry.
ReaderFails ==
    /\ ~reg.closed
    /\ mailbox' = [c \in Calls |-> IF c \in Waiting(reg) THEN Err("closed") ELSE mailbox[c]]
    /\ reg' = Shut(reg)
    /\ UNCHANGED <<pc, peer, packet, attempt, result, sent, replies, started, nasVars>>
-----------------------------------------------------------------------------
(* The NAS *)

\* Mutant of Cached: the NAS keeps no replies.
CachedNot(p, m) == {}

Cached(p, m) == {e \in cache : e[1] = p /\ e[2] = m}

\* A request arrives that has a cached reply.
Replay(p, m) ==
    /\ Cached(p, m) # {}
    /\ replies' = replies \cup {<<p, e[3]>> : e \in Cached(p, m)}
    /\ UNCHANGED <<callVars, reg, sent, started, nasVars>>

\* One that has none: the handler runs, and its reply is sealed and cached.
HandleRequest(p, m, v) ==
    /\ Cached(p, m) = {}
    /\ runs' = Append(runs, <<p, m>>)
    /\ decided' = decided \cup {<<p, m, v>>}
    /\ IF v.do = "drop" THEN forgotten' = forgotten + 1 /\ UNCHANGED <<cache, replies>>
       ELSE /\ cache' = cache \cup {<<p, m, ReplyTo(m, v)>>}
            /\ replies' = replies \cup {<<p, ReplyTo(m, v)>>}
            /\ UNCHANGED forgotten
    /\ UNCHANGED <<callVars, reg, sent, started>>

\* The time to live of a cached reply is over.
Expire(e) ==
    /\ cache' = cache \ {e} /\ forgotten' = forgotten + 1
    /\ UNCHANGED <<callVars, reg, sent, replies, started, decided, runs>>

Next == \/ \E c \in Calls, p \in Peers :
            Refuse(c, p) \/ \E code \in DynCodes, b \in Bodies : Start(c, p, code, b)
        \/ \E c \in Calls : \/ SendTo(c) \/ Receive(c) \/ Retransmit(c) \/ GiveUp(c) \/ Cancel(c)
                            \/ SendError(c) \/ Return(c)
        \/ \E r \in replies : Deliver(r[1], r[2])
        \/ ReaderFails
        \/ \E s \in sent : Replay(s[1], s[2])
        \/ \E s \in sent, v \in Verdicts : (v.do = "drop" => forgotten < MaxForgotten) /\ HandleRequest(s[1], s[2], v)
        \/ \E e \in cache : forgotten < MaxForgotten /\ Expire(e)
Spec == Init /\ [][Next]_vars
-----------------------------------------------------------------------------
(* Properties.                                                             *)

Requests == {Seal(i, code, b) : i \in Ids, code \in DynCodes, b \in Bodies}
Replies == {ReplyTo(m, v) : m \in Requests, v \in Verdicts}
CoaErrors == {"InFlightLimit", "IdentifierExhausted", "Cancelled", "Timeout", "Io", "Codec"}
Errors == [tag : {"err"}, error : CoaErrors]
Outcomes == [tag : {"Ack", "Nak"}, cause : CauseValues \cup {None}]

DynAuthAssumption ==
    /\ MaxRetries \in Nat /\ MaxSends \in Nat /\ MaxForgotten \in Nat
    /\ None \notin Entries(Requests)

\* Types; only who has ended has a result, and only who is waiting has mail.
TypeOK ==
    /\ pc \in [Calls -> {"idle", "sending", "waiting", "done"}]
    /\ peer \in [Calls -> Peers \cup {None}]
    /\ packet \in [Calls -> Requests \cup {None}]
    /\ attempt \in [Calls -> 0 .. MaxRetries]
    /\ mailbox \in [Calls -> [tag : {"ok"}, reply : Replies] \cup Errors \cup {None}]
    /\ result \in [Calls -> Outcomes \cup Errors \cup {None}]
    /\ reg \in Registries(Requests)
    /\ sent \subseteq Peers \X Requests
    /\ replies \subseteq Peers \X Replies
    /\ started \in 0 .. MaxSends
    /\ cache \subseteq Peers \X Requests \X Replies
    /\ decided \subseteq Peers \X Requests \X Verdicts
    /\ runs \in Seq(Peers \X Requests)
    /\ forgotten \in 0 .. MaxForgotten
    /\ \A c \in Calls : /\ result[c] # None => pc[c] = "done"
                        /\ mailbox[c] # None => pc[c] \in {"sending", "waiting"}

\* What a caller is told is what the handler of its own target decided on the
\* octets it sent: an Ack was acknowledged, a Nak was refused with the cause
\* the handler gave.  Late, duplicated and foreign replies change nothing.
OutcomeIsVerdict ==
    \A c \in Calls : (result[c] # None /\ result[c].tag \in {"Ack", "Nak"}) =>
        \E d \in decided : /\ d[1] = peer[c] /\ d[2] = packet[c]
                           /\ d[3].do = IF result[c].tag = "Ack" THEN "ack" ELSE "nak"
                           /\ d[3].do = "nak" => CauseFrom(result[c].cause) = d[3].cause

\* Retransmissions and copies of a request run the handler once for as long as
\* its reply is remembered.
HandledOnce ==
    \A i \in DOMAIN runs :
        Cardinality({j \in DOMAIN runs : runs[j] = runs[i]}) <= 1 + forgotten

\* A reply that a helper made is one the originator accepts for the request.
HelpersVerify ==
    \A d \in decided : d[3].do \in {"ack", "nak"} => Verify(ReplyTo(d[2], d[3]), d[2])

\* What a caller of the CoA originator is told is what the handler of the NAS
\* decided on the octets that it sent, the handler runs once for
\* retransmissions and copies for as long as its reply is remembered, and the
\* originator accepts what the reply helpers make.
CoaExact == TypeOK /\ OutcomeIsVerdict /\ HandledOnce /\ HelpersVerify

=============================================================================
