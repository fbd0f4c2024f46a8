------------------------------ MODULE Exchange -------------------------------
(***************************************************************************)
(* The registry of outgoing exchanges that both client transports share    *)
(* (exchange.rs), as operations on its state, and the acceptance of a      *)
(* response (codec/response.rs).                                           *)
(*                                                                         *)
(* A packet is what correlation can see of it: identifier, code and the    *)
(* Request Authenticator.  The authenticator of an Access-Request or a     *)
(* Status-Server is random; that of the other requests is a digest of the  *)
(* packet, its code included, so the same request under the same           *)
(* identifier has the same authenticator.  A response carries the authenticator of the request it  *)
(* was sealed for.                                                         *)
(***************************************************************************)
EXTENDS Naturals, FiniteSets

CONSTANTS
    Calls,   \* slots for concurrent send futures
    Peers,   \* target addresses
    IdCount, \* number of identifiers (256 in the code)
    Limit,   \* max_in_flight_per_target
    None

ASSUME ExchangeAssumption ==
    /\ IdCount \in Nat \ {0}
    /\ Limit \in Nat
    /\ None \notin Calls \cup {"closed", "limit", "exhausted"}

Ids == 0 .. IdCount - 1

RequestCodes == {"ACCESS_REQUEST", "ACCOUNTING_REQUEST", "STATUS_SERVER",
                 "COA_REQUEST", "DISCONNECT_REQUEST"}

RandomAuthenticator == {"ACCESS_REQUEST", "STATUS_SERVER"}

\* matches_reply
MatchesReply(request, response) ==
    CASE request = "ACCESS_REQUEST" ->
            response \in {"ACCESS_ACCEPT", "ACCESS_REJECT", "ACCESS_CHALLENGE"}
      [] request = "ACCOUNTING_REQUEST" -> response = "ACCOUNTING_RESPONSE"
      [] request = "STATUS_SERVER" ->
            response \in {"ACCESS_ACCEPT", "ACCOUNTING_RESPONSE"}
      [] request = "COA_REQUEST" -> response \in {"COA_ACK", "COA_NAK"}
      [] request = "DISCONNECT_REQUEST" ->
            response \in {"DISCONNECT_ACK", "DISCONNECT_NAK"}
      [] OTHER -> FALSE

\* Response::verify: identifier and code, then the Response Authenticator,
\* then the Message-Authenticator, which only accounting may omit.
VerifyIdOnly(r, request) ==
    /\ r.id = request.id
    /\ MatchesReply(request.code, r.code)

Verify(r, request) ==
    /\ r.id = request.id
    /\ MatchesReply(request.code, r.code)
    /\ r.auth = request.auth
    /\ \/ r.ma = "valid"
       \/ r.ma = "absent" /\ request.code = "ACCOUNTING_REQUEST"

-----------------------------------------------------------------------------
(* Registry: per peer the next identifier to try and the pending           *)
(* exchanges; an exchange has its sender until it was answered or closed.  *)

Entries(Packets) == [call : Calls, packet : Packets, sender : BOOLEAN]

Registries(Packets) ==
    [next : [Peers -> Ids],
     pending : [Peers -> [Ids -> Entries(Packets) \cup {None}]],
     closed : BOOLEAN]

EmptyRegistry ==
    [next |-> [p \in Peers |-> 0],
     pending |-> [p \in Peers |-> [i \in Ids |-> None]],
     closed |-> FALSE]

InUse(reg, p) == {i \in Ids : reg.pending[p][i] # None}

\* The n-th identifier that register tries.
Try(reg, p, n) == (reg.next[p] + n) % IdCount

\* The early returns of register, in their order.
Refusal(reg, p) ==
    IF reg.closed THEN "closed"
    ELSE IF Cardinality(InUse(reg, p)) >= Limit THEN "limit"
    ELSE IF InUse(reg, p) = Ids THEN "exhausted"
    ELSE None

\* The first free identifier, from next_identifier on.
FreeIdIgnoresPending(reg, p) == reg.next[p]

FreeId(reg, p) ==
    LET n == CHOOSE n \in Ids :
                /\ Try(reg, p, n) \notin InUse(reg, p)
                /\ \A m \in 0 .. n - 1 : Try(reg, p, m) \in InUse(reg, p)
    IN Try(reg, p, n)

\* register, once the packet has been built: the entry of call c.
Registered(reg, p, c, packet) ==
    [reg EXCEPT !.next[p] = (packet.id + 1) % IdCount,
                !.pending[p][packet.id] = [call |-> c, packet |-> packet, sender |-> TRUE]]

\* The exchange that deliver completes with response r of peer p, if any.
Completes(reg, p, r) ==
    LET e == reg.pending[p][r.id]
    IN IF e # None /\ e.sender /\ Verify(r, e.packet) THEN e.call ELSE None

\* An answered entry loses its sender but keeps its identifier.
Taken(reg, p, i) == [reg EXCEPT !.pending[p][i].sender = FALSE]

\* close: the calls that are told, and the registry afterwards.
Waiting(reg) ==
    {c \in Calls : \E p \in Peers, i \in Ids :
        LET e == reg.pending[p][i] IN e # None /\ e.sender /\ e.call = c}

Shut(reg) ==
    [reg EXCEPT
        !.closed = TRUE,
        !.pending = [p \in Peers |-> [i \in Ids |->
            IF @[p][i] = None THEN None ELSE [@[p][i] EXCEPT !.sender = FALSE]]]]

\* Lease::drop, when the last references to the leases of ids go.
Released(reg, p, ids) ==
    [reg EXCEPT !.pending[p] = [i \in Ids |-> IF i \in ids THEN None ELSE @[i]]]
=============================================================================
