----------------------------- MODULE PacketPath ------------------------------
(***************************************************************************)
(* The way of one packet through a listener, in the order of the code:     *)
(* process_packet (server/udp.rs) and process_frame (server/radsec.rs).    *)
(* The client, the listener's role and the policy are arbitrary.           *)
(***************************************************************************)
EXTENDS Pipeline

CONSTANTS Packets, Clients

PacketPathAssumption == Packets \subseteq AllPackets /\ Clients \subseteq AllClients

VARIABLES packet, client, role, policy, transport, \* fixed inputs
          stage,   \* how far the packet has come
          outcome  \* what became of it

inputs == <<packet, client, role, policy, transport>>
vars == <<inputs, stage, outcome>>

Init ==
    /\ packet \in Packets /\ client \in Clients
    /\ role \in Roles /\ policy \in Policies /\ transport \in {"udp", "radsec"}
    /\ stage = "received"
    /\ outcome = "none"

End(o) == stage' = "end" /\ outcome' = o /\ UNCHANGED inputs
Go(s) == stage' = s /\ UNCHANGED <<inputs, outcome>>

\* UDP drops an offending datagram, RadSec ends the session.
Refuse == End(IF transport = "udp" THEN "dropped" ELSE "torn_down")

ValidateStep ==
    /\ stage = "received"
    /\ IF Validate(packet, client) = "Ok" THEN Go("validated") ELSE Refuse

FilterRole ==
    /\ stage = "validated"
    /\ IF Accepts(role, packet.code) THEN Go("admitted") ELSE Refuse

\* The packet reaches the handler, or the Status-Server responder decides.
Dispatch ==
    /\ stage = "admitted"
    /\ LET d == Dispatched(packet, client, policy)
       IN End(CASE d = "Handler" -> "handled"
                [] d = "StatusServerReply" -> StatusReplyCode(role)
                [] OTHER -> "ignored")

Next == ValidateStep \/ FilterRole \/ Dispatch

Spec == Init /\ [][Next]_vars

-----------------------------------------------------------------------------
(* Properties.                                                             *)

\* What the packet proves about its sender: a Message-Authenticator that
\* verifies, or a digest, for the codes that are signed by one.
Proven(p) == p.ma = "valid" \/ (p.digest /\ p.code \in DigestCodes)

\* Nothing reaches the handler, the responder or the reply cache without
\* integrity, except an Access-Request without EAP from a client for which
\* the operator waived the Message-Authenticator; a tag that is present and
\* wrong is never excused.
OnlyProvenDispatched ==
    stage = "admitted" =>
        /\ packet.header = "ok" /\ packet.ma # "invalid"
        /\ \/ Proven(packet)
           \/ /\ packet.code = "ACCESS_REQUEST" /\ ~packet.eap
              /\ ~client.require_message_authenticator

\* The handler sees requests only, and those of its listener's role; replies
\* and unknown codes, which validate lets through when they carry no
\* Message-Authenticator, are stopped by the role filter.  While the built-in
\* responder is on, no probe gets past it.
HandlerSeesItsRole ==
    outcome = "handled" =>
        /\ packet.code \in ServerCodes
        /\ packet.code = "STATUS_SERVER" => policy = "Disabled"
        /\ role # "Any" /\ packet.code # "STATUS_SERVER" =>
              packet.code = IF role = "Auth" THEN "ACCESS_REQUEST" ELSE "ACCOUNTING_REQUEST"

\* While the built-in responder is on, a probe is answered, with the code of its
\* listener's role, exactly when it is sound, its client may probe and the
\* callback does not veto it; a sound one never ends a session.  With the
\* responder off no reply is made of it.
ProbesAnswered ==
    (stage = "end" /\ packet.header = "ok" /\ packet.code = "STATUS_SERVER") =>
        /\ packet.ma # "valid" => outcome = IF transport = "udp" THEN "dropped" ELSE "torn_down"
        /\ packet.ma = "valid" /\ policy # "Disabled" =>
              outcome = IF client.status_server_enabled /\ policy # "CustomDrop"
                        THEN IF role = "Acct" THEN "ACCOUNTING_RESPONSE" ELSE "ACCESS_ACCEPT"
                        ELSE "ignored"
        /\ packet.ma = "valid" /\ policy = "Disabled" => outcome \in {"ignored", "handled"}

=============================================================================
