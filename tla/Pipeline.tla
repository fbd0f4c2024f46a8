------------------------------ MODULE Pipeline -------------------------------
(***************************************************************************)
(* The decisions the server takes about one packet, as operators:          *)
(* validation (server/pipeline.rs), the role filter (server/role.rs) and   *)
(* the built-in Status-Server responder (server/status.rs).                *)
(*                                                                         *)
(* A packet is what these decisions can tell apart: whether its header     *)
(* parses, its code, whether the digest over the zeroed packet verifies,   *)
(* what became of its Message-Authenticator, and whether it carries an     *)
(* EAP-Message (attribute 79).                                             *)
(***************************************************************************)

ServerCodes == {"ACCESS_REQUEST", "ACCOUNTING_REQUEST", "STATUS_SERVER",
                "COA_REQUEST", "DISCONNECT_REQUEST"}
\* Any other code byte, such as one of a reply.
PacketCodes == ServerCodes \cup {"other"}

AllPackets ==
    [header : {"ok", "malformed"}, code : PacketCodes, digest : BOOLEAN,
     ma : {"valid", "absent", "invalid"}, eap : BOOLEAN]

AllClients == [require_message_authenticator : BOOLEAN, status_server_enabled : BOOLEAN]

Roles == {"Auth", "Acct", "Any"}

\* StatusServerPolicy; a custom responder sends or vetoes.
Policies == {"Disabled", "Enabled", "CustomSend", "CustomDrop"}

\* The codes whose authenticator is a digest of the packet.
DigestCodes == {"ACCOUNTING_REQUEST", "COA_REQUEST", "DISCONNECT_REQUEST"}

VerifyRequestAuthenticator(packet) == packet.code \in DigestCodes => packet.digest

\* Whether a packet without Message-Authenticator must be refused.
StrictRequiredIgnoresEap(packet, client) ==
    \/ packet.code = "STATUS_SERVER"
    \/ packet.code = "ACCESS_REQUEST" /\ client.require_message_authenticator

StrictRequired(packet, client) ==
    \/ packet.code = "STATUS_SERVER"
    \/ /\ packet.code = "ACCESS_REQUEST"
       /\ client.require_message_authenticator \/ packet.eap

\* The verdict of validate.
Validate(packet, client) ==
    IF packet.header = "malformed" THEN "MalformedHeader"
    ELSE IF ~VerifyRequestAuthenticator(packet) THEN "BadRequestAuthenticator"
    ELSE IF packet.ma = "invalid" THEN "BadMessageAuthenticator"
    ELSE IF packet.ma = "absent" /\ StrictRequired(packet, client)
         THEN "MissingMessageAuthenticator"
    ELSE "Ok"

\* ListenerRole::accepts
Accepts(role, code) ==
    \/ code = "STATUS_SERVER"
    \/ role = "Auth" /\ code = "ACCESS_REQUEST"
    \/ role = "Acct" /\ code = "ACCOUNTING_REQUEST"
    \/ role = "Any" /\ code \in ServerCodes

\* ListenerRole::status_reply_code
StatusReplyCode(role) == IF role = "Acct" THEN "ACCOUNTING_RESPONSE" ELSE "ACCESS_ACCEPT"

\* build_status_reply yields a reply, unless the policy or its responder vetoes.
BuildsStatusReply(policy) == policy \notin {"Disabled", "CustomDrop"}

\* What dispatch_validated does with a packet that no cached reply answers.
Dispatched(packet, client, policy) ==
    IF packet.code # "STATUS_SERVER" THEN "Handler"
    ELSE IF ~client.status_server_enabled THEN "StatusServerDisabledPerClient"
    ELSE IF ~BuildsStatusReply(policy) THEN "StatusServerDisabled"
    ELSE "StatusServerReply"
=============================================================================
