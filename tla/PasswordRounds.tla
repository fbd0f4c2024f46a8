---------------------------- MODULE PasswordRounds ---------------------------
(***************************************************************************)
(* Conversations of the password methods over a network that delivers any  *)
(* response ever computed, to any conversation, any number of times.       *)
(* Responses are computed by whoever knows a password, right or wrong,     *)
(* from a challenge they have seen.                                        *)
(***************************************************************************)
EXTENDS PasswordMethods, FiniteSets

CONSTANTS Convs,      \* conversations
          Users,      \* names
          Passwords,  \* passwords somebody may try
          MaxDrawn    \* bound on challenges, and on responses computed

RoundsAssumption ==
    /\ DOMAIN Secrets \subseteq Users
    /\ \A u \in DOMAIN Secrets : Secrets[u] \in Passwords
    /\ None \notin Nat

VARIABLES conv,      \* the conversations
          drawn,     \* number of random challenges drawn
          computed   \* history: the responses computed so far

vars == <<conv, drawn, computed>>

Unused == [kind |-> "unused", m |-> None, id |-> 0, out |-> "none", sent |-> {}]

Init ==
    /\ conv = [c \in Convs |-> Unused]
    /\ drawn = 0
    /\ computed = {}

\* EapHandler: identifiers of requests count up, and the method learns them.
Sent(c, r, id) ==
    conv' = [conv EXCEPT ![c] =
        [kind |-> conv[c].kind,
         m |-> IF conv[c].kind = "inner" THEN r.m ELSE NotifyRequestId(r.m, id),
         id |-> id,
         out |-> IF r.out.k = "continue" THEN "running" ELSE r.out.k,
         sent |-> conv[c].sent \cup (IF r.out.k = "continue" THEN {r.out.msg.op} ELSE {})]]

\* A conversation starts with one of the methods.
Open(c, kind, name) ==
    /\ conv[c].kind = "unused"
    /\ IF kind = "inner"
       THEN /\ conv' = [conv EXCEPT ![c] = [Unused EXCEPT !.kind = kind, !.out = "running",
                                                         !.m = InnerStart(NewInner).m]]
            /\ UNCHANGED drawn
       ELSE /\ drawn < MaxDrawn
            /\ LET r == NativeStart(NotifyPeerIdentity(NewNative(kind), name), drawn + 1)
               IN conv' = [conv EXCEPT ![c] = [kind |-> kind, m |-> NotifyRequestId(r.m, 1), id |-> 1,
                                              out |-> "running", sent |-> {OpChallenge}]]
            /\ drawn' = drawn + 1
    /\ UNCHANGED computed

\* Somebody computes a response to the request that conversation c has sent.
Compute(c, name, secret) ==
    /\ OpChallenge \in conv[c].sent /\ Cardinality(computed) < MaxDrawn
    /\ computed' = computed \cup
        {IF conv[c].kind = "MD5"
         THEN [kind |-> "MD5", body |-> Md5Response(conv[c].id, secret, conv[c].m.chal)]
         ELSE [kind |-> "MSCHAPv2",
               body |-> [peer |-> 0, nt |-> NtResponse(conv[c].m.chal, 0, name, secret)]]}
    /\ UNCHANGED <<conv, drawn>>

\* What may arrive at a conversation of a kind.
Bodies(kind) == {Garbled} \cup
    {d.body : d \in {d \in computed : d.kind = (IF kind = "MD5" THEN "MD5" ELSE "MSCHAPv2")}}
Packets(kind) ==
    [code : {"Response"}, typ : {"MSCHAPv2"}, op : {None, OpSuccess, OpFailure}, body : {None}]
    \cup [code : {"Response"}, typ : {"MSCHAPv2"}, op : {OpResponse}, body : Bodies(kind)]

\* A response to the native methods.
Deliver(c, pkt) ==
    /\ conv[c].kind \in {"MD5", "MSCHAPv2"} /\ conv[c].out = "running"
    /\ conv[c].kind = "MD5" => pkt.op = OpResponse
    /\ Sent(c, IF conv[c].kind = "MD5" THEN Md5Step(conv[c].m, pkt) ELSE NativeStep(conv[c].m, pkt),
            NextId(conv[c].id))
    /\ UNCHANGED <<drawn, computed>>

\* A response to the inner method, which an Identity may be.
DeliverInner(c, pkt) ==
    /\ conv[c].kind = "inner" /\ conv[c].out = "running" /\ drawn < MaxDrawn
    /\ LET r == InnerStep(conv[c].m, pkt, drawn + 1)
       IN /\ Sent(c, r, NextId(conv[c].id))
          /\ drawn' = IF r.m.chal # conv[c].m.chal THEN drawn + 1 ELSE drawn
    /\ UNCHANGED computed

Next == \E c \in Convs :
    \/ \E kind \in {"MD5", "MSCHAPv2", "inner"}, name \in Users \cup {None} : Open(c, kind, name)
    \/ \E name \in Users, secret \in Passwords : Compute(c, name, secret)
    \/ \E pkt \in Packets(conv[c].kind) : Deliver(c, pkt)
    \/ \E pkt \in Packets("inner") \cup
            {[code |-> "Response", typ |-> "Identity", op |-> None, body |-> u] : u \in Users} :
        DeliverInner(c, pkt)
    \/ DeliverInner(c, Garbled)

Spec == Init /\ [][Next]_vars

-----------------------------------------------------------------------------
(* Properties. *)

\* The identity that AcceptDecorator is given (authenticated_identity).
Exposed(c) == IF conv[c].kind = "inner" THEN conv[c].m.authed ELSE conv[c].m.user

\* A conversation succeeds only if its own last challenge was answered with
\* the secret of the very user whose identity it then exposes: a response
\* recorded elsewhere, for another user, challenge or request identifier does
\* not count, whatever was delivered in between (step of all three methods).
AcceptsFreshProof ==
    \A c \in Convs : conv[c].out = "success" =>
        /\ Exposed(c) \in DOMAIN Secrets
        /\ \E d \in computed :
            IF conv[c].kind = "MD5"
            THEN d.kind = "MD5" /\ d.body = Md5Response(1, Secrets[Exposed(c)], conv[c].m.chal)
            ELSE d.kind = "MSCHAPv2" /\ d.body.nt.user = Exposed(c)
                 /\ d.body.nt.chal = conv[c].m.chal /\ d.body.nt.secret = Secrets[Exposed(c)]

\* What MSCHAPv2 told the peer binds it: Success needs that the Success
\* message went out, and after a Failure message no acknowledgement, of
\* whatever kind, leads to success (AwaitingSuccessAck, AwaitingFailureAck).
AnnouncedFirst ==
    \A c \in Convs : conv[c].kind \in {"MSCHAPv2", "inner"} /\ conv[c].out = "success" =>
        OpSuccess \in conv[c].sent /\ OpFailure \notin conv[c].sent

\* One challenge for one verdict: challenges are never shared, and a
\* conversation that was answered wrongly gets no second try under the same
\* or another challenge (start, step).
OneTry ==
    \A c, d \in Convs :
        /\ c # d /\ OpChallenge \in conv[c].sent \cap conv[d].sent => conv[c].m.chal # conv[d].m.chal
        /\ ~({OpSuccess, OpFailure} \subseteq conv[c].sent)
=============================================================================
