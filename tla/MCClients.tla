------------------------------ MODULE MCClients ------------------------------
(* Instances for TLC of the RADIUS/UDP client, with three calls, and of    *)
(* the RADIUS/TLS client, with two calls and two closers.  A behaviour is  *)
(* of one of them; the other stays in its initial state.                   *)
EXTENDS UdpClient

CONSTANTS c1, c2, c3, k1, k2, p1, Parts

VARIABLES part,  \* the client that this behaviour is of
          tls_pc, tls_packet, expired, tls_mailbox, closer, queue, driver, current,
          written, tls_reg, dropped

Radsec == INSTANCE RadsecClient WITH
    Server <- p1, Code <- "ACCESS_REQUEST", Calls <- {c1, c2}, Closers <- {k1, k2},
    pc <- tls_pc, packet <- tls_packet, mailbox <- tls_mailbox, reg <- tls_reg
ASSUME Radsec!RadsecClientAssumption

radsecVars == <<tls_pc, tls_packet, expired, tls_mailbox, closer, queue, driver, current,
                written, tls_reg, dropped>>
allVars == <<part, vars, radsecVars>>
-----------------------------------------------------------------------------
MCInit == part \in Parts /\ Init /\ Radsec!Init

NotUdp == UNCHANGED <<part, vars>>
NotRadsec == UNCHANGED <<part, radsecVars>>
UdpNext == part = "udp" /\ Next /\ NotRadsec
RadsecNext == part = "radsec" /\ Radsec!Next /\ NotUdp
MCNext == UdpNext \/ RadsecNext

\* With the fairness of each client: futures are polled, timers fire, and the
\* select of the connection driver draws among the branches that are ready.
MCSpec ==
    /\ MCInit /\ [][MCNext]_allVars
    /\ \A c \in Calls : WF_allVars(part = "udp" /\ CallStep(c) /\ NotRadsec)
    /\ \A c \in {c1, c2} : WF_allVars(part = "radsec" /\ Radsec!CallStep(c) /\ NotUdp)
    /\ \A k \in {k1, k2} : WF_allVars(part = "radsec" /\ Radsec!CloserStep(k) /\ NotUdp)
    /\ SF_allVars(part = "radsec" /\ Radsec!TakeCommand /\ NotUdp)
    /\ WF_allVars(part = "radsec" /\ Radsec!DriverStep /\ NotUdp)
-----------------------------------------------------------------------------
\* Every call of the RADIUS/UDP client ends, with an answer or an error; every
\* identifier of the RADIUS/TLS client comes back, also that of a call that gave
\* up while its packet was queued; and close returns without the help of its
\* time-out.  (Calls are interchangeable, and so are closers: one of them stands
\* for all.)
ClientsEnd ==
    /\ CallEnds(c1)
    /\ Radsec!LeaseReturns(c1)
    /\ Radsec!CloseReturnsInTime(k1)
=============================================================================
