------------------------------ MODULE MCServer -------------------------------
(* Small instances for TLC of the running server, and of the TLS stream of *)
(* one RadSec connection below it. A behaviour is one of the two, as the   *)
(* initial part says; the other one stays in an initial state.             *)
EXTENDS Server

CONSTANTS u1, r1, j1, j2, c1, a1, Hello, Notify, Rekey, Parts

VARIABLES part,
          role, plan, peer, sockIn, sockOut, peerGot, rbio, wbio, established, flushed, eof,
          frame, age, pc, then, out, writes, delivered, result, produced, quiet

\* A UDP and a RadSec listener; RadSec only.
Mixed == <<u1, r1>>
RadsecOnly == <<r1>>

\* Frames of 3 and 4 octets, two of which are their head, followed by another
\* and by a part of one; one that is too short and one that is too long; key
\* updates within a frame and after it.
Short == <<1, 2>>
Plans == {<<1, 3, 7, 2, 3, 8>>, <<1, 4, 8, 9, 2>>, <<1, 3, Rekey, 7, Rekey>>, Short, <<1, 5>>}
Stream == INSTANCE TlsStream WITH
    FrameHead <- 2, MinFrame <- 3, MaxFrame <- 4, Idle <- 1,
    Message <- <<21, 22>>, MaxWrites <- 2, Room <- 2
ASSUME Stream!StreamAssumption

streamVars == <<role, plan, peer, sockIn, sockOut, peerGot, rbio, wbio, established, flushed, eof,
                frame, age, pc, then, out, writes, delivered, result, produced, quiet>>
allVars == <<part, vars, streamVars>>
ServerOnly == UNCHANGED <<part, streamVars>>
StreamOnly == UNCHANGED <<part, vars>>

MCInit ==
    /\ part \in Parts
    /\ Init /\ Stream!Init
    /\ part = "server" => role = "server" /\ plan = Short

MCNext == \/ part = "server" /\ Next /\ ServerOnly
          \/ part = "stream" /\ Stream!Next /\ StreamOnly

MCSpec == MCInit /\ [][MCNext]_allVars

\* The fairness of the two parts, each in its own behaviours.
Serving(A) == part = "server" /\ A /\ ServerOnly
Streaming(A) == part = "stream" /\ A /\ StreamOnly
MCFairSpec ==
    /\ MCSpec
    /\ WF_allVars(Serving(Bind \/ BindFails)) /\ WF_allVars(Serving(Return))
    /\ \A l \in Listeners : /\ WF_allVars(Serving(Join(l))) /\ WF_allVars(Serving(Aborted(l)))
                            /\ WF_allVars(Serving(ListenerStep(l)))
    /\ \A j \in Jobs : WF_allVars(Serving(JobEnds(j)))
    /\ \A c \in Conns : WF_allVars(Serving(ConnStep(c)))
    /\ WF_allVars(Streaming(Stream!Driver)) /\ WF_allVars(Streaming(Stream!Tick))

\* However often reads are dropped for writes and flushes in their middle: no
\* octet of either direction is lost, repeated or moved, every frame has the
\* length that it says it has, the socket is waited for only when nothing is
\* left that could be read, the stream ends as closed only between two frames,
\* and idle time is the time since the last octet (transport/tls.rs).
StreamIntact == Stream!StreamIntact

\* What the peer has sent, down to its last octet, is taken out of the socket and
\* of the TLS connection by the driver of a client, or the connection ends.
Served == Stream!Served
=============================================================================
