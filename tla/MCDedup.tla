------------------------------- MODULE MCDedup -------------------------------
(* Instances of Dedup for TLC: two tasks for two requests in one shard,    *)
(* and three tasks for one request.  A behaviour is of one of them; the    *)
(* other stays in its initial state.                                       *)
EXTENDS Dedup

CONSTANTS t1, t2, t3, k1, k2, g1, g2, g3, r1, r2, Parts

VARIABLES part,  \* the instance that this behaviour is of
          pc3, key3, gate3, reply3, in_flight3, holder3, entries3, expirations3, now3

\* All keys in one shard, where eviction for one key touches the others.
OneShard == [k \in Keys |-> 1]

\* Three duplicates of one request.
Queue == INSTANCE Dedup WITH
    Tasks <- {t1, t2, t3}, Keys <- {k1}, Gates <- {g1, g2, g3}, Replies <- {r1},
    ShardOf <- [k \in {k1} |-> 1],
    pc <- pc3, key <- key3, gate <- gate3, reply <- reply3, in_flight <- in_flight3,
    holder <- holder3, entries <- entries3, expirations <- expirations3, now <- now3
ASSUME Queue!DedupAssumption

queueVars == <<pc3, key3, gate3, reply3, in_flight3, holder3, entries3, expirations3, now3>>
allVars == <<part, vars, queueVars>>
-----------------------------------------------------------------------------
MCInit == part \in Parts /\ Init /\ Queue!Init

PairNext == part = "pair" /\ Next /\ UNCHANGED <<part, queueVars>>
Others == UNCHANGED <<part, vars>>
QueueNext == part = "queue" /\ Queue!Next /\ Others
MCNext == PairNext \/ QueueNext

\* With the fairness of Dedup: tasks are polled, handlers return, and the
\* queue of a gate is fair.
MCSpec ==
    /\ MCInit /\ [][MCNext]_allVars
    /\ \A t \in {t1, t2, t3} : /\ WF_allVars(part = "queue" /\ Queue!TaskStep(t) /\ Others)
                               /\ SF_allVars(part = "queue" /\ Queue!Acquire(t) /\ Others)
-----------------------------------------------------------------------------
\* Every duplicate of a request is eventually answered, replayed or dropped,
\* whichever of the others holds the gate, waits or is cancelled.
QueueEnds == Queue!EveryPacketEnds
=============================================================================
